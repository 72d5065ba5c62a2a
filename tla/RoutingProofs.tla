--------------------------- MODULE RoutingProofs ---------------------------
(***************************************************************************)
(* Theorems about Routing: its types, originals kept, foreign state kept,  *)
(* and that no half-built layout goes live.                                *)
(***************************************************************************)
EXTENDS Routing, FiniteSetTheorems, TLAPS

-----------------------------------------------------------------------------
(* Ranks, tables and rules. *)

LEMMA RankType ==
  ASSUME NEW r \in Radios, NEW S \in SUBSET Radios, NEW M \in SUBSET S
  PROVE  Rank(r, S) \in Nat /\ Rank(r, M) \in Nat /\ Rank(r, M) <= Rank(r, S)
<1> DEFINE below(Q) == {q \in Q : q < r}
<1>1. IsFiniteSet(below(S)) /\ IsFiniteSet(below(M))
  <2>1. below(S) \in SUBSET Radios /\ below(M) \in SUBSET Radios
    OBVIOUS
  <2> QED  BY <2>1, FS_Subset, RadiosAssumption
<1>2. below(M) \in SUBSET below(S)
  OBVIOUS
<1>3. /\ Cardinality(below(M)) \in Nat /\ Cardinality(below(S)) \in Nat
      /\ Cardinality(below(M)) <= Cardinality(below(S))
  BY <1>1, <1>2, FS_Subset, FS_CardinalityType
<1> QED  BY <1>3 DEF Rank

LEMMA NumbersType ==
  /\ Radios \subseteq Nat
  /\ MaxRadios \in 1..16
  /\ RadioTables \subseteq Nat /\ Tables \subseteq Nat
  /\ EcmpTable \in Tables /\ RadioTables \subseteq Tables
  /\ VpnTable \notin Tables /\ VpnTable # MainTable
BY RadiosAssumption, LimitAssumption
   DEF RadioTables, Tables, EcmpTable, VpnTable, MainTable

\* discover_members numbers its radios with the tables wifimimo owns.
LEMMA MembersType ==
  ASSUME NEW M \in {Routable, {}}
  PROVE  /\ M \in SUBSET Radios
         /\ \A r \in M : Rank(r, M) \in Nat /\ TableOf(r, M) \in RadioTables
<1>1. Routable \in SUBSET Up /\ Up \in SUBSET Radios
  BY DEF Routable, Up
<1>2. ASSUME NEW r \in Routable
      PROVE  Rank(r, Routable) \in Nat /\ Rank(r, Routable) < MaxRadios
  <2>1. Rank(r, Up) < MaxRadios
    BY DEF Routable
  <2>2. /\ Rank(r, Up) \in Nat /\ Rank(r, Routable) \in Nat
        /\ Rank(r, Routable) <= Rank(r, Up)
    BY <1>1, RankType
  <2> QED  BY <2>1, <2>2, NumbersType
<1>3. ASSUME NEW r \in Routable
      PROVE  TableOf(r, Routable) \in RadioTables
  BY <1>2, NumbersType DEF TableOf, RadioTable, RadioTables
<1> QED  BY <1>1, <1>2, <1>3

LEMMA DesiredRulesType ==
  ASSUME TypeOK, NEW M \in {Routable, {}}
  PROVE  /\ DesiredRules(M) \in SUBSET Rule
         /\ \A d \in DesiredRules(M) : d.owner = "wifimimo" /\ d.table # VpnTable
<1>1. \A r \in M : addr[r] \in Leases /\ r \in Radios
  BY MembersType DEF TypeOK
<1>2. ASSUME NEW r \in M
      PROVE  /\ PrioRadio(Rank(r, M)) \in Nat
             /\ <<r, addr[r]>> \in Sources
             /\ TableOf(r, M) \in Nat /\ TableOf(r, M) # VpnTable
  <2>1. Rank(r, M) \in Nat /\ TableOf(r, M) \in RadioTables
    BY MembersType
  <2>2. PrioRadio(Rank(r, M)) \in Nat
    BY <2>1 DEF PrioRadio
  <2>3. <<r, addr[r]>> \in Sources
    BY <1>1 DEF Sources
  <2> QED  BY <2>1, <2>2, <2>3, NumbersType
<1> QED
  BY <1>2, NumbersType
     DEF DesiredRules, Rule, Sources, PrioSuppressMain, PrioEcmp, MainTable, VpnTable, EcmpTable

-----------------------------------------------------------------------------
(* Plans. *)

LEMMA StepType ==
  /\ RuleStep \subseteq Step /\ RouteStep \subseteq Step /\ FlushStep \subseteq Step
  /\ SysctlStep \subseteq Step /\ RestoreStep \subseteq Step
BY DEF Step

LEMMA DelRulesType ==
  ASSUME NEW place \in Nat, NEW S \in SUBSET Rule
  PROVE  DelRules(place, S) \subseteq Step
<1>1. DelRules(place, S) \subseteq RuleStep
  BY DEF DelRules, RuleStep
<1> QED  BY <1>1, StepType

LEMMA DelEcmpType ==
  ASSUME NEW place \in Nat, NEW T
  PROVE  DelEcmp(place, T) \subseteq Step
<1>1. DelEcmp(place, T) \subseteq RouteStep
  BY NumbersType DEF DelEcmp, RouteStep
<1> QED  BY <1>1, StepType

\* What multipath_apply plans from a snapshot, and what it tears down, are steps.
LEMMA TeardownType ==
  ASSUME NEW R \in SUBSET Rule, NEW T \in [Tables -> Route]
  PROVE  PlanTeardown(R, T) \subseteq Step
<1>1. DelEcmp(0, T) \subseteq Step
  BY DelEcmpType
<1>2. DelRules(1, {r \in OwnedRules(R) : RuleIsOurs(r)}) \subseteq Step
  BY DelRulesType DEF OwnedRules
<1>3. {[at |-> 2, op |-> "flush", table |-> t, whole |-> t \in AdoptedTables(R)] :
         t \in {u \in InUse(T) \ {EcmpTable} : RouteIsOurs(u, R, T)}} \subseteq FlushStep
  <2>1. ASSUME NEW t \in InUse(T)
        PROVE  [at |-> 2, op |-> "flush", table |-> t, whole |-> t \in AdoptedTables(R)] \in FlushStep
    <3> DEFINE adopted == t \in AdoptedTables(R)
    <3>1. adopted \in BOOLEAN /\ t \in Tables
      BY DEF InUse
    <3> HIDE DEF adopted
    <3>2. [at |-> 2, op |-> "flush", table |-> t, whole |-> adopted] \in FlushStep
      BY <3>1 DEF FlushStep
    <3> QED  BY <3>2 DEF adopted
  <2> QED  BY <2>1
<1>4. {[at |-> 3, op |-> "restore"]} \subseteq RestoreStep
  BY DEF RestoreStep
<1> QED  BY <1>1, <1>2, <1>3, <1>4, StepType DEF PlanTeardown

LEMMA ApplyType ==
  ASSUME TypeOK, NEW M \in {Routable, {}}, NEW H \in SUBSET Radios,
         NEW R \in SUBSET Rule, NEW T \in [Tables -> Route]
  PROVE  PlanApply(M, H, R, T) \subseteq Step
<1>1. AdoptSteps(R) \subseteq Step
  BY DelRulesType DEF AdoptSteps, OwnedRules
<1>2. TableSteps(M) \subseteq RouteStep
  <2>1. ASSUME NEW r \in M
        PROVE  TableOf(r, M) \in Nat /\ TableOf(r, M) \in Tables /\ {r} \in SUBSET Devs
    BY MembersType, NumbersType DEF Devs
  <2> QED  BY <2>1 DEF TableSteps, RouteStep
<1>3. RuleSteps(M, R) \subseteq RuleStep
  <2>1. ASSUME NEW d \in DesiredRules(M)
        PROVE  [at |-> d.prio, op |-> "addrule", rule |-> d] \in RuleStep
    <3>1. d \in Rule
      BY DesiredRulesType
    <3>2. d.prio \in Nat
      BY <3>1 DEF Rule
    <3> QED  BY <3>1, <3>2 DEF RuleStep
  <2> QED  BY <2>1 DEF RuleSteps
<1>4. SysctlSteps(M) \subseteq SysctlStep
  BY MembersType DEF SysctlSteps, SysctlStep
<1>5. SwapSteps(H, T) \subseteq Step
  <2>1. CASE H = {}
    BY <2>1, DelEcmpType DEF SwapSteps
  <2>2. CASE H # {}
    <3>1. H \in SUBSET Devs
      BY DEF Devs
    <3>2. SwapSteps(H, T) \subseteq RouteStep
      BY <2>2, <3>1, NumbersType DEF SwapSteps, RouteStep
    <3> QED  BY <3>2, StepType
  <2> QED  BY <2>1, <2>2
<1>6. StaleRuleSteps(M, R) \subseteq Step
  BY DelRulesType DEF StaleRuleSteps, Existing, OwnedRules
<1>7. StaleRouteSteps(M, R, T) \subseteq RouteStep
  BY DEF StaleRouteSteps, RouteStep, InUse, Route
<1> QED  BY <1>1, <1>2, <1>3, <1>4, <1>5, <1>6, <1>7, StepType DEF PlanApply

LEMMA BuildType ==
  ASSUME TypeOK, NEW M \in {Routable, {}},
         NEW R \in SUBSET Rule, NEW T \in [Tables -> Route]
  PROVE  PlanBuild(M, R, T) \subseteq Step /\ MembersBuilt(M) \in SUBSET Radios
<1>1. M \in SUBSET Radios
  BY MembersType
<1>2. PlanTeardown(R, T) \subseteq Step
  BY TeardownType
<1>3. PlanApply(M, M \intersect Healthy, R, T) \subseteq Step
  BY <1>1, ApplyType
<1>4. PlanBuild(M, R, T) \subseteq Step
  BY <1>2, <1>3 DEF PlanBuild
<1> QED  BY <1>1, <1>4 DEF MembersBuilt

LEMMA SnapshotType ==
  ASSUME TypeOK, NEW s \in Snapshots
  PROVE  /\ s.rules \in SUBSET rules /\ s.rules \in SUBSET Rule
         /\ s.tables \in [Tables -> Route] /\ s.tables \in {tables, Unread}
         /\ s.members \in {Routable, {}}
         /\ Seen(s) \in [rules : SUBSET Rule, tables : SUBSET Tables]
<1>1. /\ s.rules \in {rules, {}} /\ s.tables \in {tables, Unread}
      /\ s.members \in {Routable, {}}
  BY DEF Snapshots
<1>2. Unread \in [Tables -> Route]
  BY DEF Unread, Route, NoRoute
<1>3. rules \in SUBSET Rule /\ tables \in [Tables -> Route]
  BY DEF TypeOK
<1>4. ForeignRules(s.rules) \in SUBSET Rule
  BY <1>1, <1>3 DEF ForeignRules, OwnedRules
<1>5. ForeignTables(s.rules, s.tables) \in SUBSET Tables
  BY DEF ForeignTables, InUse
<1> QED  BY <1>1, <1>2, <1>3, <1>4, <1>5 DEF Seen

-----------------------------------------------------------------------------
(* Types. *)

LEMMA ExecuteType ==
  ASSUME TypeOK, NEW plan \in SUBSET Step, NEW attempt \in Attempts,
         NEW members \in SUBSET Radios, NEW target \in SUBSET Radios,
         NEW seen \in [rules : SUBSET Rule, tables : SUBSET Tables],
         Execute(plan, attempt, members, target, seen)
  PROVE  run' \in Run
<1> DEFINE swap == \E s \in plan : IsSwap(s)
<1>1. swap \in BOOLEAN
  OBVIOUS
<1>2. run \in Run /\ saved \in Records /\ "exec" \in Phases
  BY DEF TypeOK, Phases
<1>3. run' = [run EXCEPT !.phase = "exec", !.attempt = attempt, !.plan = plan,
                     !.hasSwap = swap, !.swapped = FALSE,
                     !.failed = FALSE, !.nodev = FALSE, !.known = saved,
                     !.members = members, !.target = target, !.seen = seen,
                     !.moved = FALSE]
  BY DEF Execute
<1> HIDE DEF swap
<1> QED  BY <1>1, <1>2, <1>3 DEF Run

LEMMA NoRecordType == NoRecord \in Records
BY DEF NoRecord, Records

LEMMA IdleRunType == IdleRun \in Run
BY NoRecordType DEF IdleRun, Run, Verbs, Phases, Attempts, NothingSeen

LEMMA InitType == Init => TypeOK
<1> SUFFICES ASSUME Init PROVE TypeOK
  OBVIOUS
<1>1. rules \in SUBSET Rule
  <2>1. ASSUME NEW r \in Radios, TableOf(r, Radios) \in RadioTables
        PROVE  [prio |-> 5300 + Rank(r, Radios), src |-> <<r, addr[r]>>,
                table |-> TableOf(r, Radios), owner |-> "untagged"] \in Rule
    <3>1. Rank(r, Radios) \in Nat
      BY RankType
    <3>2. <<r, addr[r]>> \in Sources
      BY DEF Init, Sources
    <3>3. 5300 + Rank(r, Radios) \in Nat /\ TableOf(r, Radios) \in Nat
      <4>1. 5300 + Rank(r, Radios) \in Nat
        BY <3>1
      <4>2. TableOf(r, Radios) \in Nat
        BY <2>1 DEF RadioTables
      <4> QED  BY <4>1, <4>2
    <3> QED  BY <3>2, <3>3 DEF Rule
  <2> QED  BY <2>1 DEF Init, LegacyRules
<1>2. tables \in [Tables -> Route]
  <2>1. NoRoute \in Route
    BY DEF NoRoute, Route
  <2>2. ASSUME NEW t \in Tables, \E r \in Radios : TableOf(r, Radios) = t
        PROVE  [devs |-> {CHOOSE r \in Radios : TableOf(r, Radios) = t},
                owner |-> "untagged"] \in Route
    <3>1. (CHOOSE r \in Radios : TableOf(r, Radios) = t) \in Radios
      BY <2>2
    <3> QED  BY <3>1 DEF Route, Devs
  <2> QED  BY <2>1, <2>2 DEF Init, LegacyTables
<1>3. left \in 0..MaxTrouble
  BY TroubleAssumption DEF Init
<1>4. sysctl \in [Radios -> Values] /\ saved \in Records
  BY NoRecordType DEF Init, Values
<1> QED  BY <1>1, <1>2, <1>3, <1>4, IdleRunType DEF Init, TypeOK, Status

LEMMA PlanningType ==
  ASSUME TypeOK, Plan \/ Replan \/ HandBack
  PROVE  run' \in Run
<1>1. run \in Run
  BY DEF TypeOK
<1>2. ASSUME NEW s \in Snapshots, NEW attempt \in Attempts,
             NEW seen \in [rules : SUBSET Rule, tables : SUBSET Tables], Build(s, attempt, seen)
      PROVE  run' \in Run
  <2> DEFINE target == IF Cardinality(s.members) < 2 THEN {} ELSE s.members
  <2>1. s.rules \in SUBSET Rule /\ s.tables \in [Tables -> Route] /\ s.members \in {Routable, {}}
    BY SnapshotType
  <2>2. /\ PlanBuild(s.members, s.rules, s.tables) \in SUBSET Step
        /\ MembersBuilt(s.members) \in SUBSET Radios
    BY <2>1, BuildType
  <2>3. target \in SUBSET Radios
    BY <2>1, MembersType
  <2>4. Execute(PlanBuild(s.members, s.rules, s.tables), attempt, MembersBuilt(s.members),
                target, seen)
    BY <1>2 DEF Build
  <2> HIDE DEF target
  <2> QED  BY <2>2, <2>3, <2>4, ExecuteType
<1>3. ASSUME NEW s \in Snapshots, NEW attempt \in Attempts, TearDown(s, attempt)
      PROVE  run' \in Run
  <2>1. /\ PlanTeardown(s.rules, s.tables) \in SUBSET Step
        /\ Seen(s) \in [rules : SUBSET Rule, tables : SUBSET Tables]
    BY SnapshotType, TeardownType
  <2>2. Execute(PlanTeardown(s.rules, s.tables), attempt, {}, {}, Seen(s))
    BY <1>3 DEF TearDown
  <2> QED  BY <2>1, <2>2, ExecuteType
<1>4. CASE Plan
  <2>1. PICK s \in Snapshots :
          \/ Refuse \/ Build(s, "first", Seen(s)) \/ TearDown(s, "first")
    BY <1>4 DEF Plan
  <2>2. CASE Refuse
    BY <2>2, <1>1, IdleRunType DEF Refuse, Run, Phases
  <2> QED  BY <2>1, <2>2, <1>2, <1>3, SnapshotType DEF Attempts
<1>5. CASE Replan
  <2>1. PICK s \in Snapshots : Build(s, "second", run.seen)
    BY <1>5 DEF Replan
  <2> QED  BY <2>1, <1>1, <1>2 DEF Attempts, Run
<1>6. CASE HandBack
  <2>1. PICK s \in Snapshots : TearDown(s, "handback")
    BY <1>6 DEF HandBack
  <2> QED  BY <2>1, <1>3 DEF Attempts
<1> QED  BY <1>4, <1>5, <1>6

LEMMA RanType ==
  ASSUME run \in Run, NEW s \in Step, NEW result, Ran(s, result)
  PROVE  run' \in Run
<1> DEFINE swapped == run.swapped \/ IsSwap(s)
           failed  == run.failed \/ result # "ok"
           nodev   == run.nodev \/ result = "nodev"
<1>1. swapped \in BOOLEAN /\ failed \in BOOLEAN /\ nodev \in BOOLEAN
  OBVIOUS
<1>2. run' = [run EXCEPT !.plan = run.plan \ {s}, !.swapped = swapped,
                         !.failed = failed, !.nodev = nodev]
  BY DEF Ran, Run
<1>3. run.plan \ {s} \in SUBSET Step
  BY DEF Run
<1> HIDE DEF swapped, failed, nodev
<1> QED  BY <1>1, <1>2, <1>3 DEF Run

LEMMA TablesType ==
  ASSUME TypeOK, NEW t \in Tables, NEW route \in Route,
         tables' = [tables EXCEPT ![t] = route]
  PROVE  tables' \in [Tables -> Route]
BY DEF TypeOK

LEMMA CommandType ==
  ASSUME TypeOK, NEW s \in run.plan,
         \/ AddRule(s)   \/ DelRule(s) \/ ReplaceRoute(s) \/ DelRoute(s)
         \/ FlushTable(s) \/ WriteSysctl(s) \/ RestoreSysctls(s)
  PROVE  TypeOK'
<1>1. run \in Run /\ s \in Step
  BY DEF TypeOK, Run
<1>2. rules \in SUBSET Rule /\ tables \in [Tables -> Route] /\ NoRoute \in Route
  BY DEF TypeOK, NoRoute, Route
<1>3. left' \in 0..MaxTrouble \/ left' = left
      => left' \in 0..MaxTrouble
  BY DEF TypeOK
<1>4. \A result : May(result) => left' \in 0..MaxTrouble
  BY TroubleAssumption DEF May, Peace, Trouble, TypeOK
<1>5. \A devs, result : MayReplace(devs, result) => left' \in 0..MaxTrouble
  BY <1>4 DEF MayReplace, Peace, TypeOK
<1>6. CASE AddRule(s)
  <2>1. s \in RuleStep
    BY <1>1, <1>6 DEF AddRule, Step, RuleStep, RouteStep, FlushStep, SysctlStep, RestoreStep
  <2>2. s.rule \in Rule
    BY <2>1 DEF RuleStep
  <2>3. rules' \in SUBSET Rule
    BY <1>2, <1>6, <2>2 DEF AddRule
  <2>4. run' \in Run /\ left' \in 0..MaxTrouble
    BY <1>1, <1>4, <1>6, RanType DEF AddRule, Peace, TypeOK
  <2> QED  BY <1>6, <2>3, <2>4 DEF AddRule, TypeOK
<1>7. CASE DelRule(s)
  <2>1. rules' \in SUBSET Rule
    BY <1>2, <1>7 DEF DelRule
  <2>2. run' \in Run /\ left' \in 0..MaxTrouble
    BY <1>1, <1>4, <1>7, RanType DEF DelRule
  <2> QED  BY <1>7, <2>1, <2>2 DEF DelRule, TypeOK
<1>8. CASE ReplaceRoute(s)
  <2>1. s \in RouteStep
    BY <1>1, <1>8 DEF ReplaceRoute, Step, RuleStep, RouteStep, FlushStep, SysctlStep, RestoreStep
  <2>2. s.table \in Tables /\ [devs |-> s.devs, owner |-> "wifimimo"] \in Route
    BY <2>1 DEF RouteStep, Route
  <2>3. tables' \in [Tables -> Route]
    BY <1>2, <1>8, <2>2, TablesType DEF ReplaceRoute
  <2>4. run' \in Run /\ left' \in 0..MaxTrouble
    BY <1>1, <1>5, <1>8, RanType DEF ReplaceRoute
  <2> QED  BY <1>8, <2>3, <2>4 DEF ReplaceRoute, TypeOK
<1>9. CASE DelRoute(s)
  <2>1. s \in RouteStep
    BY <1>1, <1>9 DEF DelRoute, Step, RuleStep, RouteStep, FlushStep, SysctlStep, RestoreStep
  <2>2. s.table \in Tables
    BY <2>1 DEF RouteStep
  <2>3. tables' \in [Tables -> Route]
    BY <1>2, <1>9, <2>2, TablesType DEF DelRoute
  <2>4. run' \in Run /\ left' \in 0..MaxTrouble
    BY <1>1, <1>4, <1>9, RanType DEF DelRoute
  <2> QED  BY <1>9, <2>3, <2>4 DEF DelRoute, TypeOK
<1>10. CASE FlushTable(s)
  <2>1. s \in FlushStep
    BY <1>1, <1>10 DEF FlushTable, Step, RuleStep, RouteStep, FlushStep, SysctlStep, RestoreStep
  <2>2. s.table \in Tables
    BY <2>1 DEF FlushStep
  <2>3. tables' \in [Tables -> Route]
    BY <1>2, <1>10, <2>2, TablesType DEF FlushTable
  <2>4. run' \in Run /\ left' \in 0..MaxTrouble
    BY <1>1, <1>4, <1>10, RanType DEF FlushTable
  <2> QED  BY <1>10, <2>3, <2>4 DEF FlushTable, TypeOK
<1>11. CASE WriteSysctl(s)
  <2>1. s \in SysctlStep
    BY <1>1, <1>11 DEF WriteSysctl, Step, RuleStep, RouteStep, FlushStep, SysctlStep, RestoreStep
  <2>2. s.radio \in Radios
    BY <2>1 DEF SysctlStep
  <2>3. PICK result \in {"ok", "fail"} :
          /\ Peace \/ May(result)
          /\ run' = [run EXCEPT !.plan = @ \ {s},
                               !.known[s.radio] = IF @ = "unsaved" THEN sysctl[s.radio] ELSE @,
                               !.failed = @ \/ result # "ok"]
          /\ sysctl' = IF result = "ok" THEN [sysctl EXCEPT ![s.radio] = "ours"] ELSE sysctl
          /\ lost' \subseteq lost \union {s.radio}
    BY <1>11 DEF WriteSysctl
  <2>4. run' \in Run
    <3> DEFINE failed == run.failed \/ result # "ok"
               known == [run.known EXCEPT ![s.radio] =
                           IF run.known[s.radio] = "unsaved" THEN sysctl[s.radio]
                                                             ELSE run.known[s.radio]]
    <3>1. failed \in BOOLEAN
      OBVIOUS
    <3>2. known \in Records
      BY <1>1, <2>2 DEF Run, Records, TypeOK
    <3>3. run' = [run EXCEPT !.plan = run.plan \ {s}, !.known = known, !.failed = failed]
      BY <1>1, <2>3 DEF Run
    <3> HIDE DEF failed, known
    <3> QED  BY <1>1, <3>1, <3>2, <3>3 DEF Run
  <2>5. sysctl' \in [Radios -> Values] /\ lost' \subseteq Radios
    BY <2>2, <2>3 DEF TypeOK, Values
  <2>6. left' \in 0..MaxTrouble
    BY <1>4, <2>3 DEF Peace, TypeOK
  <2> QED  BY <1>11, <2>4, <2>5, <2>6 DEF WriteSysctl, TypeOK
<1>12. CASE RestoreSysctls(s)
  <2>1. run' = [run EXCEPT !.plan = run.plan \ {s}, !.known = NoRecord]
    BY <1>1, <1>12 DEF RestoreSysctls, Run
  <2>2. run' \in Run
    BY <1>1, <2>1, NoRecordType DEF Run
  <2>3. PICK failing \in SUBSET Restorable :
          /\ Peace \/ Trouble
          /\ sysctl' = [r \in Radios |->
                          IF r \in Restorable \ failing THEN run.known[r] ELSE sysctl[r]]
          /\ lost' = lost \union {r \in failing : sysctl[r] = "ours"}
    BY <1>12 DEF RestoreSysctls
  <2>4. \A r \in Restorable : r \in Radios /\ run.known[r] \in Values
    BY <1>1 DEF Restorable, Run, Records
  <2>5. sysctl' \in [Radios -> Values] /\ lost' \subseteq Radios
    BY <2>3, <2>4 DEF TypeOK
  <2>6. left' \in 0..MaxTrouble
    BY <2>3, TroubleAssumption DEF Peace, Trouble, TypeOK
  <2> QED  BY <1>12, <2>2, <2>5, <2>6, NoRecordType DEF RestoreSysctls, TypeOK
<1> QED  BY <1>6, <1>7, <1>8, <1>9, <1>10, <1>11, <1>12

LEMMA EnvironmentType ==
  ASSUME TypeOK, Environment
  PROVE  TypeOK'
<1>1. left' \in 0..MaxTrouble
  BY TroubleAssumption
     DEF Environment, RadioLeaves, RadioUnplugged, RadioJoins, HealthChanges, VpnTakesTable, VpnLeavesTable,
         VpnTogglesRule, Settle, Moves, Trouble, TypeOK
<1>2. ASSUME Moves PROVE run' \in Run
  BY <1>2 DEF Moves, TypeOK, Run
<1>3. NoRoute \in Route
  BY DEF NoRoute, Route
<1>4. ASSUME NEW r \in Radios, RadioUnplugged(r)
      PROVE  TypeOK'
  <2>1. /\ link' \in [Radios -> {"gone", "routable", "healthy"}]
        /\ sysctl' \in [Radios -> Values] /\ lost' \subseteq Radios
    BY <1>4 DEF RadioUnplugged, TypeOK, Values
  <2>2. tables' \in [Tables -> Route]
    <3>1. ASSUME NEW t \in Tables
          PROVE  [tables[t] EXCEPT !.devs = tables[t].devs \ {r}] \in Route
      BY DEF TypeOK, Route
    <3>2. tables' = [t \in Tables |->
                       IF tables[t].devs \subseteq {r} THEN NoRoute
                       ELSE [tables[t] EXCEPT !.devs = tables[t].devs \ {r}]]
      BY <1>4 DEF RadioUnplugged
    <3> QED  BY <1>3, <3>1, <3>2
  <2> QED  BY <1>1, <1>2, <1>4, <2>1, <2>2 DEF RadioUnplugged, TypeOK
<1>5. ASSUME NEW r \in Radios, RadioLeaves(r) \/ RadioJoins(r)
      PROVE  TypeOK'
  <2>1. /\ link' \in [Radios -> {"gone", "routable", "healthy"}]
        /\ addr' \in [Radios -> Leases]
        /\ sysctl' \in [Radios -> Values]
    BY <1>5 DEF RadioLeaves, RadioJoins, TypeOK, kernel, Values
  <2> QED  BY <1>1, <1>2, <1>5, <2>1 DEF RadioLeaves, RadioJoins, TypeOK, kernel
<1>6. ASSUME NEW r \in Radios, HealthChanges(r)
      PROVE  TypeOK'
  <2>1. link' \in [Radios -> {"gone", "routable", "healthy"}]
    BY <1>6 DEF HealthChanges, TypeOK
  <2> QED  BY <1>1, <1>2, <1>6, <2>1 DEF HealthChanges, TypeOK, kernel
<1>7. ASSUME NEW t \in Tables, VpnTakesTable(t) \/ VpnLeavesTable(t)
      PROVE  TypeOK'
  <2>1. [devs |-> {Tun}, owner |-> "vpn"] \in Route
    BY DEF Route, Devs
  <2>2. tables' \in [Tables -> Route]
    BY <1>3, <1>7, <2>1, TablesType DEF VpnTakesTable, VpnLeavesTable
  <2> QED  BY <1>1, <1>2, <1>7, <2>2 DEF VpnTakesTable, VpnLeavesTable, TypeOK
<1>8. ASSUME NEW p \in Nat, VpnTogglesRule(p)
      PROVE  TypeOK'
  <2>1. VpnRule(p) \in Rule
    BY DEF VpnRule, Rule, Sources, VpnTable
  <2>2. rules' \in SUBSET Rule
    BY <1>8, <2>1 DEF VpnTogglesRule, TypeOK
  <2> QED  BY <1>1, <1>2, <1>8, <2>2 DEF VpnTogglesRule, TypeOK
<1>9. CASE Settle
  BY <1>1, <1>9 DEF Settle, TypeOK, kernel
<1>10. VpnTables \subseteq Tables /\ VpnPrios \subseteq Nat
  BY VpnAssumption, NumbersType DEF Tables, RadioTables, EcmpTable
<1> QED
  BY <1>4, <1>5, <1>6, <1>7, <1>8, <1>9, <1>10 DEF Environment

(* Spec keeps its types: in particular a plan never numbers a rule or a    *)
(* table beyond the ones wifimimo owns (discover_members, MAX_RADIOS).     *)
THEOREM Typed == Spec => []TypeOK
<1>1. Init => TypeOK
  BY InitType
<1>2. TypeOK /\ [Next]_vars => TypeOK'
  <2> SUFFICES ASSUME TypeOK, [Next]_vars PROVE TypeOK'
    OBVIOUS
  <2>1. ASSUME NEW v \in Verbs, Begin(v) PROVE TypeOK'
    <3>1. run' \in Run
      <4>1. IdleRun \in Run /\ "plan" \in Phases
        BY IdleRunType DEF Phases
      <4> QED  BY <2>1, <4>1 DEF Begin, Run
    <3>2. left' \in 0..MaxTrouble
      BY <2>1, TroubleAssumption DEF Begin, Peace, Trouble, TypeOK
    <3> QED  BY <2>1, <3>1, <3>2 DEF Begin, TypeOK, kernel
  <2>2. CASE Plan \/ Replan \/ HandBack
    <3>1. run' \in Run
      BY <2>2, PlanningType
    <3>2. left' \in 0..MaxTrouble
      BY <2>2, TroubleAssumption DEF Plan, Replan, HandBack, Reads, Peace, Trouble, TypeOK
    <3> QED  BY <2>2, <3>1, <3>2 DEF Plan, Replan, HandBack, TypeOK, kernel
  <2>3. CASE ExecuteStep
    BY <2>3, CommandType DEF ExecuteStep
  <2>4. CASE EndExecute
    <3>1. run' \in Run
      BY <2>4, IdleRunType DEF EndExecute, TypeOK, Run, Phases
    <3>2. saved' \in Records
      BY <2>4 DEF EndExecute, TypeOK, Run
    <3>3. status' \in Status
      <4> DEFINE active == run.members # {} /\ ~run.failed
      <4>1. active \in BOOLEAN /\ run.members \in SUBSET Radios /\ status \in Status
        BY DEF TypeOK, Run
      <4>2. status' = status \/ status' = [members |-> run.members, active |-> active]
        BY <2>4 DEF EndExecute
      <4> HIDE DEF active
      <4> QED  BY <4>1, <4>2 DEF Status
    <3> QED  BY <2>4, <3>1, <3>2, <3>3 DEF EndExecute, TypeOK, kernel, world
  <2>5. CASE Killed
    BY <2>5, IdleRunType, TroubleAssumption DEF Killed, TypeOK, kernel, Trouble
  <2>6. CASE Environment
    BY <2>6, EnvironmentType
  <2>7. CASE UNCHANGED vars
    BY <2>7 DEF vars, TypeOK
  <2> QED  BY <2>1, <2>2, <2>3, <2>4, <2>5, <2>6, <2>7 DEF Next, Helper
<1> QED  BY <1>1, <1>2, PTL DEF Spec

-----------------------------------------------------------------------------
(* Originals of sysctls. *)

\* A write the plan has yet to make, to a sysctl that is not wifimimo's.
IsWrite(s) ==
  /\ s = [at |-> 33000, op |-> "sysctl", radio |-> s.radio]
  /\ s.radio \in Radios /\ sysctl[s.radio] # "ours"

(* The invariant beside OriginalsKept: no record holds wifimimo's own      *)
(* value, for a plan writes each sysctl once, and only those that were not *)
(* wifimimo's when it was made.                                            *)
RecordsInv ==
  /\ \A r \in Radios : saved[r] # "ours"
  /\ run.phase = "exec" =>
       /\ \A r \in Radios : run.known[r] # "ours"
       /\ \A s \in run.plan : s.op = "sysctl" => IsWrite(s)

\* Where the code looks for the originals.
Record == IF run.phase = "exec" THEN run.known ELSE saved

LEMMA PlannedWrites ==
  ASSUME NEW M \in {Routable, {}}, NEW R, NEW T
  PROVE  /\ \A s \in PlanBuild(M, R, T) : s.op = "sysctl" => IsWrite(s)
         /\ \A s \in PlanTeardown(R, T) : s.op # "sysctl"
<1>1. \A s \in PlanTeardown(R, T) : s.op # "sysctl"
  BY DEF PlanTeardown, DelEcmp, DelRules
<1>2. ASSUME NEW s \in PlanApply(M, M \intersect Healthy, R, T), s.op = "sysctl"
      PROVE  IsWrite(s)
  <2>1. s \in SysctlSteps(M)
    BY <1>2 DEF PlanApply, AdoptSteps, TableSteps, RuleSteps, SwapSteps, DelEcmp,
                StaleRuleSteps, StaleRouteSteps, DelRules
  <2> QED  BY <2>1, MembersType DEF SysctlSteps, IsWrite
<1> QED  BY <1>1, <1>2 DEF PlanBuild

\* A step that leaves the sysctls and the records alone.
LEMMA SameRecords ==
  ASSUME OriginalsKept, RecordsInv, UNCHANGED <<sysctl, lost>>, Record' = Record,
         \A r \in Radios : saved'[r] # "ours",
         run'.phase = "exec" => \A s \in run'.plan : s.op = "sysctl" => IsWrite(s)
  PROVE  OriginalsKept' /\ RecordsInv'
<1>1. OriginalsKept'
  BY DEF OriginalsKept, Record
<1>2. \A r \in Radios : Record'[r] # "ours"
  BY DEF RecordsInv, Record
<1> QED  BY <1>1, <1>2 DEF RecordsInv, Record, IsWrite

LEMMA OriginalsStep ==
  ASSUME ~Kills, TypeOK, OriginalsKept, RecordsInv, [Next]_vars
  PROVE  OriginalsKept' /\ RecordsInv'
<1>1. run \in Run /\ sysctl \in [Radios -> Values] /\ lost \subseteq Radios
  BY DEF TypeOK
<1>2. ASSUME NEW plan, NEW attempt, NEW members, NEW target, NEW seen,
             Execute(plan, attempt, members, target, seen), run.phase # "exec",
             UNCHANGED <<sysctl, lost, saved>>, \A s \in plan : s.op = "sysctl" => IsWrite(s)
      PROVE  OriginalsKept' /\ RecordsInv'
  <2>1. run'.phase = "exec" /\ run'.known = saved /\ run'.plan = plan
    BY <1>1, <1>2 DEF Execute, Run
  <2> QED  BY <1>2, <2>1, SameRecords DEF Record, RecordsInv
<1>3. ASSUME run.phase # "exec", run'.phase # "exec", UNCHANGED <<sysctl, lost, saved>>
      PROVE  OriginalsKept' /\ RecordsInv'
  BY <1>3, SameRecords DEF Record, RecordsInv
<1>4. ASSUME NEW v \in Verbs, Begin(v) PROVE OriginalsKept' /\ RecordsInv'
  BY <1>3, <1>4 DEF Begin, kernel, IdleRun
<1>5. ASSUME NEW s \in Snapshots, NEW attempt, NEW seen,
             Build(s, attempt, seen) \/ TearDown(s, attempt),
             run.phase # "exec", UNCHANGED <<sysctl, lost, saved>>
      PROVE  OriginalsKept' /\ RecordsInv'
  <2>1. s.members \in {Routable, {}}
    BY SnapshotType
  <2>2. CASE Build(s, attempt, seen)
    BY <1>2, <1>5, <2>1, <2>2, PlannedWrites DEF Build
  <2>3. CASE TearDown(s, attempt)
    <3>1. \A q \in PlanTeardown(s.rules, s.tables) : q.op # "sysctl"
      BY <2>1, PlannedWrites
    <3> QED  BY <1>2, <1>5, <2>3, <3>1 DEF TearDown
  <2> QED  BY <1>5, <2>2, <2>3
<1>6. CASE Plan
  <2>1. PICK s \in Snapshots : Refuse \/ Build(s, "first", Seen(s)) \/ TearDown(s, "first")
    BY <1>6 DEF Plan
  <2>2. run.phase # "exec" /\ UNCHANGED <<sysctl, lost, saved>>
    BY <1>6 DEF Plan, kernel
  <2>3. CASE Refuse
    <3>1. run'.phase # "exec"
      BY <1>1, <2>3 DEF Refuse, IdleRun, Run
    <3> QED  BY <1>3, <2>2, <3>1
  <2> QED  BY <1>5, <2>1, <2>2, <2>3
<1>7. CASE Replan
  BY <1>5, <1>7 DEF Replan, kernel
<1>8. CASE HandBack
  BY <1>5, <1>8 DEF HandBack, kernel
<1>9. ASSUME NEW s \in run.plan, NEW result, Ran(s, result), UNCHANGED <<sysctl, lost, saved>>
      PROVE  OriginalsKept' /\ RecordsInv'
  <2>1. run'.phase = run.phase /\ run'.known = run.known /\ run'.plan \subseteq run.plan
    BY <1>1, <1>9 DEF Ran, Run
  <2> QED  BY <1>9, <2>1, SameRecords DEF Record, RecordsInv
<1>10. ASSUME NEW s \in run.plan,
              AddRule(s) \/ DelRule(s) \/ ReplaceRoute(s) \/ DelRoute(s) \/ FlushTable(s)
       PROVE  OriginalsKept' /\ RecordsInv'
  BY <1>9, <1>10 DEF AddRule, DelRule, ReplaceRoute, DelRoute, FlushTable
<1>11. ASSUME NEW s \in run.plan, WriteSysctl(s) PROVE OriginalsKept' /\ RecordsInv'
  <2> DEFINE q == s.radio
             known == [run.known EXCEPT ![q] = IF run.known[q] = "unsaved" THEN sysctl[q]
                                                                            ELSE run.known[q]]
  <2>1. run.phase = "exec" /\ IsWrite(s) /\ q \in Radios /\ sysctl[q] # "ours"
    BY <1>11 DEF WriteSysctl, Due, RecordsInv, IsWrite
  <2>2. /\ run'.phase = "exec" /\ run'.known = known /\ run'.plan = run.plan \ {s}
        /\ saved' = saved
    BY <1>1, <1>11, <2>1 DEF WriteSysctl, Due, Run
  <2>3. PICK result \in {"ok", "fail"} :
          /\ sysctl[q] = "none" => result = "fail"
          /\ sysctl' = IF result = "ok" THEN [sysctl EXCEPT ![q] = "ours"] ELSE sysctl
          /\ lost' = IF result = "ok" /\ run.known[q] = "none" THEN lost \union {q} ELSE lost
    BY <1>11 DEF WriteSysctl
  <2>4. \A r \in Radios : known[r] = IF r = q /\ run.known[q] = "unsaved" THEN sysctl[q]
                                                                          ELSE run.known[r]
    BY <1>1, <2>1 DEF Run, Records
  <2>5. \A r \in Radios : run.known[r] \in {"unsaved", "none", "system"}
    BY <1>1, <2>1 DEF Run, Records, Values, RecordsInv
  <2>6. \A r \in Radios : known[r] # "ours"
    BY <2>1, <2>4, <2>5
  <2> HIDE DEF known
  <2>7. ASSUME NEW r \in Radios \ lost', sysctl'[r] = "ours" PROVE known[r] = "system"
    <3>1. CASE r = q
      <4>1. result = "ok" /\ run.known[q] # "none" /\ sysctl[q] = "system"
        BY <1>1, <2>1, <2>3, <2>7, <3>1 DEF Values
      <4> QED  BY <2>1, <2>4, <2>5, <3>1, <4>1
    <3>2. CASE r # q
      <4>1. sysctl[r] = "ours" /\ r \notin lost
        BY <1>1, <2>1, <2>3, <2>7, <3>2
      <4> QED  BY <2>1, <2>4, <3>2, <4>1 DEF OriginalsKept
    <3> QED  BY <3>1, <3>2
  <2>8. ASSUME NEW p \in run'.plan, p.op = "sysctl" PROVE IsWrite(p)'
    <3>1. IsWrite(p) /\ p # s
      BY <2>1, <2>2, <2>8 DEF RecordsInv
    <3>2. p.radio # q /\ p.radio \in Radios
      BY <2>1, <3>1 DEF IsWrite
    <3>3. sysctl'[p.radio] = sysctl[p.radio]
      BY <1>1, <2>3, <3>2
    <3> QED  BY <3>1, <3>3 DEF IsWrite
  <2>9. OriginalsKept'
    BY <2>2, <2>7 DEF OriginalsKept
  <2> QED  BY <2>2, <2>6, <2>8, <2>9 DEF RecordsInv
<1>12. ASSUME NEW s \in run.plan, RestoreSysctls(s) PROVE OriginalsKept' /\ RecordsInv'
  <2>1. /\ run.phase = "exec" /\ run'.phase = "exec" /\ run'.known = NoRecord
        /\ run'.plan \subseteq run.plan /\ saved' = NoRecord
    BY <1>1, <1>12 DEF RestoreSysctls, Due, Run
  <2>2. PICK failing \in SUBSET Restorable :
          /\ sysctl' = [r \in Radios |->
                          IF r \in Restorable \ failing THEN run.known[r] ELSE sysctl[r]]
          /\ lost' = lost \union {r \in failing : sysctl[r] = "ours"}
    BY <1>12 DEF RestoreSysctls
  <2>3. ASSUME NEW r \in Radios, sysctl'[r] = "ours" PROVE sysctl[r] = "ours" /\ r \in lost'
    <3>1. run.known[r] # "ours"
      BY <2>1 DEF RecordsInv
    <3>2. r \notin Restorable \ failing /\ sysctl[r] = "ours"
      BY <2>2, <2>3, <3>1
    <3>3. r \notin lost => r \in Restorable
      BY <2>1, <3>2 DEF OriginalsKept, Restorable
    <3> QED  BY <2>2, <3>2, <3>3
  <2>4. \A r \in Radios : NoRecord[r] # "ours"
    BY DEF NoRecord
  <2>5. \A p \in run'.plan : p.op = "sysctl" => IsWrite(p)'
    BY <2>1, <2>3 DEF RecordsInv, IsWrite
  <2>6. OriginalsKept'
    BY <2>3 DEF OriginalsKept
  <2> QED  BY <2>1, <2>4, <2>5, <2>6 DEF RecordsInv
<1>13. CASE EndExecute
  <2>1. run'.phase # "exec" /\ run.phase = "exec" /\ saved' = run.known
    BY <1>1, <1>13 DEF EndExecute, IdleRun, Run
  <2>2. UNCHANGED <<sysctl, lost>>
    BY <1>13 DEF EndExecute, kernel
  <2> QED  BY <2>1, <2>2, SameRecords DEF Record, RecordsInv
<1>14. CASE Environment
  <2>1. Moves => run'.phase = run.phase /\ run'.known = run.known /\ run'.plan = run.plan
    BY <1>1 DEF Moves, Run
  <2>2. /\ run'.phase = run.phase /\ run'.known = run.known /\ run'.plan = run.plan
        /\ saved' = saved
    BY <1>14, <2>1 DEF Environment, RadioLeaves, RadioUnplugged, RadioJoins, HealthChanges,
                       VpnTakesTable, VpnLeavesTable, VpnTogglesRule, Settle
  <2>3. ASSUME NEW r \in Radios, sysctl'[r] = "ours"
        PROVE  sysctl[r] = "ours" /\ (r \in lost => r \in lost')
    <3>1. \A q \in Radios : RadioUnplugged(q) => r # q /\ sysctl'[r] = sysctl[r] /\ lost' = lost \ {q}
      BY <1>1, <2>3 DEF RadioUnplugged
    <3>2. \A q \in Radios : RadioJoins(q) => sysctl'[r] \in {"system", sysctl[r]} /\ lost' = lost
      BY <1>1, <2>3 DEF RadioJoins
    <3>3. UNCHANGED <<sysctl, lost>> \/ \E q \in Radios : RadioUnplugged(q) \/ RadioJoins(q)
      BY <1>14 DEF Environment, RadioLeaves, HealthChanges, VpnTakesTable, VpnLeavesTable,
                   VpnTogglesRule, Settle, kernel
    <3> QED  BY <2>3, <3>1, <3>2, <3>3
  <2>4. OriginalsKept'
    BY <2>2, <2>3 DEF OriginalsKept
  <2> QED  BY <2>2, <2>3, <2>4 DEF RecordsInv, IsWrite
<1>15. CASE UNCHANGED vars
  BY <1>15, SameRecords DEF vars, Record, RecordsInv
<1>16. ~Killed
  BY DEF Killed
<1> QED
  BY <1>4, <1>6, <1>7, <1>8, <1>10, <1>11, <1>12, <1>13, <1>14, <1>15, <1>16
     DEF Next, Helper, ExecuteStep

(* When no run is killed, the original of every sysctl that wifimimo has   *)
(* changed is on disk, or in the memory of the run that changed it, unless *)
(* it was first looked at while its radio was unplugged or could not be    *)
(* written back (execute, _saved_sysctls).                                 *)
THEOREM OriginalsAreKept ==
  ASSUME ~Kills
  PROVE  Spec => []OriginalsKept
<1>1. Init => OriginalsKept /\ RecordsInv
  BY DEF Init, OriginalsKept, RecordsInv, NoRecord, IdleRun
<1>2. TypeOK /\ OriginalsKept /\ RecordsInv /\ [Next]_vars => OriginalsKept' /\ RecordsInv'
  BY OriginalsStep
<1> QED  BY <1>1, <1>2, Typed, PTL DEF Spec

-----------------------------------------------------------------------------
(* Foreign rules and routes. *)

\* A step spares the foreign state seen in a snapshot, and adds none that looks foreign.
Spares(s, seen) ==
  /\ s.op = "addrule" => s.rule.owner = "wifimimo" /\ s.rule.table # VpnTable
  /\ s.op = "delrule" => seen.rules = {} \/ s.rule.table # VpnTable
  /\ s.op \in {"replace", "del", "flush"} => s.table \notin seen.tables

(* The inductive invariant: rules of a VPN are known by their table, what  *)
(* a run saw as foreign is a VPN's or untouched by its plan, and a run     *)
(* that may plan a second time without looking for conflicts saw none.     *)
ForeignInv ==
  /\ \A r \in rules : r.owner = "vpn" <=> r.table = VpnTable
  /\ \A r \in run.seen.rules : r.table = VpnTable
  /\ \A s \in run.plan : Spares(s, run.seen)
  /\ run.phase = "exec" /\ run.attempt = "first" /\ flag => run.seen = NothingSeen
  /\ run.phase = "replan" => run.seen = NothingSeen

LEMMA ForeignInit == Init => ForeignInv
<1> SUFFICES ASSUME Init PROVE ForeignInv
  OBVIOUS
<1>1. \A r \in rules : r.owner = "untagged" /\ r.table \in RadioTables
  BY DEF Init, LegacyRules
<1>2. \A r \in rules : r.owner # "vpn" /\ r.table # VpnTable
  BY <1>1, NumbersType
<1>3. run.seen = NothingSeen /\ run.plan = {}
  BY DEF Init, IdleRun
<1> QED  BY <1>2, <1>3 DEF ForeignInv, NothingSeen

\* A build sees nothing foreign, so that it need only add rules of its own.
LEMMA BuildSpares ==
  ASSUME TypeOK, NEW M \in {Routable, {}}, NEW R \in SUBSET Rule, NEW T \in [Tables -> Route]
  PROVE  \A s \in PlanBuild(M, R, T) : Spares(s, NothingSeen)
<1>1. ASSUME NEW s \in PlanTeardown(R, T) PROVE s.op # "addrule"
  BY DEF PlanTeardown, DelEcmp, DelRules
<1>2. ASSUME NEW s \in PlanApply(M, M \intersect Healthy, R, T), s.op = "addrule"
      PROVE  s.rule \in DesiredRules(M)
  <2>1. s \in RuleSteps(M, R)
    BY <1>2 DEF PlanApply, AdoptSteps, TableSteps, SysctlSteps, SwapSteps, DelEcmp,
                StaleRuleSteps, StaleRouteSteps, DelRules
  <2> QED  BY <2>1 DEF RuleSteps
<1> QED  BY <1>1, <1>2, DesiredRulesType DEF PlanBuild, Spares, NothingSeen

\* A teardown deletes its own rules, and touches the tables of its own routes.
LEMMA TeardownSpares ==
  ASSUME TypeOK, NEW s \in Snapshots, \A r \in rules : r.owner = "vpn" <=> r.table = VpnTable
  PROVE  /\ \A q \in PlanTeardown(s.rules, s.tables) : Spares(q, Seen(s))
         /\ \A r \in Seen(s).rules : r.table = VpnTable
<1> DEFINE R == s.rules
           T == s.tables
<1>1. R \in SUBSET rules /\ R \in SUBSET Rule
  BY SnapshotType
<1>2. Seen(s).rules = ForeignRules(R) /\ Seen(s).tables = ForeignTables(R, T)
  BY DEF Seen
<1>3. ASSUME NEW r \in R
      PROVE  RuleIsOurs(r) <=> r.table # VpnTable
  <2>1. r.owner \in {"wifimimo", "untagged", "vpn"}
    BY <1>1 DEF Rule
  <2>2. IsLegacy(r) => r.table # VpnTable
    BY NumbersType DEF IsLegacy
  <2> QED  BY <1>1, <2>1, <2>2 DEF RuleIsOurs
<1>4. \A r \in Seen(s).rules : r.table = VpnTable
  BY <1>2, <1>3 DEF ForeignRules, OwnedRules
<1>5. ASSUME NEW q \in PlanTeardown(R, T)
      PROVE  Spares(q, Seen(s))
  <2>1. CASE q \in DelEcmp(0, T)
    BY <2>1, <1>2 DEF DelEcmp, Spares, ForeignTables, RouteIsOurs
  <2>2. CASE q \in DelRules(1, {r \in OwnedRules(R) : RuleIsOurs(r)})
    BY <2>2, <1>3 DEF DelRules, OwnedRules, Spares
  <2>3. CASE q \in {[at |-> 2, op |-> "flush", table |-> t, whole |-> t \in AdoptedTables(R)] :
                      t \in {u \in InUse(T) \ {EcmpTable} : RouteIsOurs(u, R, T)}}
    <3>1. q.op = "flush" /\ RouteIsOurs(q.table, R, T)
      BY <2>3
    <3> QED  BY <3>1, <1>2 DEF Spares, ForeignTables
  <2>4. CASE q \in {[at |-> 3, op |-> "restore"]}
    BY <2>4 DEF Spares
  <2> QED  BY <2>1, <2>2, <2>3, <2>4 DEF PlanTeardown
<1> QED  BY <1>4, <1>5

\* What a planning step leaves behind, whatever it plans.
LEMMA ExecuteSpares ==
  ASSUME TypeOK, ForeignInv, NEW plan, NEW attempt, NEW members, NEW target, NEW seen,
         Execute(plan, attempt, members, target, seen), UNCHANGED <<rules, flag>>,
         \A s \in plan : Spares(s, seen),
         \A r \in seen.rules : r.table = VpnTable,
         attempt = "first" /\ flag => seen = NothingSeen
  PROVE  ForeignInv'
<1>1. /\ run'.plan = plan /\ run'.seen = seen /\ run'.attempt = attempt
      /\ run'.phase = "exec"
  BY DEF Execute, TypeOK, Run
<1> QED  BY <1>1 DEF ForeignInv

\* Steps that change neither the plan nor what was seen, nor let a build go on.
LEMMA SameRunSpares ==
  ASSUME ForeignInv, run'.plan \in SUBSET run.plan, run'.seen = run.seen,
         \A r \in rules' : r.owner = "vpn" <=> r.table = VpnTable,
         /\ run'.phase = "exec" /\ run'.attempt = "first" /\ flag'
              => run.phase = "exec" /\ run.attempt = "first" /\ flag
         /\ run'.phase = "replan"
              => run.phase = "replan" \/ (run.phase = "exec" /\ run.attempt = "first" /\ flag)
  PROVE  ForeignInv'
BY DEF ForeignInv

LEMMA IdleSpares ==
  ASSUME ForeignInv, rules' = rules, run'.plan = {}, run'.seen = NothingSeen
  PROVE  ForeignInv'
BY DEF ForeignInv, NothingSeen

LEMMA PlanningSpares ==
  ASSUME TypeOK, ForeignInv, Plan \/ Replan \/ HandBack
  PROVE  ForeignInv'
<1>1. run \in Run /\ UNCHANGED <<rules, flag>>
  BY DEF TypeOK, Plan, Replan, HandBack, kernel
<1>2. ASSUME NEW s \in Snapshots, NEW attempt, NEW seen, Build(s, attempt, seen),
             seen = NothingSeen
      PROVE  ForeignInv'
  <2>1. s.rules \in SUBSET Rule /\ s.tables \in [Tables -> Route] /\ s.members \in {Routable, {}}
    BY SnapshotType
  <2>2. \A q \in PlanBuild(s.members, s.rules, s.tables) : Spares(q, seen)
    BY <1>2, <2>1, BuildSpares
  <2>3. seen.rules = {}
    BY <1>2 DEF NothingSeen
  <2> QED  BY <1>1, <1>2, <2>2, <2>3, ExecuteSpares DEF Build
<1>3. ASSUME NEW s \in Snapshots, NEW attempt, TearDown(s, attempt), attempt = "first" => ~flag
      PROVE  ForeignInv'
  <2>1. /\ \A q \in PlanTeardown(s.rules, s.tables) : Spares(q, Seen(s))
        /\ \A r \in Seen(s).rules : r.table = VpnTable
    BY TeardownSpares DEF ForeignInv
  <2> QED  BY <1>1, <1>3, <2>1, ExecuteSpares DEF TearDown
<1>4. CASE Plan
  <2>1. PICK s \in Snapshots :
          \/ Refuse
          \/ ~ForeignConflicts(s.rules, s.tables, flag) /\ flag /\ Build(s, "first", Seen(s))
          \/ ~flag /\ TearDown(s, "first")
    BY <1>4 DEF Plan
  <2>2. CASE Refuse
    <3>1. run' = IdleRun \/ run' = [run EXCEPT !.phase = "handback"]
      BY <2>2 DEF Refuse
    <3>2. CASE run' = IdleRun
      BY <1>1, <3>2, IdleSpares DEF IdleRun
    <3>3. CASE run' = [run EXCEPT !.phase = "handback"]
      <4>1. run'.phase = "handback" /\ run'.plan = run.plan /\ run'.seen = run.seen
        BY <1>1, <3>3 DEF Run
      <4> QED  BY <1>1, <4>1, SameRunSpares DEF ForeignInv
    <3> QED  BY <3>1, <3>2, <3>3
  <2>3. CASE ~ForeignConflicts(s.rules, s.tables, flag) /\ flag /\ Build(s, "first", Seen(s))
    <3>1. Seen(s) = NothingSeen
      BY <2>3 DEF ForeignConflicts, Seen, NothingSeen
    <3> QED  BY <1>2, <2>3, <3>1
  <2>4. CASE ~flag /\ TearDown(s, "first")
    BY <1>3, <2>4
  <2> QED  BY <2>1, <2>2, <2>3, <2>4
<1>5. CASE Replan
  <2>1. PICK s \in Snapshots : Build(s, "second", run.seen)
    BY <1>5 DEF Replan
  <2>2. run.seen = NothingSeen
    BY <1>5 DEF Replan, ForeignInv
  <2> QED  BY <1>2, <2>1, <2>2
<1>6. CASE HandBack
  <2>1. PICK s \in Snapshots : TearDown(s, "handback")
    BY <1>6 DEF HandBack
  <2> QED  BY <1>3, <2>1
<1> QED  BY <1>4, <1>5, <1>6

LEMMA CommandSpares ==
  ASSUME TypeOK, ForeignInv, NEW s \in run.plan,
         \/ AddRule(s)   \/ DelRule(s) \/ ReplaceRoute(s) \/ DelRoute(s)
         \/ FlushTable(s) \/ WriteSysctl(s) \/ RestoreSysctls(s)
  PROVE  /\ ForeignInv'
         /\ run.seen.rules \intersect rules \subseteq rules'
         /\ \A t \in run.seen.tables : tables'[t] = tables[t]
<1>1. run \in Run /\ tables \in [Tables -> Route] /\ run.seen.tables \in SUBSET Tables
  BY DEF TypeOK, Run
<1>2. /\ run'.plan \in SUBSET run.plan /\ run'.seen = run.seen
      /\ run'.phase = run.phase /\ run'.attempt = run.attempt /\ flag' = flag
  <2>1. flag' = flag
    BY DEF AddRule, DelRule, ReplaceRoute, DelRoute, FlushTable, WriteSysctl, RestoreSysctls
  <2>2. ASSUME NEW result, Ran(s, result)
        PROVE  /\ run'.plan \in SUBSET run.plan /\ run'.seen = run.seen
               /\ run'.phase = run.phase /\ run'.attempt = run.attempt
    BY <1>1, <2>2 DEF Ran, Run
  <2>3. CASE AddRule(s) \/ DelRule(s) \/ ReplaceRoute(s) \/ DelRoute(s) \/ FlushTable(s)
    BY <2>1, <2>2, <2>3 DEF AddRule, DelRule, ReplaceRoute, DelRoute, FlushTable
  <2>4. CASE WriteSysctl(s)
    BY <1>1, <2>1, <2>4 DEF WriteSysctl, Run
  <2>5. CASE RestoreSysctls(s)
    BY <1>1, <2>1, <2>5 DEF RestoreSysctls, Run
  <2> QED  BY <2>3, <2>4, <2>5
<1>3. Spares(s, run.seen)
  BY DEF ForeignInv
<1>4. \A r \in rules' : r \in rules \/ (s.op = "addrule" /\ r = s.rule)
  BY DEF AddRule, DelRule, ReplaceRoute, DelRoute, FlushTable, WriteSysctl, RestoreSysctls
<1>5. \A r \in rules' : r.owner = "vpn" <=> r.table = VpnTable
  BY <1>3, <1>4 DEF Spares, ForeignInv
<1>6. ForeignInv'
  BY <1>2, <1>5, SameRunSpares
<1>7. run.seen.rules \intersect rules \subseteq rules'
  <2>1. CASE DelRule(s)
    <3>1. s.op = "delrule"
      BY <2>1 DEF DelRule
    <3>2. \A r \in run.seen.rules : ~SameRule(r, s.rule)
      BY <1>3, <3>1 DEF Spares, ForeignInv, SameRule
    <3> QED  BY <2>1, <3>2 DEF DelRule
  <2>2. CASE ~DelRule(s)
    BY <2>2 DEF AddRule, ReplaceRoute, DelRoute, FlushTable, WriteSysctl, RestoreSysctls
  <2> QED  BY <2>1, <2>2
<1>8. \A t \in run.seen.tables : tables'[t] = tables[t]
  <2>1. CASE ReplaceRoute(s) \/ DelRoute(s) \/ FlushTable(s)
    <3>1. s.op \in {"replace", "del", "flush"}
      BY <2>1 DEF ReplaceRoute, DelRoute, FlushTable
    <3>2. s.table \notin run.seen.tables
      BY <1>3, <3>1 DEF Spares
    <3>3. \A t \in Tables \ {s.table} : tables'[t] = tables[t]
      BY <1>1, <2>1 DEF ReplaceRoute, DelRoute, FlushTable
    <3> QED  BY <1>1, <3>2, <3>3
  <2>2. CASE AddRule(s) \/ DelRule(s) \/ WriteSysctl(s) \/ RestoreSysctls(s)
    BY <2>2 DEF AddRule, DelRule, WriteSysctl, RestoreSysctls
  <2> QED  BY <2>1, <2>2
<1> QED  BY <1>6, <1>7, <1>8

LEMMA ForeignStep ==
  ASSUME TypeOK, ForeignInv, [Next]_vars
  PROVE  ForeignInv'
<1>1. run \in Run
  BY DEF TypeOK
<1>2. ASSUME NEW v \in Verbs, Begin(v) PROVE ForeignInv'
  <2>1. run' = [IdleRun EXCEPT !.verb = v, !.phase = "plan"] /\ rules' = rules
    BY <1>2 DEF Begin, kernel
  <2> QED  BY <2>1, IdleSpares DEF IdleRun
<1>3. CASE Plan \/ Replan \/ HandBack
  BY <1>3, PlanningSpares
<1>4. CASE ExecuteStep
  BY <1>4, CommandSpares DEF ExecuteStep
<1>5. CASE EndExecute
  <2>1. rules' = rules /\ flag' = flag
    BY <1>5 DEF EndExecute, kernel
  <2>2. CASE run' = IdleRun
    BY <2>1, <2>2, IdleSpares DEF IdleRun
  <2>3. CASE run' = [run EXCEPT !.phase = "replan"] /\ run.attempt = "first" /\ flag
    <3>1. run'.phase = "replan" /\ run'.plan = run.plan /\ run'.seen = run.seen
      BY <1>1, <2>3 DEF Run
    <3> QED  BY <1>5, <2>1, <2>3, <3>1, SameRunSpares DEF EndExecute, ForeignInv
  <2>4. CASE run' = [run EXCEPT !.phase = "handback"]
    <3>1. run'.phase = "handback" /\ run'.plan = run.plan /\ run'.seen = run.seen
      BY <1>1, <2>4 DEF Run
    <3> QED  BY <2>1, <3>1, SameRunSpares DEF ForeignInv
  <2> QED  BY <1>5, <2>2, <2>3, <2>4 DEF EndExecute
<1>6. CASE Killed
  BY <1>6, IdleSpares DEF Killed, IdleRun, kernel
<1>7. CASE Environment
  <2>1. /\ run'.plan = run.plan /\ run'.seen = run.seen /\ flag' = flag
        /\ run'.phase = run.phase /\ run'.attempt = run.attempt
    BY <1>1, <1>7 DEF Environment, RadioLeaves, RadioUnplugged, RadioJoins, HealthChanges, VpnTakesTable,
                      VpnLeavesTable, VpnTogglesRule, Settle, Moves, Run
  <2>2. \A r \in rules' : r \in rules \/ \E p : r = VpnRule(p)
    BY <1>7 DEF Environment, RadioLeaves, RadioUnplugged, RadioJoins, HealthChanges, VpnTakesTable,
                VpnLeavesTable, VpnTogglesRule, Settle, kernel
  <2>3. \A r \in rules' : r.owner = "vpn" <=> r.table = VpnTable
    BY <2>2 DEF ForeignInv, VpnRule
  <2> QED  BY <2>1, <2>3, SameRunSpares
<1>8. CASE UNCHANGED vars
  BY <1>8, SameRunSpares DEF vars, ForeignInv
<1> QED  BY <1>2, <1>3, <1>4, <1>5, <1>6, <1>7, <1>8 DEF Next, Helper

(* The foreign rules and routes that a run saw survive each of its steps,  *)
(* the dead-man's hand-back included (plan_teardown, foreign_conflicts).   *)
THEOREM ForeignIsKept == Spec => ForeignKept
<1> DEFINE Kept == Helper =>
             /\ run.seen.rules \intersect rules \subseteq rules'
             /\ \A t \in run.seen.tables :
                  tables[t].owner \in {"vpn", "untagged"} => tables'[t] = tables[t]
<1>1. Init => ForeignInv
  BY ForeignInit
<1>2. TypeOK /\ ForeignInv /\ [Next]_vars => ForeignInv'
  BY ForeignStep
<1>3. TypeOK /\ ForeignInv /\ [Next]_vars => [Kept]_vars
  <2> SUFFICES ASSUME TypeOK, ForeignInv, Helper PROVE Kept
    BY DEF vars
  <2>1. CASE Plan \/ Replan \/ HandBack \/ EndExecute
    BY <2>1 DEF Plan, Replan, HandBack, EndExecute, kernel
  <2>2. CASE ExecuteStep
    BY <2>2, CommandSpares DEF ExecuteStep
  <2> QED  BY <2>1, <2>2 DEF Helper
<1> QED  BY <1>1, <1>2, <1>3, Typed, PTL DEF Spec, ForeignKept
-----------------------------------------------------------------------------
(* No half-built layout goes live. *)

\* Radios of one layout do not share a table, nor use the multipath route's.
LEMMA TablesApart ==
  ASSUME NEW M \in SUBSET Radios
  PROVE  \A r, q \in M : TableOf(r, M) # EcmpTable /\ (TableOf(r, M) = TableOf(q, M) => r = q)
<1> DEFINE below(r) == {x \in M : x < r}
<1>1. M \subseteq Nat /\ \A r \in M : below(r) \in SUBSET Radios
  BY RadiosAssumption
<1>2. \A r \in M : IsFiniteSet(below(r)) /\ Cardinality(below(r)) \in Nat
  BY <1>1, FS_Subset, FS_CardinalityType, RadiosAssumption
<1>3. \A r \in M : Rank(r, M) = Cardinality(below(r)) /\ Rank(r, M) \in Nat
  BY <1>2 DEF Rank
<1>4. ASSUME NEW r \in M, NEW q \in M, r < q PROVE Rank(r, M) # Rank(q, M)
  <2>1. r \in Nat /\ q \in Nat /\ \A x \in below(r) : x \in M /\ x \in Nat /\ x < r
    BY <1>1
  <2>2. \A x \in below(r) : x < q
    BY <1>4, <2>1
  <2>3. below(r) \in SUBSET below(q) /\ r \in below(q) /\ r \notin below(r)
    <3>1. \A x \in below(r) : x \in below(q)
      BY <2>1, <2>2
    <3>2. r \in below(q)
      BY <1>4
    <3>3. ~(r < r)
      BY <2>1
    <3> QED  BY <3>1, <3>2, <3>3
  <2>4. Cardinality(below(q)) # Cardinality(below(r))
    BY <1>2, <2>3, FS_Subset
  <2> QED  BY <1>3, <2>4
<1>5. \A r, q \in M : r # q => r < q \/ q < r
  BY <1>1
<1>6. \A r, q \in M : Rank(r, M) \in Nat /\ (Rank(r, M) = Rank(q, M) => r = q)
  BY <1>3, <1>4, <1>5
<1> QED  BY <1>6 DEF TableOf, RadioTable, EcmpTable

\* Where a step of a layout for M with a swap stands, and what it may do before the swap.
SwapAt == 34000

Shaped(s, M) ==
  /\ s.op \notin {"flush", "restore"}
  /\ s.op \in {"addrule", "sysctl"} => s.at < SwapAt
  /\ s.op = "del" => s.at > SwapAt
  /\ s.op = "delrule" => s.at > SwapAt \/ s.rule.prio \in LegacyPrios
  /\ IsSwap(s) => s.at = SwapAt
  /\ s.op = "replace" /\ ~IsSwap(s) =>
       s.at < SwapAt /\ \E r \in M : s.table = TableOf(r, M) /\ s.devs = {r}

\* Each part of the layout for M is in place, or is still to come.
Coming(M, plan) ==
  /\ \A w \in DesiredRules(M) :
       (\E r \in rules : SameRule(r, w)) \/ \E s \in plan : s.op = "addrule" /\ s.rule = w
  /\ \A r \in M :
       \/ tables[TableOf(r, M)].devs = {r}
       \/ \E s \in plan : s.op = "replace" /\ s.table = TableOf(r, M) /\ s.devs = {r}
  /\ \A r \in M : sysctl[r] = "ours" \/ \E s \in plan : s.op = "sysctl" /\ s.radio = r

\* While the swap is to come, and neither a command failed nor the world moved, nothing of
\* the layout is lost.
HalfInv ==
  run.phase = "exec" /\ (\E s \in run.plan : IsSwap(s)) =>
    /\ run.hasSwap /\ ~run.swapped
    /\ run.target \in SUBSET Radios /\ \A r \in run.target : TableOf(r, run.target) \in RadioTables
    /\ \A s, q \in run.plan : IsSwap(s) /\ IsSwap(q) => s = q
    /\ \A s \in run.plan : Shaped(s, run.target)
    /\ ~run.failed /\ ~run.moved => Coming(run.target, run.plan)

LEMMA DesiredIs ==
  ASSUME TypeOK, NEW M \in {Routable, {}}
  PROVE  \A w \in DesiredRules(M) : w.prio \in Nat /\ w.prio < 33000 /\ w.prio \notin LegacyPrios
<1>1. ASSUME NEW r \in M
      PROVE  PrioRadio(Rank(r, M)) \in 32001 .. 32016
  <2>1. TableOf(r, M) \in RadioTables /\ Rank(r, M) \in Nat
    BY MembersType
  <2> QED  BY <2>1, NumbersType DEF TableOf, RadioTable, RadioTables, PrioRadio
<1> QED  BY <1>1 DEF DesiredRules, PrioSuppressMain, PrioEcmp, LegacyPrios

\* What plan_apply plans when there is somebody to swap the route to.
LEMMA ApplyShaped ==
  ASSUME TypeOK, NEW M \in {Routable, {}}, NEW H \in SUBSET Radios, H # {}, NEW R, NEW T
  PROVE  /\ \A s \in PlanApply(M, H, R, T) : Shaped(s, M)
         /\ \A s, q \in PlanApply(M, H, R, T) : IsSwap(s) /\ IsSwap(q) => s = q
<1> DEFINE swap == [at |-> SwapAt, op |-> "replace", table |-> EcmpTable, devs |-> H]
<1>1. ASSUME NEW s \in PlanApply(M, H, R, T)
      PROVE  Shaped(s, M) /\ (IsSwap(s) => s = swap)
  <2>1. CASE s \in AdoptSteps(R)
    <3>1. s.op = "delrule" /\ s.rule.prio \in LegacyPrios
      BY <2>1 DEF AdoptSteps, DelRules, IsLegacy
    <3> QED  BY <3>1 DEF Shaped, IsSwap
  <2>2. CASE s \in TableSteps(M)
    <3>1. PICK r \in M : s = [at |-> TableOf(r, M), op |-> "replace", table |-> TableOf(r, M), devs |-> {r}]
      BY <2>2 DEF TableSteps
    <3>2. TableOf(r, M) \in RadioTables
      BY MembersType
    <3>3. TableOf(r, M) < SwapAt /\ TableOf(r, M) # EcmpTable
      BY <3>2, NumbersType DEF RadioTables, SwapAt, EcmpTable
    <3>4. s.at < SwapAt /\ s.op = "replace" /\ s.table = TableOf(r, M) /\ s.devs = {r} /\ s.table # EcmpTable
      BY <3>1, <3>3
    <3> QED  BY <3>4 DEF Shaped, IsSwap
  <2>3. CASE s \in RuleSteps(M, R)
    <3>1. PICK d \in DesiredRules(M) : s = [at |-> d.prio, op |-> "addrule", rule |-> d]
      BY <2>3 DEF RuleSteps
    <3>2. s.op = "addrule" /\ s.at < SwapAt
      BY <3>1, DesiredIs DEF SwapAt
    <3> QED  BY <3>2 DEF Shaped, IsSwap
  <2>4. CASE s \in SysctlSteps(M)
    <3>1. s.op = "sysctl" /\ s.at < SwapAt
      BY <2>4 DEF SysctlSteps, SwapAt
    <3> QED  BY <3>1 DEF Shaped, IsSwap
  <2>5. CASE s \in SwapSteps(H, T)
    <3>1. s = swap
      BY <2>5 DEF SwapSteps, SwapAt
    <3>2. s.op = "replace" /\ s.at = SwapAt /\ s.table = EcmpTable
      BY <3>1
    <3> QED  BY <3>1, <3>2 DEF Shaped, IsSwap
  <2>6. CASE s \in StaleRuleSteps(M, R)
    <3>1. s.op = "delrule" /\ s.at > SwapAt
      BY <2>6 DEF StaleRuleSteps, DelRules, SwapAt
    <3> QED  BY <3>1 DEF Shaped, IsSwap
  <2>7. CASE s \in StaleRouteSteps(M, R, T)
    <3>1. s.op = "del" /\ s.at > SwapAt
      BY <2>7 DEF StaleRouteSteps, SwapAt
    <3> QED  BY <3>1 DEF Shaped, IsSwap
  <2> QED  BY <2>1, <2>2, <2>3, <2>4, <2>5, <2>6, <2>7 DEF PlanApply
<1> HIDE DEF swap
<1> QED  BY <1>1

LEMMA ApplyComing ==
  ASSUME TypeOK, NEW M \in {Routable, {}}, NEW H, NEW R \in SUBSET rules, NEW T
  PROVE  Coming(M, PlanApply(M, H, R, T))
<1>1. ASSUME NEW w \in DesiredRules(M)
      PROVE  \/ \E r \in rules : SameRule(r, w)
             \/ \E s \in PlanApply(M, H, R, T) : s.op = "addrule" /\ s.rule = w
  <2>1. CASE \E h \in Existing(R) : SameRule(w, h)
    BY <2>1 DEF Existing, OwnedRules, SameRule
  <2>2. CASE ~ \E h \in Existing(R) : SameRule(w, h)
    <3>1. PICK s \in RuleSteps(M, R) : s = [at |-> w.prio, op |-> "addrule", rule |-> w]
      BY <2>2 DEF RuleSteps
    <3>2. s.op = "addrule" /\ s.rule = w
      BY <3>1
    <3> QED  BY <3>1, <3>2 DEF PlanApply
  <2> QED  BY <2>1, <2>2
<1>2. ASSUME NEW r \in M
      PROVE  \E s \in PlanApply(M, H, R, T) : s.op = "replace" /\ s.table = TableOf(r, M) /\ s.devs = {r}
  <2>1. PICK s \in TableSteps(M) :
          s = [at |-> TableOf(r, M), op |-> "replace", table |-> TableOf(r, M), devs |-> {r}]
    BY DEF TableSteps
  <2>2. s.op = "replace" /\ s.table = TableOf(r, M) /\ s.devs = {r}
    BY <2>1
  <2> QED  BY <2>1, <2>2 DEF PlanApply
<1>3. ASSUME NEW r \in M, sysctl[r] # "ours"
      PROVE  \E s \in PlanApply(M, H, R, T) : s.op = "sysctl" /\ s.radio = r
  <2>1. [at |-> 33000, op |-> "sysctl", radio |-> r] \in SysctlSteps(M)
    BY <1>3 DEF SysctlSteps
  <2>2. PICK s \in SysctlSteps(M) : s = [at |-> 33000, op |-> "sysctl", radio |-> r]
    BY <2>1
  <2>3. s.op = "sysctl" /\ s.radio = r
    BY <2>2
  <2> QED  BY <2>2, <2>3 DEF PlanApply
<1> QED  BY <1>1, <1>2, <1>3 DEF Coming

\* A plan with a swap is one of plan_apply's, for somebody to swap the route to.
LEMMA TeardownNoSwap == \A R, T : \A s \in PlanTeardown(R, T) : ~IsSwap(s)
BY DEF PlanTeardown, DelEcmp, DelRules, IsSwap

LEMMA ApplyNoSwap ==
  ASSUME TypeOK, NEW M \in {Routable, {}}, NEW R, NEW T
  PROVE  \A s \in PlanApply(M, {}, R, T) : ~IsSwap(s)
<1> SUFFICES ASSUME NEW s \in PlanApply(M, {}, R, T) PROVE ~IsSwap(s)
  OBVIOUS
<1>1. CASE s \in TableSteps(M)
  <2>1. PICK r \in M : s.table = TableOf(r, M)
    BY <1>1 DEF TableSteps
  <2>2. TableOf(r, M) # EcmpTable
    BY MembersType, NumbersType DEF RadioTables, EcmpTable
  <2> QED  BY <2>1, <2>2 DEF IsSwap
<1>2. CASE s \notin TableSteps(M)
  BY <1>2 DEF PlanApply, AdoptSteps, RuleSteps, SysctlSteps, SwapSteps, DelEcmp, StaleRuleSteps,
              StaleRouteSteps, DelRules, IsSwap
<1> QED  BY <1>1, <1>2

LEMMA BuildHalf ==
  ASSUME TypeOK, NEW s \in Snapshots, NEW attempt, NEW seen, Build(s, attempt, seen),
         UNCHANGED <<rules, tables, sysctl, addr>>
  PROVE  HalfInv'
<1> DEFINE M == s.members
           plan == PlanBuild(M, s.rules, s.tables)
           swap == \E q \in plan : IsSwap(q)
           target == IF Cardinality(M) < 2 THEN {} ELSE M
<1>1. M \in {Routable, {}} /\ s.rules \in SUBSET rules
  BY SnapshotType
<1>2. /\ run'.phase = "exec" /\ run'.plan = plan /\ run'.hasSwap = swap /\ run'.swapped = FALSE
      /\ run'.target = target /\ run'.failed = FALSE /\ run'.moved = FALSE
  BY DEF Build, Execute, TypeOK, Run
<1>3. ASSUME swap
      PROVE  /\ target \in SUBSET Radios /\ \A r \in target : TableOf(r, target) \in RadioTables
             /\ \A p, q \in plan : IsSwap(p) /\ IsSwap(q) => p = q
             /\ \A q \in plan : Shaped(q, target)
             /\ Coming(target, plan)
  <2>1. ~(Cardinality(M) < 2)
    BY <1>3, TeardownNoSwap DEF PlanBuild
  <2>2. target = M /\ plan = PlanApply(M, M \intersect Healthy, s.rules, s.tables)
    BY <2>1 DEF PlanBuild
  <2>3. M \intersect Healthy # {} /\ M \in SUBSET Radios /\ M \intersect Healthy \in SUBSET Radios
        /\ \A r \in M : TableOf(r, M) \in RadioTables
    BY <1>1, <1>3, <2>2, ApplyNoSwap, MembersType
  <2> HIDE DEF M, plan, target
  <2> QED  BY <1>1, <2>2, <2>3, ApplyShaped, ApplyComing
<1>4. PICK p, t : p = plan /\ t = target
  OBVIOUS
<1>5. Coming(t, p) => Coming(t, p)'
  BY DEF Coming, DesiredRules
<1> HIDE DEF plan, swap, target
<1>6. run'.plan = p /\ run'.target = t /\ (swap => \E q \in p : IsSwap(q)) /\ (~swap => \A q \in p : ~IsSwap(q))
  BY <1>2, <1>4 DEF swap, plan
<1>7. CASE swap
  <2>1. /\ t \in SUBSET Radios /\ \A r \in t : TableOf(r, t) \in RadioTables
        /\ \A q1, q2 \in p : IsSwap(q1) /\ IsSwap(q2) => q1 = q2
        /\ \A q \in p : Shaped(q, t)
        /\ Coming(t, p)'
    BY <1>3, <1>4, <1>5, <1>7
  <2> QED  BY <1>2, <1>6, <1>7, <2>1 DEF HalfInv
<1>8. CASE ~swap
  BY <1>6, <1>8 DEF HalfInv
<1> QED  BY <1>7, <1>8

LEMMA DesiredHigh ==
  ASSUME NEW M \in SUBSET Radios
  PROVE  \A w \in DesiredRules(M) : w.prio \notin LegacyPrios
<1>1. \A r \in M : Rank(r, M) \in Nat
  BY RankType
<1> QED  BY <1>1 DEF DesiredRules, PrioSuppressMain, PrioEcmp, PrioRadio, LegacyPrios

\* What a step of a layout leaves of it; the swap itself comes when all the rest is done.
LEMMA CommandHalf ==
  ASSUME TypeOK, HalfInv, NEW s \in run.plan,
         \/ AddRule(s)   \/ DelRule(s) \/ ReplaceRoute(s) \/ DelRoute(s)
         \/ FlushTable(s) \/ WriteSysctl(s) \/ RestoreSysctls(s)
  PROVE  HalfInv'
<1>1. run \in Run /\ run.phase = "exec" /\ tables \in [Tables -> Route] /\ sysctl \in [Radios -> Values]
  BY DEF TypeOK, AddRule, DelRule, ReplaceRoute, DelRoute, FlushTable, WriteSysctl, RestoreSysctls, Command, Due
<1>2. ASSUME NEW result, Ran(s, result)
      PROVE  /\ run'.plan = run.plan \ {s} /\ run'.target = run.target /\ run'.moved = run.moved
             /\ run'.phase = run.phase /\ run'.hasSwap = run.hasSwap
             /\ (~IsSwap(s) => run'.swapped = run.swapped)
             /\ (~run'.failed => result = "ok" /\ ~run.failed)
  BY <1>1, <1>2 DEF Ran, Run
<1>3. /\ run'.plan = run.plan \ {s} /\ run'.target = run.target /\ run'.moved = run.moved
      /\ run'.phase = run.phase /\ run'.hasSwap = run.hasSwap
      /\ (~IsSwap(s) => run'.swapped = run.swapped)
      /\ (~run'.failed => ~run.failed)
  <2>1. CASE AddRule(s) \/ DelRule(s) \/ ReplaceRoute(s) \/ DelRoute(s) \/ FlushTable(s)
    BY <1>2, <2>1 DEF AddRule, DelRule, ReplaceRoute, DelRoute, FlushTable
  <2>2. CASE WriteSysctl(s)
    BY <1>1, <2>2 DEF WriteSysctl, Run
  <2>3. CASE RestoreSysctls(s)
    BY <1>1, <2>3 DEF RestoreSysctls, Run
  <2> QED  BY <2>1, <2>2, <2>3
<1>4. PICK M, plan : M = run.target /\ plan = run'.plan
  OBVIOUS
<1> SUFFICES ASSUME NEW swap \in plan, IsSwap(swap)
             PROVE  /\ run'.hasSwap /\ ~run'.swapped
                    /\ M \in SUBSET Radios /\ \A r \in M : TableOf(r, M) \in RadioTables
                    /\ \A p, q \in plan : IsSwap(p) /\ IsSwap(q) => p = q
                    /\ \A q \in plan : Shaped(q, M)
                    /\ ~run'.failed /\ ~run'.moved => Coming(M, plan)'
  BY <1>3, <1>4 DEF HalfInv
<1>5. /\ run.hasSwap /\ ~run.swapped
      /\ M \in SUBSET Radios /\ \A r \in M : TableOf(r, M) \in RadioTables
      /\ \A p, q \in run.plan : IsSwap(p) /\ IsSwap(q) => p = q
      /\ \A q \in run.plan : Shaped(q, M)
      /\ ~run.failed /\ ~run.moved => Coming(M, run.plan)
  BY <1>1, <1>3, <1>4 DEF HalfInv
<1>6. ~IsSwap(s) /\ Shaped(s, M) /\ plan = run.plan \ {s} /\ swap \in run.plan /\ s # swap
  BY <1>3, <1>4, <1>5
<1>7. s \in Step /\ s.at \in Nat /\ s.at <= SwapAt
  <2>1. swap.at = SwapAt
    BY <1>5, <1>6 DEF Shaped
  <2>2. Due(s)
    BY DEF AddRule, DelRule, ReplaceRoute, DelRoute, FlushTable, WriteSysctl, RestoreSysctls, Command
  <2>3. s \in Step
    BY <1>1 DEF Run
  <2> QED  BY <1>6, <2>1, <2>2, <2>3 DEF Due, Step, RuleStep, RouteStep, FlushStep, SysctlStep, RestoreStep
<1>8. ASSUME ~run'.failed, ~run.moved
      PROVE  Coming(M, plan)'
  <2>1. DesiredRules(M)' = DesiredRules(M)
    BY DEF DesiredRules, AddRule, DelRule, ReplaceRoute, DelRoute, FlushTable,
           WriteSysctl, RestoreSysctls, world
  <2>2. Coming(M, run.plan)
    BY <1>3, <1>5, <1>8
  <2>3. /\ \A w \in DesiredRules(M) : (\E r \in rules : SameRule(r, w)) \/ \E q \in run.plan : q.op = "addrule" /\ q.rule = w
        /\ \A r \in M : \/ tables[TableOf(r, M)].devs = {r}
                        \/ \E q \in run.plan : q.op = "replace" /\ q.table = TableOf(r, M) /\ q.devs = {r}
        /\ \A r \in M : sysctl[r] = "ours" \/ \E q \in run.plan : q.op = "sysctl" /\ q.radio = r
    BY <2>2 DEF Coming
  <2>4. SUFFICES
        /\ \A w \in DesiredRules(M) : (\E r \in rules' : SameRule(r, w)) \/ \E q \in plan : q.op = "addrule" /\ q.rule = w
        /\ \A r \in M : \/ tables'[TableOf(r, M)].devs = {r}
                        \/ \E q \in plan : q.op = "replace" /\ q.table = TableOf(r, M) /\ q.devs = {r}
        /\ \A r \in M : sysctl'[r] = "ours" \/ \E q \in plan : q.op = "sysctl" /\ q.radio = r
    BY <2>1 DEF Coming
  <2>5. \A q \in run.plan : q.op # s.op => q \in plan
    BY <1>6
  <2>6. CASE AddRule(s)
    <3>1. s.op = "addrule" /\ rules' = rules \union {s.rule} /\ tables' = tables /\ sysctl' = sysctl
      BY <1>2, <1>8, <2>6 DEF AddRule
    <3>2. SameRule(s.rule, s.rule)
      BY DEF SameRule
    <3> QED  BY <1>6, <2>3, <2>5, <3>1, <3>2
  <2>7. CASE DelRule(s)
    <3>1. s.op = "delrule" /\ rules' = {r \in rules : ~SameRule(r, s.rule)} /\ tables' = tables /\ sysctl' = sysctl
      BY <1>2, <1>8, <2>7 DEF DelRule
    <3>2. s.rule.prio \in LegacyPrios
      BY <1>6, <1>7, <3>1 DEF Shaped, SwapAt
    <3>3. \A w \in DesiredRules(M) : w.prio \notin LegacyPrios
      BY <1>5, DesiredHigh
    <3>4. \A w \in DesiredRules(M), r \in rules : SameRule(r, w) => r \in rules'
      BY <3>1, <3>2, <3>3 DEF SameRule
    <3> QED  BY <2>3, <2>5, <3>1, <3>4
  <2>8. CASE ReplaceRoute(s)
    <3>1. s.op = "replace" /\ rules' = rules /\ sysctl' = sysctl
          /\ tables' = [tables EXCEPT ![s.table] = [devs |-> s.devs, owner |-> "wifimimo"]]
      BY <1>2, <1>8, <2>8 DEF ReplaceRoute
    <3>2. PICK q \in M : s.table = TableOf(q, M) /\ s.devs = {q}
      BY <1>6, <3>1 DEF Shaped
    <3>3. \A r \in M : TableOf(r, M) \in Tables /\ (TableOf(r, M) = s.table => r = q)
      BY <1>5, <3>2, NumbersType, TablesApart
    <3>4. \A r \in M : tables'[TableOf(r, M)] = IF r = q THEN [devs |-> {q}, owner |-> "wifimimo"]
                                               ELSE tables[TableOf(r, M)]
      BY <1>1, <3>1, <3>2, <3>3
    <3>5. tables'[TableOf(q, M)].devs = {q}
      BY <3>4
    <3>6. \A r \in M : r # q => \/ tables'[TableOf(r, M)].devs = {r}
                                \/ \E p \in plan : p.op = "replace" /\ p.table = TableOf(r, M) /\ p.devs = {r}
      BY <1>6, <2>3, <3>3, <3>4
    <3> QED  BY <2>3, <2>5, <3>1, <3>5, <3>6
  <2>9. CASE DelRoute(s)
    BY <1>6, <1>7, <2>9 DEF DelRoute, Shaped, SwapAt
  <2>10. CASE FlushTable(s) \/ RestoreSysctls(s)
    BY <1>6, <2>10 DEF FlushTable, RestoreSysctls, Shaped
  <2>11. CASE WriteSysctl(s)
    <3>1. s.op = "sysctl" /\ rules' = rules /\ tables' = tables /\ sysctl' = [sysctl EXCEPT ![s.radio] = "ours"]
      BY <1>1, <1>8, <2>11 DEF WriteSysctl, Run
    <3> QED  BY <1>1, <1>5, <1>6, <2>3, <2>5, <3>1
  <2> QED  BY <2>6, <2>7, <2>8, <2>9, <2>10, <2>11
<1> QED  BY <1>3, <1>4, <1>5, <1>6, <1>8

LEMMA HalfStep ==
  ASSUME TypeOK, HalfInv, [Next]_vars
  PROVE  HalfInv'
<1>1. run \in Run /\ IdleRun.phase = "idle"
  BY DEF TypeOK, IdleRun
<1>2. run'.phase # "exec" => HalfInv'
  BY DEF HalfInv
<1>3. ASSUME NEW s \in Snapshots, NEW attempt, TearDown(s, attempt) PROVE HalfInv'
  <2>1. run'.plan = PlanTeardown(s.rules, s.tables)
    BY <1>1, <1>3 DEF TearDown, Execute, Run
  <2> QED  BY <2>1, TeardownNoSwap DEF HalfInv
<1>4. CASE \E v \in Verbs : Begin(v)
  <2>1. run'.phase = "plan"
    BY <1>4 DEF Begin, IdleRun
  <2> QED  BY <1>2, <2>1
<1>5. CASE Plan
  <2>1. PICK s \in Snapshots : \/ Refuse
                               \/ Build(s, "first", Seen(s))
                               \/ TearDown(s, "first")
    BY <1>5 DEF Plan
  <2>2. UNCHANGED <<rules, tables, sysctl, addr>>
    BY <1>5 DEF Plan, kernel
  <2>3. CASE Refuse
    BY <1>1, <1>2, <2>3 DEF Refuse, Run
  <2> QED  BY <1>3, <2>1, <2>2, <2>3, BuildHalf
<1>6. CASE Replan
  BY <1>6, BuildHalf DEF Replan, kernel
<1>7. CASE HandBack
  BY <1>3, <1>7 DEF HandBack
<1>8. CASE ExecuteStep
  BY <1>8, CommandHalf DEF ExecuteStep
<1>9. CASE EndExecute
  <2>1. run'.phase # "exec"
    BY <1>1, <1>9 DEF EndExecute, Run
  <2> QED  BY <1>2, <2>1
<1>10. CASE Killed
  BY <1>1, <1>2, <1>10 DEF Killed
<1>11. CASE UNCHANGED <<run, rules, tables, sysctl, addr>>
  <2>1. PICK M, plan : M = run.target /\ plan = run.plan
    OBVIOUS
  <2>2. Coming(M, plan) => Coming(M, plan)'
    BY <1>11 DEF Coming, DesiredRules
  <2> QED  BY <1>11, <2>1, <2>2 DEF HalfInv
<1>12. CASE Environment /\ Moves
  <2>1. CASE run.phase = "exec"
    <3>1. /\ run'.moved /\ run'.phase = run.phase /\ run'.plan = run.plan /\ run'.target = run.target
          /\ run'.hasSwap = run.hasSwap /\ run'.swapped = run.swapped
      BY <1>1, <1>12, <2>1 DEF Moves, Run
    <3> QED  BY <2>1, <3>1 DEF HalfInv
  <2>2. CASE run.phase # "exec"
    BY <1>2, <1>12, <2>2 DEF Moves
  <2> QED  BY <2>1, <2>2
<1>13. Environment => Moves \/ UNCHANGED <<run, rules, tables, sysctl, addr>>
  BY DEF Environment, RadioLeaves, RadioUnplugged, RadioJoins, HealthChanges, VpnTakesTable, VpnLeavesTable,
         VpnTogglesRule, Settle, kernel
<1>14. CASE UNCHANGED vars
  BY <1>11, <1>14 DEF vars
<1> QED
  BY <1>4, <1>5, <1>6, <1>7, <1>8, <1>9, <1>10, <1>11, <1>12, <1>13, <1>14 DEF Next, Helper

\* The step that makes the multipath route live finds the layout complete.
LEMMA SwapFindsLayout ==
  ASSUME TypeOK, HalfInv, NEW s \in run.plan, ReplaceRoute(s), s.table = EcmpTable, ~run.moved
  PROVE  LaidOut(run.target)
<1>1. /\ s.op = "replace" /\ run.phase = "exec" /\ ~Blocked
      /\ \A q \in run.plan : s.at <= q.at
      /\ run \in Run /\ \A q \in run.plan : q.at \in Nat
  BY DEF ReplaceRoute, Command, Due, TypeOK, Run, Step, RuleStep, RouteStep, FlushStep, SysctlStep, RestoreStep
<1>2. IsSwap(s)
  BY <1>1 DEF IsSwap
<1>3. /\ run.hasSwap /\ ~run.swapped /\ \A q \in run.plan : Shaped(q, run.target)
      /\ ~run.failed => Coming(run.target, run.plan)
      /\ \A p, q \in run.plan : IsSwap(p) /\ IsSwap(q) => p = q
  BY <1>1, <1>2 DEF HalfInv
<1>4. Coming(run.target, run.plan)
  BY <1>1, <1>3 DEF Blocked
<1>5. s.at = SwapAt
  BY <1>2, <1>3 DEF Shaped
<1>6. \A q \in run.plan : ~(q.at < SwapAt)
  BY <1>1, <1>5
<1>7. ASSUME NEW q \in run.plan
      PROVE  q.op \notin {"addrule", "sysctl"} /\ (q.op = "replace" => q.table = EcmpTable)
  BY <1>3, <1>6 DEF Shaped, IsSwap
<1>8. \A r \in run.target : TableOf(r, run.target) # EcmpTable
  BY <1>1, <1>2, TablesApart DEF HalfInv
<1> QED  BY <1>4, <1>7, <1>8 DEF Coming, LaidOut

(* A half-built layout never goes live: for any number of radios, leases   *)
(* and tables, whatever a VPN holds, whatever commands fail and wherever   *)
(* runs are killed, unless the world moves under the run the multipath     *)
(* route is set to new nexthops only when every rule, every radio's table  *)
(* and every sysctl of the layout is in place (execute, plan_apply).       *)
THEOREM NeverHalfBuiltHolds == Spec => NeverHalfBuilt
<1> DEFINE Whole == (Helper /\ tables'[EcmpTable] # tables[EcmpTable] /\ tables'[EcmpTable] # NoRoute
                       /\ ~run.moved) => LaidOut(run.target)
<1>1. Init => HalfInv
  BY DEF Init, IdleRun, HalfInv
<1>2. TypeOK /\ HalfInv /\ [Next]_vars => HalfInv'
  BY HalfStep
<1>3. TypeOK /\ HalfInv /\ [Next]_vars => [Whole]_vars
  <2> SUFFICES ASSUME TypeOK, HalfInv, Helper, ~run.moved,
                      tables'[EcmpTable] # tables[EcmpTable], tables'[EcmpTable] # NoRoute
               PROVE  LaidOut(run.target)
    BY DEF vars
  <2>1. tables \in [Tables -> Route] /\ EcmpTable \in Tables
    BY NumbersType DEF TypeOK
  <2>2. ~(Plan \/ Replan \/ HandBack \/ EndExecute)
    BY DEF Plan, Replan, HandBack, EndExecute, kernel
  <2>3. PICK s \in run.plan :
          \/ AddRule(s)   \/ DelRule(s) \/ ReplaceRoute(s) \/ DelRoute(s)
          \/ FlushTable(s) \/ WriteSysctl(s) \/ RestoreSysctls(s)
    BY <2>2 DEF Helper, ExecuteStep
  <2>4. ReplaceRoute(s) /\ s.table = EcmpTable
    BY <2>1, <2>3 DEF AddRule, DelRule, ReplaceRoute, DelRoute, FlushTable, WriteSysctl, RestoreSysctls
  <2> QED  BY <2>4, SwapFindsLayout
<1> QED  BY <1>1, <1>2, <1>3, Typed, PTL DEF Spec, NeverHalfBuilt
=============================================================================
