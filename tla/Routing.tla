------------------------------ MODULE Routing ------------------------------
(***************************************************************************)
(* The root helper's multipath routing (src/wifimimo-helper): the kernel's *)
(* policy rules and routing tables, and the helper runs that rebuild them. *)
(*                                                                         *)
(* A run takes the lock, reads the kernel, makes a plan and executes it    *)
(* one `ip` command or sysctl write at a time, while radios come and go, a *)
(* VPN edits the same rule and table numbers, commands fail, and the run   *)
(* itself may be killed between two commands (the dispatcher's `timeout    *)
(* 20`, the dead-man unit's TimeoutStartSec=30).                           *)
(*                                                                         *)
(* Abstractions.  A radio is its place in the order of permanent MACs.  A  *)
(* table holds at most one default route; the subnet route that            *)
(* accompanies it is written by the same step and not kept apart.  All the *)
(* sysctls of one radio are one value, read and written in one step; those *)
(* of no radio are left out.  No two radios hold one address: an address   *)
(* is the radio and the number of its DHCP lease.                          *)
(***************************************************************************)
EXTENDS Integers, FiniteSets

CONSTANTS
  Radios,      \* wifi interfaces, numbered in the order of permanent MACs
  Leases,      \* DHCP leases a radio can get; its address is <<radio, lease>>
  MaxRadios,   \* radio tables that wifimimo owns (16 in the code)
  VpnTables,   \* tables in which a VPN may put a default route
  VpnPrios,    \* rule priorities that a VPN may use
  Legacy,      \* TRUE when the machine starts with pre-v1.0 rules and routes
  Kills,       \* TRUE when a run may be killed between two steps
  MaxTrouble   \* bound on what the world does: moves, failed commands, kills, requests

ASSUME RadiosAssumption == Radios \subseteq Nat \ {0} /\ IsFiniteSet(Radios)
ASSUME LimitAssumption  == MaxRadios \in 1..16
ASSUME LeaseAssumption  == Leases # {}
ASSUME VpnAssumption    == VpnTables \subseteq 100..(100 + MaxRadios) /\ VpnPrios \subseteq Nat
ASSUME LegacyAssumption == Legacy \in BOOLEAN
ASSUME KillsAssumption == Kills \in BOOLEAN
ASSUME TroubleAssumption == MaxTrouble \in Nat

VARIABLES
  link,    \* what discover_members finds out about each radio
  addr,    \* the radio's current lease (kept, but meaningless, once it is gone)
  rules,   \* the kernel's policy rules, those at neutral priorities left out
  tables,  \* the default route of each table that wifimimo owns
  sysctl,  \* per radio: set by wifimimo, as the system left it, or not there at all
  lost,    \* radios whose original no record or write could save (for the properties)
  saved,   \* sysctl-saved.json: what is on disk of each radio's original
  flag,    \* /etc/wifimimo/multipath-enabled exists
  status,  \* multipath.json: the members the last run published
  run,     \* the helper run that holds the lock
  left     \* how much trouble is still to come

kernel == <<rules, tables, sysctl, lost>>
world  == <<link, addr, left>>
vars   == <<link, addr, rules, tables, sysctl, lost, saved, flag, status, run, left>>

-----------------------------------------------------------------------------
(* Numbers wifimimo owns. *)

EcmpTable     == 100
RadioTable(i) == 101 + i
RadioTables   == 101..(100 + MaxRadios)
Tables        == {EcmpTable} \union RadioTables
MainTable     == 254
VpnTable      == 51820

PrioSuppressMain == 32000
PrioRadio(i)     == 32001 + i
PrioEcmp         == 32090
LegacyPrios      == 5300..5399
OwnPrios         == {PrioSuppressMain, PrioEcmp} \union (32001..(32000 + MaxRadios))

Tun     == 0                       \* the VPN's device
Devs    == Radios \union {Tun}
AnySrc  == <<>>
Sources == {AnySrc} \union (Radios \X Leases)

Rule  == [prio : Nat, src : Sources, table : Nat,
          owner : {"wifimimo", "untagged", "vpn"}]
Route == [devs : SUBSET Devs, owner : {"none", "wifimimo", "untagged", "vpn"}]

NoRoute == [devs |-> {}, owner |-> "none"]

(* What belongs to whom, in a snapshot: R the rules and T the tables it read. *)
IsLegacy(r)          == r.prio \in LegacyPrios /\ r.table \in RadioTables
OwnedRules(R)        == {r \in R : r.prio \in OwnPrios \/ IsLegacy(r)}
RuleIsOurs(r)        == IsLegacy(r) \/ r.owner \in {"wifimimo", "untagged"}
AdoptedTables(R)     == {r.table : r \in {q \in R : IsLegacy(q)}}
RouteIsOurs(t, R, T) == T[t].owner = "wifimimo" \/ t \in AdoptedTables(R)
InUse(T)             == {t \in Tables : T[t] # NoRoute}

ForeignRules(R)     == {r \in OwnedRules(R) : ~RuleIsOurs(r)}
ForeignTables(R, T) == {t \in InUse(T) : ~RouteIsOurs(t, R, T)}

ForeignConflicts(R, T, radioTables) ==
  \/ ForeignRules(R) # {}
  \/ EcmpTable \in ForeignTables(R, T)
  \/ radioTables /\ ForeignTables(R, T) # {}

SameRule(a, b) == a.prio = b.prio /\ a.src = b.src /\ a.table = b.table

-----------------------------------------------------------------------------
(* discover_members: routable radios, the first MaxRadios by MAC, and the  *)
(* healthy ones among them.                                                *)

Rank(r, S) == Cardinality({q \in S : q < r})
Up         == {r \in Radios : link[r] # "gone"}
AllUp      == Up                   \* mutant: no limit of MaxRadios
Routable   == {r \in Up : Rank(r, Up) < MaxRadios}
Healthy    == {r \in Routable : link[r] = "healthy"}

TableOf(r, M) == RadioTable(Rank(r, M))

DesiredRules(M) ==
  {[prio |-> PrioSuppressMain, src |-> AnySrc, table |-> MainTable, owner |-> "wifimimo"],
   [prio |-> PrioEcmp, src |-> AnySrc, table |-> EcmpTable, owner |-> "wifimimo"]}
  \union {[prio |-> PrioRadio(Rank(r, M)), src |-> <<r, addr[r]>>,
           table |-> TableOf(r, M), owner |-> "wifimimo"] : r \in M}

-----------------------------------------------------------------------------
(* Plans: sets of steps, each with the place `at' of its stage in the      *)
(* plan.  Table numbers and rule priorities order the steps of stages 1    *)
(* and 2; steps of one stage that share a place run in any order.          *)

RuleStep   == [at : Nat, op : {"addrule", "delrule"}, rule : Rule]
RouteStep  == [at : Nat, op : {"replace", "del"}, table : Tables, devs : SUBSET Devs]
FlushStep  == [at : Nat, op : {"flush"}, table : Tables, whole : BOOLEAN]
SysctlStep == [at : Nat, op : {"sysctl"}, radio : Radios]
RestoreStep == [at : Nat, op : {"restore"}]
Step == RuleStep \union RouteStep \union FlushStep \union SysctlStep \union RestoreStep

DelRules(place, R) == {[at |-> place, op |-> "delrule", rule |-> r] : r \in R}

DelEcmp(place, T) ==
  IF T[EcmpTable].owner = "wifimimo"
  THEN {[at |-> place, op |-> "del", table |-> EcmpTable, devs |-> {}]}
  ELSE {}

IsSwap(s) == s.op = "replace" /\ s.table = EcmpTable

AdoptSteps(R) == DelRules(0, {r \in OwnedRules(R) : IsLegacy(r)})

TableSteps(M) ==
  {[at |-> TableOf(r, M), op |-> "replace", table |-> TableOf(r, M), devs |-> {r}] : r \in M}

Existing(R) == {r \in OwnedRules(R) : ~IsLegacy(r)}

RuleSteps(M, R) ==
  {[at |-> d.prio, op |-> "addrule", rule |-> d] :
     d \in {w \in DesiredRules(M) : ~ \E h \in Existing(R) : SameRule(w, h)}}

SysctlSteps(M) ==
  {[at |-> 33000, op |-> "sysctl", radio |-> r] : r \in {q \in M : sysctl[q] # "ours"}}

SwapSteps(H, T) ==
  IF H # {} THEN {[at |-> 34000, op |-> "replace", table |-> EcmpTable, devs |-> H]}
            ELSE DelEcmp(34000, T)

StaleRuleSteps(M, R) ==
  DelRules(35000, {h \in Existing(R) : ~ \E w \in DesiredRules(M) : SameRule(w, h)})

StaleRouteSteps(M, R, T) ==
  {[at |-> 36000, op |-> "del", table |-> t, devs |-> T[t].devs] :
     t \in {u \in InUse(T) \ {EcmpTable} :
             /\ RouteIsOurs(u, R, T)
             /\ ~ \E r \in M : TableOf(r, M) = u /\ T[u].devs = {r}}}

PlanApply(M, H, R, T) ==
  AdoptSteps(R) \union TableSteps(M) \union RuleSteps(M, R) \union SysctlSteps(M)
    \union SwapSteps(H, T) \union StaleRuleSteps(M, R) \union StaleRouteSteps(M, R, T)

\* Mutant: a teardown that deletes every rule it finds.
PlanTeardownRules(R, T) ==
  DelEcmp(0, T) \union DelRules(1, OwnedRules(R)) \union {[at |-> 3, op |-> "restore"]}

PlanTeardown(R, T) ==
  DelEcmp(0, T)
    \union DelRules(1, {r \in OwnedRules(R) : RuleIsOurs(r)})
    \union {[at |-> 2, op |-> "flush", table |-> t, whole |-> t \in AdoptedTables(R)] :
              t \in {u \in InUse(T) \ {EcmpTable} : RouteIsOurs(u, R, T)}}
    \union {[at |-> 3, op |-> "restore"]}

\* Mutant: a layout for a single radio too.
PlanBuildAlways(M, R, T) == PlanApply(M, M \intersect Healthy, R, T)

\* build(): fewer than two routable radios tear down, whatever the switch says.
PlanBuild(M, R, T) ==
  IF Cardinality(M) < 2 THEN PlanTeardown(R, T) ELSE PlanApply(M, M \intersect Healthy, R, T)

\* The members build() reports: none unless two or more radios are healthy.
MembersBuilt(M) ==
  IF Cardinality(M) < 2 \/ Cardinality(M \intersect Healthy) < 2
  THEN {} ELSE M \intersect Healthy

-----------------------------------------------------------------------------
(* The helper run. *)

\* A sysctl of a radio that is not plugged in has no path, and reads as "".
Values  == {"none", "system", "ours"}
Records == [Radios -> Values \union {"unsaved"}]

NoRecord == [r \in Radios |-> "unsaved"]

Verbs    == {"enable", "disable", "apply", "check"}
Phases   == {"idle", "plan", "replan", "handback", "exec"}
Attempts == {"first", "second", "handback"}

Run == [verb    : Verbs,
        phase   : Phases,
        attempt : Attempts,
        plan    : SUBSET Step,    \* the steps still to execute
        hasSwap : BOOLEAN,        \* the plan swaps the multipath route
        swapped : BOOLEAN,        \* ... and has got past that step
        failed  : BOOLEAN,        \* errors is not empty
        nodev   : BOOLEAN,        \* one of them is "Cannot find device"
        known   : Records,        \* `saved' in memory: the originals recorded
        members : SUBSET Radios,  \* what this run will publish
        target  : SUBSET Radios,  \* the radios the plan lays out (for the properties)
        seen    : [rules : SUBSET Rule, tables : SUBSET Tables],
                                  \* foreign state in the snapshot (for the properties)
        moved   : BOOLEAN]        \* the world changed since (for the properties)

NothingSeen == [rules |-> {}, tables |-> {}]

IdleRun == [verb |-> "apply", phase |-> "idle", attempt |-> "first", plan |-> {},
            hasSwap |-> FALSE, swapped |-> FALSE, failed |-> FALSE, nodev |-> FALSE,
            known |-> NoRecord, members |-> {}, target |-> {}, seen |-> NothingSeen,
            moved |-> FALSE]

Status == [members : SUBSET Radios, active : BOOLEAN]

TypeOK ==
  /\ link \in [Radios -> {"gone", "routable", "healthy"}]
  /\ addr \in [Radios -> Leases]
  /\ rules \subseteq Rule
  /\ tables \in [Tables -> Route]
  /\ sysctl \in [Radios -> Values]
  /\ lost \subseteq Radios
  /\ saved \in Records
  /\ flag \in BOOLEAN
  /\ status \in Status
  /\ run \in Run
  /\ left \in 0..MaxTrouble

LegacyRules ==
  {[prio |-> 5300 + Rank(r, Radios), src |-> <<r, addr[r]>>,
    table |-> TableOf(r, Radios), owner |-> "untagged"] :
     r \in {q \in Radios : TableOf(q, Radios) \in RadioTables}}

LegacyTables ==
  [t \in Tables |->
     IF \E r \in Radios : TableOf(r, Radios) = t
     THEN [devs |-> {CHOOSE r \in Radios : TableOf(r, Radios) = t}, owner |-> "untagged"]
     ELSE NoRoute]

Init ==
  /\ link \in [Radios -> {"gone", "routable", "healthy"}]
  /\ addr \in [Radios -> Leases]
  /\ rules  = IF Legacy THEN LegacyRules ELSE {}
  /\ tables = IF Legacy THEN LegacyTables ELSE [t \in Tables |-> NoRoute]
  /\ sysctl = [r \in Radios |-> IF link[r] = "gone" THEN "none" ELSE "system"]
  /\ lost   = {}
  /\ saved  = NoRecord
  /\ flag \in BOOLEAN
  /\ status = [members |-> {}, active |-> FALSE]
  /\ run    = IdleRun
  /\ left   = MaxTrouble

-----------------------------------------------------------------------------
(* Trouble: bounded by MaxTrouble, so that the world may fall silent at any *)
(* moment and must in the end.                                             *)

Calm     == left = 0
Trouble  == left > 0 /\ left' = left - 1
Peace    == UNCHANGED left

(* What a run reads.  A query that fails reads as empty (query_json).      *)

Unread == [t \in Tables |-> NoRoute]

Faithful == [rules |-> rules, tables |-> tables, members |-> Routable]

Reads(s) ==
  \/ s = Faithful /\ Peace
  \/ s = [Faithful EXCEPT !.rules = {}]       /\ Trouble
  \/ s = [Faithful EXCEPT !.tables = Unread]  /\ Trouble
  \/ s = [Faithful EXCEPT !.members = {}]     /\ Trouble

Snapshots == [rules : {rules, {}}, tables : {tables, Unread}, members : {Routable, {}}]

Seen(s) == [rules  |-> ForeignRules(s.rules),
            tables |-> ForeignTables(s.rules, s.tables)]

\* cmd_multipath takes the lock; enable and disable turn the switch first.
Begin(v) ==
  /\ run.phase = "idle"
  /\ IF v = "check" THEN Peace ELSE Trouble
  /\ run'  = [IdleRun EXCEPT !.verb = v, !.phase = "plan"]
  /\ flag' = IF v = "enable" THEN TRUE ELSE IF v = "disable" THEN FALSE ELSE flag
  /\ UNCHANGED <<kernel, link, addr, saved, status>>

Execute(plan, attempt, members, target, seen) ==
  run' = [run EXCEPT !.phase = "exec", !.attempt = attempt, !.plan = plan,
                     !.hasSwap = \E s \in plan : IsSwap(s), !.swapped = FALSE,
                     !.failed = FALSE, !.nodev = FALSE, !.known = saved,
                     !.members = members, !.target = target, !.seen = seen,
                     !.moved = FALSE]

\* What a snapshot is turned into when the switch is on.
Build(s, attempt, seen) ==
  Execute(PlanBuild(s.members, s.rules, s.tables), attempt, MembersBuilt(s.members),
          IF Cardinality(s.members) < 2 THEN {} ELSE s.members, seen)

TearDown(s, attempt) ==
  Execute(PlanTeardown(s.rules, s.tables), attempt, {}, {}, Seen(s))

\* Refused: only the dead-man's check goes on, to hand the routing back.
Refuse ==
  run' = IF run.verb = "check" THEN [run EXCEPT !.phase = "handback"] ELSE IdleRun

\* multipath_apply up to its first execute().
Plan ==
  /\ run.phase = "plan"
  /\ \E s \in Snapshots :
       /\ Reads(s)
       /\ \/ ForeignConflicts(s.rules, s.tables, flag) /\ Refuse
          \/ ~ForeignConflicts(s.rules, s.tables, flag) /\ flag /\ Build(s, "first", Seen(s))
          \/ ~ForeignConflicts(s.rules, s.tables, flag) /\ ~flag /\ TearDown(s, "first")
  /\ UNCHANGED <<kernel, link, addr, saved, flag, status>>

\* "Cannot find device": rediscover once, with no new look at conflicts.
Replan ==
  /\ run.phase = "replan"
  /\ \E s \in Snapshots : Reads(s) /\ Build(s, "second", run.seen)
  /\ UNCHANGED <<kernel, link, addr, saved, flag, status>>

\* multipath_check after a failure or a refusal.
HandBack ==
  /\ run.phase = "handback"
  /\ \E s \in Snapshots : Reads(s) /\ TearDown(s, "handback")
  /\ UNCHANGED <<kernel, link, addr, saved, flag, status>>

-----------------------------------------------------------------------------
(* execute(): one step at a time. *)

Due(s) == run.phase = "exec" /\ s \in run.plan /\ \A q \in run.plan : s.at <= q.at

\* Mutant: errors before the swap do not stop it.
Unstoppable == FALSE

\* A plan with a swap stops at the first command after an error before the swap.
Blocked == run.failed /\ run.hasSwap /\ ~run.swapped

Command(s) == Due(s) /\ ~Blocked

\* The step is behind us; `result' is what the command returned.
Ran(s, result) ==
  run' = [run EXCEPT !.plan = @ \ {s}, !.swapped = @ \/ IsSwap(s),
                     !.failed = @ \/ result # "ok", !.nodev = @ \/ result = "nodev"]

\* Any command may fail; one that names a device that is gone may fail at no cost.
May(result) == IF result = "ok" THEN Peace ELSE Trouble

MayReplace(devs, result) == IF devs \subseteq Up THEN May(result) ELSE Peace

AddRule(s) ==
  /\ Command(s) /\ s.op = "addrule"
  /\ \/ /\ \E r \in rules : SameRule(r, s.rule)        \* "File exists"
        /\ Ran(s, "fail") /\ Peace
        /\ rules' = rules
     \/ /\ ~ \E r \in rules : SameRule(r, s.rule)
        /\ \E result \in {"ok", "fail"} :
             /\ Ran(s, result) /\ May(result)
             /\ rules' = IF result = "ok" THEN rules \union {s.rule} ELSE rules
  /\ UNCHANGED <<link, addr, tables, sysctl, lost, saved, flag, status>>

\* "No such" is no error, so neither is a rule that is not there.
DelRule(s) ==
  /\ Command(s) /\ s.op = "delrule"
  /\ \E result \in {"ok", "fail"} :
       /\ Ran(s, result) /\ May(result)
       /\ rules' = IF result = "ok" THEN {r \in rules : ~SameRule(r, s.rule)} ELSE rules
  /\ UNCHANGED <<link, addr, tables, sysctl, lost, saved, flag, status>>

ReplaceRoute(s) ==
  /\ Command(s) /\ s.op = "replace"
  /\ \E result \in {"ok", "fail", "nodev"} :
       /\ Ran(s, result) /\ MayReplace(s.devs, result)
       /\ tables' = IF result = "ok"
                    THEN [tables EXCEPT ![s.table] = [devs |-> s.devs, owner |-> "wifimimo"]]
                    ELSE tables
  /\ UNCHANGED <<link, addr, rules, sysctl, lost, saved, flag, status>>

\* The multipath route is deleted whatever its nexthops; a radio's by its device.
DelRoute(s) ==
  /\ Command(s) /\ s.op = "del"
  /\ \E result \in {"ok", "fail"} :
       /\ Ran(s, result) /\ May(result)
       /\ tables' = IF result = "ok" /\ (s.table = EcmpTable \/ tables[s.table].devs = s.devs)
                    THEN [tables EXCEPT ![s.table] = NoRoute] ELSE tables
  /\ UNCHANGED <<link, addr, rules, sysctl, lost, saved, flag, status>>

FlushTable(s) ==
  /\ Command(s) /\ s.op = "flush"
  /\ \E result \in {"ok", "fail"} :
       /\ Ran(s, result) /\ May(result)
       /\ tables' = IF result = "ok" /\ (s.whole \/ tables[s.table].owner = "wifimimo")
                    THEN [tables EXCEPT ![s.table] = NoRoute] ELSE tables
  /\ UNCHANGED <<link, addr, rules, sysctl, lost, saved, flag, status>>

\* A sysctl write is not a command: an earlier error does not stop it.  Its original is
\* recorded once, whatever the read brought; without a path the write fails at no cost.
WriteSysctl(s) ==
  /\ Due(s) /\ s.op = "sysctl"
  /\ \E result \in {"ok", "fail"} :
       /\ IF sysctl[s.radio] = "none" THEN result = "fail" /\ Peace ELSE May(result)
       /\ run' = [run EXCEPT !.plan = @ \ {s},
                             !.known[s.radio] = IF @ = "unsaved" THEN sysctl[s.radio] ELSE @,
                             !.failed = @ \/ result # "ok"]
       /\ sysctl' = IF result = "ok" THEN [sysctl EXCEPT ![s.radio] = "ours"] ELSE sysctl
       /\ lost' = IF result = "ok" /\ run.known[s.radio] = "none"
                  THEN lost \union {s.radio} ELSE lost
  /\ UNCHANGED <<link, addr, rules, tables, saved, flag, status>>

\* Mutant: the file goes before the values are written back.
DropSysctls(s) ==
  /\ Due(s) /\ s.op = "restore"
  /\ run' = [run EXCEPT !.plan = @ \ {s}, !.known = NoRecord]
  /\ saved' = NoRecord
  /\ UNCHANGED <<world, rules, tables, sysctl, lost, flag, status>>

\* What is written back: nothing where the record is empty or the path is gone.
Restorable == {r \in Radios : run.known[r] \notin {"unsaved", "none"} /\ sysctl[r] # "none"}

\* A write that fails is passed over, and the file is deleted all the same.
RestoreSysctls(s) ==
  /\ Due(s) /\ s.op = "restore"
  /\ \E failing \in SUBSET Restorable :
       /\ IF failing = {} THEN Peace ELSE Trouble
       /\ sysctl' = [r \in Radios |->
                       IF r \in Restorable \ failing THEN run.known[r] ELSE sysctl[r]]
       /\ lost' = lost \union {r \in failing : sysctl[r] = "ours"}
  /\ run' = [run EXCEPT !.plan = @ \ {s}, !.known = NoRecord]
  /\ saved' = NoRecord
  /\ UNCHANGED <<link, addr, rules, tables, flag, status>>

Stops == \/ run.plan = {}
         \/ Blocked /\ \A s \in run.plan : Due(s) => s.op # "sysctl"

\* The plan is over: sysctl-saved.json is written, and the run goes on or ends.
EndExecute ==
  /\ run.phase = "exec" /\ Stops
  /\ saved' = run.known
  /\ \/ /\ run.attempt = "first" /\ flag /\ run.nodev
        /\ run' = [run EXCEPT !.phase = "replan"]
        /\ UNCHANGED status
     \/ /\ ~(run.attempt = "first" /\ flag /\ run.nodev)
        /\ run.verb = "check" /\ run.failed /\ run.attempt # "handback"
        /\ run' = [run EXCEPT !.phase = "handback"]
        /\ UNCHANGED status
     \/ /\ ~(run.attempt = "first" /\ flag /\ run.nodev)
        /\ ~(run.verb = "check" /\ run.failed /\ run.attempt # "handback")
        /\ run' = IdleRun
        /\ status' = [members |-> run.members,
                      active  |-> run.members # {} /\ ~run.failed]
  /\ UNCHANGED <<kernel, world, flag>>

\* The run is killed: the lock and its memory go with it, nothing is written.
Killed ==
  /\ Kills /\ run.phase # "idle" /\ Trouble
  /\ run' = IdleRun
  /\ UNCHANGED <<kernel, link, addr, saved, flag, status>>

ExecuteStep ==
  \E s \in run.plan :
    \/ AddRule(s)  \/ DelRule(s)  \/ ReplaceRoute(s) \/ DelRoute(s)
    \/ FlushTable(s) \/ WriteSysctl(s) \/ RestoreSysctls(s)

Helper == Plan \/ Replan \/ HandBack \/ ExecuteStep \/ EndExecute

-----------------------------------------------------------------------------
(* The world around it. *)

Moves == Trouble /\ run' = IF run.phase = "exec" THEN [run EXCEPT !.moved = TRUE] ELSE run

\* A radio loses its link.
RadioLeaves(r) ==
  /\ Moves /\ link[r] # "gone"
  /\ link' = [link EXCEPT ![r] = "gone"]
  /\ UNCHANGED <<kernel, addr, saved, flag, status>>

\* Unplugged, with or without a link: the kernel drops its routes and its sysctls.
RadioUnplugged(r) ==
  /\ Moves /\ sysctl[r] # "none"
  /\ link' = [link EXCEPT ![r] = "gone"]
  /\ tables' = [t \in Tables |->
                  IF tables[t].devs \subseteq {r} THEN NoRoute
                  ELSE [tables[t] EXCEPT !.devs = @ \ {r}]]
  /\ sysctl' = [sysctl EXCEPT ![r] = "none"]
  /\ lost' = lost \ {r}
  /\ UNCHANGED <<addr, rules, saved, flag, status>>

\* A radio gets its link; plugged in first where it was not.
RadioJoins(r) ==
  /\ Moves /\ link[r] = "gone"
  /\ link' = [link EXCEPT ![r] = "routable"]
  /\ sysctl' = [sysctl EXCEPT ![r] = IF @ = "none" THEN "system" ELSE @]
  /\ \E l \in Leases : addr' = [addr EXCEPT ![r] = l]
  /\ UNCHANGED <<rules, tables, lost, saved, flag, status>>

HealthChanges(r) ==
  /\ Moves /\ link[r] # "gone"
  /\ link' = [link EXCEPT ![r] = IF @ = "healthy" THEN "routable" ELSE "healthy"]
  /\ UNCHANGED <<kernel, addr, saved, flag, status>>

VpnTakesTable(t) ==
  /\ Moves /\ tables[t] = NoRoute
  /\ tables' = [tables EXCEPT ![t] = [devs |-> {Tun}, owner |-> "vpn"]]
  /\ UNCHANGED <<rules, sysctl, lost, link, addr, saved, flag, status>>

VpnLeavesTable(t) ==
  /\ Moves /\ tables[t].owner = "vpn"
  /\ tables' = [tables EXCEPT ![t] = NoRoute]
  /\ UNCHANGED <<rules, sysctl, lost, link, addr, saved, flag, status>>

VpnRule(p) == [prio |-> p, src |-> AnySrc, table |-> VpnTable, owner |-> "vpn"]

VpnTogglesRule(p) ==
  /\ Moves
  /\ rules' = IF VpnRule(p) \in rules THEN rules \ {VpnRule(p)} ELSE rules \union {VpnRule(p)}
  /\ UNCHANGED <<tables, sysctl, lost, link, addr, saved, flag, status>>

\* From here on nothing moves, no command fails and no run is killed.
Settle ==
  /\ left > 0 /\ left' = 0
  /\ UNCHANGED <<kernel, link, addr, saved, flag, status, run>>

Environment ==
  \/ \E r \in Radios : RadioLeaves(r) \/ RadioUnplugged(r) \/ RadioJoins(r) \/ HealthChanges(r)
  \/ \E t \in VpnTables : VpnTakesTable(t) \/ VpnLeavesTable(t)
  \/ \E p \in VpnPrios : VpnTogglesRule(p)
  \/ Settle

Next == (\E v \in Verbs : Begin(v)) \/ Helper \/ Killed \/ Environment

\* Fair: a run that holds the lock goes on, and the dead-man's timer fires.
Fairness == WF_vars(Helper) /\ WF_vars(Begin("check"))

Spec     == Init /\ [][Next]_vars
FairSpec == Spec /\ Fairness

-----------------------------------------------------------------------------
(* Properties. *)

\* The layout plan_apply aims at for the members M is complete: every rule, every
\* radio's table, every sysctl.
LaidOut(M) ==
  /\ \A w \in DesiredRules(M) : \E r \in rules : SameRule(r, w)
  /\ \A r \in M : tables[TableOf(r, M)].devs = {r} /\ sysctl[r] = "ours"

(* "A half-built layout never goes live": unless the world moved under the *)
(* run, the multipath route changes to new nexthops only once every rule,  *)
(* radio table and sysctl of the layout is in place, whatever commands     *)
(* failed on the way, on the first plan as on the second (execute).        *)
NeverHalfBuilt ==
  [][ (Helper /\ tables'[EcmpTable] # tables[EcmpTable] /\ tables'[EcmpTable] # NoRoute
         /\ ~run.moved) => LaidOut(run.target) ]_vars

(* Foreign rules and routes that a run saw in its snapshot survive each of *)
(* its steps, also those of the hand-back the dead-man's timer runs every  *)
(* 20 s while a VPN shares the numbers (plan_teardown, foreign_conflicts). *)
ForeignKept ==
  [][ Helper =>
        /\ run.seen.rules \intersect rules \subseteq rules'
        /\ \A t \in run.seen.tables :
             tables[t].owner \in {"vpn", "untagged"} => tables'[t] = tables[t] ]_vars

(* While no run is killed, the original of every sysctl wifimimo changed   *)
(* is on disk or in the memory of the run that changed it, so that         *)
(* disabling multipath can restore it, but for two cases the code gives    *)
(* up: an original first looked at while its radio was unplugged, recorded *)
(* as "" and not read again, and one that could not be written back        *)
(* (execute, _saved_sysctls).                                              *)
OriginalsKept ==
  \A r \in Radios \ lost :
    sysctl[r] = "ours" => IF run.phase = "exec" THEN run.known[r] = "system"
                                                ELSE saved[r] = "system"

OwnNothing ==
  /\ \A r \in OwnedRules(rules) : ~RuleIsOurs(r)
  /\ \A t \in Tables : tables[t].owner # "wifimimo"

Serving(M) ==
  /\ LaidOut(M)
  /\ \A r \in OwnedRules(rules) : \E w \in DesiredRules(M) : SameRule(r, w)
  /\ tables[EcmpTable].devs = Healthy
  /\ \A t \in RadioTables : tables[t] # NoRoute => \E r \in M : t = TableOf(r, M)
  /\ status.members = MembersBuilt(M)

Converged ==
  IF flag /\ Cardinality(Routable) >= 2 /\ ~ForeignConflicts(rules, tables, TRUE)
  THEN Serving(Routable)
  ELSE OwnNothing

(* Once the world stops moving, the dead-man's timer alone brings the      *)
(* routing where it should be and keeps it there: the layout of the        *)
(* routable radios with the healthy ones as nexthops, or, switched off,    *)
(* refused or with fewer than two radios, nothing of wifimimo's at all.    *)
Converges == [](Calm => <>[]Converged)

=============================================================================
