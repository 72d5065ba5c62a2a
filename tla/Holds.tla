------------------------------- MODULE Holds -------------------------------
(***************************************************************************)
(* Who holds each radio's NetworkManager autoconnect (src/wifimimo_nm.py). *)
(*                                                                         *)
(* While it follows a network the daemon switches autoconnect off on every *)
(* radio that has it on (`hold') and on those it parks, and remembers them *)
(* in memory and in follow.json, because nothing else would switch it on   *)
(* again.  It hands the radios back when multipath is switched off or      *)
(* fewer than two radios are left (_stand_down), when the followed network *)
(* is lost, when no radio passes traffic (the failsafe) and, by            *)
(* `wifimimo-daemon --release', whenever the daemon stops.                 *)
(*                                                                         *)
(* Every nmcli command is a step of its own: it may fail, the user may act *)
(* before the next one, and the daemon may die before follow.json is       *)
(* written.  Which radio the planner joins or parks, and when a network    *)
(* counts as lost or traffic as missing, is any choice here.               *)
(***************************************************************************)
EXTENDS Integers, FiniteSets

CONSTANTS
  Radios,       \* wifi radios
  Faults,       \* the faults that strike, among those of AllFaults
  MaxTrouble    \* bound on what goes wrong or is done to the daemon

AllFaults ==
  {"crash_mid_poll",      \* the daemon dies between its commands and saving memory
   "rfkill",              \* a radio turns unavailable (NM state below 30)
   "lost_release_fails",  \* nmcli fails when a lost network's radios are released
   "on_mid_poll"}         \* autoconnect comes on between two commands of a poll

ASSUME FiniteRadios      == IsFiniteSet(Radios)
ASSUME FaultsAssumption  == Faults \subseteq AllFaults
ASSUME TroubleAssumption == MaxTrouble \in Nat

VARIABLES
  device,    \* NM's state of each radio
  auto,      \* NM's autoconnect of each radio (TRUE, and meaningless, when absent)
  userOff,   \* the radios whose autoconnect the user switched off
  flag,      \* /etc/wifimimo/multipath-enabled exists
  mem,       \* Follower.memory: radios held and parked
  disk,      \* follow.json
  failsafe,  \* before failsafe_until: NetworkManager has the radios
  job,       \* what the daemon, or its ExecStopPost, is doing
  left       \* how much trouble is still to come

nm     == <<device, auto, userOff>>
daemon == <<mem, disk, failsafe, job>>
vars   == <<device, auto, userOff, flag, mem, disk, failsafe, job, left>>

Memory  == [held : SUBSET Radios, parked : SUBSET Radios]
Nothing == [held |-> {}, parked |-> {}]

\* The radios a memory knows to be switched off.
Recorded(m) == m.held \union m.parked

Ops   == {"down", "hold", "join", "move", "park", "release"}
Order == [down |-> 1, hold |-> 1, join |-> 2, move |-> 2, park |-> 3, release |-> 1]
Todo  == [op : Ops, radio : Radios]

\* A poll that follows, releases after a lost network, hands back for the failsafe,
\* or stands down; and the --release run after a stop.
Kinds  == {"follow", "lost", "failsafe", "standdown", "release"}
Phases == {"idle", "acting", "dead", "stopped"}

Job == [phase  : Phases,
        kind   : Kinds,
        todo   : SUBSET Todo,     \* the commands still to run
        next   : Memory,          \* the memory to keep when they are done
        failed : SUBSET Radios]   \* radios whose release failed

Quiet(phase) == [phase |-> phase, kind |-> "follow", todo |-> {}, next |-> Nothing, failed |-> {}]

TypeOK ==
  /\ device \in [Radios -> {"absent", "unavailable", "idle", "active"}]
  /\ auto \in [Radios -> BOOLEAN]
  /\ userOff \subseteq {r \in Radios : ~auto[r]}
  /\ flag \in BOOLEAN
  /\ mem \in Memory
  /\ disk \in Memory
  /\ failsafe \in BOOLEAN
  /\ job \in Job
  /\ left \in 0..MaxTrouble

Init ==
  /\ device \in [Radios -> {"absent", "idle", "active"}]
  /\ auto = [r \in Radios |-> TRUE]
  /\ userOff = {}
  /\ flag \in BOOLEAN
  /\ mem = Nothing
  /\ disk = Nothing
  /\ failsafe = FALSE
  /\ job = Quiet("idle")
  /\ left = MaxTrouble

Calm    == left = 0
Trouble == left > 0 /\ left' = left - 1
Peace   == UNCHANGED left

-----------------------------------------------------------------------------
(* Follower.step: one poll plans its commands. *)

Available == {r \in Radios : device[r] \in {"idle", "active"}}

Act(kind, todo, next) ==
  job' = [phase |-> "acting", kind |-> kind, todo |-> todo, next |-> next, failed |-> {}]

\* Mutants: the held, or the unavailable, radios are overlooked.
ReleasesParked(m) == {[op |-> "release", radio |-> r] : r \in m.parked}
ReleasesAvailable(m) == {[op |-> "release", radio |-> r] : r \in Recorded(m) \intersect Available}

Releases(m) == {[op |-> "release", radio |-> r] : r \in Recorded(m)}

Polls(poll) == job.phase = "idle" /\ poll /\ Peace /\ UNCHANGED <<nm, flag, mem, disk>>

\* Switched off, or fewer than two radios available: _stand_down.
StandDown ==
  Polls(/\ ~flag \/ Cardinality(Available) < 2
        /\ Act("standdown", Releases(mem), Nothing)
        /\ failsafe' = FALSE)

\* Any later path of step() needs the switch, two radios and no failsafe window.
InCharge == flag /\ Cardinality(Available) >= 2 /\ ~failsafe

\* No traffic for FAILSAFE_AFTER_S: plan_release_holds.
Failsafe ==
  Polls(InCharge /\ Act("failsafe", Releases(mem), Nothing) /\ failsafe' = TRUE)

\* plan_follow sees the followed network gone for LEADER_LOST_S.
LoseNetwork ==
  Polls(/\ InCharge
        /\ LET known == [mem EXCEPT !.parked = @ \intersect Available]
           IN Act("lost", Releases(known), Nothing)
        /\ UNCHANGED failsafe)

\* plan_follow returns early: no leader, a profile it won't follow, or the user's
\* disconnect of the leader, which takes the followers down.
FollowNothing ==
  Polls(/\ InCharge
        /\ \E downs \in SUBSET {r \in Available : device[r] = "active"} :
             Act("follow", {[op |-> "down", radio |-> r] : r \in downs},
                 [mem EXCEPT !.parked = @ \intersect Available])
        /\ UNCHANGED failsafe)

\* plan_follow to the end: autoconnect is held wherever it is on, at most one radio
\* joins or moves, and idle, abandoned or displaced radios are parked.
Follow ==
  Polls(/\ InCharge
        /\ \E way \in {"join", "move"}, joins \in {{}} \union {{r} : r \in Available} :
           \E parks \in SUBSET (Available \ joins) :
             LET holds == {r \in Available : auto[r]}
                 do(op, S) == {[op |-> op, radio |-> r] : r \in S}
             IN /\ way = "move" => joins # {}
                /\ Act("follow",
                       do("hold", holds) \union do(way, joins) \union do("park", parks),
                       [held   |-> (mem.held \union holds) \intersect Available,
                        parked |-> ((mem.parked \intersect Available) \ joins) \union parks])
        /\ UNCHANGED failsafe)

-----------------------------------------------------------------------------
(* Follower._run: the commands, one at a time. *)

Due(t) ==
  job.phase = "acting" /\ t \in job.todo /\ \A u \in job.todo : Order[t.op] <= Order[u.op]

Present(r) == device[r] # "absent"

Done(t, failed) ==
  job' = [job EXCEPT !.todo = @ \ {t}, !.failed = @ \union failed]

\* nmcli succeeds for nothing, or fails at the price of trouble.  It always fails on
\* a radio that is gone.
Succeeds(r) == Present(r) /\ Peace
Fails(r)    == IF Present(r) THEN Trouble ELSE Peace

\* Mutant: a radio switched on again still counts as switched off by the user.
SetAutoOnly(r, on) == auto' = [auto EXCEPT ![r] = on] /\ userOff' = userOff

SetAuto(r, on) ==
  /\ auto' = [auto EXCEPT ![r] = on]
  /\ userOff' = IF on THEN userOff \ {r} ELSE userOff

\* `connection down', which leaves autoconnect alone.
TakeDown(t) ==
  /\ Due(t) /\ t.op = "down"
  /\ Done(t, {})
  /\ \/ /\ Succeeds(t.radio) /\ UNCHANGED <<auto, userOff>>
        /\ device' = [device EXCEPT ![t.radio] = IF @ = "active" THEN "idle" ELSE @]
     \/ Fails(t.radio) /\ UNCHANGED nm
  /\ UNCHANGED <<flag, mem, disk, failsafe>>

Hold(t) ==
  /\ Due(t) /\ t.op = "hold"
  /\ Done(t, {})
  /\ \/ Succeeds(t.radio) /\ SetAuto(t.radio, FALSE) /\ UNCHANGED device
     \/ Fails(t.radio) /\ UNCHANGED nm
  /\ UNCHANGED <<flag, mem, disk, failsafe>>

\* An explicit activation switches autoconnect on again (NM's doing).
Join(t) ==
  /\ Due(t) /\ t.op = "join"
  /\ Done(t, {})
  /\ \/ /\ Succeeds(t.radio) /\ SetAuto(t.radio, TRUE)
        /\ device' = [device EXCEPT ![t.radio] = "active"]
     \/ Fails(t.radio) /\ UNCHANGED nm
  /\ UNCHANGED <<flag, mem, disk, failsafe>>

\* `device disconnect' switches autoconnect off; the activation may then fail.
Move(t) ==
  /\ Due(t) /\ t.op = "move"
  /\ Done(t, {})
  /\ \/ /\ Succeeds(t.radio) /\ SetAuto(t.radio, TRUE)
        /\ device' = [device EXCEPT ![t.radio] = "active"]
     \/ /\ Present(t.radio) /\ Trouble /\ SetAuto(t.radio, FALSE)
        /\ device' = [device EXCEPT ![t.radio] = "idle"]
     \/ Fails(t.radio) /\ UNCHANGED nm
  /\ UNCHANGED <<flag, mem, disk, failsafe>>

\* Autoconnect off, then `device disconnect', which may fail on its own.
Park(t) ==
  /\ Due(t) /\ t.op = "park"
  /\ Done(t, {})
  /\ \/ /\ Succeeds(t.radio) /\ SetAuto(t.radio, FALSE)
        /\ device' = [device EXCEPT ![t.radio] = IF @ = "active" THEN "idle" ELSE @]
     \/ Present(t.radio) /\ Trouble /\ SetAuto(t.radio, FALSE) /\ UNCHANGED device
     \/ Fails(t.radio) /\ UNCHANGED nm
  /\ UNCHANGED <<flag, mem, disk, failsafe>>

Release(t) ==
  /\ Due(t) /\ t.op = "release"
  /\ \/ Succeeds(t.radio) /\ SetAuto(t.radio, TRUE) /\ UNCHANGED device /\ Done(t, {})
     \/ /\ job.kind = "lost" /\ Present(t.radio) => "lost_release_fails" \in Faults
        /\ Fails(t.radio) /\ UNCHANGED nm /\ Done(t, {t.radio})
  /\ UNCHANGED <<flag, mem, disk, failsafe>>

\* Mutant: failed releases are forgotten.
KeptNothing == IF job.kind \in {"follow", "lost"} THEN job.next ELSE Nothing

\* The commands are done.  A stand-down, a failsafe and a --release keep the radios
\* whose release failed (keep_unreleased); a poll keeps the memory it planned.
Kept ==
  IF job.kind \in {"follow", "lost"} THEN job.next
  ELSE [Nothing EXCEPT !.held = job.failed]

Save ==
  /\ job.phase = "acting" /\ job.todo = {}
  /\ disk' = Kept
  /\ mem'  = IF job.kind = "release" THEN mem ELSE Kept
  /\ job'  = Quiet(IF job.kind = "release" THEN "stopped" ELSE "idle")
  /\ UNCHANGED <<nm, flag, failsafe, left>>

\* ExecStopPost: `wifimimo-daemon --release' reads follow.json.
StopPost ==
  /\ job.phase = "dead"
  /\ Act("release", Releases(disk), Nothing)
  /\ UNCHANGED <<nm, flag, mem, disk, failsafe, left>>

Poll    == StandDown \/ Failsafe \/ LoseNetwork \/ FollowNothing \/ Follow
Command ==
  \E t \in job.todo :
    TakeDown(t) \/ Hold(t) \/ Join(t) \/ Move(t) \/ Park(t) \/ Release(t)
Daemon  == Poll \/ Command \/ Save \/ StopPost

-----------------------------------------------------------------------------
(* What happens to the daemon. *)

\* The daemon is stopped, crashes or is killed by its watchdog; --release may be
\* cut short too.  Nothing in memory survives.
Die ==
  /\ job.phase \in {"idle", "acting"} /\ Trouble
  /\ job.phase = "acting" /\ job.kind \in {"follow", "lost"} => "crash_mid_poll" \in Faults
  /\ job' = Quiet(IF job.kind = "release" THEN "stopped" ELSE "dead")
  /\ mem' = Nothing
  /\ failsafe' = FALSE
  /\ UNCHANGED <<nm, flag, disk>>

\* Follower.__init__ reads follow.json.
Start ==
  /\ job.phase = "stopped"
  /\ mem' = disk
  /\ job' = Quiet("idle")
  /\ UNCHANGED <<nm, flag, disk, failsafe, left>>

\* FAILSAFE_HOLDOFF_S are over.
FailsafeEnds ==
  /\ failsafe /\ job.phase = "idle"
  /\ failsafe' = FALSE
  /\ UNCHANGED <<nm, flag, mem, disk, job, left>>

Switch ==
  /\ Trouble
  /\ flag' = ~flag
  /\ UNCHANGED <<nm, daemon>>

-----------------------------------------------------------------------------
(* What happens to the radios, in NetworkManager's hands. *)

Happens == Trouble /\ UNCHANGED <<flag, daemon>>

\* Switches autoconnect on, or back on: not between two commands, but for that fault.
BetweenPolls == job.phase = "acting" => "on_mid_poll" \in Faults

\* The user (`nmcli device set', the applet's disconnect) switches autoconnect off.
UserTurnsOff(r) ==
  /\ Happens /\ Present(r) /\ auto[r]
  /\ auto' = [auto EXCEPT ![r] = FALSE]
  /\ userOff' = userOff \union {r}
  /\ device' = [device EXCEPT ![r] = IF @ = "active" THEN "idle" ELSE @]

\* The user switches it on, or activates a connection on the radio.
UserTurnsOn(r) ==
  /\ Happens /\ BetweenPolls /\ Present(r)
  /\ SetAuto(r, TRUE)
  /\ device' = [device EXCEPT ![r] = IF @ = "idle" THEN "active" ELSE @]

\* The link comes and goes (autoconnect, range).
LinkChanges(r) ==
  /\ Happens /\ device[r] \in {"idle", "active"}
  /\ device[r] = "idle" => auto[r]
  /\ device' = [device EXCEPT ![r] = IF @ = "idle" THEN "active" ELSE "idle"]
  /\ UNCHANGED <<auto, userOff>>

\* Unplugged: NetworkManager forgets the device, and autoconnect is on when it is back.
Unplug(r) ==
  /\ Happens /\ Present(r)
  /\ device' = [device EXCEPT ![r] = "absent"]
  /\ SetAuto(r, TRUE)

Plug(r) ==
  /\ Happens /\ BetweenPolls /\ device[r] = "absent"
  /\ device' = [device EXCEPT ![r] = "idle"]
  /\ UNCHANGED <<auto, userOff>>

\* rfkill and back: NetworkManager keeps the device and its autoconnect.
Rfkill(r) ==
  /\ "rfkill" \in Faults
  /\ Happens /\ Present(r)
  /\ device' = [device EXCEPT ![r] = IF @ = "unavailable" THEN "idle" ELSE "unavailable"]
  /\ UNCHANGED <<auto, userOff>>

\* NetworkManager restarts: autoconnect is on everywhere (it was off in memory only).
NMRestarts ==
  /\ Happens /\ BetweenPolls
  /\ auto' = [r \in Radios |-> TRUE]
  /\ userOff' = {}
  /\ UNCHANGED device

\* From here on nothing goes wrong and nobody interferes.
Settle == left > 0 /\ left' = 0 /\ UNCHANGED <<nm, flag, daemon>>

Environment ==
  \/ Settle
  \/ Die \/ Start \/ FailsafeEnds \/ Switch \/ NMRestarts
  \/ \E r \in Radios :
       \/ UserTurnsOff(r) \/ UserTurnsOn(r) \/ LinkChanges(r)
       \/ Unplug(r) \/ Plug(r) \/ Rfkill(r)

Next == Daemon \/ Environment

\* The daemon polls every 1 to 5 s, and systemd runs ExecStopPost after every stop.
Fairness == WF_vars(Daemon)

Spec     == Init /\ [][Next]_vars
FairSpec == Spec /\ Fairness

-----------------------------------------------------------------------------
(* Properties. *)

\* Autoconnect is off and the user did not ask for it: wifimimo's doing.
Blocked(r) == Present(r) /\ ~auto[r] /\ r \notin userOff

(* "Forgetting it would leave that radio's autoconnect off with nothing to *)
(* undo it" (keep_unreleased): a radio that wifimimo blocked is recorded   *)
(* in follow.json, where --release and the next daemon look for it, or in  *)
(* the memory that the running poll is about to save there.                *)
NeverForgotten ==
  \A r \in Radios :
    Blocked(r) => \/ r \in Recorded(disk)
                  \/ job.phase = "acting" /\ r \in Recorded(job.next)

Serving == job.phase = "idle" \/ (job.phase = "acting" /\ job.kind # "release")

StandsDown == Serving /\ (~flag \/ Cardinality(Available) < 2)

NoneBlocked == \A r \in Radios : ~Blocked(r)

(* With multipath off, or fewer than two radios available, a daemon left   *)
(* in peace gives every radio back for good (README, "releases its         *)
(* autoconnect holds"), and the ExecStopPost of one that died gives every  *)
(* radio back before the next one starts ("crash included").               *)
HandedBack ==
  /\ []((Calm /\ StandsDown) => <>[]NoneBlocked)
  /\ []((Calm /\ job.phase = "dead") => <>NoneBlocked)

(* Whatever struck before, a radio that the memory of the standing-down    *)
(* daemon, or follow.json at a stop, still names gets its autoconnect back *)
(* (plan_release, release_holds, keep_unreleased).                         *)
RecordedHandedBack ==
  \A r \in Radios :
    /\ []((Calm /\ job.phase = "idle" /\ StandsDown /\ r \in Recorded(mem)) => <>[]~Blocked(r))
    /\ []((Calm /\ job.phase = "dead" /\ r \in Recorded(disk)) => <>~Blocked(r))

=============================================================================
