------------------------------- MODULE Follow -------------------------------
(***************************************************************************)
(* Which network the radios follow (src/wifimimo_nm.py, plan_follow and    *)
(* Follower.step).                                                         *)
(*                                                                         *)
(* Every poll compares NetworkManager's device table with the one of the   *)
(* last poll.  A radio on another profile than before is the user's choice *)
(* of a network, unless wifimimo joined it, NetworkManager fell back, the  *)
(* radio is new or the network is the one followed already.  The radio the *)
(* choice was made on is the leader; when its link goes another radio on   *)
(* the network carries the choice on, and when the user disconnects it the *)
(* followers are taken down with it.  The other radios join the leader's   *)
(* profile, which is changed for that: its binding to one radio is         *)
(* cleared, its multi-connect setting raised and its BSSID pinned for the  *)
(* moment of a join.                                                       *)
(*                                                                         *)
(* The poll plans against a snapshot, then runs its nmcli commands one by  *)
(* one while radios, NetworkManager and the user go on, then saves.  The   *)
(* planner's preferences (module Placement), the judgement of access points *)
(* and the pause after a failed join are any choice here; NetworkManager   *)
(* may autoconnect whenever a radio is idle (module Holds says when it     *)
(* can); commands of one kind (the parks, the downs) are one step.         *)
(***************************************************************************)
EXTENDS Integers, Sequences, FiniteSets

CONSTANTS
  Radios,      \* wifi radios
  Profiles,    \* connection profiles
  NetOf,       \* the network of each profile
  Bound,       \* the profiles saved for one radio only (interface-name)
  UserMany,    \* the profiles the user lets several radios share
  Faults,      \* the faults that strike, among those of AllFaults
  Scenes,      \* pairs: how many radios the machine has, and how often the user,
               \* NetworkManager and the air interfere (a bound)
  None         \* no profile, no network, no radio

AllFaults ==
  {"crash_mid_poll",   \* the daemon dies between its commands and saving memory
   "parked_released",  \* a leader's radio is handed back while parked, and left there
   "multi_fails",      \* nmcli fails to change a profile's multi-connect
   "down_fails",       \* nmcli fails to list the active connections, or to take one down
   "command_fails",    \* nmcli fails to unbind a profile or to disconnect a radio
   "stays_off",        \* after `up' a parked radio reads as switched off: for now, or for good
   "pin_left",         \* the BSSID pinned for a join is not cleared after it
   "fast_replug"}      \* a radio is unplugged and back between two polls

Nets == {NetOf[p] : p \in Profiles}

ASSUME FiniteRadios     == IsFiniteSet(Radios)
ASSUME NoneIsNothing    == None \notin Profiles \union Nets \union Radios
ASSUME NetAssumption    == NetOf \in [Profiles -> Nets]
ASSUME ProfileSettings  == Bound \subseteq Profiles /\ UserMany \subseteq Profiles
ASSUME FaultsAssumption == Faults \subseteq AllFaults
ASSUME SceneAssumption  == Scenes \subseteq Nat \X Nat

VARIABLES
  link,      \* NM's view of each radio: state, profile, reason 39
  profile,   \* each profile: saved, shared by several radios, bound, pinned
  flag,      \* /etc/wifimimo/multipath-enabled exists
  failsafe,  \* before failsafe_until: NetworkManager has the radios
  lost,      \* the followed network is out of sight for LEADER_LOST_S
  mem,       \* Follower.memory, and follow.json
  job,       \* the poll under way
  reasons,   \* history: what happened since the last review (FollowPromise)
  wish,      \* history: what the user said last, while it stands
  left       \* how much trouble is still to come

nm   == <<link, profile>>
vars == <<link, profile, flag, failsafe, lost, mem, job, reasons, wish, left>>

-----------------------------------------------------------------------------
(* State. *)

ProfileOrNone == Profiles \union {None}
RadioOrNone   == Radios \union {None}

\* "none": the machine has no such radio.  "starting": asked to activate, but reading as disconnected still.
Link == [at : {"none", "gone", "idle", "starting", "busy", "up"}, on : ProfileOrNone, asked : BOOLEAN]

Profile == [saved : BOOLEAN, many : BOOLEAN, bound : RadioOrNone, pinned : BOOLEAN]

\* memory["moves"][dev]: begun, judged ("settled", within FLAP_WINDOW_S), or old, which a
\* judged one is at once when there is no previous profile to fall back to but the target.
Stages == {"begun", "judged", "old"}
Move   == [target : ProfileOrNone, previous : ProfileOrNone, stage : Stages]
Still  == [target |-> None, previous |-> None, stage |-> "old"]

Leader   == [on : ProfileOrNone, dev : RadioOrNone]
NoLeader == [on |-> None, dev |-> None]

Memory ==
  [fresh    : BOOLEAN,                    \* "last" not in memory: no baseline
   leader   : Leader,
   last     : [Radios -> ProfileOrNone],
   known    : SUBSET Radios,              \* memory["devices"]
   moves    : [Radios -> Move],
   parked   : SUBSET Radios,
   appeared : SUBSET Radios,              \* within NEW_RADIO_GRACE_S
   modified : SUBSET Profiles,
   tried    : SUBSET Profiles]            \* memory["unbind_tried"]

Forgotten(modified) ==
  [fresh |-> TRUE, leader |-> NoLeader, last |-> [r \in Radios |-> None], known |-> {},
   moves |-> [r \in Radios |-> Still], parked |-> {}, appeared |-> {},
   modified |-> modified, tried |-> {}]

Ops     == {"down", "unbind", "multi", "move", "up", "park", "restore"}
Command == [op : Ops, radios : SUBSET Radios, profiles : SUBSET Profiles]

Cmd(op, radios, profiles) == [op |-> op, radios |-> radios, profiles |-> profiles]

Job == [phase : {"idle", "acting"},
        todo  : Seq(Command),              \* the commands still to run
        next  : Memory,                    \* the memory to keep when they are done
        why   : SUBSET (Nets \union {None})]  \* the reasons this poll has seen

Rest == [phase |-> "idle", todo |-> <<>>, next |-> Forgotten({}), why |-> {}]

Wish   == [kind : {"none", "choice", "drop"}, net : Nets \union {None}, plain : BOOLEAN,
           met : BOOLEAN]                  \* a poll has seen it and is over
NoWish == [kind |-> "none", net |-> None, plain |-> FALSE, met |-> FALSE]

TypeOK ==
  /\ link \in [Radios -> Link]
  /\ profile \in [Profiles -> Profile]
  /\ flag \in BOOLEAN
  /\ failsafe \in BOOLEAN
  /\ lost \in BOOLEAN
  /\ mem \in Memory
  /\ job \in Job
  /\ reasons \subseteq Nets \union {None}
  /\ wish \in Wish
  /\ left \in Nat

Away == [at |-> "gone", on |-> None, asked |-> FALSE]
Idle(asked) == [at |-> "idle", on |-> None, asked |-> asked]
On(at, p) == [at |-> at, on |-> p, asked |-> FALSE]

Wifi == {r \in Radios : link[r].at \notin {"none", "gone"}}
Up   == {r \in Radios : link[r].at = "up"}

\* What `nmcli device show' says: the radio's profile, and that it is disconnected.
Uuid(r) == IF link[r].at \in {"busy", "up"} THEN link[r].on ELSE None
Disconnected(r) == link[r].at \in {"idle", "starting"}

\* The SSID behind a profile, "" when it has been deleted.
Ssid(p) == IF p \in Profiles /\ profile[p].saved THEN NetOf[p] ELSE None

OnNetwork(r, l) == Uuid(r) # None /\ (Uuid(r) = l.on \/ Ssid(Uuid(r)) = Ssid(l.on))

\* The daemon starts with at most one radio on a network and at most one unplugged.
Init ==
  /\ left \in {scene[2] : scene \in Scenes}
  /\ \E here, up, out \in SUBSET Radios, p \in Profiles \ Bound :
       /\ <<Cardinality(here), left>> \in Scenes
       /\ up \union out \subseteq here /\ up \intersect out = {}
       /\ Cardinality(up) <= 1 /\ Cardinality(out) <= 1
       /\ link = [r \in Radios |-> IF r \notin here THEN [Away EXCEPT !.at = "none"]
                                   ELSE IF r \in up THEN On("up", p)
                                   ELSE IF r \in out THEN Away ELSE Idle(FALSE)]
  /\ \E r \in Radios :
       profile = [p \in Profiles |-> [saved |-> TRUE, many |-> p \in UserMany, pinned |-> FALSE,
                                      bound |-> IF p \in Bound THEN r ELSE None]]
  /\ flag = TRUE
  /\ failsafe = FALSE
  /\ lost = FALSE
  /\ mem = Forgotten({})
  /\ job = Rest
  /\ reasons = {}
  /\ wish = NoWish

InCharge == flag /\ Cardinality(Wifi) >= 2 /\ ~failsafe

-----------------------------------------------------------------------------
(* plan_follow: who was activated since the last poll? *)

Ours(r) == mem.moves[r].target = Uuid(r)

\* NetworkManager fell back to the profile the radio had before our join.
Fallback(r) == mem.moves[r].previous = Uuid(r) /\ mem.moves[r].stage # "old"

Appeared == (mem.appeared \intersect Wifi) \union (IF mem.fresh THEN {} ELSE Wifi \ mem.known)

Changed ==
  {r \in Wifi \intersect mem.known : ~mem.fresh /\ Uuid(r) # None /\ Uuid(r) # mem.last[r]}

\* Mutants: what a radio that is new is on is taken for a choice; only the leader's own
\* radio has a say.
ActivatedNew == {r \in Changed : ~Fallback(r) /\ ~Ours(r)}
ActivatedLeader ==
  {r \in Changed : ~Fallback(r) /\ ~Ours(r) /\ r \notin Appeared /\ mem.leader.dev \in {r, None}}

Activated == {r \in Changed : ~Fallback(r) /\ ~Ours(r) /\ r \notin Appeared}

\* The radios are looked at in the order nmcli lists them, which is not ours to know,
\* and each one on another network than the leader's so far becomes the leader: the
\* last word may be that of any radio on another network than the followed one, or of
\* any radio at all if there is such a one before it.
Elsewhere == {r \in Activated : Ssid(Uuid(r)) # Ssid(mem.leader.on)}
Choosers  == IF Elsewhere = {} THEN {} ELSE Activated

\* Mutant: the connection is written where the device belongs.
LeaderNamed(r) == [on |-> Uuid(r), dev |-> Uuid(r)]

LeaderOn(r) == [on |-> Uuid(r), dev |-> r]

\* Without a leader the radio with the main default route is one, if there is such.
Leaders ==
  IF Choosers # {} THEN {LeaderOn(r) : r \in Choosers}
  ELSE IF mem.leader # NoLeader THEN {mem.leader}
  ELSE {NoLeader} \union {LeaderOn(r) : r \in Up}

\* What every path of plan_follow remembers.
Base(l) ==
  [mem EXCEPT !.fresh    = FALSE,
              !.leader   = l,
              !.last     = [r \in Radios |-> IF r \in Wifi THEN Uuid(r) ELSE None],
              !.parked   = @ \intersect Wifi,
              !.appeared = Appeared]

Plan(todo, next) ==
  /\ job' = [phase |-> "acting", todo |-> todo, next |-> next, why |-> reasons]
  /\ UNCHANGED <<nm, flag, failsafe, lost, mem, reasons, wish, left>>

\* The user disconnected the leader's radio: reason 39, and not parked by us.
UserLeft(l) ==
  /\ l # NoLeader /\ l.dev \in Wifi /\ Uuid(l.dev) # l.on
  /\ l.dev \notin mem.parked
  /\ Disconnected(l.dev) /\ link[l.dev].asked

\* Mutant: the followers stay.
LeaveFollowers(l) == Plan(<<>>, Base(NoLeader))

TakeFollowersDown(l) ==
  LET followers == {r \in Wifi \ {l.dev} : Uuid(r) = l.on}
      stopped   == [r \in Radios |-> IF r \in followers THEN Still ELSE mem.moves[r]]
  IN Plan(<<Cmd("down", followers, {l.on} \ {None})>>,
          [Base(NoLeader) EXCEPT !.moves = stopped])

\* The leader's radio vanished or lost its link: a radio that is up on the network
\* carries the choice on (the one on the best band; any, here).
Heirs(l, without) == {r \in Up \ without : OnNetwork(r, l)}

HandOver(l, without) ==
  IF Heirs(l, without) = {} THEN {l} ELSE {[l EXCEPT !.dev = r] : r \in Heirs(l, without)}

Carried(l) ==
  IF l # NoLeader /\ (l.dev \notin Wifi \/ ~OnNetwork(l.dev, l)) THEN HandOver(l, {}) ELSE {l}

-----------------------------------------------------------------------------
(* plan_follow: the profile, the holds and one change of placement. *)

InFlight(m) == m.stage = "begun"
Judgeable   == {r \in Wifi : InFlight(mem.moves[r])}

\* A join that is judged: the radio is elsewhere, or is late: it is idle after
\* JOIN_START_S, in which every radio starts, or not up after JOIN_TIMEOUT_S.
Dropped(r, late) ==
  Uuid(r) \notin {None, mem.moves[r].target} \/ (Disconnected(r) /\ r \in late)
Stalled(late) == {r \in late : link[r].at = "busy" /\ Uuid(r) = mem.moves[r].target}
Landed(r, l)  == OnNetwork(r, l) /\ link[r].at = "up" /\ mem.moves[r].target = l.on

Settled(l, late) ==
  [r \in Radios |->
     IF r \in Judgeable /\ (r \in Stalled(late) \/ Dropped(r, late) \/ Landed(r, l))
     THEN [mem.moves[r] EXCEPT !.stage = IF mem.moves[r].previous = None THEN "old" ELSE "judged"]
     ELSE mem.moves[r]]

\* One poll's change: nothing, or radio r joins, joins as the second of a swap, moves or
\* is parked.
Change == [kind : {"none", "join", "swap", "move", "park"}, radio : RadioOrNone]

Changes(l, fresh, moves, stalled) ==
  LET here    == Wifi \ stalled
      flying  == {r \in here : InFlight(moves[r])}
      landing == {r \in here : link[r].at = "busy" /\ (OnNetwork(r, l) \/ moves[r].target = l.on)}
      on      == {r \in here \ flying : link[r].at = "up" /\ OnNetwork(r, l)}
      free    == {r \in here \ flying : Disconnected(r)}
      other   == {r \in here \ flying : /\ link[r].at = "up" /\ ~OnNetwork(r, l)
                                        /\ fresh \/ r \in Wifi \ (IF mem.fresh THEN Wifi ELSE mem.known)}
      quiet   == flying \union landing = {} /\ Ssid(l.on) # None
  IN {[kind |-> "none", radio |-> None]}
       \union {[kind |-> "park", radio |-> r] :
                 r \in {s \in on : (on \union flying \union landing) \ {s} # {}}}
       \union {[kind |-> "join", radio |-> r] : r \in IF quiet THEN free \union other ELSE {}}
       \union {[kind |-> "swap", radio |-> r] :
                 r \in IF quiet /\ on # {} THEN free \intersect mem.parked ELSE {}}
       \union {[kind |-> "move", radio |-> r] : r \in IF quiet THEN on ELSE {}}

\* The profiles whose multi-connect a join has to raise first.
Raised(p) == IF profile[p].saved /\ profile[p].many THEN {} ELSE {p}

\* join, park and finish: the commands, and the memory of them.
Place(l, fresh, late) ==
  \E c \in Changes(l, fresh, Settled(l, late), Stalled(late)) :
  \E heir \in IF c.kind = "park" /\ c.radio = l.dev THEN HandOver(l, {c.radio}) ELSE {l} :
    LET moves  == Settled(l, late)
        joins  == {c.radio} \intersect (IF c.kind \in {"join", "swap", "move"} THEN Radios ELSE {})
        idle   == {r \in Wifi : Disconnected(r) /\ ~InFlight(moves[r])}
        parks  == ((Stalled(late) \union idle) \ (joins \union mem.parked))
                    \union (IF c.kind = "park" THEN {c.radio} ELSE {})
        raised == IF joins = {} THEN {} ELSE Raised(l.on)
        target == [target |-> l.on, previous |-> IF c.kind = "join" THEN Uuid(c.radio) ELSE None,
                   stage |-> "begun"]
    IN Plan((IF raised = {} THEN <<>> ELSE <<Cmd("multi", {}, raised)>>)
              \o (IF c.kind = "move" THEN <<Cmd("move", joins, {})>> ELSE <<>>)
              \o (IF joins = {} THEN <<>> ELSE <<Cmd("up", joins, {l.on})>>)
              \o (IF parks = {} THEN <<>> ELSE <<Cmd("park", parks, {})>>),
            [Base(heir) EXCEPT
               !.known    = Wifi,
               !.moves    = [r \in Radios |-> IF r \in joins THEN target
                                              ELSE IF r \in parks THEN Still
                                              ELSE moves[r]],
               !.parked   = (@ \ joins) \union parks,
               !.modified = @ \union raised])

\* The poll past the question of who leads.
FollowOn(l, fresh) ==
  LET next == [Base(l) EXCEPT !.known = Wifi]
      p    == l.on
  IN IF l = NoLeader THEN Plan(<<>>, next)
     ELSE IF profile[p].saved /\ profile[p].bound \in Wifi /\ p \notin mem.tried
     THEN Plan(<<Cmd("unbind", {}, {p})>>, [next EXCEPT !.tried = @ \union {p}])
     ELSE IF profile[p].saved /\ profile[p].bound # None THEN Plan(<<>>, next)
     ELSE \E late \in SUBSET {r \in Judgeable : link[r].at \notin {"starting", "up"}} :
               IF lost /\ ~fresh /\ Heirs(l, {}) = {}
               THEN Plan(<<>>,
                         [next EXCEPT !.moves = Settled(l, late), !.leader = NoLeader,
                                      !.parked = {}])
               ELSE IF profile[p].saved /\ profile[p].pinned
               THEN Plan(<<>>, [next EXCEPT !.moves = Settled(l, late)])
               ELSE Place(l, fresh, late)

Poll ==
  /\ job.phase = "idle" /\ InCharge
  /\ \E l \in Leaders :
       IF UserLeft(l) THEN TakeFollowersDown(l)
       ELSE \E carried \in Carried(l) : FollowOn(carried, Choosers # {})

-----------------------------------------------------------------------------
(* The other paths of Follower.step. *)

\* Mutant: a stand-down forgets the profiles it could not restore.
ForgetAll(unrestored) == Forgotten({})

Keep(unrestored) == Forgotten(unrestored)

\* Switched off, or fewer than two radios: _stand_down.  A radio told to join starts
\* before its join is forgotten (an assumption: `up' takes less than the polls between).
StandDown ==
  /\ job.phase = "idle" /\ (~flag \/ Cardinality(Wifi) < 2)
  /\ \A r \in Radios : link[r].at # "starting"
  /\ job' = [phase |-> "acting", next |-> Keep(mem.modified), why |-> reasons,
             todo |-> IF mem.modified = {} THEN <<>> ELSE <<Cmd("restore", {}, mem.modified)>>]
  /\ failsafe' = FALSE
  /\ UNCHANGED <<nm, flag, lost, mem, reasons, wish, left>>

Trouble == left > 0 /\ left' = left - 1

\* A release forgets that the leader's radio was parked: NetworkManager has to take it
\* up, or it looks as if the user had disconnected it.
HandsBackLeader == mem.leader.dev \in mem.parked => "parked_released" \in Faults

\* No radio passed traffic for FAILSAFE_AFTER_S (module Health): all to NetworkManager.
Failsafe ==
  /\ job.phase = "idle" /\ InCharge /\ mem.leader # NoLeader /\ Trouble /\ HandsBackLeader
  /\ failsafe' = TRUE
  /\ mem' = [mem EXCEPT !.parked = {}]
  /\ wish' = NoWish
  /\ UNCHANGED <<nm, flag, lost, job, reasons>>

-----------------------------------------------------------------------------
(* Follower._run and activate_pinned: the commands in their order. *)

Runs(op) ==
  /\ job.phase = "acting" /\ job.todo # <<>> /\ Head(job.todo).op = op
  /\ UNCHANGED <<flag, failsafe, lost, mem, reasons, wish>>

Ran == job' = [job EXCEPT !.todo = Tail(@)]

TheseRadios == Head(job.todo).radios \intersect Wifi
TheseProfiles == Head(job.todo).profiles
Peace == UNCHANGED left

\* A command that fails costs some of the trouble; nothing retries it.
MayFail(failed, fault) == IF failed THEN fault \in Faults /\ Trouble ELSE Peace

\* A radio that is switched away from what it does.
Dropping(rs, asked) ==
  [r \in Radios |-> IF r \notin rs \/ link[r].at = "idle" THEN link[r] ELSE Idle(asked)]

Multi ==
  /\ Runs("multi") /\ Ran
  /\ \/ /\ Peace
        /\ profile' = [p \in Profiles |->
                         [profile[p] EXCEPT !.many = @ \/ (p \in TheseProfiles /\ profile[p].saved)]]
     \/ "multi_fails" \in Faults /\ Trouble /\ UNCHANGED profile
  /\ UNCHANGED link

Unbind ==
  /\ Runs("unbind") /\ Ran
  /\ \E failed \in BOOLEAN :
       /\ MayFail(failed, "command_fails")
       /\ profile' = [p \in Profiles |->
                        IF p \in TheseProfiles /\ ~failed
                        THEN [profile[p] EXCEPT !.bound = None] ELSE profile[p]]
  /\ UNCHANGED link

\* `connection down' of the profile on each of these radios; the leader is forgotten
\* by then, and a radio that stays on the profile stays on it.
Down ==
  /\ Runs("down") /\ Ran
  /\ \E failing \in SUBSET TheseRadios :
       /\ MayFail(failing # {}, "down_fails")
       /\ link' = Dropping({r \in TheseRadios \ failing : Uuid(r) \in TheseProfiles}, TRUE)
  /\ UNCHANGED profile

\* Both park and the first half of a move disconnect the device.
Disconnect(op) ==
  /\ Runs(op) /\ Ran
  /\ \E failing \in SUBSET TheseRadios :
       /\ MayFail(failing # {}, "command_fails")
       /\ link' = Dropping(TheseRadios \ failing, TRUE)
  /\ UNCHANGED profile

\* NetworkManager allows profile p on radio r.
Fits(r, p) == profile[p].saved /\ profile[p].bound \in {None, r}

\* Profile p is activated on radio r; unless several radios may share it, it leaves
\* the radio it was active on.
Activation(r, p, l) ==
  LET robbed == IF profile[p].many THEN {} ELSE {s \in Wifi \ {r} : link[s].on = p}
  IN [Dropping(robbed, FALSE) EXCEPT ![r] = l]

Off(r) == link[r].asked /\ "stays_off" \in Faults

\* activate_pinned: the BSSID goes into the profile, `up' copies it, and it is cleared
\* again at once, unless that command fails or the daemon dies before it.
\* Where `up' fails the radio stays as it is; one that was disconnected for the join
\* then looks as if the user had done so ("stays_off").
Activate ==
  /\ Runs("up") /\ Ran /\ Peace
  /\ \E p \in TheseProfiles :
       /\ \E pinned \in {FALSE, "pin_left" \in Faults /\ profile[p].saved} :
            profile' = [profile EXCEPT ![p].pinned = pinned]
       /\ IF \A r \in TheseRadios : ~Fits(r, p) THEN UNCHANGED link
          ELSE \E r \in TheseRadios :
                 link' \in {Activation(r, p, On("busy", p))}
                   \union (IF Off(r) \/ ~link[r].asked
                           THEN {link, Activation(r, p, [at |-> "starting", on |-> p, asked |-> link[r].asked])}
                           ELSE {})

\* multi-connect goes back to what it was; what nmcli fails on is tried again, unless
\* the profile is gone.
Restore ==
  /\ Runs("restore")
  /\ \E kept \in SUBSET {p \in TheseProfiles : profile[p].saved} :
       /\ IF kept = {} THEN Peace ELSE "multi_fails" \in Faults /\ Trouble
       /\ profile' = [p \in Profiles |->
                        IF p \in TheseProfiles \ kept THEN [profile[p] EXCEPT !.many = p \in UserMany]
                        ELSE profile[p]]
       /\ job' = [job EXCEPT !.todo = Tail(@), !.next = Keep(kept)]
  /\ UNCHANGED link

Save ==
  /\ job.phase = "acting" /\ job.todo = <<>>
  /\ mem' = job.next
  /\ job' = Rest
  /\ reasons' = reasons \ job.why
  /\ lost' = FALSE
  /\ wish' = [wish EXCEPT !.met = @ \/ (wish.kind = "choice" /\ wish.net \in job.why)
                                     \/ (wish.kind = "drop" /\ None \in job.why)]
  /\ UNCHANGED <<nm, flag, failsafe, left>>

Nmcli ==
  \/ Multi \/ Unbind \/ Down \/ Disconnect("move") \/ Disconnect("park")
  \/ Activate \/ Restore

Daemon == Poll \/ StandDown \/ Nmcli \/ Save

-----------------------------------------------------------------------------
(* The user, NetworkManager, the air and the daemon's end. *)

\* A reason that the poll under way has not seen.
Because(cs) ==
  /\ reasons' = reasons \union cs
  /\ job' = [job EXCEPT !.why = @ \ cs]

Brings(cs)  == Because(cs) /\ UNCHANGED <<failsafe, mem>>
Happens(cs) == Trouble /\ Brings(cs)

Latest == IF job.phase = "acting" THEN job.next ELSE mem

\* A network that is joined is in sight.
Seen(p) == lost' = (lost /\ Ssid(p) # Ssid(mem.leader.on))

\* A radio that is not yet, or only just, among the known ones.
New(r) == r \notin Latest.known \/ r \in Latest.appeared

\* What the user says is bound to be seen: the daemon is between two polls, in charge,
\* and has seen everything that came before.
Heard ==
  /\ job.phase = "idle" /\ InCharge /\ ~mem.fresh
  /\ \A r \in Wifi : Uuid(r) = mem.last[r] /\ ~(mem.leader.dev = r /\ UserLeft(mem.leader))

UserActivates(r, p) ==
  /\ Happens({NetOf[p]}) /\ r \in Wifi /\ Fits(r, p)
  /\ link' = Activation(r, p, On("busy", p))
  /\ wish' = IF Heard /\ ~New(r) /\ mem.last[r] # p
             THEN [kind |-> "choice", net |-> NetOf[p], met |-> FALSE,
                   plain |-> mem.moves[r].target # p /\ ~(mem.moves[r].previous = p /\ mem.moves[r].stage # "old")]
             ELSE NoWish
  /\ Seen(p)
  /\ UNCHANGED <<profile, flag>>

UserDisconnects(r) ==
  LET leads == r = Latest.leader.dev IN
  /\ Happens(IF leads THEN {None} ELSE {}) /\ r \in Wifi /\ ~Disconnected(r)
  /\ link' = [link EXCEPT ![r] = Idle(TRUE)]
  /\ wish' = IF Heard /\ leads /\ Uuid(r) = mem.leader.on /\ r \notin mem.parked
             THEN [kind |-> "drop", net |-> Ssid(mem.leader.on), met |-> FALSE,
                   plain |-> \A s \in Wifi \ {r} : link[s].on # None =>
                               /\ link[s].at # "starting"
                               /\ link[s].on = mem.leader.on \/ Ssid(link[s].on) # Ssid(mem.leader.on)]
             ELSE NoWish
  /\ UNCHANGED <<profile, flag, lost>>

UserDeletes(p) ==
  /\ Happens(IF p = Latest.leader.on THEN {None} ELSE {}) /\ profile[p].saved
  /\ profile' = [profile EXCEPT ![p].saved = FALSE]
  /\ link' = Dropping({r \in Wifi : link[r].on = p}, FALSE)
  /\ wish' = NoWish
  /\ UNCHANGED <<flag, lost>>

\* A join fails, or a link is lost.
Fails(r) ==
  /\ Happens({}) /\ link[r].at \in {"busy", "up"}
  /\ link' = [link EXCEPT ![r] = Idle(FALSE)]
  /\ wish' = NoWish
  /\ UNCHANGED <<profile, flag, lost>>

\* NetworkManager activates a profile of its own accord, a radio that has just come
\* included; or it falls back to what the radio was on before our join.
Autoconnects(r, p) ==
  /\ IF New(r) THEN Brings({}) /\ Peace ELSE Happens({NetOf[p]})
  /\ link[r].at = "idle" /\ Fits(r, p)
  /\ profile[p].many \/ \A s \in Wifi : link[s].on # p
  /\ link' = [link EXCEPT ![r] = On("busy", p)]
  /\ wish' = NoWish
  /\ Seen(p)
  /\ UNCHANGED <<profile, flag>>

FallsBack(r) ==
  LET p == Latest.moves[r].previous IN
  /\ Happens({}) /\ link[r].at = "busy" /\ link[r].on = Latest.moves[r].target
  /\ p # None /\ Fits(r, p) /\ Latest.moves[r].stage # "old"
  /\ link' = Activation(r, p, On("busy", p))
  /\ wish' = NoWish
  /\ UNCHANGED <<profile, flag, lost>>

Unplug(r) ==
  /\ Happens(IF Cardinality(Wifi) <= 2 THEN {None} ELSE {}) /\ r \in Wifi
  /\ link' = [link EXCEPT ![r] = Away]
  /\ wish' = NoWish
  /\ UNCHANGED <<profile, flag, lost>>

Plug(r) ==
  /\ Brings({}) /\ Peace /\ link[r].at = "gone" /\ (r \in Latest.known => "fast_replug" \in Faults)
  /\ link' = [link EXCEPT ![r] = Idle(FALSE)]
  /\ wish' = NoWish
  /\ UNCHANGED <<profile, flag, lost>>

Switch ==
  /\ Happens(IF flag THEN {None} ELSE {})
  /\ flag' = ~flag
  /\ wish' = NoWish
  /\ UNCHANGED <<nm, lost>>

\* No radio has carried the followed network for LEADER_LOST_S and none sees it.
Vanishes ==
  /\ job.phase = "idle" /\ ~lost /\ mem.leader # NoLeader
  /\ \A r \in Wifi : ~OnNetwork(r, mem.leader)
  /\ Happens({None})
  /\ lost' = TRUE
  /\ wish' = NoWish
  /\ UNCHANGED <<nm, flag>>

\* The daemon stops or dies; --release and the next one start from follow.json.
Die ==
  /\ Trouble
  /\ job.phase = "acting" => "crash_mid_poll" \in Faults
  /\ HandsBackLeader
  /\ mem' = [mem EXCEPT !.parked = {}]
  /\ job' = Rest
  /\ failsafe' = FALSE
  /\ wish' = NoWish
  /\ UNCHANGED <<link, profile, flag, lost, reasons>>

Others == UNCHANGED <<profile, flag, failsafe, lost, reasons, wish, left>>

Starts(r) ==
  /\ link[r].at = "starting"
  /\ link' = [link EXCEPT ![r] = On("busy", @.on)]
  /\ Others /\ UNCHANGED <<mem, job>>

Lands(r) ==
  /\ link[r].at = "busy"
  /\ link' = [link EXCEPT ![r].at = "up"]
  /\ Others /\ UNCHANGED <<mem, job>>

\* FLAP_WINDOW_S passes; before it has, a poll has seen what the radio is on.
TimePasses(r) ==
  /\ job.phase = "idle"
  /\ mem.moves[r].stage # "old" /\ Uuid(r) = mem.last[r] /\ link[r].at # "starting"
  /\ mem' = [mem EXCEPT !.moves[r].stage = "old", !.moves[r].previous = None]
  /\ Others /\ UNCHANGED <<link, job>>

\* A radio is no longer new: what no poll has seen it join counts from now on.
GrownUp(r) ==
  /\ job.phase = "idle" /\ r \in mem.appeared
  /\ mem' = [mem EXCEPT !.appeared = @ \ {r}]
  /\ Because({NetOf[p] : p \in {Uuid(r)} \ {None, mem.last[r]}})
  /\ UNCHANGED <<nm, flag, failsafe, lost, wish, left>>

FailsafeEnds ==
  /\ failsafe /\ job.phase = "idle"
  /\ failsafe' = FALSE
  /\ UNCHANGED <<nm, flag, lost, mem, job, reasons, wish, left>>

Environment ==
  \/ Switch \/ Vanishes \/ Die \/ FailsafeEnds \/ Failsafe
  \/ \E r \in Radios :
       \/ UserDisconnects(r) \/ Fails(r) \/ FallsBack(r) \/ Unplug(r) \/ Plug(r)
       \/ Starts(r) \/ Lands(r) \/ TimePasses(r) \/ GrownUp(r)
       \/ \E p \in Profiles : UserActivates(r, p) \/ Autoconnects(r, p)
  \/ \E p \in Profiles : UserDeletes(p)

Next == Daemon \/ Environment

Spec == Init /\ [][Next]_vars

-----------------------------------------------------------------------------
(* Properties. *)

\* The network the saved memory follows.
Followed == IF mem.leader = NoLeader THEN None ELSE NetOf[mem.leader.on]

(* wifimimo never picks a network itself: every change of the followed     *)
(* network in the saved memory answers something the user, NetworkManager  *)
(* on a radio it had, or the air did since the poll before, and never what *)
(* wifimimo's own joins, a fallback or a radio that has just come brought. *)
Kept == INSTANCE FollowPromise WITH followed <- Followed

KeepsPromise == Kept!Promise

(* The network the user picked is followed from the poll that sees it on   *)
(* (README, "the network you pick becomes the leader"), whatever the       *)
(* daemon's own commands do from then on; where it was picked between two  *)
(* polls, on a radio that was not last joined to that very profile, nor to *)
(* another one from it minutes ago.                                        *)
PlainChoiceWins == (wish.kind = "choice" /\ wish.met /\ wish.plain) => Followed = wish.net

(* The same of every choice: "Pick another network and they all follow".   *)
ChoiceWins == (wish.kind = "choice" /\ wish.met) => Followed = wish.net

OffNet(n) == \A r \in Wifi : Uuid(r) # None => Ssid(Uuid(r)) # n

(* Disconnecting the leader takes every radio off the network, and they    *)
(* stay off until something else happens, if all of them are on the        *)
(* leader's profile and none is only just starting to join; and if nmcli   *)
(* does take them off.  Where it fails to ("down_fails") the leader is     *)
(* forgotten all the same, nothing tries again, and the next poll follows  *)
(* the radio left on the network and joins the user's radio to it (_run,   *)
(* plan_follow).                                                           *)
PlainDropSticks == (wish.kind = "drop" /\ wish.met /\ wish.plain) => OffNet(wish.net)

(* A profile whose multi-connect is not the user's own is one the daemon   *)
(* remembers to restore (memory["modified"], _stand_down "retrying         *)
(* failures"): through failed commands, releases and stand-downs.          *)
ModifiedRecorded ==
  \A p \in Profiles :
    (profile[p].saved /\ profile[p].many # (p \in UserMany)) => p \in Latest.modified
=============================================================================
