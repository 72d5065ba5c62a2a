---- MODULE Health ----
(***************************************************************************)
(* Does traffic flow? Liveness keeps one ping of the gateway per connected *)
(* radio, each with a reader thread; step() turns what the readers wrote   *)
(* into a verdict per radio, hands every radio to NetworkManager when      *)
(* nothing gets through (the failsafe), and otherwise asks the root helper *)
(* to lay routing out again for a radio whose health changed (heal).       *)
(*                                                                         *)
(* Time moves in ticks of PROBE_INTERVAL_S. A timestamp of the code is     *)
(* kept as its age, capped where the code no longer tells ages apart. The  *)
(* gateways of the access points in Mute never answer a ping. A reader     *)
(* thread normally writes an answer down at once; it may also be late,     *)
(* though never by a tick. NetworkManager's rating of a link (full) is its *)
(* own check, which may be out of date.                                    *)
(*                                                                         *)
(* The rest is history.  Of the running ping, since a poll found the radio *)
(* on its access point: quiet, how long none was answered; answered, that  *)
(* one was; tardy, the radios for which a stopped ping's reader answered;  *)
(* mutes, how long a link that had answered is mute in the route.          *)
(* starved, how long no link has worked; handed, that NetworkManager has   *)
(* had the radios since; lean, how long ago a poll found traffic.          *)
(***************************************************************************)
EXTENDS Integers, FiniteSets

CONSTANTS
  Radios, APs,
  Mute,          \* access points whose gateway never answers pings
  DeadAfter,     \* DEAD_AFTER_S
  SuspectAfter,  \* SUSPECT_DEAD_AFTER_S
  FailsafeAfter, \* FAILSAFE_AFTER_S
  HoldOff,       \* FAILSAFE_HOLDOFF_S
  HealEvery,     \* HEAL_INTERVAL_S
  PollEvery,     \* POLL_SLOW_S: a poll comes at least this often
  HelperMax,     \* a run of the helper takes no longer
  Events,        \* changes of the world, and late readers, in a behaviour
  Naps,          \* of which this many may be suspends
  None

ASSUME HealthAssumption ==
  /\ IsFiniteSet(Radios) /\ Mute \subseteq APs /\ None \notin APs \cup Nat
  /\ {DeadAfter, SuspectAfter, FailsafeAfter, HoldOff, HealEvery, PollEvery, HelperMax}
       \subseteq Nat \ {0}
  /\ SuspectAfter <= DeadAfter
  /\ Events \in Nat /\ Naps \in 0 .. Events

VARIABLES
  air,       \* the radio's link: its access point, mute card, NM's rating, lowest rate
  probe,     \* _procs and started: the ping's key, its age, whether it has exited
  reply,     \* last_reply: the age of the last line a reader wrote, None without one
  lines,     \* answers in a pipe: of the radio's ping, of one that was stopped
  alive,     \* ctx.alive, the verdicts of the last poll
  silence,   \* no_traffic_since
  holdoff,   \* ticks until failsafe_until
  helper,    \* heal_proc: how long it has run, None when it is over
  healed,    \* ticks since last_heal
  members, waiting, \* the helper's status file: in the route, left out but healable
  sincePoll, left,
  quiet, answered, tardy, mutes, starved, handed, lean

liveness == <<probe, reply, lines, alive>>
failsafe == <<silence, holdoff>>
routing  == <<helper, healed, members, waiting>>
history  == <<quiet, answered, tardy, mutes, starved, handed, lean>>
vars == <<air, liveness, failsafe, routing, sincePoll, left, history>>

Links    == [ap : APs \cup {None}, deaf : BOOLEAN, full : BOOLEAN, slow : BOOLEAN]
NoLink   == [ap |-> None, deaf |-> FALSE, full |-> FALSE, slow |-> FALSE]
Ping(ap) == [key |-> ap, age |-> 0, ended |-> FALSE]
Verdicts == {"yes", "no", "unknown"}

AtMost(n, bound) == IF n < bound THEN n ELSE bound
AtLeast(n, bound) == IF n < bound THEN bound ELSE n

\* No verdict tells ages beyond this one apart.
AgeCap == DeadAfter + 1
\* A mute link that served leaves the route within this time.
DropBound == AtLeast(DeadAfter, HealEvery) + PollEvery + HoldOff + PollEvery + HelperMax
\* Nothing gets through: NetworkManager has the radios within this time.
HandBound == DeadAfter + FailsafeAfter + 2 * PollEvery

Answers(r) == air[r].ap \notin Mute \cup {None} /\ ~air[r].deaf
Flows(links) == \E r \in Radios : links[r].full \/
                  (links[r].ap \notin Mute \cup {None} /\ ~links[r].deaf)

TypeOK ==
  /\ air \in [Radios -> Links]
  /\ probe \in [Radios -> [key : APs \cup {None}, age : 0 .. AgeCap, ended : BOOLEAN]]
  /\ reply \in [Radios -> 0 .. AgeCap \cup {None}]
  /\ lines \subseteq Radios \X {"mine", "old"}
  /\ alive \in [Radios -> Verdicts]
  /\ silence \in 0 .. FailsafeAfter \cup {None}
  /\ holdoff \in 0 .. HoldOff
  /\ helper \in 0 .. HelperMax \cup {None}
  /\ healed \in 0 .. HealEvery
  /\ members \subseteq Radios /\ waiting \subseteq Radios /\ members \cap waiting = {}
  /\ sincePoll \in 0 .. PollEvery /\ left \in 0 .. Events
  /\ quiet \in [Radios -> 0 .. AgeCap] /\ mutes \in [Radios -> 0 .. DropBound + 1] /\ answered \in [Radios -> BOOLEAN] /\ tardy \subseteq Radios
  /\ starved \in 0 .. HandBound + 1 /\ handed \in BOOLEAN /\ lean \in 0 .. FailsafeAfter

\* A daemon that has just started, on any links; nothing is remembered.
Init ==
  /\ air \in [Radios -> {l \in Links : ~l.deaf /\ ~l.slow /\ l.ap \notin Mute /\ (l.ap = None => ~l.full)}]
  /\ probe = [r \in Radios |-> Ping(None)] /\ reply = [r \in Radios |-> None]
  /\ lines = {} /\ alive = [r \in Radios |-> "unknown"]
  /\ silence = None /\ holdoff = 0
  /\ helper = None /\ healed = HealEvery /\ members = {} /\ waiting = {}
  /\ sincePoll = PollEvery /\ left = Events
  /\ quiet = [r \in Radios |-> 0] /\ mutes = [r \in Radios |-> 0] /\ answered = [r \in Radios |-> FALSE] /\ tardy = {}
  /\ starved = 0 /\ handed = FALSE /\ lean = 0

-----------------------------------------------------------------------------
(* The pings and their readers. *)

\* _reader: the line is written under the radio's name, whichever ping it is from.
Read(r, whose) ==
  /\ <<r, whose>> \in lines
  /\ lines' = lines \ {<<r, whose>>}
  /\ reply' = [reply EXCEPT ![r] = 0]
  /\ tardy' = IF whose = "old" THEN tardy \cup {r} ELSE tardy
  /\ UNCHANGED <<air, probe, alive, failsafe, routing, sincePoll, left,
                 quiet, answered, mutes, starved, handed, lean>>

\* Mutant: the ping is keyed by the gateway, which every access point shares.
KeepsGateway(r) ==
  (probe[r].key = None <=> air[r].ap = None) /\ ~probe[r].ended

\* update: a ping keeps running while its key is the radio's link and it has not exited.
Keeps(r) == probe[r].key = air[r].ap /\ ~probe[r].ended
Idle(r)  == probe[r].key = None /\ air[r].ap = None

Probes == [r \in Radios |-> IF Keeps(r) THEN probe[r] ELSE Ping(air[r].ap)]
Replies == [r \in Radios |-> IF Keeps(r) \/ Idle(r) THEN reply[r] ELSE None]
Orphans == {r \in Radios : <<r, "mine">> \in lines /\ ~Keeps(r)}

Update ==
  /\ probe' = Probes
  /\ reply' = Replies
  /\ lines' = (lines \ (Orphans \X {"mine"}))
                 \cup (Orphans \X {"old"})

\* alive: silent for longer than the fuse, counted from the later of start and last reply.
Verdict(p, heard, slow) ==
  IF p.key = None THEN "unknown"
  ELSE IF AtMost(p.age, IF heard = None THEN p.age ELSE heard)
            > (IF slow THEN SuspectAfter ELSE DeadAfter) THEN "no"
  ELSE IF heard = None THEN "unknown" ELSE "yes"

\* Mutant: NM's rating clears a link that had answered, too.
SettledByRating(verdict, heard, full) ==
  IF verdict = "no" /\ full THEN "unknown" ELSE verdict

\* Mutant: what NM's check says is not asked.
SettledByReply(verdict, heard, full) == verdict

\* settle_alive: a gateway that never answered is spared while NM rates the link full.
Settled(verdict, heard, full) ==
  IF verdict = "no" /\ heard = None /\ full THEN "unknown" ELSE verdict

Judged == [r \in Radios |->
  Settled(Verdict(Probes[r], Replies[r], air[r].slow), Replies[r], air[r].full)]

-----------------------------------------------------------------------------
(* step(): verdicts, the failsafe, and heal. *)

\* Mutant: a link without a verdict counts as one that works.
ThroughUnlessDead == \E r \in Radios : Judged[r] # "no"

Through == \E r \in Radios : Judged[r] = "yes" \/ air[r].full

\* Mutant: heal looks at NM's rating only.
RatedCandidates == {r \in Radios :
  (r \in waiting /\ air[r].full) \/ (r \in members /\ ~air[r].full)}

Candidates == {r \in Radios :
  \/ r \in waiting /\ Judged[r] # "no" /\ (air[r].full \/ Judged[r] = "yes")
  \/ r \in members /\ (~air[r].full \/ Judged[r] = "no")}

\* heal: at most one run of the helper at a time, at most one every HEAL_INTERVAL_S.
Heal ==
  /\ IF helper = None /\ healed = HealEvery /\ Candidates # {}
     THEN helper' = 0 /\ healed' = 0
     ELSE UNCHANGED <<helper, healed>>
  /\ UNCHANGED <<members, waiting>>

\* The poll finds the radio on another access point, or its ping over.
Anew(r) == probe[r].key # air[r].ap \/ probe[r].ended

Polled ==
  /\ sincePoll > 0 /\ sincePoll' = 0
  /\ Update
  /\ alive' = Judged
  /\ lean' = IF Through THEN 0 ELSE lean
  /\ quiet' = [r \in Radios |-> IF Anew(r) THEN 0 ELSE quiet[r]]
  /\ answered' = [r \in Radios |-> answered[r] /\ ~Anew(r)]
  /\ tardy' = {r \in tardy : ~Anew(r)}
  /\ UNCHANGED <<air, left, mutes, starved>>

\* Within the hold-off nothing else happens: no heal either.
PollHeldOff ==
  /\ holdoff > 0
  /\ Polled
  /\ UNCHANGED <<failsafe, routing, handed>>

\* Nothing for FAILSAFE_AFTER_S: the radios go back to NetworkManager.
PollHands ==
  /\ holdoff = 0 /\ ~Through /\ silence = FailsafeAfter
  /\ Polled
  /\ silence' = None /\ holdoff' = HoldOff /\ handed' = TRUE
  /\ UNCHANGED routing

\* Mutant: traffic that comes back does not stop the count.
PollPlansOn ==
  /\ holdoff = 0 /\ (Through \/ silence # FailsafeAfter)
  /\ Polled
  /\ silence' = (IF silence = None /\ ~Through THEN 0 ELSE silence)
  /\ Heal
  /\ UNCHANGED <<holdoff, handed>>

PollPlans ==
  /\ holdoff = 0 /\ (Through \/ silence # FailsafeAfter)
  /\ Polled
  /\ silence' = (IF Through THEN None ELSE IF silence = None THEN 0 ELSE silence)
  /\ Heal
  /\ UNCHANGED <<holdoff, handed>>

\* _stand_down: the switch is off or fewer than two radios are there; all is forgotten.
StandDown ==
  /\ left > 0 /\ left' = left - 1
  /\ sincePoll > 0 /\ sincePoll' = 0
  /\ probe' = [r \in Radios |-> Ping(None)]
  /\ reply' = [r \in Radios |-> IF probe[r].key = None THEN reply[r] ELSE None]
  /\ lines' = {r \in Radios : \E whose \in {"mine", "old"} : <<r, whose>> \in lines} \X {"old"}
  /\ alive' = [r \in Radios |-> "unknown"]
  /\ silence' = None /\ holdoff' = 0
  /\ quiet' = [r \in Radios |-> 0] /\ mutes' = [r \in Radios |-> 0] /\ answered' = [r \in Radios |-> FALSE] /\ tardy' = {}
  /\ starved' = 0 /\ handed' = FALSE /\ lean' = 0
  /\ UNCHANGED <<air, routing>>

-----------------------------------------------------------------------------
(* The root helper: heal's own run, or one of the dispatcher and the timer. *)

Healthy == {r \in Radios : air[r].full /\ Answers(r)}
\* Mutant: the members are reported as left out, too.
NotServed == {r \in Radios : air[r].ap # None}

LeftOut == {r \in Radios : air[r].ap # None} \ Healthy

\* The status names members only while two radios share the route.
Apply ==
  /\ members' = IF Cardinality(Healthy) > 1 THEN Healthy ELSE {}
  /\ waiting' = LeftOut
  /\ UNCHANGED <<air, liveness, failsafe, healed, sincePoll, left, history>>

HelperEnds  == helper # None /\ helper' = None /\ Apply
OthersApply == UNCHANGED helper /\ Apply

-----------------------------------------------------------------------------
(* Time and the world. *)

Older(age, cap) == IF age = None THEN None ELSE AtMost(age + 1, cap)

Running == {r \in Radios : probe[r].key # None /\ ~probe[r].ended}

\* A tick: every running ping sends one packet; the readers in late have yet to
\* write the answer down.
Tick ==
  /\ lines = {} /\ sincePoll < PollEvery /\ helper # HelperMax
  /\ LET heard == {r \in Running : Answers(r)} IN
       /\ \E late \in SUBSET heard :
            /\ left' = left - Cardinality(late) /\ left' >= 0
            /\ lines' = late \X {"mine"}
            /\ reply' = [r \in Radios |-> IF r \in heard \ late THEN 0 ELSE Older(reply[r], AgeCap)]
       /\ answered' = [r \in Radios |-> answered[r] \/ r \in heard]
       /\ quiet' = [r \in Radios |-> IF r \in Running \ heard THEN AtMost(quiet[r] + 1, AgeCap) ELSE 0]
       /\ mutes' = [r \in Radios |-> IF r \in (Running \ heard) \cap members /\ answered[r]
                                    THEN AtMost(mutes[r] + 1, DropBound + 1) ELSE 0]
  /\ probe' = [r \in Radios |-> IF r \in Running THEN [probe[r] EXCEPT !.age = AtMost(@ + 1, AgeCap)]
                               ELSE probe[r]]
  /\ silence' = Older(silence, FailsafeAfter)
  /\ holdoff' = IF holdoff = 0 THEN 0 ELSE holdoff - 1
  /\ helper' = IF helper = None THEN None ELSE helper + 1
  /\ healed' = AtMost(healed + 1, HealEvery)
  /\ sincePoll' = sincePoll + 1
  /\ starved' = IF Flows(air) THEN 0 ELSE AtMost(starved + 1, HandBound + 1)
  /\ handed' = (~Flows(air) /\ (handed \/ holdoff > 0))
  /\ lean' = AtMost(lean + 1, FailsafeAfter)
  /\ UNCHANGED <<air, alive, members, waiting, tardy>>

\* Another access point, or none: a new link, which the old ping knows nothing of.
Lands(r) ==
  \E a \in (APs \cup {None}) \ {air[r].ap}, full \in BOOLEAN :
    /\ (a = None) => ~full
    /\ air' = [air EXCEPT ![r] = [NoLink EXCEPT !.ap = a, !.full = full]]
    /\ UNCHANGED probe

\* The card goes mute or recovers, NM rates it anew, the transmit rate collapses or rises.
Turns(r) ==
  /\ air[r].ap # None
  /\ \/ air' = [air EXCEPT ![r].deaf = ~@]
     \/ air' = [air EXCEPT ![r].full = ~@]
     \/ air' = [air EXCEPT ![r].slow = ~@]
  /\ UNCHANGED probe

\* A ping exits; update starts another one, with a fresh grace.
Exits(r) ==
  /\ r \in Running
  /\ probe' = [probe EXCEPT ![r].ended = TRUE]
  /\ UNCHANGED air

World ==
  /\ left > 0 /\ left' = left - 1
  /\ \E r \in Radios : Lands(r) \/ Turns(r) \/ Exits(r)
  /\ starved' = (IF Flows(air') THEN 0 ELSE starved)
  /\ handed' = (handed /\ ~Flows(air'))
  /\ mutes' = [r \in Radios |-> IF Answers(r)' THEN 0 ELSE mutes[r]]
  /\ UNCHANGED <<reply, lines, alive, failsafe, routing, sincePoll, quiet, answered, tardy, lean>>

\* The machine sleeps: the clock jumps, and every ping counts as silent for as long.
Nap ==
  /\ left > Events - Naps /\ left' = left - 1
  /\ lines = {}
  /\ probe' = [r \in Radios |-> IF r \in Running THEN [probe[r] EXCEPT !.age = AgeCap] ELSE probe[r]]
  /\ reply' = [r \in Radios |-> IF reply[r] = None THEN None ELSE AgeCap]
  /\ silence' = IF silence = None THEN None ELSE FailsafeAfter
  /\ holdoff' = 0 /\ healed' = HealEvery /\ sincePoll' = PollEvery
  /\ lean' = FailsafeAfter
  /\ quiet' = [r \in Radios |-> IF r \in Running THEN AgeCap ELSE quiet[r]]
  /\ UNCHANGED <<air, lines, alive, helper, members, waiting, answered, tardy, mutes, starved, handed>>

Next ==
  \/ \E r \in Radios, whose \in {"mine", "old"} : Read(r, whose)
  \/ PollHeldOff \/ PollHands \/ PollPlans \/ StandDown
  \/ HelperEnds \/ OthersApply
  \/ Tick \/ World \/ Nap

Spec == Init /\ [][Next]_vars

-----------------------------------------------------------------------------
(* Properties. *)

Polls == sincePoll > 0 /\ sincePoll' = 0
Fuse(r) == IF air[r].slow THEN SuspectAfter ELSE DeadAfter

\* No link is called dead before three pings over the access point it is on (two at
\* the lowest rate) went unanswered: no silence is carried over from the one before. (An
\* answer that is still in the pipe is not known.)
ThreeMisses ==
  [][Polls => \A r \in Radios :
       alive'[r] = "no" /\ <<r, "mine">> \notin lines => quiet'[r] > Fuse(r)]_vars

\* A gateway that never answered does not make a link dead while NetworkManager's own
\* check passes: unless the reader of the ping before wrote its last line late, and so
\* answered for it.
MuteSpared ==
  [][Polls => \A r \in Radios :
       alive'[r] = "no" /\ air[r].full => answered'[r] \/ r \in tardy']_vars

\* A link whose pings go unanswered for longer than the fuse is called dead, unless its
\* gateway never answered and NetworkManager rates it full; a late reader of the ping
\* before does not bring it to life.
DeadIsFound ==
  [][Polls => \A r \in Radios :
       air[r].ap # None /\ quiet'[r] > Fuse(r) /\ (answered'[r] \/ ~air[r].full)
         => alive'[r] = "no"]_vars

\* A link that served and went mute leaves the multipath route in bounded time, whatever
\* NetworkManager still says of it: heal's gate, its rate limit, a slow helper and a
\* hold-off of the failsafe only delay it.
DeafLeaves == \A r \in members : mutes[r] <= DropBound

\* When no link works, NetworkManager has the radios within a minute of that being known.
HandedInTime == starved > HandBound => handed

\* The radios are never handed back on less than a minute's evidence: a poll that finds
\* something getting through, a hold-off and a stand-down each start the count again.
HandsOnlyTheStarved == [][holdoff' > holdoff => lean >= FailsafeAfter]_vars
====
