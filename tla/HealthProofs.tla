---- MODULE HealthProofs ----
(***************************************************************************)
(* The verdicts of the probes, for every number of radios and access       *)
(* points, every fuse and every cadence: what a ping and its readers have  *)
(* told of a link agrees with what happened on it (Told), so that a verdict*)
(* is never called for by another link's silence, nor missed. The failsafe *)
(* hands the radios over on a full count of silence (Counted).             *)
(***************************************************************************)
EXTENDS Health, FiniteSetTheorems, TLAPS

LEMMA Numbers ==
  /\ DeadAfter \in Nat \ {0} /\ SuspectAfter \in Nat \ {0} /\ FailsafeAfter \in Nat \ {0}
  /\ HoldOff \in Nat \ {0} /\ HealEvery \in Nat \ {0} /\ PollEvery \in Nat \ {0} /\ HelperMax \in Nat \ {0}
  /\ SuspectAfter <= DeadAfter /\ AgeCap = DeadAfter + 1 /\ AgeCap \in Nat
  /\ DropBound \in Nat /\ HandBound \in Nat /\ Events \in Nat /\ Naps \in 0 .. Events
  /\ None \notin Nat /\ None \notin APs
<1>1. /\ DeadAfter \in Nat \ {0} /\ SuspectAfter \in Nat \ {0} /\ FailsafeAfter \in Nat \ {0}
      /\ HoldOff \in Nat \ {0} /\ HealEvery \in Nat \ {0} /\ PollEvery \in Nat \ {0} /\ HelperMax \in Nat \ {0}
  BY HealthAssumption
<1>2. SuspectAfter <= DeadAfter /\ Events \in Nat /\ Naps \in 0 .. Events /\ None \notin Nat /\ None \notin APs
  BY HealthAssumption
<1> QED  BY <1>1, <1>2 DEF AgeCap, DropBound, HandBound, AtLeast

LEMMA Zeros ==
  /\ 0 \in 0 .. FailsafeAfter /\ 0 \in 0 .. HoldOff /\ 0 \in 0 .. HandBound + 1 /\ 0 \in 0 .. AgeCap
  /\ 0 \in 0 .. DropBound + 1 /\ HealEvery \in 0 .. HealEvery /\ PollEvery \in 0 .. PollEvery
  /\ Events \in 0 .. Events /\ FALSE \in BOOLEAN
BY Numbers

LEMMA OlderType ==
  ASSUME NEW cap \in Nat, NEW age \in (0 .. cap) \cup {None}
  PROVE  Older(age, cap) \in (0 .. cap) \cup {None}
BY DEF Older, AtMost

\* What a poll does to the verdicts and their history.
PollDone ==
  /\ Polled
  /\ silence' \in (0 .. FailsafeAfter) \cup {None} /\ holdoff' \in 0 .. HoldOff
  /\ helper' \in (0 .. HelperMax) \cup {None} /\ healed' \in 0 .. HealEvery
  /\ handed' \in BOOLEAN
  /\ UNCHANGED <<members, waiting>>

LEMMA PollsDone ==
  ASSUME TypeOK, PollHeldOff \/ PollHands \/ PollPlans
  PROVE  PollDone
<1> USE Numbers DEF TypeOK, PollDone
<1>1. CASE PollHeldOff
  BY <1>1 DEF PollHeldOff, failsafe, routing
<1>2. CASE PollHands
  BY <1>2 DEF PollHands, routing
<1>3. CASE PollPlans
  <2>1. Polled /\ Heal /\ UNCHANGED <<holdoff, handed>>
    BY <1>3 DEF PollPlans
  <2>2. silence' \in (0 .. FailsafeAfter) \cup {None}
    BY <1>3 DEF PollPlans
  <2>3. helper' \in (0 .. HelperMax) \cup {None} /\ healed' \in 0 .. HealEvery /\ UNCHANGED <<members, waiting>>
    BY <2>1 DEF Heal
  <2> QED  BY <2>1, <2>2, <2>3
<1> QED  BY <1>1, <1>2, <1>3

-----------------------------------------------------------------------------
(* Types. *)

Pings == [key : APs \cup {None}, age : 0 .. AgeCap, ended : BOOLEAN]

LEMMA PingType == \A a \in APs \cup {None} : Ping(a) \in Pings
BY Numbers DEF Ping, Pings

LEMMA ProbesType ==
  ASSUME TypeOK
  PROVE  /\ Probes \in [Radios -> Pings] /\ Replies \in [Radios -> (0 .. AgeCap) \cup {None}]
         /\ Judged \in [Radios -> Verdicts] /\ Orphans \subseteq Radios
<1>1. \A r \in Radios : probe[r] \in Pings /\ air[r].ap \in APs \cup {None}
  BY DEF TypeOK, Pings, Links
<1>2. Probes \in [Radios -> Pings]
  BY <1>1, PingType DEF Probes
<1>3. Replies \in [Radios -> (0 .. AgeCap) \cup {None}]
  BY DEF TypeOK, Replies
<1>4. \A v, h, f : v \in Verdicts => Settled(v, h, f) \in Verdicts
  BY DEF Settled, Verdicts
<1>5. \A q, h, f : Verdict(q, h, f) \in Verdicts
  BY DEF Verdict, Verdicts
<1> QED  BY <1>2, <1>3, <1>4, <1>5 DEF Judged, Orphans

LEMMA TypePolled ==
  ASSUME TypeOK, PollDone
  PROVE  TypeOK'
<1>1. /\ probe' = Probes /\ reply' = Replies /\ alive' = Judged
      /\ lines' = (lines \ (Orphans \X {"mine"})) \cup (Orphans \X {"old"})
  BY DEF PollDone, Polled, Update
<1>2. lines' \subseteq Radios \X {"mine", "old"}
  BY <1>1, ProbesType DEF TypeOK
<1>3. quiet' \in [Radios -> 0 .. AgeCap] /\ answered' \in [Radios -> BOOLEAN] /\ tardy' \subseteq Radios
  BY Numbers DEF TypeOK, PollDone, Polled
<1>4. sincePoll' \in 0 .. PollEvery /\ lean' \in 0 .. FailsafeAfter
  BY Numbers DEF TypeOK, PollDone, Polled
<1>5. UNCHANGED <<air, left, mutes, starved, members, waiting>>
  BY DEF PollDone, Polled
<1>6. /\ silence' \in (0 .. FailsafeAfter) \cup {None} /\ holdoff' \in 0 .. HoldOff
      /\ helper' \in (0 .. HelperMax) \cup {None} /\ healed' \in 0 .. HealEvery /\ handed' \in BOOLEAN
  BY DEF PollDone
<1>7. /\ probe' \in [Radios -> Pings] /\ reply' \in [Radios -> (0 .. AgeCap) \cup {None}]
      /\ alive' \in [Radios -> Verdicts]
  BY <1>1, ProbesType
<1> QED  BY <1>2, <1>3, <1>4, <1>5, <1>6, <1>7 DEF TypeOK, Pings

LEMMA TypeTick ==
  ASSUME TypeOK, Tick
  PROVE  TypeOK'
<1> USE Numbers
<1>1. PICK late \in SUBSET {r \in Running : Answers(r)} :
        /\ left' = left - Cardinality(late) /\ left' >= 0
        /\ lines' = late \X {"mine"}
        /\ reply' = [r \in Radios |-> IF r \in {q \in Running : Answers(q)} \ late THEN 0 ELSE Older(reply[r], AgeCap)]
  BY DEF Tick
<1>2. Cardinality(late) \in Nat
  <2>1. IsFiniteSet(late)
    BY HealthAssumption, FS_Subset DEF Running
  <2> QED  BY <2>1, FS_CardinalityType
<1>3. left' \in 0 .. Events
  BY <1>1, <1>2 DEF TypeOK
<1>4. lines' \subseteq Radios \X {"mine", "old"}
  BY <1>1 DEF Running
<1>5. reply' \in [Radios -> (0 .. AgeCap) \cup {None}]
  <2>1. \A r \in Radios : Older(reply[r], AgeCap) \in (0 .. AgeCap) \cup {None}
    BY OlderType DEF TypeOK
  <2> QED  BY <1>1, <2>1
<1>6. probe' \in [Radios -> Pings]
  <2>1. \A r \in Radios : [probe[r] EXCEPT !.age = AtMost(@ + 1, AgeCap)] \in Pings /\ probe[r] \in Pings
    BY DEF TypeOK, Pings, AtMost
  <2> QED  BY <2>1 DEF Tick
<1>7. silence' \in (0 .. FailsafeAfter) \cup {None}
  BY OlderType DEF TypeOK, Tick
<1>8. holdoff' \in 0 .. HoldOff /\ helper' \in (0 .. HelperMax) \cup {None} /\ healed' \in 0 .. HealEvery
  BY DEF TypeOK, Tick, AtMost
<1>9. quiet' \in [Radios -> 0 .. AgeCap] /\ answered' \in [Radios -> BOOLEAN]
  BY DEF TypeOK, Tick, AtMost
<1>10. mutes' \in [Radios -> 0 .. DropBound + 1]
  BY DEF TypeOK, Tick, AtMost
<1>11. starved' \in 0 .. HandBound + 1 /\ lean' \in 0 .. FailsafeAfter /\ sincePoll' \in 0 .. PollEvery
  BY DEF TypeOK, Tick, AtMost
<1>12. handed' \in BOOLEAN /\ UNCHANGED <<air, alive, members, waiting, tardy>>
  BY DEF Tick
<1> QED
  BY <1>3, <1>4, <1>5, <1>6, <1>7, <1>8, <1>9, <1>10, <1>11, <1>12 DEF TypeOK, Pings

LEMMA TypeNap ==
  ASSUME TypeOK, Nap
  PROVE  TypeOK'
<1> USE Numbers
<1>1. probe' \in [Radios -> Pings]
  <2>1. \A r \in Radios : [probe[r] EXCEPT !.age = AgeCap] \in Pings /\ probe[r] \in Pings
    BY DEF TypeOK, Pings
  <2> QED  BY <2>1 DEF Nap
<1>2. reply' \in [Radios -> (0 .. AgeCap) \cup {None}] /\ quiet' \in [Radios -> 0 .. AgeCap]
  BY DEF TypeOK, Nap
<1>3. silence' \in (0 .. FailsafeAfter) \cup {None} /\ holdoff' \in 0 .. HoldOff /\ healed' \in 0 .. HealEvery
  BY DEF TypeOK, Nap
<1>4. sincePoll' \in 0 .. PollEvery /\ lean' \in 0 .. FailsafeAfter /\ left' \in 0 .. Events
  BY DEF TypeOK, Nap
<1>5. UNCHANGED <<air, lines, alive, helper, members, waiting, answered, tardy, mutes, starved, handed>>
  BY DEF Nap
<1> QED  BY <1>1, <1>2, <1>3, <1>4, <1>5 DEF TypeOK, Pings

LEMMA TypeWorld ==
  ASSUME TypeOK, World
  PROVE  TypeOK'
<1> USE Numbers
<1>1. PICK r \in Radios : Lands(r) \/ Turns(r) \/ Exits(r)
  BY DEF World
<1>2. air' \in [Radios -> Links] /\ probe' \in [Radios -> Pings]
  <2>0. air \in [Radios -> Links] /\ probe \in [Radios -> Pings] /\ air[r] \in Links
    BY DEF TypeOK, Pings
  <2>1. CASE Lands(r)
    <3>1. \A a \in APs \cup {None}, f \in BOOLEAN : [NoLink EXCEPT !.ap = a, !.full = f] \in Links
      BY DEF NoLink, Links
    <3> QED  BY <2>0, <2>1, <3>1 DEF Lands
  <2>2. CASE Turns(r)
    <3>1. \A l \in Links : /\ [l EXCEPT !.deaf = ~l.deaf] \in Links
                          /\ [l EXCEPT !.full = ~l.full] \in Links /\ [l EXCEPT !.slow = ~l.slow] \in Links
      BY DEF Links
    <3>2. UNCHANGED probe
      BY <2>2 DEF Turns
    <3>3. \E l \in Links : air' = [air EXCEPT ![r] = l]
      <4>1. CASE air' = [air EXCEPT ![r].deaf = ~@]
        BY <2>0, <3>1, <4>1
      <4>2. CASE air' = [air EXCEPT ![r].full = ~@]
        BY <2>0, <3>1, <4>2
      <4>3. CASE air' = [air EXCEPT ![r].slow = ~@]
        BY <2>0, <3>1, <4>3
      <4> QED  BY <2>2, <4>1, <4>2, <4>3 DEF Turns
    <3> QED  BY <2>0, <3>2, <3>3
  <2>3. CASE Exits(r)
    BY <2>3 DEF Exits, TypeOK, Pings
  <2> QED  BY <1>1, <2>1, <2>2, <2>3
<1>3. left' \in 0 .. Events
  BY DEF TypeOK, World
<1>4. starved' \in 0 .. HandBound + 1 /\ handed' \in BOOLEAN
  BY DEF TypeOK, World, Flows
<1>5. UNCHANGED <<reply, lines, alive, silence, holdoff, helper, healed, members, waiting, sincePoll,
                  quiet, answered, tardy, lean>>
  BY DEF World, failsafe, routing
<1>6. mutes' \in [Radios -> 0 .. DropBound + 1]
  BY Zeros DEF World, TypeOK
<1> QED  BY <1>2, <1>3, <1>4, <1>5, <1>6 DEF TypeOK, Pings

LEMMA TypeRest ==
  ASSUME TypeOK, StandDown \/ HelperEnds \/ OthersApply \/ (\E r \in Radios, whose \in {"mine", "old"} : Read(r, whose))
  PROVE  TypeOK'
<1> USE Numbers DEF TypeOK
<1>1. CASE StandDown
  <2>1. probe' \in [Radios -> Pings] /\ reply' \in [Radios -> (0 .. AgeCap) \cup {None}]
    BY <1>1, PingType DEF StandDown
  <2>2. lines' \subseteq Radios \X {"mine", "old"} /\ alive' \in [Radios -> Verdicts]
    BY <1>1 DEF StandDown, Verdicts
  <2>3. silence' = None /\ holdoff' = 0 /\ starved' = 0 /\ handed' = FALSE /\ lean' = 0
    BY <1>1 DEF StandDown
  <2>4. /\ quiet' \in [Radios -> 0 .. AgeCap] /\ mutes' \in [Radios -> 0 .. DropBound + 1]
        /\ answered' \in [Radios -> BOOLEAN] /\ tardy' \subseteq Radios
    BY <1>1 DEF StandDown
  <2>5. sincePoll' \in 0 .. PollEvery /\ left' \in 0 .. Events
    BY <1>1 DEF StandDown
  <2>6. UNCHANGED <<air, helper, healed, members, waiting>>
    BY <1>1 DEF StandDown, routing
  <2>7. /\ silence' \in (0 .. FailsafeAfter) \cup {None} /\ holdoff' \in 0 .. HoldOff
        /\ starved' \in 0 .. HandBound + 1 /\ handed' \in BOOLEAN /\ lean' \in 0 .. FailsafeAfter
    BY <2>3, Zeros
  <2> QED  BY <2>1, <2>2, <2>4, <2>5, <2>6, <2>7 DEF Pings
<1>2. CASE Apply /\ helper' \in (0 .. HelperMax) \cup {None}
  BY <1>2 DEF Apply, Healthy, LeftOut, liveness, failsafe, history
<1>3. HelperEnds \/ OthersApply => Apply /\ helper' \in (0 .. HelperMax) \cup {None}
  BY DEF HelperEnds, OthersApply
<1>4. CASE \E r \in Radios, whose \in {"mine", "old"} : Read(r, whose)
  <2>1. PICK r \in Radios, whose \in {"mine", "old"} : Read(r, whose)
    BY <1>4
  <2>2. lines' \subseteq Radios \X {"mine", "old"} /\ tardy' \subseteq Radios
    BY <2>1 DEF Read
  <2>3. reply' \in [Radios -> (0 .. AgeCap) \cup {None}]
    BY <2>1 DEF Read
  <2>4. UNCHANGED <<air, probe, alive, silence, holdoff, helper, healed, members, waiting, sincePoll, left,
                    quiet, answered, mutes, starved, handed, lean>>
    BY <2>1 DEF Read, failsafe, routing
  <2> QED  BY <2>2, <2>3, <2>4
<1> QED  BY <1>1, <1>2, <1>3, <1>4

LEMMA TypeStep ==
  ASSUME TypeOK, [Next]_vars
  PROVE  TypeOK'
<1>1. CASE UNCHANGED vars
  BY <1>1 DEF TypeOK, vars, liveness, failsafe, routing, history
<1> QED  BY <1>1, PollsDone, TypePolled, TypeTick, TypeNap, TypeWorld, TypeRest DEF Next

LEMMA TypeInit ==
  ASSUME Init
  PROVE  TypeOK
<1>1. air \in [Radios -> Links]
  BY DEF Init
<1>2. probe \in [Radios -> Pings] /\ alive \in [Radios -> Verdicts]
  BY PingType DEF Init, Verdicts
<1>3. reply \in [Radios -> (0 .. AgeCap) \cup {None}] /\ quiet \in [Radios -> 0 .. AgeCap]
  BY Zeros DEF Init
<1>4. mutes \in [Radios -> 0 .. DropBound + 1] /\ answered \in [Radios -> BOOLEAN]
  BY Zeros DEF Init
<1>5. lines = {} /\ tardy = {} /\ members = {} /\ waiting = {}
  BY DEF Init
<1>6. /\ holdoff \in 0 .. HoldOff /\ healed \in 0 .. HealEvery /\ sincePoll \in 0 .. PollEvery
      /\ left \in 0 .. Events
  BY Zeros DEF Init
<1>7. /\ silence \in (0 .. FailsafeAfter) \cup {None} /\ helper \in (0 .. HelperMax) \cup {None}
      /\ starved \in 0 .. HandBound + 1 /\ handed \in BOOLEAN /\ lean \in 0 .. FailsafeAfter
  BY Zeros DEF Init
<1> QED  BY <1>1, <1>2, <1>3, <1>4, <1>5, <1>6, <1>7 DEF TypeOK, Pings

\* Types.
THEOREM TypeCorrect == Spec => []TypeOK
BY TypeInit, TypeStep, PTL DEF Spec

-----------------------------------------------------------------------------
(* The verdicts. *)

\* What is known of a running ping, and what happened to it.
Told ==
  /\ \A r \in Running : quiet[r] <= probe[r].age /\ (reply[r] # None => quiet[r] <= reply[r])
  /\ \A r \in Running : <<r, "mine">> \notin lines =>
       AtMost(probe[r].age, IF reply[r] = None THEN probe[r].age ELSE reply[r]) <= quiet[r]
  /\ \A r \in Running : reply[r] # None => answered[r] \/ r \in tardy
  /\ \A r \in Running : answered[r] /\ <<r, "mine">> \notin lines => reply[r] # None
  /\ \A r \in Radios : <<r, "mine">> \in lines => answered[r] /\ quiet[r] = 0
  /\ \A r \in Radios : <<r, "old">> \in lines => quiet[r] = 0

VerdictInv == TypeOK /\ Told

\* A ping that keeps running keeps its story; another one has none yet.
LEMMA PolledRadio ==
  ASSUME TypeOK, PollDone, NEW r \in Radios
  PROVE  /\ Keeps(r) => /\ probe'[r] = probe[r] /\ reply'[r] = reply[r] /\ quiet'[r] = quiet[r]
                        /\ answered'[r] = answered[r] /\ (r \in tardy' <=> r \in tardy)
                        /\ (<<r, "mine">> \in lines' <=> <<r, "mine">> \in lines)
         /\ ~Keeps(r) => /\ probe'[r] = Ping(air[r].ap) /\ (air[r].ap # None => reply'[r] = None)
                         /\ quiet'[r] = 0 /\ answered'[r] = FALSE /\ <<r, "mine">> \notin lines'
         /\ <<r, "old">> \in lines' => <<r, "old">> \in lines \/ <<r, "mine">> \in lines
<1>1. /\ probe' = Probes /\ reply' = Replies
      /\ lines' = (lines \ (Orphans \X {"mine"})) \cup (Orphans \X {"old"})
      /\ quiet' = [q \in Radios |-> IF Anew(q) THEN 0 ELSE quiet[q]]
      /\ answered' = [q \in Radios |-> answered[q] /\ ~Anew(q)]
      /\ tardy' = {q \in tardy : ~Anew(q)}
  BY DEF PollDone, Polled, Update
<1>2. Anew(r) <=> ~Keeps(r)
  BY DEF Anew, Keeps
<1>3. answered[r] \in BOOLEAN
  BY DEF TypeOK
<1>4. (<<r, "mine">> \in lines' <=> <<r, "mine">> \in lines /\ Keeps(r))
      /\ (<<r, "old">> \in lines' => <<r, "old">> \in lines \/ <<r, "mine">> \in lines)
  BY <1>1 DEF Orphans
<1>5. CASE Keeps(r)
  <2>1. probe'[r] = probe[r] /\ reply'[r] = reply[r]
    BY <1>1, <1>5 DEF Probes, Replies
  <2>2. quiet'[r] = quiet[r] /\ (answered'[r] <=> answered[r]) /\ (r \in tardy' <=> r \in tardy)
    BY <1>1, <1>2, <1>5
  <2>3. answered'[r] = answered[r]
    BY <1>1, <1>2, <1>3, <1>5
  <2> QED  BY <1>4, <1>5, <2>1, <2>2, <2>3
<1>6. CASE ~Keeps(r)
  <2>1. probe'[r] = Ping(air[r].ap) /\ (air[r].ap # None => reply'[r] = None)
    BY <1>1, <1>6 DEF Probes, Replies, Idle
  <2>2. quiet'[r] = 0 /\ answered'[r] = FALSE
    BY <1>1, <1>2, <1>6
  <2> QED  BY <1>4, <1>6, <2>1, <2>2
<1> QED  BY <1>5, <1>6

LEMMA ToldPolled ==
  ASSUME VerdictInv, PollDone
  PROVE  Told'
<1> USE DEF VerdictInv
<1>1. ASSUME NEW r \in Radios, r \in Running', Keeps(r)
      PROVE  r \in Running
  BY <1>1, PolledRadio DEF Running
<1>2. ASSUME NEW r \in Radios, r \in Running', ~Keeps(r)
      PROVE  /\ probe'[r].age = 0 /\ reply'[r] = None /\ quiet'[r] = 0 /\ answered'[r] = FALSE
  <2>1. probe'[r] = Ping(air[r].ap) /\ (air[r].ap # None => reply'[r] = None) /\ quiet'[r] = 0 /\ answered'[r] = FALSE
    BY <1>2, PolledRadio
  <2>2. probe'[r].key = air[r].ap /\ probe'[r].age = 0
    BY <2>1 DEF Ping
  <2>3. probe'[r].key # None
    BY <1>2 DEF Running
  <2> QED  BY <2>1, <2>2, <2>3
<1>3. AtMost(0, 0) = 0
  BY DEF AtMost
<1>4. \A r \in Running' : quiet'[r] <= probe'[r].age /\ (reply'[r] # None => quiet'[r] <= reply'[r])
  <2> SUFFICES ASSUME NEW r \in Running'
               PROVE  quiet'[r] <= probe'[r].age /\ (reply'[r] # None => quiet'[r] <= reply'[r])
    OBVIOUS
  <2>0. r \in Radios
    BY DEF Running
  <2>1. CASE Keeps(r)
    BY <1>1, <2>0, <2>1, PolledRadio DEF Told
  <2>2. CASE ~Keeps(r)
    <3>1. probe'[r].age = 0 /\ reply'[r] = None /\ quiet'[r] = 0
      BY <1>2, <2>0, <2>2
    <3> QED  BY <3>1
  <2> QED  BY <2>1, <2>2
<1>5. \A r \in Running' : <<r, "mine">> \notin lines' =>
        AtMost(probe'[r].age, IF reply'[r] = None THEN probe'[r].age ELSE reply'[r]) <= quiet'[r]
  <2> SUFFICES ASSUME NEW r \in Running', <<r, "mine">> \notin lines'
               PROVE  AtMost(probe'[r].age, IF reply'[r] = None THEN probe'[r].age ELSE reply'[r]) <= quiet'[r]
    OBVIOUS
  <2>0. r \in Radios
    BY DEF Running
  <2>1. CASE Keeps(r)
    BY <1>1, <2>0, <2>1, PolledRadio DEF Told
  <2>2. CASE ~Keeps(r)
    <3>1. probe'[r].age = 0 /\ reply'[r] = None /\ quiet'[r] = 0
      BY <1>2, <2>0, <2>2
    <3> QED  BY <1>3, <3>1
  <2> QED  BY <2>1, <2>2
<1>6. \A r \in Running' : /\ reply'[r] # None => answered'[r] \/ r \in tardy'
                          /\ answered'[r] /\ <<r, "mine">> \notin lines' => reply'[r] # None
  <2> SUFFICES ASSUME NEW r \in Running'
               PROVE  /\ reply'[r] # None => answered'[r] \/ r \in tardy'
                      /\ answered'[r] /\ <<r, "mine">> \notin lines' => reply'[r] # None
    OBVIOUS
  <2>0. r \in Radios
    BY DEF Running
  <2>1. CASE Keeps(r)
    BY <1>1, <2>0, <2>1, PolledRadio DEF Told
  <2>2. CASE ~Keeps(r)
    BY <1>2, <2>0, <2>2
  <2> QED  BY <2>1, <2>2
<1>7. \A r \in Radios : /\ <<r, "mine">> \in lines' => answered'[r] /\ quiet'[r] = 0
                        /\ <<r, "old">> \in lines' => quiet'[r] = 0
  <2> TAKE r \in Radios
  <2>1. CASE Keeps(r)
    BY <2>1, PolledRadio DEF Told
  <2>2. CASE ~Keeps(r)
    BY <2>2, PolledRadio
  <2> QED  BY <2>1, <2>2
<1> QED  BY <1>4, <1>5, <1>6, <1>7 DEF Told

LEMMA ToldTick ==
  ASSUME VerdictInv, Tick
  PROVE  Told'
<1> USE DEF VerdictInv
<1> DEFINE heard == {r \in Running : Answers(r)}
<1>1. PICK late \in SUBSET heard :
        /\ lines' = late \X {"mine"}
        /\ reply' = [r \in Radios |-> IF r \in heard \ late THEN 0 ELSE Older(reply[r], AgeCap)]
  BY DEF Tick
<1>2. /\ lines = {} /\ tardy' = tardy
      /\ answered' = [r \in Radios |-> answered[r] \/ r \in heard]
      /\ quiet' = [r \in Radios |-> IF r \in Running \ heard THEN AtMost(quiet[r] + 1, AgeCap) ELSE 0]
      /\ probe' = [r \in Radios |-> IF r \in Running THEN [probe[r] EXCEPT !.age = AtMost(@ + 1, AgeCap)]
                                    ELSE probe[r]]
  BY DEF Tick
<1>3. heard \subseteq Running /\ Running \subseteq Radios
  BY DEF Running
<1> HIDE DEF heard
<1>4. ASSUME NEW r \in Radios
      PROVE  /\ probe[r] \in Pings /\ quiet[r] \in 0 .. AgeCap
             /\ reply[r] \in (0 .. AgeCap) \cup {None} /\ answered[r] \in BOOLEAN
  BY DEF TypeOK, Pings
<1>5. ASSUME NEW r \in Radios
      PROVE  r \in Running' <=> r \in Running
  BY <1>2, <1>4 DEF Running, Pings
<1>6. ASSUME NEW r \in Running
      PROVE  probe'[r].age = AtMost(probe[r].age + 1, AgeCap) /\ probe[r].age \in 0 .. AgeCap
  BY <1>2, <1>3, <1>4 DEF Pings
<1>7. ASSUME NEW r \in Running
      PROVE  /\ quiet'[r] <= probe'[r].age /\ (reply'[r] # None => quiet'[r] <= reply'[r])
             /\ <<r, "mine">> \notin lines' =>
                  AtMost(probe'[r].age, IF reply'[r] = None THEN probe'[r].age ELSE reply'[r]) <= quiet'[r]
             /\ reply'[r] # None => answered'[r] \/ r \in tardy'
             /\ answered'[r] /\ <<r, "mine">> \notin lines' => reply'[r] # None
  <2>0. r \in Radios /\ AgeCap \in Nat /\ None \notin Nat /\ <<r, "mine">> \notin lines
    BY <1>2, <1>3, Numbers
  <2>1. CASE r \in heard \ late
    <3>1. reply'[r] = 0 /\ quiet'[r] = 0 /\ answered'[r]
      BY <1>1, <1>2, <2>0, <2>1
    <3> QED  BY <1>6, <2>0, <3>1 DEF AtMost
  <2>2. CASE r \in late
    <3>1. r \in heard /\ reply'[r] = Older(reply[r], AgeCap)
      BY <1>1, <2>0, <2>2
    <3>2. quiet'[r] = 0 /\ answered'[r] /\ <<r, "mine">> \in lines'
      BY <1>1, <1>2, <2>0, <2>2, <3>1
    <3> QED  BY <1>4, <1>6, <2>0, <3>1, <3>2 DEF AtMost, Older
  <2>3. CASE r \notin heard
    <3>1. /\ reply'[r] = Older(reply[r], AgeCap) /\ quiet'[r] = AtMost(quiet[r] + 1, AgeCap)
          /\ answered'[r] = (answered[r] \/ r \in heard) /\ (r \in tardy' <=> r \in tardy)
      BY <1>1, <1>2, <2>0, <2>3
    <3>2. answered'[r] <=> answered[r]
      BY <2>3, <3>1
    <3>3. quiet[r] <= probe[r].age /\ (reply[r] # None => quiet[r] <= reply[r])
      BY DEF Told
    <3>4. AtMost(probe[r].age, IF reply[r] = None THEN probe[r].age ELSE reply[r]) <= quiet[r]
      BY <2>0 DEF Told
    <3>5. reply[r] # None => answered[r] \/ r \in tardy
      BY DEF Told
    <3>6. answered[r] => reply[r] # None
      BY <2>0 DEF Told
    <3>7. (reply'[r] = None <=> reply[r] = None)
          /\ (reply[r] # None => reply[r] \in 0 .. AgeCap /\ reply'[r] = AtMost(reply[r] + 1, AgeCap))
      BY <1>4, <2>0, <3>1 DEF Older, AtMost
    <3>8. quiet'[r] <= probe'[r].age /\ (reply'[r] # None => quiet'[r] <= reply'[r])
      BY <1>4, <1>6, <2>0, <3>1, <3>3, <3>7 DEF AtMost
    <3>9. AtMost(probe'[r].age, IF reply'[r] = None THEN probe'[r].age ELSE reply'[r]) <= quiet'[r]
      BY <1>4, <1>6, <2>0, <3>1, <3>4, <3>7 DEF AtMost
    <3> QED  BY <3>1, <3>2, <3>5, <3>6, <3>7, <3>8, <3>9
  <2> QED  BY <2>1, <2>2, <2>3
<1>8. \A r \in Radios : /\ <<r, "mine">> \in lines' => answered'[r] /\ quiet'[r] = 0
                        /\ <<r, "old">> \in lines' => quiet'[r] = 0
  BY <1>1, <1>2
<1>9. Running' = Running
  BY <1>3, <1>5 DEF Running
<1> QED  BY <1>7, <1>8, <1>9 DEF Told

LEMMA ToldRead ==
  ASSUME VerdictInv, NEW r \in Radios, NEW whose \in {"mine", "old"}, Read(r, whose)
  PROVE  Told'
<1>1. /\ <<r, whose>> \in lines /\ lines' = lines \ {<<r, whose>>}
      /\ reply' = [reply EXCEPT ![r] = 0] /\ tardy' = (IF whose = "old" THEN tardy \cup {r} ELSE tardy)
      /\ UNCHANGED <<probe, quiet, answered>>
  BY DEF Read
<1>2. quiet[r] = 0 /\ (whose = "mine" => answered[r])
  BY <1>1 DEF VerdictInv, Told
<1>3. reply'[r] = 0 /\ \A q \in Radios \ {r} : reply'[q] = reply[q]
  BY <1>1 DEF VerdictInv, TypeOK
<1>4. Running' = Running /\ Running \subseteq Radios
  BY <1>1 DEF Running
<1>5. \A q \in Running : probe[q].age \in Nat
  BY Numbers DEF VerdictInv, TypeOK, Running
<1>6. ASSUME NEW q \in Running
      PROVE  /\ quiet[q] <= probe[q].age /\ (reply'[q] # None => quiet[q] <= reply'[q])
             /\ <<q, "mine">> \notin lines' =>
                  AtMost(probe[q].age, IF reply'[q] = None THEN probe[q].age ELSE reply'[q]) <= quiet[q]
             /\ reply'[q] # None => answered[q] \/ q \in tardy'
             /\ answered[q] /\ <<q, "mine">> \notin lines' => reply'[q] # None
  <2>1. CASE q = r
    <3>1. reply'[q] = 0 /\ 0 # None /\ quiet[q] = 0 /\ (answered[q] \/ q \in tardy')
      BY <1>1, <1>2, <1>3, <2>1, Numbers
    <3>2. probe[q].age \in Nat
      BY <1>5
    <3> QED  BY <3>1, <3>2 DEF AtMost
  <2>2. CASE q # r
    <3>1. reply'[q] = reply[q] /\ (q \in tardy => q \in tardy')
          /\ (<<q, "mine">> \in lines' <=> <<q, "mine">> \in lines)
      BY <1>1, <1>3, <1>4, <2>2
    <3> QED  BY <3>1 DEF VerdictInv, Told
  <2> QED  BY <2>1, <2>2
<1>7. \A q \in Radios : /\ <<q, "mine">> \in lines' => answered[q] /\ quiet[q] = 0
                        /\ <<q, "old">> \in lines' => quiet[q] = 0
  BY <1>1 DEF VerdictInv, Told
<1> QED  BY <1>1, <1>4, <1>6, <1>7 DEF Told

LEMMA ToldNap ==
  ASSUME VerdictInv, Nap
  PROVE  Told'
<1>1. /\ lines = {} /\ UNCHANGED <<lines, answered, tardy>>
      /\ probe' = [r \in Radios |-> IF r \in Running THEN [probe[r] EXCEPT !.age = AgeCap] ELSE probe[r]]
      /\ reply' = [r \in Radios |-> IF reply[r] = None THEN None ELSE AgeCap]
      /\ quiet' = [r \in Radios |-> IF r \in Running THEN AgeCap ELSE quiet[r]]
  BY DEF Nap
<1>2. \A r \in Radios : probe[r] \in Pings
  BY DEF VerdictInv, TypeOK, Pings
<1>3. Running' = Running /\ Running \subseteq Radios
  BY <1>1, <1>2 DEF Running, Pings
<1>4. \A r \in Running : /\ probe'[r].age = AgeCap /\ quiet'[r] = AgeCap
                         /\ (reply'[r] = None <=> reply[r] = None) /\ (reply[r] # None => reply'[r] = AgeCap)
  BY <1>1, <1>2, <1>3, Numbers DEF Pings
<1>5. AtMost(AgeCap, AgeCap) = AgeCap /\ AgeCap <= AgeCap /\ AgeCap # None
  BY Numbers DEF AtMost
<1>6. \A r \in Running : /\ reply[r] # None => answered[r] \/ r \in tardy
                         /\ answered[r] => reply[r] # None
  BY <1>1 DEF VerdictInv, Told
<1>7. \A r \in Running : /\ quiet'[r] <= probe'[r].age /\ (reply'[r] # None => quiet'[r] <= reply'[r])
                         /\ AtMost(probe'[r].age, IF reply'[r] = None THEN probe'[r].age ELSE reply'[r]) <= quiet'[r]
  BY <1>4, <1>5
<1> QED  BY <1>1, <1>3, <1>4, <1>6, <1>7 DEF Told

LEMMA ToldWorld ==
  ASSUME VerdictInv, World
  PROVE  Told'
<1>1. PICK r \in Radios : Lands(r) \/ Turns(r) \/ Exits(r)
  BY DEF World
<1>2. UNCHANGED <<reply, lines, quiet, answered, tardy>>
  BY DEF World
<1>3. UNCHANGED probe \/ probe' = [probe EXCEPT ![r].ended = TRUE]
  BY <1>1 DEF Lands, Turns, Exits
<1>4. ASSUME NEW q \in Running'
      PROVE  q \in Running /\ probe'[q] = probe[q]
  <2>1. \A s \in Radios : probe[s] \in Pings
    BY DEF VerdictInv, TypeOK, Pings
  <2>2. probe \in [Radios -> Pings]
    BY DEF VerdictInv, TypeOK, Pings
  <2> QED  BY <1>3, <2>1, <2>2 DEF Running, Pings
<1> QED  BY <1>2, <1>4 DEF VerdictInv, Told

LEMMA ToldStandDown ==
  ASSUME VerdictInv, StandDown
  PROVE  Told'
<1>1. Running' = {}
  BY DEF StandDown, Running, Ping
<1>2. lines' \subseteq Radios \X {"old"} /\ \A r \in Radios : quiet'[r] = 0
  BY DEF StandDown
<1> QED  BY <1>1, <1>2 DEF Told

LEMMA VerdictStep ==
  ASSUME VerdictInv, [Next]_vars
  PROVE  VerdictInv'
<1>0. TypeOK'
  BY TypeStep DEF VerdictInv
<1>1. CASE UNCHANGED <<liveness, history>>
  <2>1. UNCHANGED <<probe, reply, lines, quiet, answered, tardy>>
    BY <1>1 DEF liveness, history
  <2>2. Running' = Running
    BY <2>1 DEF Running
  <2>3. Told
    BY DEF VerdictInv
  <2>4. Told'
    BY <2>1, <2>2, <2>3 DEF Told
  <2> QED  BY <1>0, <2>4 DEF VerdictInv
<1>2. UNCHANGED vars \/ HelperEnds \/ OthersApply => UNCHANGED <<liveness, history>>
  BY DEF vars, HelperEnds, OthersApply, Apply
<1>3. PollHeldOff \/ PollHands \/ PollPlans => Told'
  BY PollsDone, ToldPolled DEF VerdictInv
<1> QED  BY <1>0, <1>1, <1>2, <1>3, ToldRead, ToldNap, ToldWorld, ToldStandDown, ToldTick DEF Next, VerdictInv

LEMMA VerdictInit == Init => VerdictInv
<1> SUFFICES ASSUME Init PROVE VerdictInv
  OBVIOUS
<1>1. TypeOK
  BY TypeInit
<1>2. Running = {} /\ lines = {}
  BY DEF Init, Running, Ping
<1> QED  BY <1>1, <1>2 DEF VerdictInv, Told

LEMMA VerdictAlways == Spec => []VerdictInv
BY VerdictInit, VerdictStep, PTL DEF Spec

\* A step that ends a polling pause is a poll, or a stand-down, which forgets every verdict.
LEMMA PollsAre ==
  ASSUME TypeOK, [Next]_vars, Polls
  PROVE  PollDone \/ StandDown
<1>1. ~(Tick \/ Nap)
  BY Numbers DEF TypeOK, Tick, Nap, Polls
<1>2. ~(World \/ HelperEnds \/ OthersApply)
  BY DEF Polls, World, HelperEnds, OthersApply, Apply
<1>3. ~UNCHANGED vars
  BY DEF Polls, vars
<1>4. ASSUME NEW r \in Radios, NEW whose \in {"mine", "old"}
      PROVE  ~Read(r, whose)
  BY DEF Polls, Read
<1> QED  BY <1>1, <1>2, <1>3, <1>4, PollsDone DEF Next

\* What a poll makes of a radio on the same link as before.
LEMMA JudgedKeeps ==
  ASSUME VerdictInv, NEW r \in Radios
  PROVE  /\ ~Keeps(r) => Judged[r] # "no"
         /\ Keeps(r) => Judged[r] = Settled(Verdict(probe[r], reply[r], air[r].slow), reply[r], air[r].full)
         /\ Judged[r] = "no" => r \in Running
<1>1. Judged[r] = Settled(Verdict(Probes[r], Replies[r], air[r].slow), Replies[r], air[r].full)
  BY DEF Judged
<1>2. CASE Keeps(r)
  <2>1. Probes[r] = probe[r] /\ Replies[r] = reply[r]
    BY <1>2 DEF Probes, Replies
  <2>2. probe[r].key = None => Judged[r] = "unknown"
    BY <1>1, <2>1 DEF Verdict, Settled
  <2> QED  BY <1>1, <1>2, <2>1, <2>2 DEF Keeps, Running
<1>3. CASE ~Keeps(r)
  <2>1. Probes[r] = Ping(air[r].ap)
    BY <1>3 DEF Probes
  <2>2. CASE air[r].ap = None
    BY <1>1, <1>3, <2>1, <2>2 DEF Verdict, Settled, Ping
  <2>3. CASE air[r].ap # None
    <3>1. Replies[r] = None
      BY <1>3, <2>3 DEF Replies, Idle
    <3>2. AtMost(0, 0) = 0
      BY DEF AtMost
    <3>3. Verdict(Probes[r], Replies[r], air[r].slow) = "unknown"
      BY <2>1, <2>3, <3>1, <3>2, Numbers DEF Verdict, Ping
    <3> QED  BY <1>1, <1>3, <3>3 DEF Settled
  <2> QED  BY <2>2, <2>3
<1> QED  BY <1>2, <1>3

\* No link is called dead before as many pings over the access point it is on as the fuse is long.
THEOREM ThreeMissesHolds == Spec => ThreeMisses
<1>1. ASSUME VerdictInv, [Next]_vars, Polls, NEW r \in Radios, alive'[r] = "no", <<r, "mine">> \notin lines
      PROVE  quiet'[r] > Fuse(r)
  <2>1. PollDone
    BY <1>1, PollsAre DEF VerdictInv, StandDown
  <2>2. Judged[r] = "no"
    BY <1>1, <2>1 DEF PollDone, Polled
  <2>3. r \in Running /\ Keeps(r)
    BY <1>1, <2>2, JudgedKeeps
  <2>4. Verdict(probe[r], reply[r], air[r].slow) = "no"
    BY <1>1, <2>2, <2>3, JudgedKeeps DEF Settled
  <2>5. AtMost(probe[r].age, IF reply[r] = None THEN probe[r].age ELSE reply[r]) > Fuse(r)
    BY <2>3, <2>4 DEF Verdict, Running, Fuse
  <2>6. AtMost(probe[r].age, IF reply[r] = None THEN probe[r].age ELSE reply[r]) <= quiet[r]
    BY <1>1, <2>3 DEF VerdictInv, Told
  <2>7. quiet'[r] = quiet[r]
    BY <1>1, <2>1, <2>3, PolledRadio DEF VerdictInv
  <2>8. /\ quiet[r] \in Nat /\ Fuse(r) \in Nat
        /\ AtMost(probe[r].age, IF reply[r] = None THEN probe[r].age ELSE reply[r]) \in Nat
    BY <1>1, Numbers DEF VerdictInv, TypeOK, Fuse, AtMost
  <2> QED  BY <2>5, <2>6, <2>7, <2>8
<1>2. VerdictInv /\ [Next]_vars => [Polls => \A r \in Radios :
        alive'[r] = "no" /\ <<r, "mine">> \notin lines => quiet'[r] > Fuse(r)]_vars
  BY <1>1
<1> QED  BY <1>2, VerdictAlways, PTL DEF Spec, ThreeMisses

\* A gateway that never answered does not make a link dead while NetworkManager's check passes.
THEOREM MuteSparedHolds == Spec => MuteSpared
<1>1. ASSUME VerdictInv, [Next]_vars, Polls, NEW r \in Radios, alive'[r] = "no", air[r].full
      PROVE  answered'[r] \/ r \in tardy'
  <2>1. PollDone
    BY <1>1, PollsAre DEF VerdictInv, StandDown
  <2>2. Judged[r] = "no"
    BY <1>1, <2>1 DEF PollDone, Polled
  <2>3. r \in Running /\ Keeps(r)
    BY <1>1, <2>2, JudgedKeeps
  <2>4. reply[r] # None
    BY <1>1, <2>2, <2>3, JudgedKeeps DEF Settled
  <2>5. answered[r] \/ r \in tardy
    BY <1>1, <2>3, <2>4 DEF VerdictInv, Told
  <2> QED  BY <1>1, <2>1, <2>3, <2>5, PolledRadio DEF VerdictInv
<1>2. VerdictInv /\ [Next]_vars => [Polls => \A r \in Radios :
        alive'[r] = "no" /\ air[r].full => answered'[r] \/ r \in tardy']_vars
  BY <1>1
<1> QED  BY <1>2, VerdictAlways, PTL DEF Spec, MuteSpared

\* A link that is silent for longer than the fuse is called dead.
THEOREM DeadIsFoundHolds == Spec => DeadIsFound
<1>1. ASSUME VerdictInv, [Next]_vars, Polls, NEW r \in Radios, air[r].ap # None, quiet'[r] > Fuse(r),
             answered'[r] \/ ~air[r].full
      PROVE  alive'[r] = "no"
  <2>0. Fuse(r) \in Nat \ {0}
    BY Numbers DEF Fuse
  <2>1. PollDone
    <3>1. StandDown => quiet'[r] = 0
      BY DEF StandDown
    <3> QED  BY <1>1, <2>0, <3>1, PollsAre DEF VerdictInv
  <2>2. alive'[r] = Judged[r]
    BY <2>1 DEF PollDone, Polled
  <2>3. Keeps(r)
    <3>1. CASE ~Keeps(r)
      <4>1. quiet'[r] = 0
        BY <1>1, <2>1, <3>1, PolledRadio DEF VerdictInv
      <4> QED  BY <1>1, <2>0, <4>1
    <3> QED  BY <3>1
  <2>4. quiet[r] > Fuse(r) /\ (answered[r] \/ ~air[r].full) /\ r \in Running
    BY <1>1, <2>1, <2>3, PolledRadio DEF VerdictInv, Keeps, Running
  <2>5. <<r, "mine">> \notin lines
    BY <1>1, <2>0, <2>4 DEF VerdictInv, Told
  <2>6. quiet[r] <= probe[r].age /\ (reply[r] # None => quiet[r] <= reply[r])
    BY <1>1, <2>4 DEF VerdictInv, Told
  <2>7. /\ quiet[r] \in Nat /\ probe[r].age \in Nat /\ (reply[r] # None => reply[r] \in Nat)
    BY <1>1, Numbers DEF VerdictInv, TypeOK
  <2>8. AtMost(probe[r].age, IF reply[r] = None THEN probe[r].age ELSE reply[r]) > Fuse(r)
    BY <2>0, <2>4, <2>6, <2>7 DEF AtMost
  <2>9. Verdict(probe[r], reply[r], air[r].slow) = "no"
    BY <2>4, <2>8 DEF Verdict, Running, Fuse
  <2>10. ~(reply[r] = None /\ air[r].full)
    BY <1>1, <2>4, <2>5 DEF VerdictInv, Told
  <2> QED  BY <1>1, <2>2, <2>3, <2>9, <2>10, JudgedKeeps DEF Settled
<1>2. VerdictInv /\ [Next]_vars => [Polls => \A r \in Radios :
        air[r].ap # None /\ quiet'[r] > Fuse(r) /\ (answered'[r] \/ ~air[r].full) => alive'[r] = "no"]_vars
  BY <1>1
<1> QED  BY <1>2, VerdictAlways, PTL DEF Spec, DeadIsFound

-----------------------------------------------------------------------------
(* The failsafe. *)

\* The count of silence never runs ahead of the evidence, and stands still in a hold-off.
Counted == TypeOK /\ (silence # None => silence <= lean /\ holdoff = 0)

LEMMA CountedStep ==
  ASSUME Counted, [Next]_vars
  PROVE  Counted' /\ (holdoff' > holdoff => lean >= FailsafeAfter)
<1> USE Numbers
<1>0. TypeOK' /\ TypeOK
  BY TypeStep DEF Counted
<1>1. silence \in (0 .. FailsafeAfter) \cup {None} /\ lean \in 0 .. FailsafeAfter /\ holdoff \in 0 .. HoldOff
  BY <1>0 DEF TypeOK
<1>2. CASE PollHeldOff
  <2>1. UNCHANGED <<silence, holdoff>> /\ lean' = (IF Through THEN 0 ELSE lean) /\ holdoff > 0
    BY <1>2 DEF PollHeldOff, Polled, failsafe
  <2>2. silence = None
    BY <1>1, <2>1 DEF Counted
  <2> QED  BY <1>0, <1>1, <2>1, <2>2 DEF Counted
<1>3. CASE PollHands
  BY <1>0, <1>1, <1>3 DEF Counted, PollHands, Polled
<1>4. CASE PollPlans
  <2>1. /\ silence' = (IF Through THEN None ELSE IF silence = None THEN 0 ELSE silence)
        /\ lean' = (IF Through THEN 0 ELSE lean) /\ holdoff' = holdoff /\ holdoff = 0
    BY <1>4 DEF PollPlans, Polled
  <2> QED  BY <1>0, <1>1, <2>1 DEF Counted
<1>5. CASE Tick
  <2>1. /\ silence' = Older(silence, FailsafeAfter) /\ lean' = AtMost(lean + 1, FailsafeAfter)
        /\ holdoff' = (IF holdoff = 0 THEN 0 ELSE holdoff - 1)
    BY <1>5 DEF Tick
  <2> QED  BY <1>0, <1>1, <2>1 DEF Counted, Older, AtMost
<1>6. CASE Nap
  <2>1. /\ silence' = (IF silence = None THEN None ELSE FailsafeAfter) /\ lean' = FailsafeAfter /\ holdoff' = 0
    BY <1>6 DEF Nap
  <2> QED  BY <1>0, <1>1, <2>1 DEF Counted
<1>7. CASE StandDown
  <2>1. silence' = None /\ holdoff' = 0
    BY <1>7 DEF StandDown
  <2> QED  BY <1>0, <1>1, <2>1 DEF Counted
<1>8. CASE UNCHANGED <<failsafe, lean>>
  <2>1. UNCHANGED <<silence, holdoff, lean>>
    BY <1>8 DEF failsafe
  <2> QED  BY <1>0, <1>1, <2>1 DEF Counted
<1>9. World \/ HelperEnds \/ OthersApply \/ UNCHANGED vars => UNCHANGED <<failsafe, lean>>
  BY DEF World, HelperEnds, OthersApply, Apply, vars, history
<1>10. (\E r \in Radios, whose \in {"mine", "old"} : Read(r, whose)) => UNCHANGED <<failsafe, lean>>
  BY DEF Read
<1> QED  BY <1>2, <1>3, <1>4, <1>5, <1>6, <1>7, <1>8, <1>9, <1>10 DEF Next

\* The radios are never handed back on less than the failsafe's time of evidence.
THEOREM HandsOnlyTheStarvedHolds == Spec => HandsOnlyTheStarved
<1>1. Init => Counted
  BY TypeInit DEF Init, Counted
<1>2. Counted /\ [Next]_vars => Counted'
  BY CountedStep
<1>3. Counted /\ [Next]_vars => [holdoff' > holdoff => lean >= FailsafeAfter]_vars
  BY CountedStep
<1> QED  BY <1>1, <1>2, <1>3, PTL DEF Spec, HandsOnlyTheStarved

\* The starvation of every link shows in what the probes know.
Starving ==
  /\ starved > 0 => ~Flows(air)
  /\ lines # {} => starved = 0
  /\ \A r \in Running : reply[r] # None =>
       AtMost(starved, AgeCap) <= probe[r].age /\ AtMost(starved, AgeCap) <= reply[r]

\* How far a starvation can be on without the radios having been handed over.
Pressed ==
  /\ holdoff > 0 /\ starved > 0 => handed
  /\ ~handed =>
       /\ silence = None => starved <= DeadAfter + sincePoll
       /\ silence # None => starved <= DeadAfter + PollEvery + silence + sincePoll
       /\ silence # None /\ silence < FailsafeAfter => starved <= DeadAfter + PollEvery + silence

StarvedInv == Counted /\ Starving /\ Pressed

LEMMA StarvingStep ==
  ASSUME TypeOK, TypeOK', Starving, [Next]_vars
  PROVE  Starving'
<1> USE Numbers
<1>0. starved \in Nat /\ starved' \in Nat /\ \A r \in Radios : probe[r] \in Pings /\ (reply[r] # None => reply[r] \in 0 .. AgeCap)
  BY DEF TypeOK, Pings
<1>1. AtMost(0, AgeCap) = 0
  BY DEF AtMost
<1>2. CASE PollDone
  <2>1. starved' = starved /\ air' = air /\ (lines' # {} => lines # {})
    BY <1>2, ProbesType DEF PollDone, Polled, Update, Orphans
  <2>2. ASSUME NEW r \in Running', reply'[r] # None
        PROVE  r \in Running /\ probe'[r] = probe[r] /\ reply'[r] = reply[r]
    <3>0. r \in Radios
      BY DEF Running
    <3>1. Keeps(r)
      <4>1. CASE ~Keeps(r)
        <5>1. probe'[r] = Ping(air[r].ap) /\ (air[r].ap # None => reply'[r] = None)
          BY <1>2, <3>0, <4>1, PolledRadio
        <5>2. probe'[r].key # None
          BY <2>2 DEF Running
        <5> QED  BY <2>2, <5>1, <5>2 DEF Ping
      <4> QED  BY <4>1
    <3>2. probe'[r] = probe[r] /\ reply'[r] = reply[r]
      BY <1>2, <3>0, <3>1, PolledRadio
    <3> QED  BY <2>2, <3>0, <3>2 DEF Running
  <2>3. Flows(air)' = Flows(air)
    BY <2>1 DEF Flows
  <2> QED  BY <2>1, <2>2, <2>3 DEF Starving
<1>3. CASE Tick
  <2>1. /\ UNCHANGED air /\ starved' = (IF Flows(air) THEN 0 ELSE AtMost(starved + 1, HandBound + 1))
        /\ lines = {}
    BY <1>3 DEF Tick
  <2>2. PICK late \in SUBSET {r \in Running : Answers(r)} :
          /\ lines' = late \X {"mine"}
          /\ reply' = [r \in Radios |-> IF r \in {q \in Running : Answers(q)} \ late THEN 0 ELSE Older(reply[r], AgeCap)]
    BY <1>3 DEF Tick
  <2>3. \A r \in Radios : Answers(r) => Flows(air)
    BY DEF Answers, Flows
  <2>4. lines' # {} => starved' = 0
    BY <2>1, <2>2, <2>3 DEF Running
  <2>5. ASSUME NEW r \in Running', reply'[r] # None, ~Flows(air)
        PROVE  AtMost(starved', AgeCap) <= probe'[r].age /\ AtMost(starved', AgeCap) <= reply'[r]
    <3>0. r \in Radios
      BY DEF Running
    <3>1. probe' = [q \in Radios |-> IF q \in Running THEN [probe[q] EXCEPT !.age = AtMost(@ + 1, AgeCap)] ELSE probe[q]]
      BY <1>3 DEF Tick
    <3>2. r \in Running /\ probe'[r].age = AtMost(probe[r].age + 1, AgeCap) /\ probe[r].age \in 0 .. AgeCap
      BY <1>0, <3>0, <3>1 DEF Running, Pings
    <3>3. reply'[r] = Older(reply[r], AgeCap)
      BY <2>2, <2>3, <2>5, <3>0
    <3>4. reply[r] # None /\ reply[r] \in 0 .. AgeCap /\ reply'[r] = AtMost(reply[r] + 1, AgeCap)
      BY <1>0, <2>5, <3>0, <3>3 DEF Older
    <3>5. AtMost(starved, AgeCap) <= probe[r].age /\ AtMost(starved, AgeCap) <= reply[r]
      BY <3>2, <3>4 DEF Starving
    <3>6. starved' <= starved + 1
      BY <1>0, <2>1, <2>5 DEF AtMost
    <3> QED  BY <1>0, <3>2, <3>4, <3>5, <3>6 DEF AtMost
  <2>6. \A r \in Running' : probe'[r].age \in Nat /\ (reply'[r] # None => reply'[r] \in Nat)
    BY DEF TypeOK, Running
  <2>7. CASE Flows(air)
    BY <1>1, <2>1, <2>6, <2>7 DEF Starving
  <2>8. CASE ~Flows(air)
    <3>1. ~Flows(air)'
      BY <2>1, <2>8 DEF Flows
    <3> QED  BY <2>4, <2>5, <2>8, <3>1 DEF Starving
  <2> QED  BY <2>7, <2>8
<1>4. CASE starved' = 0
  <2>1. \A r \in Running' : probe'[r].age \in Nat /\ (reply'[r] # None => reply'[r] \in Nat)
    BY DEF TypeOK, Running
  <2> QED  BY <1>1, <1>4, <2>1 DEF Starving
<1>5. CASE \E r \in Radios, whose \in {"mine", "old"} : Read(r, whose)
  <2>1. lines # {} /\ starved' = starved
    BY <1>5 DEF Read
  <2> QED  BY <1>4, <2>1 DEF Starving
<1>6. CASE World
  <2>1. starved' = 0 \/ (starved' = starved /\ ~Flows(air'))
    BY <1>6 DEF World
  <2>2. Flows(air') = Flows(air)'
    BY DEF Flows
  <2>3. UNCHANGED <<reply, lines>> /\ \A r \in Running' : r \in Running /\ probe'[r] = probe[r]
    <3>1. UNCHANGED probe \/ \E r \in Radios : probe' = [probe EXCEPT ![r].ended = TRUE]
      BY <1>6 DEF World, Lands, Turns, Exits
    <3>2. probe \in [Radios -> Pings]
      BY DEF TypeOK, Pings
    <3>3. \A r \in Running' : r \in Running /\ probe'[r] = probe[r]
      BY <3>1, <3>2 DEF Running, Pings
    <3> QED  BY <1>6, <3>3 DEF World
  <2> QED  BY <1>4, <2>1, <2>2, <2>3 DEF Starving
<1>7. CASE Nap
  <2>1. /\ probe' = [r \in Radios |-> IF r \in Running THEN [probe[r] EXCEPT !.age = AgeCap] ELSE probe[r]]
        /\ reply' = [r \in Radios |-> IF reply[r] = None THEN None ELSE AgeCap]
        /\ UNCHANGED <<air, lines, starved>>
    BY <1>7 DEF Nap
  <2>2. \A r \in Running' : r \in Radios /\ probe'[r].age = AgeCap /\ (reply'[r] # None => reply'[r] = AgeCap)
    BY <1>0, <2>1 DEF Running, Pings
  <2>3. AtMost(starved, AgeCap) <= AgeCap
    BY <1>0 DEF AtMost
  <2>4. Flows(air)' = Flows(air)
    BY <2>1 DEF Flows
  <2> QED  BY <2>1, <2>2, <2>3, <2>4 DEF Starving
<1>8. CASE UNCHANGED <<air, probe, reply, lines, starved>>
  <2>1. Running' = Running /\ Flows(air)' = Flows(air)
    BY <1>8 DEF Running, Flows
  <2> QED  BY <1>8, <2>1 DEF Starving
<1>9. UNCHANGED vars \/ HelperEnds \/ OthersApply => UNCHANGED <<air, probe, reply, lines, starved>>
  BY DEF vars, HelperEnds, OthersApply, Apply, liveness, history
<1>10. StandDown => starved' = 0
  BY DEF StandDown
<1> QED  BY <1>2, <1>3, <1>4, <1>5, <1>6, <1>7, <1>8, <1>9, <1>10, PollsDone DEF Next

\* No poll finds something getting through when nothing has for longer than the fuse.
LEMMA NotThrough ==
  ASSUME TypeOK, Starving, starved > DeadAfter
  PROVE  ~Through
<1> USE Numbers
<1>0. starved \in Nat
  BY DEF TypeOK
<1> SUFFICES ASSUME NEW r \in Radios PROVE Judged[r] # "yes" /\ ~air[r].full
  BY DEF Through
<1>1. ~air[r].full
  BY <1>0 DEF Starving, Flows
<1>2. Judged[r] = Settled(Verdict(Probes[r], Replies[r], air[r].slow), Replies[r], air[r].full)
  BY DEF Judged
<1>3. Judged[r] = "yes" => Verdict(Probes[r], Replies[r], air[r].slow) = "yes"
  BY <1>2 DEF Settled
<1>4. Verdict(Probes[r], Replies[r], air[r].slow) = "yes" =>
        /\ Probes[r].key # None /\ Replies[r] # None
        /\ ~(AtMost(Probes[r].age, Replies[r]) > (IF air[r].slow THEN SuspectAfter ELSE DeadAfter))
  BY DEF Verdict
<1>5. SUFFICES ASSUME Probes[r].key # None, Replies[r] # None
               PROVE  AtMost(Probes[r].age, Replies[r]) > (IF air[r].slow THEN SuspectAfter ELSE DeadAfter)
  BY <1>1, <1>3, <1>4
<1>6. Keeps(r)
  BY <1>5 DEF Probes, Replies, Idle, Ping
<1>7. Probes[r] = probe[r] /\ Replies[r] = reply[r]
  BY <1>6 DEF Probes, Replies
<1>8. r \in Running
  BY <1>5, <1>6, <1>7 DEF Running, Keeps
<1>9. AtMost(starved, AgeCap) <= probe[r].age /\ AtMost(starved, AgeCap) <= reply[r]
  BY <1>5, <1>7, <1>8 DEF Starving
<1>10. AtMost(starved, AgeCap) > DeadAfter
  BY <1>0 DEF AtMost
<1>11. probe[r].age \in Nat /\ reply[r] \in Nat /\ AtMost(starved, AgeCap) \in Nat
  BY <1>0, <1>5, <1>7 DEF TypeOK, AtMost
<1> QED  BY <1>7, <1>9, <1>10, <1>11 DEF AtMost

LEMMA PressedStep ==
  ASSUME StarvedInv, TypeOK', [Next]_vars
  PROVE  Pressed'
<1> USE Numbers
<1>0. /\ TypeOK /\ starved \in Nat /\ sincePoll \in 0 .. PollEvery /\ holdoff \in 0 .. HoldOff
      /\ silence \in (0 .. FailsafeAfter) \cup {None} /\ handed \in BOOLEAN
      /\ (silence # None => holdoff = 0)
      /\ (starved > 0 => ~Flows(air)) /\ (Through => starved <= DeadAfter)
  BY NotThrough DEF StarvedInv, Counted, TypeOK, Starving
<1>1. /\ holdoff > 0 /\ starved > 0 => handed
      /\ ~handed /\ silence = None => starved <= DeadAfter + sincePoll
      /\ ~handed /\ silence # None => starved <= DeadAfter + PollEvery + silence + sincePoll
      /\ ~handed /\ silence # None /\ silence < FailsafeAfter => starved <= DeadAfter + PollEvery + silence
  BY DEF StarvedInv, Pressed
<1>2. CASE PollHeldOff
  <2>1. UNCHANGED <<silence, holdoff, handed, starved>> /\ holdoff > 0 /\ sincePoll' = 0
    BY <1>2 DEF PollHeldOff, Polled, failsafe
  <2>2. silence = None /\ (starved = 0 \/ handed)
    BY <1>0, <1>1, <2>1
  <2> QED  BY <1>0, <2>1, <2>2 DEF Pressed
<1>3. CASE PollHands
  BY <1>3 DEF PollHands, Pressed
<1>4. CASE PollPlans
  <2>1. /\ UNCHANGED <<holdoff, handed, starved>> /\ holdoff = 0 /\ sincePoll' = 0
        /\ silence' = (IF Through THEN None ELSE IF silence = None THEN 0 ELSE silence)
        /\ Through \/ silence # FailsafeAfter
    BY <1>4 DEF PollPlans, Polled
  <2>2. CASE Through
    <3>1. silence' = None /\ starved <= DeadAfter
      BY <1>0, <2>1, <2>2
    <3> QED  BY <1>0, <2>1, <3>1 DEF Pressed
  <2>3. CASE ~Through /\ silence = None
    <3>1. silence' = 0
      BY <2>1, <2>3
    <3>2. ~handed => starved <= DeadAfter + PollEvery
      BY <1>0, <1>1, <2>3
    <3> QED  BY <1>0, <2>1, <3>1, <3>2 DEF Pressed
  <2>4. CASE ~Through /\ silence # None
    <3>1. silence' = silence /\ silence < FailsafeAfter
      BY <1>0, <2>1, <2>4
    <3> QED  BY <1>0, <1>1, <2>1, <2>4, <3>1 DEF Pressed
  <2> QED  BY <2>2, <2>3, <2>4
<1>5. CASE Tick
  <2>1. /\ silence' = Older(silence, FailsafeAfter) /\ holdoff' = (IF holdoff = 0 THEN 0 ELSE holdoff - 1)
        /\ sincePoll' = sincePoll + 1
        /\ starved' = (IF Flows(air) THEN 0 ELSE AtMost(starved + 1, HandBound + 1))
        /\ handed' = (~Flows(air) /\ (handed \/ holdoff > 0))
    BY <1>5 DEF Tick
  <2>2. CASE Flows(air)
    <3>1. starved' = 0
      BY <2>1, <2>2
    <3>2. silence' # None => silence' \in 0 .. FailsafeAfter
      BY DEF TypeOK
    <3> QED  BY <1>0, <2>1, <3>1, <3>2 DEF Pressed
  <2>3. CASE ~Flows(air)
    <3>1. starved' <= starved + 1 /\ starved' \in Nat
      BY <1>0, <2>1, <2>3 DEF AtMost
    <3>2. (handed' <=> handed \/ holdoff > 0) /\ (holdoff' > 0 => holdoff > 0)
      <4>1. handed' <=> handed \/ holdoff > 0
        BY <2>1, <2>3
      <4>2. holdoff' > 0 => holdoff > 0
        BY <1>0, <2>1
      <4> QED  BY <4>1, <4>2
    <3>3. CASE silence = None
      <4>1. silence' = None
        BY <2>1, <3>3 DEF Older
      <4> QED  BY <1>0, <1>1, <2>1, <3>1, <3>2, <3>3, <4>1 DEF Pressed
    <3>4. CASE silence # None
      <4>1. silence' = AtMost(silence + 1, FailsafeAfter) /\ silence \in 0 .. FailsafeAfter
        BY <1>0, <2>1, <3>4 DEF Older
      <4>2. silence' \in 0 .. FailsafeAfter /\ silence' # None
        BY <4>1 DEF AtMost
      <4>3. CASE silence < FailsafeAfter
        <5>1. silence' = silence + 1
          BY <4>1, <4>3 DEF AtMost
        <5>2. ~handed => starved' <= DeadAfter + PollEvery + silence'
          BY <1>0, <1>1, <3>1, <3>4, <4>1, <4>3, <5>1
        <5> QED  BY <1>0, <2>1, <3>1, <3>2, <4>2, <5>2 DEF Pressed
      <4>4. CASE silence = FailsafeAfter
        <5>1. silence' = FailsafeAfter
          BY <4>1, <4>4 DEF AtMost
        <5>2. ~handed => starved' <= DeadAfter + PollEvery + silence' + sincePoll'
          BY <1>0, <1>1, <2>1, <3>1, <3>4, <4>4, <5>1
        <5> QED  BY <2>1, <3>2, <4>2, <5>1, <5>2 DEF Pressed
      <4> QED  BY <4>1, <4>3, <4>4
    <3> QED  BY <3>3, <3>4
  <2> QED  BY <2>2, <2>3
<1>6. CASE World
  <2>1. UNCHANGED <<silence, holdoff, sincePoll>>
    BY <1>6 DEF World, failsafe
  <2>2. starved' = 0 \/ (starved' = starved /\ handed' = handed)
    BY <1>0, <1>6 DEF World
  <2>3. silence # None => silence \in 0 .. FailsafeAfter
    BY <1>0
  <2> QED  BY <1>0, <1>1, <2>1, <2>2, <2>3 DEF Pressed
<1>7. CASE Nap
  <2>1. /\ silence' = (IF silence = None THEN None ELSE FailsafeAfter) /\ holdoff' = 0
        /\ sincePoll' = PollEvery /\ UNCHANGED <<starved, handed>>
    BY <1>7 DEF Nap
  <2> QED  BY <1>0, <1>1, <2>1 DEF Pressed
<1>8. CASE StandDown
  <2>1. silence' = None /\ holdoff' = 0 /\ starved' = 0 /\ sincePoll' = 0
    BY <1>8 DEF StandDown
  <2> QED  BY <2>1 DEF Pressed
<1>9. CASE UNCHANGED <<silence, holdoff, starved, handed, sincePoll>>
  BY <1>1, <1>9 DEF Pressed
<1>10. UNCHANGED vars \/ HelperEnds \/ OthersApply => UNCHANGED <<silence, holdoff, starved, handed, sincePoll>>
  BY DEF vars, failsafe, history, HelperEnds, OthersApply, Apply
<1>11. (\E r \in Radios, whose \in {"mine", "old"} : Read(r, whose))
         => UNCHANGED <<silence, holdoff, starved, handed, sincePoll>>
  BY DEF Read, failsafe
<1> QED  BY <1>2, <1>3, <1>4, <1>5, <1>6, <1>7, <1>8, <1>9, <1>10, <1>11 DEF Next

\* When no link works, NetworkManager has the radios in bounded time.
THEOREM HandedInTimeHolds == Spec => []HandedInTime
<1>1. Init => StarvedInv
  <2> SUFFICES ASSUME Init PROVE StarvedInv
    OBVIOUS
  <2>1. TypeOK /\ Running = {}
    BY TypeInit DEF Init, Running, Ping
  <2> QED  BY <2>1, Numbers DEF Init, StarvedInv, Counted, Starving, Pressed
<1>2. StarvedInv /\ [Next]_vars => StarvedInv'
  BY TypeStep, CountedStep, StarvingStep, PressedStep DEF StarvedInv, Counted
<1>3. StarvedInv => HandedInTime
  <2> SUFFICES ASSUME StarvedInv, ~handed PROVE ~(starved > HandBound)
    BY DEF HandedInTime
  <2>1. starved \in Nat /\ sincePoll \in 0 .. PollEvery /\ silence \in (0 .. FailsafeAfter) \cup {None}
    BY Numbers DEF StarvedInv, Counted, TypeOK
  <2>2. starved <= DeadAfter + FailsafeAfter + 2 * PollEvery
    BY <2>1, Numbers DEF StarvedInv, Pressed
  <2> QED  BY <2>1, <2>2, Numbers DEF HandBound
<1> QED  BY <1>1, <1>2, <1>3, PTL DEF Spec

-----------------------------------------------------------------------------
(* The way out of the route. *)

Later == AtLeast(DeadAfter, HealEvery)

\* A member whose mute has been counted, by the same ping.
Pending(r) == r \in Running /\ r \in members /\ answered[r] /\ mutes[r] > 0

\* No run of the helper is under way: the next poll starts one, unless a hold-off is on.
Waits(r) ==
  \/ mutes[r] <= Later + sincePoll
  \/ holdoff > 0 /\ mutes[r] <= Later + PollEvery + HoldOff - holdoff
  \/ holdoff = 0 /\ silence = None /\ mutes[r] <= Later + PollEvery + HoldOff + sincePoll

Leaving(r) ==
  /\ mutes[r] <= DropBound
  /\ mutes[r] > 0 => ~Answers(r)
  /\ Pending(r) =>
       /\ AtMost(mutes[r], AgeCap) <= quiet[r]
       /\ helper # None => mutes[r] <= Later + PollEvery + HoldOff + PollEvery + helper
       /\ helper = None => Waits(r) /\ (mutes[r] <= healed \/ healed = HealEvery)

LeavingInv == VerdictInv /\ Counted /\ \A r \in Radios : Leaving(r)

LEMMA LaterIs ==
  /\ Later \in Nat /\ DeadAfter <= Later /\ HealEvery <= Later
  /\ DropBound = Later + PollEvery + HoldOff + PollEvery + HelperMax
BY Numbers DEF Later, AtLeast, DropBound

\* A poll finds a pending member dead once its time is up.
LEMMA FoundDead ==
  ASSUME VerdictInv, NEW r \in Radios, Keeps(r), r \in Running, answered[r], quiet[r] > Fuse(r)
  PROVE  Judged[r] = "no"
<1> USE Numbers
<1>1. Fuse(r) \in Nat \ {0}
  BY DEF Fuse
<1>2. <<r, "mine">> \notin lines
  BY <1>1 DEF VerdictInv, Told
<1>3. quiet[r] <= probe[r].age /\ reply[r] # None /\ quiet[r] <= reply[r]
  BY <1>2 DEF VerdictInv, Told
<1>4. quiet[r] \in Nat /\ probe[r].age \in Nat /\ reply[r] \in Nat
  BY <1>3 DEF VerdictInv, TypeOK
<1>5. AtMost(probe[r].age, reply[r]) > Fuse(r)
  BY <1>1, <1>3, <1>4 DEF AtMost
<1>6. Verdict(probe[r], reply[r], air[r].slow) = "no"
  BY <1>3, <1>5 DEF Verdict, Running, Fuse
<1> QED  BY <1>3, <1>6, JudgedKeeps DEF Settled

LEMMA LeavingPolled ==
  ASSUME LeavingInv, PollHeldOff \/ PollHands \/ PollPlans, NEW r \in Radios
  PROVE  Leaving(r)'
<1> USE Numbers, LaterIs DEF LeavingInv
<1>0. /\ TypeOK /\ VerdictInv /\ Leaving(r) /\ mutes[r] \in Nat /\ quiet[r] \in 0 .. AgeCap
      /\ sincePoll \in 0 .. PollEvery /\ holdoff \in 0 .. HoldOff /\ healed \in 0 .. HealEvery
      /\ (silence # None => holdoff = 0) /\ (helper # None => helper \in 0 .. HelperMax)
  BY DEF Counted, TypeOK
<1>1. PollDone
  BY <1>0, PollsDone
<1>2. UNCHANGED <<air, mutes, members>> /\ sincePoll' = 0
  BY <1>1 DEF PollDone, Polled
<1>3. mutes'[r] <= DropBound /\ (mutes'[r] > 0 => ~Answers(r)')
  BY <1>0, <1>2 DEF Leaving, Answers
<1> SUFFICES ASSUME Pending(r)'
             PROVE  /\ AtMost(mutes[r], AgeCap) <= quiet'[r]
                    /\ helper' # None => mutes[r] <= Later + PollEvery + HoldOff + PollEvery + helper'
                    /\ helper' = None => Waits(r)' /\ (mutes[r] <= healed' \/ healed' = HealEvery)
  BY <1>2, <1>3 DEF Leaving
<1>4. Keeps(r) /\ answered[r] /\ r \in members /\ mutes[r] > 0 /\ quiet'[r] = quiet[r]
  <2>1. CASE ~Keeps(r)
    BY <1>0, <1>1, <2>1, PolledRadio DEF Pending
  <2>2. CASE Keeps(r)
    BY <1>0, <1>1, <1>2, <2>2, PolledRadio DEF Pending
  <2> QED  BY <2>1, <2>2
<1>5. r \in Running
  BY <1>0, <1>1, <1>4, PolledRadio DEF Pending, Running
<1>6. /\ AtMost(mutes[r], AgeCap) <= quiet[r]
      /\ helper # None => mutes[r] <= Later + PollEvery + HoldOff + PollEvery + helper
      /\ helper = None => Waits(r) /\ (mutes[r] <= healed \/ healed = HealEvery)
  BY <1>0, <1>4, <1>5 DEF Leaving, Pending
<1>7. CASE PollHeldOff
  <2>1. UNCHANGED <<helper, healed, silence, holdoff>> /\ holdoff > 0
    BY <1>7 DEF PollHeldOff, routing, failsafe
  <2>2. helper = None => Waits(r)'
    BY <1>0, <1>2, <1>6, <2>1 DEF Waits
  <2> QED  BY <1>4, <1>6, <2>1, <2>2
<1>8. CASE PollHands
  <2>1. UNCHANGED <<helper, healed>> /\ holdoff = 0 /\ silence = FailsafeAfter /\ holdoff' = HoldOff
    BY <1>8 DEF PollHands, routing
  <2>2. helper = None => mutes[r] <= Later + sincePoll
    BY <1>6, <2>1 DEF Waits
  <2>3. helper = None => Waits(r)'
    BY <1>0, <1>2, <2>1, <2>2 DEF Waits
  <2> QED  BY <1>4, <1>6, <2>1, <2>3
<1>9. CASE PollPlans
  <2>1. Heal /\ holdoff' = holdoff /\ holdoff = 0
    BY <1>9 DEF PollPlans
  <2>2. CASE helper' = helper /\ healed' = healed
    <3>1. CASE helper # None
      BY <1>4, <1>6, <2>2, <3>1
    <3>2. CASE helper = None /\ mutes[r] <= Later
      BY <1>2, <1>4, <1>6, <2>2, <3>2 DEF Waits
    <3>3. CASE helper = None /\ ~(mutes[r] <= Later)
      <4>1. healed = HealEvery
        BY <1>0, <1>6, <3>3
      <4>2. quiet[r] > Fuse(r)
        BY <1>0, <1>6, <3>3 DEF AtMost, Fuse
      <4>3. r \in Candidates
        BY <1>0, <1>4, <1>5, <4>2, FoundDead DEF Candidates
      <4>4. helper' = 0
        BY <2>1, <3>3, <4>1, <4>3 DEF Heal
      <4> QED  BY <2>2, <3>3, <4>4
    <3> QED  BY <3>1, <3>2, <3>3
  <2>3. CASE helper = None /\ helper' = 0
    <3>1. mutes[r] <= Later + PollEvery + HoldOff + PollEvery
      BY <1>0, <1>6, <2>1, <2>3 DEF Waits
    <3> QED  BY <1>0, <1>4, <1>6, <2>3, <3>1
  <2> QED  BY <2>1, <2>2, <2>3 DEF Heal
<1> QED  BY <1>7, <1>8, <1>9

LEMMA LeavingTick ==
  ASSUME LeavingInv, Tick, NEW r \in Radios
  PROVE  Leaving(r)'
<1> USE Numbers, LaterIs DEF LeavingInv
<1>0. /\ TypeOK /\ Leaving(r) /\ mutes[r] \in 0 .. DropBound + 1 /\ quiet[r] \in 0 .. AgeCap
      /\ sincePoll \in 0 .. PollEvery /\ holdoff \in 0 .. HoldOff /\ healed \in 0 .. HealEvery
      /\ (silence # None => holdoff = 0) /\ helper \in (0 .. HelperMax) \cup {None}
  BY DEF Counted, TypeOK
<1> DEFINE counts == r \in (Running \ {q \in Running : Answers(q)}) \cap members /\ answered[r]
<1>1. /\ UNCHANGED <<air, members>> /\ sincePoll' = sincePoll + 1 /\ helper # HelperMax
      /\ mutes'[r] = (IF counts THEN AtMost(mutes[r] + 1, DropBound + 1) ELSE 0)
      /\ quiet'[r] = (IF r \in Running \ {q \in Running : Answers(q)} THEN AtMost(quiet[r] + 1, AgeCap) ELSE 0)
      /\ silence' = Older(silence, FailsafeAfter)
      /\ holdoff' = (IF holdoff = 0 THEN 0 ELSE holdoff - 1)
      /\ helper' = (IF helper = None THEN None ELSE helper + 1)
      /\ healed' = AtMost(healed + 1, HealEvery)
  BY DEF Tick
<1>2. CASE ~counts
  <2>1. mutes'[r] = 0
    BY <1>1, <1>2
  <2> QED  BY <2>1 DEF Leaving, Pending
<1>3. CASE counts
  <2>1. r \in Running /\ ~Answers(r) /\ r \in members /\ answered[r]
    BY <1>3
  <2>2. mutes'[r] = mutes[r] + 1 /\ mutes[r] <= DropBound
    BY <1>0, <1>1, <1>3 DEF Leaving, AtMost
  <2>3. quiet'[r] = AtMost(quiet[r] + 1, AgeCap)
    BY <1>1, <2>1
  <2>4. ~Answers(r)'
    BY <1>1, <2>1 DEF Answers
  <2> HIDE DEF counts
  <2>5. AtMost(mutes[r], AgeCap) <= quiet[r]
    BY <1>0, <2>1 DEF Leaving, Pending, AtMost
  <2>6. AtMost(mutes'[r], AgeCap) <= quiet'[r]
    BY <1>0, <2>2, <2>3, <2>5 DEF AtMost
  <2>7. CASE helper # None
    <3>1. helper' = helper + 1 /\ helper \in 0 .. HelperMax - 1 /\ helper' # None
      BY <1>0, <1>1, <2>7
    <3>2. mutes[r] <= Later + PollEvery + HoldOff + PollEvery + helper
      BY <1>0, <2>1, <2>7, <3>1 DEF Leaving, Pending
    <3>3. mutes'[r] <= Later + PollEvery + HoldOff + PollEvery + helper' /\ mutes'[r] <= DropBound
      BY <1>0, <2>2, <3>1, <3>2
    <3> QED  BY <2>4, <2>6, <3>1, <3>3 DEF Leaving
  <2>8. CASE helper = None
    <3>1. helper' = None
      BY <1>1, <2>8
    <3>2. Waits(r) /\ (mutes[r] <= healed \/ healed = HealEvery)
      BY <1>0, <2>1, <2>8 DEF Leaving, Pending, Waits
    <3>3. mutes'[r] <= healed' \/ healed' = HealEvery
      BY <1>0, <1>1, <2>2, <3>2 DEF AtMost
    <3>4. silence = None => silence' = None
      BY <1>1 DEF Older
    <3>5. Waits(r)'
      <4>1. CASE mutes[r] <= Later + sincePoll
        BY <1>0, <1>1, <2>2, <4>1 DEF Waits
      <4>2. CASE holdoff > 0 /\ mutes[r] <= Later + PollEvery + HoldOff - holdoff
        BY <1>0, <1>1, <2>2, <3>4, <4>2 DEF Waits
      <4>3. CASE holdoff = 0 /\ silence = None /\ mutes[r] <= Later + PollEvery + HoldOff + sincePoll
        BY <1>0, <1>1, <2>2, <3>4, <4>3 DEF Waits
      <4> QED  BY <3>2, <4>1, <4>2, <4>3 DEF Waits
    <3>6. mutes'[r] <= DropBound
      <4>1. sincePoll' <= PollEvery /\ sincePoll' \in Nat /\ holdoff' \in 0 .. HoldOff
        BY <1>0, <1>1 DEF Tick
      <4>2. mutes'[r] \in Nat
        BY <1>0, <2>2
      <4> QED  BY <3>5, <4>1, <4>2 DEF Waits
    <3> QED  BY <2>4, <2>6, <3>1, <3>3, <3>5, <3>6 DEF Leaving
  <2> QED  BY <2>7, <2>8
<1> QED  BY <1>2, <1>3

LEMMA LeavingWorld ==
  ASSUME LeavingInv, World, NEW r \in Radios
  PROVE  Leaving(r)'
<1>1. UNCHANGED <<members, answered, quiet, helper, healed, holdoff, silence, sincePoll>>
  BY DEF World, failsafe, routing
<1>2. mutes'[r] = IF Answers(r)' THEN 0 ELSE mutes[r]
  BY DEF World
<1>3. r \in Running' => r \in Running
  <2>1. UNCHANGED probe \/ \E q \in Radios : probe' = [probe EXCEPT ![q].ended = TRUE]
    BY DEF World, Lands, Turns, Exits
  <2>2. probe \in [Radios -> Pings]
    BY DEF LeavingInv, Counted, TypeOK, Pings
  <2> QED  BY <2>1, <2>2 DEF Running, Pings
<1>4. CASE Answers(r)'
  <2>1. mutes'[r] = 0 /\ 0 <= DropBound
    BY <1>2, <1>4, Numbers
  <2> QED  BY <2>1 DEF Leaving, Pending
<1>5. CASE ~Answers(r)'
  <2>1. mutes'[r] = mutes[r] /\ (Pending(r)' => Pending(r)) /\ Waits(r)' = Waits(r)
    BY <1>1, <1>2, <1>3, <1>5 DEF Pending, Waits
  <2> QED  BY <1>1, <1>5, <2>1 DEF LeavingInv, Leaving
<1> QED  BY <1>4, <1>5

LEMMA LeavingNap ==
  ASSUME LeavingInv, Nap, NEW r \in Radios
  PROVE  Leaving(r)'
<1> USE Numbers, LaterIs
<1>0. /\ TypeOK /\ Leaving(r) /\ mutes[r] \in Nat /\ holdoff \in 0 .. HoldOff /\ sincePoll \in 0 .. PollEvery
      /\ (silence # None => holdoff = 0)
  BY DEF LeavingInv, Counted, TypeOK
<1>1. /\ silence' = (IF silence = None THEN None ELSE FailsafeAfter)
      /\ holdoff' = 0 /\ healed' = HealEvery /\ sincePoll' = PollEvery
      /\ quiet'[r] = (IF r \in Running THEN AgeCap ELSE quiet[r])
      /\ UNCHANGED <<air, helper, members, answered, mutes>>
  BY DEF Nap
<1>2. r \in Running' => r \in Running
  <2>1. probe' = [q \in Radios |-> IF q \in Running THEN [probe[q] EXCEPT !.age = AgeCap] ELSE probe[q]]
    BY DEF Nap
  <2>2. \A q \in Radios : probe[q] \in Pings
    BY <1>0 DEF TypeOK, Pings
  <2> QED  BY <2>1, <2>2 DEF Running, Pings
<1>3. mutes'[r] <= DropBound /\ (mutes'[r] > 0 => ~Answers(r)')
  BY <1>0, <1>1 DEF Leaving, Answers
<1> SUFFICES ASSUME Pending(r)'
             PROVE  /\ AtMost(mutes[r], AgeCap) <= quiet'[r]
                    /\ helper # None => mutes[r] <= Later + PollEvery + HoldOff + PollEvery + helper
                    /\ helper = None => Waits(r)'
  BY <1>1, <1>3 DEF Leaving
<1>4. Pending(r) /\ r \in Running
  BY <1>1, <1>2 DEF Pending
<1>5. AtMost(mutes[r], AgeCap) <= quiet'[r]
  BY <1>0, <1>1, <1>4 DEF AtMost
<1>6. helper = None => Waits(r)
  BY <1>0, <1>4 DEF Leaving
<1>7. helper = None => Waits(r)'
  BY <1>0, <1>1, <1>6 DEF Waits
<1> QED  BY <1>0, <1>4, <1>5, <1>7 DEF Leaving

\* The helper lays the route out anew: no mute card stays in it.
LEMMA LeavingApply ==
  ASSUME LeavingInv, Apply, NEW r \in Radios
  PROVE  Leaving(r)'
<1>1. UNCHANGED <<air, mutes>> /\ (r \in members' => Answers(r))
  BY DEF Apply, Healthy, history
<1>2. Leaving(r)
  BY DEF LeavingInv
<1>3. mutes'[r] <= DropBound /\ (mutes'[r] > 0 => ~Answers(r)')
  BY <1>1, <1>2 DEF Leaving, Answers
<1>4. ~Pending(r)'
  BY <1>1, <1>2 DEF Pending, Leaving
<1> QED  BY <1>3, <1>4 DEF Leaving

LEMMA LeavingStep ==
  ASSUME LeavingInv, [Next]_vars
  PROVE  LeavingInv'
<1>0. VerdictInv' /\ Counted'
  BY VerdictStep, CountedStep DEF LeavingInv
<1> SUFFICES ASSUME NEW r \in Radios PROVE Leaving(r)'
  BY <1>0 DEF LeavingInv
<1>1. CASE UNCHANGED <<air, probe, members, answered, quiet, mutes, helper, healed, holdoff, silence, sincePoll>>
  <2>1. Running' = Running /\ Answers(r)' = Answers(r)
    BY <1>1 DEF Running, Answers
  <2>2. Pending(r)' = Pending(r) /\ Waits(r)' = Waits(r)
    BY <1>1, <2>1 DEF Pending, Waits
  <2> QED  BY <1>1, <2>1, <2>2 DEF LeavingInv, Leaving
<1>2. ASSUME NEW q \in Radios, NEW whose \in {"mine", "old"}, Read(q, whose)
      PROVE  Leaving(r)'
  BY <1>1, <1>2 DEF Read, failsafe, routing
<1>3. CASE UNCHANGED vars
  BY <1>1, <1>3 DEF vars, liveness, failsafe, routing, history
<1>4. CASE StandDown
  <2>1. mutes'[r] = 0 /\ 0 <= DropBound
    BY <1>4, Numbers DEF StandDown
  <2> QED  BY <2>1 DEF Leaving, Pending
<1>5. HelperEnds \/ OthersApply => Apply
  BY DEF HelperEnds, OthersApply
<1> QED
  BY <1>2, <1>3, <1>4, <1>5, LeavingPolled, LeavingTick, LeavingWorld, LeavingNap, LeavingApply DEF Next

\* A link that served and went mute leaves the multipath route in bounded time.
THEOREM DeafLeavesHolds == Spec => []DeafLeaves
<1>1. Init => LeavingInv
  <2> SUFFICES ASSUME Init PROVE LeavingInv
    OBVIOUS
  <2>1. \A r \in Radios : mutes[r] = 0
    BY DEF Init
  <2>2. silence = None
    BY DEF Init
  <2>3. Counted
    BY <2>2, TypeInit DEF Counted
  <2> QED  BY <2>1, <2>3, VerdictInit, Numbers DEF LeavingInv, Leaving, Pending
<1>2. Spec => []LeavingInv
  BY <1>1, LeavingStep, PTL DEF Spec
<1>3. LeavingInv => DeafLeaves
  BY DEF LeavingInv, Leaving, DeafLeaves, Counted, TypeOK
<1> QED  BY <1>2, <1>3, PTL
====
