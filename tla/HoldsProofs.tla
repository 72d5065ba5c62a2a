---------------------------- MODULE HoldsProofs ----------------------------
(***************************************************************************)
(* Theorems about Holds: its types, and no blocked radio forgotten.        *)
(***************************************************************************)
EXTENDS Holds, TLAPS

-----------------------------------------------------------------------------
(* Types. *)

NmType ==
  /\ device \in [Radios -> {"absent", "unavailable", "idle", "active"}]
  /\ auto \in [Radios -> BOOLEAN]
  /\ userOff \subseteq {r \in Radios : ~auto[r]}

LEMMA QuietType == \A phase \in Phases : Quiet(phase) \in Job
BY DEF Quiet, Job, Kinds, Nothing, Memory

LEMMA ActType ==
  ASSUME NEW kind \in Kinds, NEW todo \in SUBSET Todo, NEW next \in Memory, Act(kind, todo, next)
  PROVE  job' \in Job
BY DEF Act, Job, Phases

LEMMA ReleasesType ==
  ASSUME NEW m \in Memory
  PROVE  Releases(m) \in SUBSET Todo
BY DEF Releases, Recorded, Memory, Todo, Ops

LEMMA PollType ==
  ASSUME TypeOK, Poll
  PROVE  TypeOK'
<1> USE DEF Polls, Peace
<1>1. mem \in Memory /\ Nothing \in Memory /\ Available \in SUBSET Radios
  BY DEF TypeOK, Nothing, Memory, Available
<1>2. ASSUME job' \in Job, failsafe' \in BOOLEAN, UNCHANGED <<nm, flag, mem, disk, left>>
      PROVE  TypeOK'
  BY <1>2 DEF TypeOK, nm
<1>3. CASE StandDown
  <2>1. job' \in Job
    BY <1>1, <1>3, ReleasesType, ActType DEF StandDown, Kinds
  <2> QED  BY <1>2, <1>3, <2>1 DEF StandDown
<1>4. CASE Failsafe
  <2>1. job' \in Job
    BY <1>1, <1>4, ReleasesType, ActType DEF Failsafe, Kinds
  <2> QED  BY <1>2, <1>4, <2>1 DEF Failsafe
<1>5. CASE LoseNetwork
  <2> DEFINE known == [mem EXCEPT !.parked = mem.parked \intersect Available]
  <2>1. known \in Memory
    BY <1>1 DEF Memory
  <2>2. Act("lost", Releases(known), Nothing)
    BY <1>1, <1>5 DEF LoseNetwork, Memory
  <2>3. job' \in Job
    <3> HIDE DEF known
    <3> QED  BY <1>1, <2>1, <2>2, ReleasesType, ActType DEF Kinds
  <2> QED  BY <1>2, <1>5, <2>3 DEF LoseNetwork, TypeOK
<1>6. CASE FollowNothing
  <2> DEFINE known == [mem EXCEPT !.parked = mem.parked \intersect Available]
             todo(downs) == {[op |-> "down", radio |-> r] : r \in downs}
  <2>1. known \in Memory
    BY <1>1 DEF Memory
  <2>2. PICK downs \in SUBSET {r \in Available : device[r] = "active"} :
          Act("follow", todo(downs), known)
    BY <1>1, <1>6 DEF FollowNothing, Memory
  <2>3. job' \in Job
    <3>1. todo(downs) \in SUBSET Todo
      BY <1>1 DEF Todo, Ops
    <3> HIDE DEF known, todo
    <3> QED  BY <2>1, <2>2, <3>1, ActType DEF Kinds
  <2> QED  BY <1>2, <1>6, <2>3 DEF FollowNothing, TypeOK
<1>7. CASE Follow
  <2>1. PICK way \in {"join", "move"}, joins \in {{}} \union {{r} : r \in Available} :
        \E parks \in SUBSET (Available \ joins) :
          LET holds == {r \in Available : auto[r]}
              do(op, S) == {[op |-> op, radio |-> r] : r \in S}
          IN  Act("follow",
                  do("hold", holds) \union do(way, joins) \union do("park", parks),
                  [held   |-> (mem.held \union holds) \intersect Available,
                   parked |-> ((mem.parked \intersect Available) \ joins) \union parks])
    BY <1>7 DEF Follow
  <2>2. PICK parks \in SUBSET (Available \ joins) :
          LET holds == {r \in Available : auto[r]}
              do(op, S) == {[op |-> op, radio |-> r] : r \in S}
          IN  Act("follow",
                  do("hold", holds) \union do(way, joins) \union do("park", parks),
                  [held   |-> (mem.held \union holds) \intersect Available,
                   parked |-> ((mem.parked \intersect Available) \ joins) \union parks])
    BY <2>1
  <2> DEFINE holds == {r \in Available : auto[r]}
             do(op, S) == {[op |-> op, radio |-> r] : r \in S}
             todo == do("hold", holds) \union do(way, joins) \union do("park", parks)
             next == [held   |-> (mem.held \union holds) \intersect Available,
                      parked |-> ((mem.parked \intersect Available) \ joins) \union parks]
  <2>3. todo \in SUBSET Todo
    BY <1>1 DEF Todo, Ops
  <2>4. next \in Memory
    BY <1>1 DEF Memory
  <2>5. Act("follow", todo, next)
    BY <2>2
  <2>6. job' \in Job
    <3> HIDE DEF todo, next
    <3> QED  BY <2>3, <2>4, <2>5, ActType DEF Kinds
  <2> QED  BY <1>2, <1>7, <2>6 DEF Follow, TypeOK
<1> QED  BY <1>3, <1>4, <1>5, <1>6, <1>7 DEF Poll

LEMMA SetAutoType ==
  ASSUME TypeOK, NEW r \in Radios, NEW on \in BOOLEAN, SetAuto(r, on)
  PROVE  auto' \in [Radios -> BOOLEAN] /\ userOff' \subseteq {q \in Radios : ~auto'[q]}
BY DEF SetAuto, TypeOK

LEMMA CommandType ==
  ASSUME TypeOK, NEW t \in job.todo,
         TakeDown(t) \/ Hold(t) \/ Join(t) \/ Move(t) \/ Park(t) \/ Release(t)
  PROVE  TypeOK'
<1>1. job \in Job /\ t.radio \in Radios
  BY DEF TypeOK, Job, Todo
<1>2. \A failed : Done(t, failed) /\ failed \in SUBSET Radios => job' \in Job
  BY <1>1 DEF Done, Job
<1>3. job' \in Job
  BY <1>1, <1>2 DEF TakeDown, Hold, Join, Move, Park, Release
<1>4. Succeeds(t.radio) \/ Fails(t.radio) \/ Trouble \/ Peace => left' \in 0..MaxTrouble
  BY TroubleAssumption DEF Succeeds, Fails, Trouble, Peace, TypeOK
<1>5. left' \in 0..MaxTrouble
  BY <1>4 DEF TakeDown, Hold, Join, Move, Park, Release
<1>6. UNCHANGED <<flag, mem, disk, failsafe>>
  BY DEF TakeDown, Hold, Join, Move, Park, Release
<1>7. ASSUME NEW on \in BOOLEAN, SetAuto(t.radio, on),
             \/ UNCHANGED device
             \/ device' = [device EXCEPT ![t.radio] = "active"]
             \/ device' = [device EXCEPT ![t.radio] = "idle"]
             \/ device' = [device EXCEPT ![t.radio] = IF @ = "active" THEN "idle" ELSE @]
      PROVE  NmType'
  <2>1. device' \in [Radios -> {"absent", "unavailable", "idle", "active"}]
    BY <1>1, <1>7 DEF TypeOK
  <2> QED  BY <1>1, <1>7, <2>1, SetAutoType DEF NmType
<1>8. UNCHANGED nm => NmType'
  BY DEF TypeOK, NmType, nm
<1>9. NmType'
  <2>1. CASE TakeDown(t)
    BY <1>1, <1>8, <2>1 DEF TakeDown, TypeOK, NmType
  <2>2. CASE Hold(t) \/ Join(t) \/ Move(t) \/ Park(t) \/ Release(t)
    BY <1>7, <1>8, <2>2 DEF Hold, Join, Move, Park, Release
  <2> QED  BY <2>1, <2>2
<1> QED  BY <1>3, <1>5, <1>6, <1>9 DEF TypeOK, NmType

LEMMA EnvironmentType ==
  ASSUME TypeOK, Environment
  PROVE  TypeOK'
<1>1. job \in Job /\ left' \in 0..MaxTrouble
  <2>1. Trouble \/ left' = left \/ left' = 0
    BY DEF Environment, Settle, Die, Start, FailsafeEnds, Switch, NMRestarts, UserTurnsOff,
           UserTurnsOn, LinkChanges, Unplug, Plug, Rfkill, Happens
  <2> QED  BY <2>1, TroubleAssumption DEF Trouble, TypeOK
<1>2. CASE Settle \/ Die \/ Start \/ FailsafeEnds \/ Switch
  <2>1. job' \in Job /\ mem' \in Memory
    BY <1>1, <1>2, QuietType
       DEF Settle, Die, Start, FailsafeEnds, Switch, daemon, TypeOK, Nothing, Memory, Phases
  <2> QED  BY <1>1, <1>2, <2>1
           DEF Settle, Die, Start, FailsafeEnds, Switch, daemon, nm, TypeOK
<1>3. ASSUME Happens, NmType' PROVE TypeOK'
  BY <1>1, <1>3 DEF Happens, daemon, TypeOK, NmType
<1>4. CASE NMRestarts
  <2>1. NmType'
    BY <1>4 DEF NMRestarts, NmType, TypeOK
  <2> QED  BY <1>3, <1>4, <2>1 DEF NMRestarts
<1>5. ASSUME NEW r \in Radios,
             \/ UserTurnsOff(r) \/ UserTurnsOn(r) \/ LinkChanges(r)
             \/ Unplug(r) \/ Plug(r) \/ Rfkill(r)
      PROVE  TypeOK'
  <2>1. device' \in [Radios -> {"absent", "unavailable", "idle", "active"}]
    BY <1>5 DEF UserTurnsOff, UserTurnsOn, LinkChanges, Unplug, Plug, Rfkill, TypeOK
  <2>2. auto' \in [Radios -> BOOLEAN] /\ userOff' \subseteq {q \in Radios : ~auto'[q]}
    <3>1. CASE UserTurnsOff(r)
      BY <3>1 DEF UserTurnsOff, TypeOK
    <3>2. CASE UserTurnsOn(r) \/ Unplug(r)
      BY <3>2, SetAutoType DEF UserTurnsOn, Unplug
    <3>3. CASE LinkChanges(r) \/ Plug(r) \/ Rfkill(r)
      BY <3>3 DEF LinkChanges, Plug, Rfkill, TypeOK
    <3> QED  BY <1>5, <3>1, <3>2, <3>3
  <2>3. Happens
    BY <1>5 DEF UserTurnsOff, UserTurnsOn, LinkChanges, Unplug, Plug, Rfkill
  <2> QED  BY <1>3, <2>1, <2>2, <2>3 DEF NmType
<1> QED  BY <1>2, <1>4, <1>5 DEF Environment

(* Spec keeps its types: only radios without autoconnect count as switched *)
(* off by the user, and only radios are held, parked or released.          *)
THEOREM Typed == Spec => []TypeOK
<1>1. Init => TypeOK
  <2> SUFFICES ASSUME Init PROVE TypeOK
    OBVIOUS
  <2>1. job \in Job
    BY QuietType DEF Init, Phases
  <2>2. left \in 0..MaxTrouble
    BY TroubleAssumption DEF Init
  <2>3. mem \in Memory /\ disk \in Memory
    BY DEF Init, Nothing, Memory
  <2>4. NmType
    BY DEF Init, NmType
  <2> QED  BY <2>1, <2>2, <2>3, <2>4 DEF Init, NmType, TypeOK
<1>2. TypeOK /\ [Next]_vars => TypeOK'
  <2> SUFFICES ASSUME TypeOK, [Next]_vars PROVE TypeOK'
    OBVIOUS
  <2>1. CASE Poll
    BY <2>1, PollType
  <2>2. CASE Command
    BY <2>2, CommandType DEF Command
  <2>3. CASE Save
    <3>1. Kept \in Memory
      BY DEF Kept, TypeOK, Job, Nothing, Memory
    <3>2. job' \in Job
      BY <2>3, QuietType DEF Save, Phases
    <3> QED  BY <2>3, <3>1, <3>2 DEF Save, TypeOK, nm
  <2>4. CASE StopPost
    <3>1. job' \in Job
      BY <2>4, ReleasesType, ActType DEF StopPost, TypeOK, Kinds, Nothing, Memory
    <3> QED  BY <2>4, <3>1 DEF StopPost, TypeOK, nm
  <2>5. CASE Environment
    BY <2>5, EnvironmentType
  <2>6. CASE UNCHANGED vars
    BY <2>6 DEF vars, TypeOK
  <2> QED  BY <2>1, <2>2, <2>3, <2>4, <2>5, <2>6 DEF Next, Daemon
<1> QED  BY <1>1, <1>2, PTL DEF Spec

-----------------------------------------------------------------------------
(* No blocked radio is forgotten. *)

Following == job.phase = "acting" /\ job.kind = "follow"
Releasing == job.phase = "acting" /\ job.kind # "follow"

\* A command that takes autoconnect off must be at a radio the poll will record, one
\* the user has switched off, or one that is gone.
Covered(t) ==
  \/ t.op \in {"join", "down"}
  \/ t.op # "release" /\ t.radio \in job.next.held
  \/ t.op \in {"move", "park"} /\ (t.radio \in userOff \/ ~Present(t.radio))

FollowInv ==
  /\ \A r \in Radios : Blocked(r) => r \in job.next.held
  /\ \A t \in job.todo : Covered(t)
  /\ \A t, u \in job.todo :
       t.op \in {"join", "move"} /\ u.op \in {"join", "move", "park"} /\ t.radio = u.radio => t = u

ReleaseInv ==
  /\ \A t \in job.todo : t.op = "release"
  /\ \A r \in Radios :
       Blocked(r) => \/ [op |-> "release", radio |-> r] \in job.todo
                     \/ job.kind # "lost" /\ r \in job.failed

(* The inductive invariant.  A radio whose autoconnect wifimimo has off is *)
(* among those held, not only parked: a later join takes it off the parked *)
(* ones.  Until a poll saves, follow.json and the memory agree; a poll     *)
(* that follows has the blocked radios in the memory it will save, and one *)
(* that releases has them still to release, or among the failed.           *)
HeldInv ==
  /\ \A r \in Radios : device[r] # "unavailable" /\ (Present(r) \/ auto[r])
  /\ (job.phase = "idle" \/ (job.phase = "acting" /\ job.kind # "release")) => mem = disk
  /\ ~Following => \A r \in Radios : Blocked(r) => r \in disk.held
  /\ Following => FollowInv
  /\ Releasing => ReleaseInv

LEMMA HeldImplies == TypeOK /\ HeldInv => NeverForgotten
BY DEF HeldInv, FollowInv, Following, NeverForgotten, Recorded

LEMMA HeldInit == Init => HeldInv
BY DEF Init, HeldInv, Following, Releasing, Quiet, Blocked, Present

LEMMA HeldPoll ==
  ASSUME TypeOK, HeldInv, Poll
  PROVE  HeldInv'
<1> USE DEF Polls, Act
<1>1. /\ job.phase = "idle" /\ mem = disk /\ UNCHANGED <<nm, flag, mem, disk>>
      /\ \A r \in Radios : Blocked(r) => r \in mem.held
  BY DEF Poll, StandDown, Failsafe, LoseNetwork, FollowNothing, Follow, HeldInv, Following
<1>2. \A r \in Radios : Blocked(r)' <=> Blocked(r)
  BY <1>1 DEF Blocked, Present, nm
<1>3. \A r \in Radios : device'[r] # "unavailable" /\ (Present(r)' \/ auto'[r])
  BY <1>1 DEF HeldInv, Present, nm
<1>4. Available = {r \in Radios : Present(r)}
  BY DEF Available, Present, HeldInv, TypeOK
<1>5. mem \in Memory
  BY DEF TypeOK
<1>6. ASSUME NEW kind \in Kinds \ {"follow"}, NEW m \in Memory, m.held = mem.held,
             NEW next, Act(kind, Releases(m), next)
      PROVE  HeldInv'
  <2>1. /\ job'.phase = "acting" /\ job'.kind = kind /\ job'.todo = Releases(m)
    BY <1>6
  <2>2. \A r \in Radios : Blocked(r)' => [op |-> "release", radio |-> r] \in job'.todo
    BY <1>1, <1>2, <1>6, <2>1 DEF Releases, Recorded
  <2>3. \A t \in job'.todo : t.op = "release"
    BY <2>1 DEF Releases
  <2> QED  BY <1>1, <1>2, <1>3, <1>6, <2>1, <2>2, <2>3 DEF HeldInv, Following, Releasing, ReleaseInv
<1>7. CASE StandDown \/ Failsafe
  BY <1>5, <1>6, <1>7 DEF StandDown, Failsafe, Kinds
<1>8. CASE LoseNetwork
  <2> DEFINE known == [mem EXCEPT !.parked = mem.parked \intersect Available]
  <2>1. known \in Memory /\ known.held = mem.held
    BY <1>5 DEF Memory
  <2>2. Act("lost", Releases(known), Nothing)
    BY <1>5, <1>8 DEF LoseNetwork, Memory
  <2> HIDE DEF known
  <2> QED  BY <1>6, <2>1, <2>2 DEF Kinds
<1>9. CASE FollowNothing
  <2>1. /\ job'.phase = "acting" /\ job'.kind = "follow" /\ job'.next.held = mem.held
        /\ \A t \in job'.todo : t.op = "down"
    BY <1>5, <1>9 DEF FollowNothing, Memory
  <2> QED  BY <1>1, <1>2, <1>3, <2>1 DEF HeldInv, Following, Releasing, FollowInv, Covered
<1>10. CASE Follow
  <2>1. PICK way \in {"join", "move"}, joins \in {{}} \union {{r} : r \in Available} :
        \E parks \in SUBSET (Available \ joins) :
          LET holds == {r \in Available : auto[r]}
              do(op, S) == {[op |-> op, radio |-> r] : r \in S}
          IN  Act("follow",
                  do("hold", holds) \union do(way, joins) \union do("park", parks),
                  [held   |-> (mem.held \union holds) \intersect Available,
                   parked |-> ((mem.parked \intersect Available) \ joins) \union parks])
    BY <1>10 DEF Follow
  <2>2. PICK parks \in SUBSET (Available \ joins) :
          LET holds == {r \in Available : auto[r]}
              do(op, S) == {[op |-> op, radio |-> r] : r \in S}
          IN  Act("follow",
                  do("hold", holds) \union do(way, joins) \union do("park", parks),
                  [held   |-> (mem.held \union holds) \intersect Available,
                   parked |-> ((mem.parked \intersect Available) \ joins) \union parks])
    BY <2>1
  <2> DEFINE holds == {r \in Available : auto[r]}
             held  == (mem.held \union holds) \intersect Available
  <2>3. /\ job'.phase = "acting" /\ job'.kind = "follow" /\ job'.next.held = held
    BY <2>2
  <2>4. job'.todo = {[op |-> "hold", radio |-> r] : r \in holds}
                      \union {[op |-> way, radio |-> r] : r \in joins}
                      \union {[op |-> "park", radio |-> r] : r \in parks}
    BY <2>2
  <2>5. \A r \in Available : r \in held \/ r \in userOff
    BY <1>1, <1>4 DEF Blocked
  <2>6. \A t \in job'.todo : /\ t.op \in {"hold", "join", "move", "park"} /\ t.radio \in Available
                             /\ t.op = "hold" => t.radio \in holds
    BY <2>4
  <2>7. \A t \in job'.todo : Covered(t)'
    BY <1>1, <2>3, <2>5, <2>6 DEF Covered, nm
  <2>8. \A t, u \in job'.todo :
          t.op \in {"join", "move"} /\ u.op \in {"join", "move", "park"} /\ t.radio = u.radio
            => t = u
    BY <2>4
  <2>9. \A r \in Radios : Blocked(r)' => r \in job'.next.held
    BY <1>1, <1>2, <1>4, <2>3 DEF Blocked
  <2> QED  BY <1>3, <1>1, <2>3, <2>7, <2>8, <2>9 DEF HeldInv, Following, Releasing, FollowInv
<1> QED  BY <1>7, <1>8, <1>9, <1>10 DEF Poll

LEMMA HeldCommand ==
  ASSUME Faults = {}, TypeOK, HeldInv, NEW t \in job.todo,
         TakeDown(t) \/ Hold(t) \/ Join(t) \/ Move(t) \/ Park(t) \/ Release(t)
  PROVE  HeldInv'
<1>1. /\ job \in Job /\ t.radio \in Radios
      /\ device \in [Radios -> {"absent", "unavailable", "idle", "active"}]
      /\ auto \in [Radios -> BOOLEAN]
  BY DEF TypeOK, Job, Todo
<1>2. job.phase = "acting" /\ UNCHANGED <<mem, disk>>
  BY DEF TakeDown, Hold, Join, Move, Park, Release, Due
<1>3. PICK failed :
        /\ Done(t, failed)
        /\ t.op # "release" => failed = {}
        /\ t.op = "release" /\ Blocked(t.radio)' => failed = {t.radio} /\ job.kind # "lost"
  <2>1. CASE Release(t)
    <3>1. CASE SetAuto(t.radio, TRUE) /\ Done(t, {})
      <4>1. ~Blocked(t.radio)'
        BY <1>1, <3>1 DEF SetAuto, Blocked
      <4> QED  BY <3>1, <4>1, <2>1 DEF Release
    <3>2. CASE /\ job.kind = "lost" /\ Present(t.radio) => "lost_release_fails" \in Faults
               /\ UNCHANGED nm /\ Done(t, {t.radio})
      <4>1. Blocked(t.radio)' => job.kind # "lost"
        BY <3>2 DEF Blocked, Present, nm
      <4> QED  BY <3>2, <4>1, <2>1 DEF Release
    <3> QED  BY <2>1, <3>1, <3>2 DEF Release
  <2>2. CASE TakeDown(t) \/ Hold(t) \/ Join(t) \/ Move(t) \/ Park(t)
    BY <2>2 DEF TakeDown, Hold, Join, Move, Park
  <2> QED  BY <2>1, <2>2
<1>4. /\ job'.phase = "acting" /\ job'.kind = job.kind /\ job'.next = job.next
      /\ job'.todo = job.todo \ {t} /\ job'.failed = job.failed \union failed
  BY <1>1, <1>2, <1>3 DEF Done, Job
<1>5. \A r \in Radios \ {t.radio} :
        /\ device'[r] = device[r] /\ auto'[r] = auto[r] /\ (r \in userOff' <=> r \in userOff)
  BY <1>1 DEF TakeDown, Hold, Join, Move, Park, Release, SetAuto, nm
<1>6. /\ device'[t.radio] # "unavailable" /\ (Present(t.radio)' <=> Present(t.radio))
      /\ Present(t.radio) \/ auto'[t.radio]
  BY <1>1 DEF HeldInv, TakeDown, Hold, Join, Move, Park, Release, SetAuto, nm, Present, Succeeds
<1>7. \A r \in Radios : device'[r] # "unavailable" /\ (Present(r)' \/ auto'[r])
  BY <1>5, <1>6 DEF HeldInv, Present
<1>8. \A r \in Radios \ {t.radio} : Blocked(r)' => Blocked(r)
  BY <1>5 DEF Blocked, Present
<1>9. CASE Following
  <2>1. FollowInv
    BY <1>9 DEF HeldInv
  <2>2. t.radio \in userOff /\ t.op \notin {"join", "move", "release"} => t.radio \in userOff'
    BY DEF TakeDown, Hold, Join, Move, Park, Release, SetAuto, nm
  <2>3. Blocked(t.radio)' => t.radio \in job.next.held
    <3>1. CASE Blocked(t.radio)
      BY <1>1, <2>1, <3>1 DEF FollowInv
    <3>2. CASE ~Blocked(t.radio) /\ Blocked(t.radio)'
      <4>1. /\ Present(t.radio) /\ t.op \in {"hold", "move", "park"}
            /\ t.radio \notin userOff
        BY <1>1, <3>2 DEF TakeDown, Hold, Join, Move, Park, Release, SetAuto, nm, Blocked, Present
      <4> QED  BY <2>1, <4>1 DEF FollowInv, Covered
    <3> QED  BY <3>1, <3>2
  <2>4. ASSUME NEW u \in job'.todo PROVE Covered(u)'
    <3>1. u \in job.todo /\ u # t /\ Covered(u) /\ u.radio \in Radios
      BY <1>1, <1>4, <2>1 DEF FollowInv, Job, Todo
    <3>2. CASE u.radio # t.radio
      BY <1>4, <1>5, <3>1, <3>2 DEF Covered, Present
    <3>3. CASE u.radio = t.radio /\ u.op \in {"move", "park"} /\ u.radio \in userOff
      <4>1. t.op \notin {"join", "move"}
        BY <2>1, <3>1, <3>3 DEF FollowInv
      <4>2. t.op # "release"
        BY <2>1 DEF FollowInv, Covered
      <4> QED  BY <1>4, <2>2, <3>3, <4>1, <4>2 DEF Covered
    <3>4. CASE u.radio = t.radio /\ ~(u.op \in {"move", "park"} /\ u.radio \in userOff)
      BY <1>4, <1>6, <3>1, <3>4 DEF Covered, Present
    <3> QED  BY <3>2, <3>3, <3>4
  <2>5. FollowInv'
    BY <1>4, <1>8, <2>1, <2>3, <2>4 DEF FollowInv
  <2> QED  BY <1>2, <1>4, <1>7, <1>9, <2>5 DEF HeldInv, Following, Releasing
<1>10. CASE ~Following
  <2>1. Releasing /\ ReleaseInv /\ t.op = "release"
    BY <1>2, <1>10 DEF Following, Releasing, HeldInv, ReleaseInv
  <2>2. Blocked(t.radio)' => Blocked(t.radio)
    BY <1>1, <2>1 DEF TakeDown, Hold, Join, Move, Park, Release, SetAuto, Blocked, Present, nm
  <2>3. \A r \in Radios : Blocked(r)' => r \in disk.held
    BY <1>8, <1>10, <2>2 DEF HeldInv
  <2>4. ReleaseInv'
    <3>1. ASSUME NEW r \in Radios, Blocked(r)', r # t.radio
          PROVE  \/ [op |-> "release", radio |-> r] \in job'.todo
                 \/ job.kind # "lost" /\ r \in job'.failed
      <4>1. [op |-> "release", radio |-> r] # t
        BY <3>1
      <4> QED  BY <1>4, <1>8, <2>1, <3>1, <4>1 DEF ReleaseInv
    <3> QED  BY <1>3, <1>4, <2>1, <3>1 DEF ReleaseInv
  <2> QED  BY <1>2, <1>4, <1>7, <1>10, <2>1, <2>3, <2>4 DEF HeldInv, Following, Releasing
<1> QED  BY <1>9, <1>10

LEMMA HeldSave ==
  ASSUME TypeOK, HeldInv, Save
  PROVE  HeldInv'
<1>1. /\ job.phase = "acting" /\ job.todo = {} /\ UNCHANGED nm /\ disk' = Kept
      /\ job.kind # "release" => mem' = Kept /\ job'.phase = "idle"
      /\ job.kind = "release" => job'.phase = "stopped"
  BY DEF Save, Quiet
<1>2. \A r \in Radios : Blocked(r)' => Blocked(r)
  BY <1>1 DEF Blocked, Present, nm
<1>3. \A r \in Radios : Blocked(r) => r \in Kept.held
  <2>1. CASE Following
    BY <2>1 DEF HeldInv, FollowInv, Following, Kept
  <2>2. CASE Releasing
    <3>1. \A r \in Radios : Blocked(r) => job.kind # "lost" /\ r \in job.failed
      BY <1>1, <2>2 DEF HeldInv, ReleaseInv
    <3> QED  BY <2>2, <3>1 DEF Kept, Releasing, Nothing
  <2> QED  BY <1>1, <2>1, <2>2 DEF Following, Releasing
<1>4. \A r \in Radios : device'[r] # "unavailable" /\ (Present(r)' \/ auto'[r])
  BY <1>1 DEF HeldInv, Present, nm
<1> QED  BY <1>1, <1>2, <1>3, <1>4 DEF HeldInv, Following, Releasing

LEMMA HeldStopPost ==
  ASSUME TypeOK, HeldInv, StopPost
  PROVE  HeldInv'
<1>1. /\ job.phase = "dead" /\ UNCHANGED <<nm, disk>>
      /\ job'.phase = "acting" /\ job'.kind = "release" /\ job'.todo = Releases(disk)
  BY DEF StopPost, Act
<1>2. \A r \in Radios : /\ Blocked(r)' <=> Blocked(r)
                        /\ Blocked(r) => r \in disk.held
                        /\ device'[r] # "unavailable" /\ (Present(r)' \/ auto'[r])
  BY <1>1 DEF HeldInv, Following, Blocked, Present, nm
<1>3. \A r \in Radios : Blocked(r)' => [op |-> "release", radio |-> r] \in job'.todo
  BY <1>1, <1>2 DEF Releases, Recorded
<1>4. \A t \in job'.todo : t.op = "release"
  BY <1>1 DEF Releases
<1> QED  BY <1>1, <1>2, <1>3, <1>4 DEF HeldInv, Following, Releasing, ReleaseInv

\* What the world does to a radio never blocks it.
LEMMA HeldEnvironment ==
  ASSUME Faults = {}, TypeOK, HeldInv, Environment
  PROVE  HeldInv'
<1>1. CASE Settle \/ Die \/ Start \/ FailsafeEnds \/ Switch
  <2>1. UNCHANGED <<nm, disk>>
    BY <1>1 DEF Settle, Die, Start, FailsafeEnds, Switch, daemon, nm
  <2>2. \A r \in Radios : /\ Blocked(r)' <=> Blocked(r)
                          /\ device'[r] # "unavailable" /\ (Present(r)' \/ auto'[r])
    BY <2>1 DEF HeldInv, Blocked, Present, nm
  <2>3. CASE Settle \/ FailsafeEnds \/ Switch
    <3>1. UNCHANGED <<nm, mem, disk, job>>
      BY <2>3 DEF Settle, FailsafeEnds, Switch, daemon, nm
    <3> QED  BY <2>2, <3>1 DEF HeldInv, Following, Releasing, FollowInv, ReleaseInv, Covered,
                               Present, nm
  <2>4. CASE Die \/ Start
    <3>1. /\ ~Following
          /\ job'.phase \in {"idle", "dead", "stopped"}
          /\ job'.phase = "idle" => mem' = disk
      BY <2>4 DEF Die, Start, Following, Quiet
    <3> QED  BY <2>1, <2>2, <3>1 DEF HeldInv, Following, Releasing
  <2> QED  BY <1>1, <2>3, <2>4
<1>2. CASE NMRestarts \/ \E r \in Radios :
             \/ UserTurnsOff(r) \/ UserTurnsOn(r) \/ LinkChanges(r)
             \/ Unplug(r) \/ Plug(r) \/ Rfkill(r)
  <2>1. UNCHANGED <<mem, disk, job>>
    BY <1>2 DEF NMRestarts, UserTurnsOff, UserTurnsOn, LinkChanges, Unplug, Plug, Rfkill,
                Happens, daemon
  <2>2. ASSUME NEW q \in Radios
        PROVE  /\ device'[q] # "unavailable" /\ (Present(q)' \/ auto'[q])
               /\ Blocked(q)' => Blocked(q)
               /\ job.phase = "acting" /\ q \in userOff => q \in userOff' \/ ~Present(q)'
               /\ job.phase = "acting" /\ ~Present(q) => ~Present(q)'
    <3>1. CASE NMRestarts
      BY <1>2, <3>1 DEF NMRestarts, BetweenPolls, HeldInv, Blocked, Present
    <3>2. ASSUME NEW r \in Radios,
                 \/ UserTurnsOff(r) \/ UserTurnsOn(r) \/ LinkChanges(r)
                 \/ Unplug(r) \/ Plug(r) \/ Rfkill(r)
          PROVE  /\ device'[q] # "unavailable" /\ (Present(q)' \/ auto'[q])
                 /\ Blocked(q)' => Blocked(q)
                 /\ job.phase = "acting" /\ q \in userOff => q \in userOff' \/ ~Present(q)'
                 /\ job.phase = "acting" /\ ~Present(q) => ~Present(q)'
      BY <3>2 DEF UserTurnsOff, UserTurnsOn, LinkChanges, Unplug, Plug, Rfkill, BetweenPolls,
                  SetAuto, HeldInv, Blocked, Present, TypeOK
    <3> QED  BY <1>2, <3>1, <3>2
  <2>3. Following => FollowInv'
    <3> SUFFICES ASSUME Following PROVE FollowInv'
      OBVIOUS
    <3>1. FollowInv /\ job.phase = "acting" /\ \A t \in job.todo : t.radio \in Radios
      BY DEF HeldInv, Following, TypeOK, Job, Todo
    <3>2. \A t \in job.todo : Covered(t)'
      BY <2>1, <2>2, <3>1 DEF FollowInv, Covered
    <3> QED  BY <2>1, <2>2, <3>1, <3>2 DEF FollowInv
  <2>4. Releasing => ReleaseInv'
    BY <2>1, <2>2 DEF HeldInv, ReleaseInv
  <2> QED  BY <2>1, <2>2, <2>3, <2>4 DEF HeldInv, Following, Releasing
<1> QED  BY <1>1, <1>2 DEF Environment

(* Unless one of the faults strikes, a radio that wifimimo has blocked is  *)
(* recorded in follow.json or in the memory the running poll will save     *)
(* there (keep_unreleased, Follower._save).                                *)
THEOREM NothingForgotten ==
  ASSUME Faults = {}
  PROVE  Spec => []NeverForgotten
<1>1. Init => HeldInv
  BY HeldInit
<1>2. TypeOK /\ HeldInv /\ [Next]_vars => HeldInv'
  <2> SUFFICES ASSUME TypeOK, HeldInv, [Next]_vars PROVE HeldInv'
    OBVIOUS
  <2>1. CASE Poll
    BY <2>1, HeldPoll
  <2>2. CASE Command
    BY <2>2, HeldCommand DEF Command
  <2>3. CASE Save
    BY <2>3, HeldSave
  <2>4. CASE StopPost
    BY <2>4, HeldStopPost
  <2>5. CASE Environment
    BY <2>5, HeldEnvironment
  <2>6. CASE UNCHANGED vars
    BY <2>6 DEF vars, HeldInv, Following, Releasing, FollowInv, ReleaseInv, Covered, Blocked, Present
  <2> QED  BY <2>1, <2>2, <2>3, <2>4, <2>5, <2>6 DEF Next, Daemon
<1>3. TypeOK /\ HeldInv => NeverForgotten
  BY HeldImplies
<1> QED  BY <1>1, <1>2, <1>3, Typed, PTL DEF Spec
=============================================================================
