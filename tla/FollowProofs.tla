---- MODULE FollowProofs ----
(***************************************************************************)
(* Following, for every number of radios, profiles and networks.  A poll's *)
(* commands have a shape (PlanShape) that the memory it will save accounts *)
(* for; what a radio is on, that is not what it was on when last looked    *)
(* at, is explained (Explained): by wifimimo's own join, by a fallback, by *)
(* the radio being new, or by a reason no poll has reviewed.  So no poll   *)
(* finds a choice where there is no reason.                                *)
(***************************************************************************)
EXTENDS Follow, FiniteSetTheorems, TLAPS

LEMMA Nothing ==
  /\ None \notin Profiles /\ None \notin Radios /\ None \notin Nets
  /\ \A p \in Profiles : NetOf[p] \in Nets
BY NoneIsNothing DEF Nets

-----------------------------------------------------------------------------
(* Types of what the actions are made of. *)

LEMMA LinkTypes ==
  /\ Away \in Link /\ \A b \in BOOLEAN : Idle(b) \in Link
  /\ \A p \in Profiles : On("busy", p) \in Link /\ On("up", p) \in Link /\ On("starting", p) \in Link
BY DEF Away, Idle, On, Link, ProfileOrNone

LEMMA DroppingType ==
  ASSUME TypeOK, NEW rs, NEW asked \in BOOLEAN
  PROVE  Dropping(rs, asked) \in [Radios -> Link]
BY LinkTypes DEF Dropping, TypeOK

LEMMA ActivationType ==
  ASSUME TypeOK, NEW r \in Radios, NEW p, NEW l \in Link
  PROVE  Activation(r, p, l) \in [Radios -> Link]
<1>1. \A rs : Dropping(rs, FALSE) \in [Radios -> Link]
  BY DroppingType
<1> QED  BY <1>1 DEF Activation

LEMMA UuidType ==
  ASSUME TypeOK
  PROVE  /\ \A r \in Radios : Uuid(r) \in ProfileOrNone
         /\ \A r \in Radios : Uuid(r) # None => Uuid(r) \in Profiles /\ Uuid(r) = link[r].on
         /\ \A r \in Wifi : r \in Radios
BY DEF TypeOK, Link, Uuid, ProfileOrNone, Wifi

LEMMA MemoryTypes ==
  /\ NoLeader \in Leader /\ Still \in Move
  /\ \A ps \in SUBSET Profiles : Forgotten(ps) \in Memory
  /\ Rest \in Job
<1>1. NoLeader \in Leader /\ Still \in Move
  BY DEF NoLeader, Leader, Still, Move, Stages, ProfileOrNone, RadioOrNone
<1>2. \A ps \in SUBSET Profiles : Forgotten(ps) \in Memory
  BY <1>1 DEF Forgotten, Memory, ProfileOrNone
<1>3. Forgotten({}) \in Memory /\ <<>> \in Seq(Command)
  BY <1>2
<1> QED  BY <1>1, <1>2, <1>3 DEF Rest, Job

\* A radio is on a profile just when it is doing something.
Linked == \A r \in Radios : link[r].on = None <=> link[r].at \in {"none", "gone", "idle"}

\* A leader is nobody, or a radio on a profile.
Leading(l) == l = NoLeader \/ (l.on \in Profiles /\ l.dev \in Radios)

LEMMA LeadersLead ==
  ASSUME TypeOK, Linked, Leading(mem.leader), NEW l \in Leaders
  PROVE  l \in Leader /\ Leading(l)
<1>1. \A r \in Radios : Uuid(r) # None => LeaderOn(r) \in Leader /\ Leading(LeaderOn(r))
  BY UuidType DEF LeaderOn, Leader, Leading, ProfileOrNone, RadioOrNone
<1>2. mem.leader \in Leader
  BY DEF TypeOK, Memory
<1>3. \A r \in Choosers : r \in Radios /\ Uuid(r) # None
  BY DEF Choosers, Activated, Changed, Wifi
<1>4. CASE Choosers # {}
  BY <1>1, <1>3, <1>4 DEF Leaders
<1>5. CASE Choosers = {} /\ mem.leader # NoLeader
  BY <1>2, <1>5 DEF Leaders
<1>6. CASE Choosers = {} /\ mem.leader = NoLeader
  <2>1. l = NoLeader \/ \E r \in Up : l = LeaderOn(r)
    BY <1>6 DEF Leaders
  <2>2. CASE l = NoLeader
    BY <2>2, MemoryTypes DEF Leading
  <2>3. \A r \in Up : r \in Radios /\ Uuid(r) # None
    BY DEF Up, Uuid, Linked
  <2> QED  BY <1>1, <2>1, <2>2, <2>3
<1> QED  BY <1>4, <1>5, <1>6

-----------------------------------------------------------------------------
(* What a poll plans. *)

\* The commands of a poll, and the memory that accounts for them.
PlanShape(todo, next) ==
  \A i \in 1 .. Len(todo) :
    /\ todo[i].op = "multi" => todo[i].profiles \subseteq next.modified
    /\ todo[i].op = "park" => todo[i].radios \subseteq next.parked
    /\ todo[i].op = "down" => next.leader = NoLeader
    /\ todo[i].op = "restore" => Len(todo) = 1 /\ next = Forgotten(todo[i].profiles)
    /\ todo[i].op = "up" =>
         /\ next.leader # NoLeader /\ todo[i].profiles = {next.leader.on}
         /\ \E r \in Radios : /\ todo[i].radios = {r}
                              /\ next.moves[r].target = next.leader.on /\ InFlight(next.moves[r])
    /\ todo[i].op = "move" =>
         \E j \in (i + 1) .. Len(todo) : todo[j].op = "up" /\ todo[j].radios = todo[i].radios

LEMMA ShapeTail ==
  ASSUME NEW todo \in Seq(Command), todo # <<>>, NEW next, PlanShape(todo, next)
  PROVE  Tail(todo) \in Seq(Command) /\ PlanShape(Tail(todo), next)
<1> DEFINE rest == Tail(todo)
<1>1. /\ Len(rest) = Len(todo) - 1 /\ Len(todo) \in Nat \ {0} /\ rest \in Seq(Command)
      /\ \A i \in 1 .. Len(rest) : rest[i] = todo[i + 1] /\ i + 1 \in 1 .. Len(todo)
  OBVIOUS
<1> HIDE DEF rest
<1> SUFFICES ASSUME NEW i \in 1 .. Len(rest)
             PROVE  /\ rest[i].op = "multi" => rest[i].profiles \subseteq next.modified
                    /\ rest[i].op = "park" => rest[i].radios \subseteq next.parked
                    /\ rest[i].op = "down" => next.leader = NoLeader
                    /\ rest[i].op = "restore" => Len(rest) = 1 /\ next = Forgotten(rest[i].profiles)
                    /\ rest[i].op = "up" =>
                         /\ next.leader # NoLeader /\ rest[i].profiles = {next.leader.on}
                         /\ \E r \in Radios : /\ rest[i].radios = {r}
                                              /\ next.moves[r].target = next.leader.on
                                              /\ InFlight(next.moves[r])
                    /\ rest[i].op = "move" =>
                         \E j \in (i + 1) .. Len(rest) : rest[j].op = "up" /\ rest[j].radios = rest[i].radios
  BY <1>1 DEF PlanShape, rest
<1>2. i + 1 \in 1 .. Len(todo) /\ rest[i] = todo[i + 1]
  BY <1>1
<1>3. rest[i].op # "restore"
  BY <1>1, <1>2 DEF PlanShape
<1>4. ASSUME rest[i].op = "move"
      PROVE  \E j \in (i + 1) .. Len(rest) : rest[j].op = "up" /\ rest[j].radios = rest[i].radios
  <2>1. PICK j \in (i + 2) .. Len(todo) : todo[j].op = "up" /\ todo[j].radios = rest[i].radios
    BY <1>2, <1>4 DEF PlanShape
  <2>2. j - 1 \in (i + 1) .. Len(rest) /\ rest[j - 1] = todo[j]
    BY <1>1, <2>1
  <2> QED  BY <2>1, <2>2
<1> QED  BY <1>2, <1>3, <1>4 DEF PlanShape

LEMMA InTwo ==
  ASSUME NEW S, NEW a \in Seq(S), NEW b \in Seq(S)
  PROVE  /\ a \o b \in Seq(S) /\ Len(a \o b) = Len(a) + Len(b)
         /\ \A i \in 1 .. Len(a \o b) : (a \o b)[i] = IF i <= Len(a) THEN a[i] ELSE b[i - Len(a)]
OBVIOUS

\* Four sequences in a row: each element is one of theirs.
Row(s, a, b, c, d) ==
  /\ Len(s) = Len(a) + Len(b) + Len(c) + Len(d)
  /\ \A i \in 1 .. Len(s) :
       \/ i <= Len(a) /\ s[i] = a[i]
       \/ i - Len(a) \in 1 .. Len(b) /\ s[i] = b[i - Len(a)]
       \/ i - Len(a) - Len(b) \in 1 .. Len(c) /\ s[i] = c[i - Len(a) - Len(b)]
       \/ /\ i - Len(a) - Len(b) - Len(c) \in 1 .. Len(d)
          /\ s[i] = d[i - Len(a) - Len(b) - Len(c)]
  /\ \A k \in 1 .. Len(c) : s[Len(a) + Len(b) + k] = c[k]

LEMMA InRow ==
  ASSUME NEW S, NEW a \in Seq(S), NEW b \in Seq(S), NEW c \in Seq(S), NEW d \in Seq(S),
         NEW s, s = a \o b \o c \o d
  PROVE  s \in Seq(S) /\ Row(s, a, b, c, d)
<1>1. PICK ab : ab = a \o b
  OBVIOUS
<1>2. PICK abc : abc = ab \o c
  OBVIOUS
<1>3. s = abc \o d
  BY <1>1, <1>2
<1>4. ab \in Seq(S) /\ Len(ab) = Len(a) + Len(b)
      /\ \A i \in 1 .. Len(ab) : ab[i] = IF i <= Len(a) THEN a[i] ELSE b[i - Len(a)]
  BY <1>1, InTwo
<1>6. abc \in Seq(S) /\ Len(abc) = Len(ab) + Len(c)
      /\ \A i \in 1 .. Len(abc) : abc[i] = IF i <= Len(ab) THEN ab[i] ELSE c[i - Len(ab)]
  <2>1. ab \in Seq(S)
    BY <1>4
  <2>2. /\ ab \o c \in Seq(S) /\ Len(ab \o c) = Len(ab) + Len(c)
        /\ \A i \in 1 .. Len(ab \o c) : (ab \o c)[i] = IF i <= Len(ab) THEN ab[i] ELSE c[i - Len(ab)]
    BY <2>1, InTwo
  <2> QED  BY <1>2, <2>2
<1>7. s \in Seq(S) /\ Len(s) = Len(abc) + Len(d)
      /\ \A i \in 1 .. Len(s) : s[i] = IF i <= Len(abc) THEN abc[i] ELSE d[i - Len(abc)]
  BY <1>3, <1>6, InTwo
<1>5. Len(a) \in Nat /\ Len(b) \in Nat /\ Len(c) \in Nat /\ Len(d) \in Nat
  OBVIOUS
<1>8. Row(s, a, b, c, d)
  <2>1. Len(s) = Len(a) + Len(b) + Len(c) + Len(d)
    <3>1. Len(ab) = Len(a) + Len(b) /\ Len(abc) = Len(ab) + Len(c) /\ Len(s) = Len(abc) + Len(d)
      BY <1>4, <1>6, <1>7
    <3> QED  BY <3>1
  <2>2. ASSUME NEW i \in 1 .. Len(s)
        PROVE  \/ i <= Len(a) /\ s[i] = a[i]
               \/ i - Len(a) \in 1 .. Len(b) /\ s[i] = b[i - Len(a)]
               \/ i - Len(a) - Len(b) \in 1 .. Len(c) /\ s[i] = c[i - Len(a) - Len(b)]
               \/ /\ i - Len(a) - Len(b) - Len(c) \in 1 .. Len(d)
                  /\ s[i] = d[i - Len(a) - Len(b) - Len(c)]
    <3>1. CASE i <= Len(ab)
      <4>1. i \in 1 .. Len(ab) /\ i \in 1 .. Len(abc)
        BY <1>4, <1>5, <1>6, <3>1
      <4>2. s[i] = ab[i]
        BY <1>5, <1>6, <1>7, <3>1, <4>1
      <4>3. s[i] = IF i <= Len(a) THEN a[i] ELSE b[i - Len(a)]
        BY <1>4, <4>1, <4>2
      <4>4. i > Len(a) => i - Len(a) \in 1 .. Len(b)
        BY <1>4, <1>5, <4>1
      <4> QED  BY <1>5, <4>1, <4>3, <4>4
    <3>2. CASE i > Len(ab) /\ i <= Len(abc)
      <4>1. i \in 1 .. Len(abc)
        BY <3>2
      <4>2. s[i] = abc[i] /\ abc[i] = c[i - Len(ab)]
        BY <1>4, <1>5, <1>6, <1>7, <3>2, <4>1
      <4> QED  BY <1>4, <1>5, <1>6, <3>2, <4>2
    <3>3. CASE i > Len(abc)
      <4>1. s[i] = d[i - Len(abc)]
        BY <1>4, <1>5, <1>6, <1>7, <3>3
      <4> QED  BY <1>4, <1>5, <1>6, <1>7, <3>3, <4>1
    <3> QED  BY <1>4, <1>5, <1>6, <3>1, <3>2, <3>3
  <2>3. ASSUME NEW k \in 1 .. Len(c)
        PROVE  s[Len(a) + Len(b) + k] = c[k]
    <3>1. Len(ab) + k \in 1 .. Len(abc) /\ Len(ab) + k \in 1 .. Len(s)
      BY <1>4, <1>5, <1>6, <1>7
    <3> QED  BY <1>4, <1>5, <1>6, <1>7, <3>1
  <2> QED  BY <2>1, <2>2, <2>3 DEF Row
<1> QED  BY <1>7, <1>8

\* A sequence of one element, or of none.
LEMMA Optional ==
  ASSUME NEW S, NEW x \in S, NEW none \in BOOLEAN, NEW s, s = IF none THEN <<>> ELSE <<x>>
  PROVE  s \in Seq(S) /\ Len(s) \in {0, 1} /\ (Len(s) = 1 <=> ~none) /\ (Len(s) = 1 => s[1] = x)
<1>1. CASE none
  BY <1>1
<1>2. CASE ~none
  BY <1>2
<1> QED  BY <1>1, <1>2

ShortRow(s, a, b, c, d) ==
  /\ \A i \in 1 .. Len(s) :
       \/ Len(a) = 1 /\ s[i] = a[1]
       \/ Len(b) = 1 /\ s[i] = b[1] /\ i = Len(a) + 1
       \/ Len(c) = 1 /\ s[i] = c[1]
       \/ Len(d) = 1 /\ s[i] = d[1]
  /\ Len(c) = 1 => Len(a) + Len(b) + 1 \in 1 .. Len(s) /\ s[Len(a) + Len(b) + 1] = c[1]

LEMMA InShortRow ==
  ASSUME NEW S, NEW a \in Seq(S), NEW b \in Seq(S), NEW c \in Seq(S), NEW d \in Seq(S),
         Len(a) \in {0, 1}, Len(b) \in {0, 1}, Len(c) \in {0, 1}, Len(d) \in {0, 1},
         NEW s, s = a \o b \o c \o d
  PROVE  s \in Seq(S) /\ ShortRow(s, a, b, c, d)
<1>1. s \in Seq(S) /\ Row(s, a, b, c, d)
  BY InRow
<1>2. Len(a) \in 0 .. 1 /\ Len(b) \in 0 .. 1 /\ Len(c) \in 0 .. 1 /\ Len(d) \in 0 .. 1
  <2>1. \A n : n \in {0, 1} => n \in 0 .. 1
    OBVIOUS
  <2> QED  BY <2>1, Zenon
<1>3. ASSUME NEW i \in 1 .. Len(s)
      PROVE  \/ Len(a) = 1 /\ s[i] = a[1]
             \/ Len(b) = 1 /\ s[i] = b[1] /\ i = Len(a) + 1
             \/ Len(c) = 1 /\ s[i] = c[1]
             \/ Len(d) = 1 /\ s[i] = d[1]
  <2>1. CASE i <= Len(a) /\ s[i] = a[i]
    <3>1. i = 1 /\ Len(a) = 1
      BY <1>2, <2>1
    <3> QED  BY <2>1, <3>1
  <2>2. CASE i - Len(a) \in 1 .. Len(b) /\ s[i] = b[i - Len(a)]
    <3>1. i - Len(a) = 1 /\ Len(b) = 1 /\ i = Len(a) + 1
      BY <1>2, <2>2
    <3> QED  BY <2>2, <3>1
  <2>3. CASE i - Len(a) - Len(b) \in 1 .. Len(c) /\ s[i] = c[i - Len(a) - Len(b)]
    <3>1. i - Len(a) - Len(b) = 1 /\ Len(c) = 1
      <4>1. \A k \in 0 .. 1, n \in Int : n \in 1 .. k => n = 1 /\ k = 1
        OBVIOUS
      <4>2. i - Len(a) - Len(b) \in Int
        BY <1>2
      <4> QED  BY <1>2, <2>3, <4>1, <4>2
    <3> QED  BY <2>3, <3>1
  <2>4. CASE /\ i - Len(a) - Len(b) - Len(c) \in 1 .. Len(d)
             /\ s[i] = d[i - Len(a) - Len(b) - Len(c)]
    <3>1. i - Len(a) - Len(b) - Len(c) = 1 /\ Len(d) = 1
      BY <1>2, <2>4
    <3> QED  BY <2>4, <3>1
  <2> QED  BY <1>1, <2>1, <2>2, <2>3, <2>4 DEF Row
<1>4. Len(c) = 1 => Len(a) + Len(b) + 1 \in 1 .. Len(s) /\ s[Len(a) + Len(b) + 1] = c[1]
  BY <1>1, <1>2 DEF Row
<1> QED  BY <1>1, <1>3, <1>4 DEF ShortRow

LEMMA BaseIs ==
  ASSUME TypeOK, NEW l \in Leader
  PROVE  /\ Base(l) \in Memory
         /\ Base(l).fresh = FALSE /\ Base(l).leader = l /\ Base(l).moves = mem.moves
         /\ Base(l).last = [r \in Radios |-> IF r \in Wifi THEN Uuid(r) ELSE None]
         /\ Base(l).known = mem.known /\ Base(l).parked = mem.parked \intersect Wifi
         /\ Base(l).modified = mem.modified /\ Base(l).tried = mem.tried
<1>1. Appeared \subseteq Radios /\ mem \in Memory
  BY DEF Appeared, Wifi, TypeOK, Memory
<1>2. [r \in Radios |-> IF r \in Wifi THEN Uuid(r) ELSE None] \in [Radios -> ProfileOrNone]
  BY UuidType DEF ProfileOrNone
<1> QED  BY <1>1, <1>2 DEF Base, Memory

\* What of a poll's plan the invariants below need, whoever leads.
Planned(todo, next) ==
  /\ todo \in Seq(Command) /\ next \in Memory /\ Leading(next.leader)
  /\ PlanShape(todo, next)
  /\ \A i \in 1 .. Len(todo) : todo[i].op = "up" =>
       profile[next.leader.on].saved /\ profile[next.leader.on].bound = None
  /\ mem.modified \subseteq next.modified
  /\ ~next.fresh /\ next.last = [r \in Radios |-> IF r \in Wifi THEN Uuid(r) ELSE None]
  /\ \A r \in Radios : link[r].at = "starting" /\ InFlight(mem.moves[r]) => next.moves[r] = mem.moves[r]

\* One of the commands is to join this radio.
Joins(todo, r) == \E i \in 1 .. Len(todo) : todo[i].op = "up" /\ todo[i].radios = {r}

\* Leader l is followed on, or given up for its network is gone.
Follows(l, fresh, todo, next) ==
  \/ next.leader = NoLeader /\ (l = NoLeader \/ (lost /\ ~fresh))
  \/ /\ l # NoLeader /\ next.leader # NoLeader /\ next.leader.on = l.on
     /\ next.leader.dev = l.dev \/ next.leader.dev \in Up
     /\ \A r \in mem.parked \intersect Wifi : r \in next.parked \/ Joins(todo, r)

LEMMA HandOverTo ==
  ASSUME TypeOK, NEW l \in Leader, Leading(l), l # NoLeader, NEW without, NEW h \in HandOver(l, without)
  PROVE  h \in Leader /\ Leading(h) /\ h # NoLeader /\ h.on = l.on /\ (h.dev = l.dev \/ h.dev \in Up)
<1>1. l.on \in Profiles /\ l.dev \in Radios
  BY DEF Leading
<1>2. Heirs(l, without) \subseteq Up /\ Up \subseteq Radios
  BY DEF Heirs, Up
<1>3. h = l \/ \E r \in Up : h = [l EXCEPT !.dev = r]
  BY <1>2 DEF HandOver
<1>4. ASSUME NEW r \in Radios
      PROVE  LET c == [l EXCEPT !.dev = r] IN c \in Leader /\ c.on = l.on /\ c.dev = r
  BY <1>1 DEF Leader, RadioOrNone
<1>5. CASE h = l
  BY <1>5
<1>6. ASSUME NEW r \in Up, h = [l EXCEPT !.dev = r]
      PROVE  h \in Leader /\ h.on = l.on /\ h.dev = r /\ r \in Radios
  BY <1>2, <1>4, <1>6
<1>7. h.on # None => h # NoLeader
  BY DEF NoLeader
<1> QED  BY <1>1, <1>3, <1>5, <1>6, <1>7, Nothing DEF Leading

LEMMA SettledIs ==
  ASSUME TypeOK, NEW l \in Leader, NEW late
  PROVE  /\ Settled(l, late) \in [Radios -> Move]
         /\ \A r \in Radios \ late :
              link[r].at = "starting" => Settled(l, late)[r] = mem.moves[r]
<1>1. mem.moves \in [Radios -> Move]
  BY DEF TypeOK, Memory
<1>2. \A r \in Radios : Settled(l, late)[r] \in Move
  BY <1>1 DEF Settled, Move, Stages
<1>3. ASSUME NEW r \in Radios \ late, link[r].at = "starting"
      PROVE  Settled(l, late)[r] = mem.moves[r]
  <2>1. Uuid(r) = None
    BY <1>3 DEF Uuid
  <2>2. r \notin Stalled(late) /\ ~Dropped(r, late) /\ ~Landed(r, l)
    BY <1>3, <2>1 DEF Stalled, Dropped, Landed
  <2> QED  BY <2>2 DEF Settled
<1> QED  BY <1>2, <1>3 DEF Settled

\* The branches that run no command, or clear a binding.
LEMMA QuietPlans ==
  ASSUME TypeOK, NEW l \in Leader, Leading(l), NEW next \in Memory, NEW todo \in Seq(Command),
         todo = <<>> \/ \E p : todo = <<Cmd("unbind", {}, {p})>>,
         next.leader = l \/ next.leader = NoLeader, next.fresh = FALSE, next.last = Base(l).last,
         mem.modified \subseteq next.modified,
         \A r \in Radios : link[r].at = "starting" /\ InFlight(mem.moves[r]) => next.moves[r] = mem.moves[r]
  PROVE  Planned(todo, next)
<1>1. \A i \in 1 .. Len(todo) : todo[i].op = "unbind"
  BY DEF Cmd
<1>2. Leading(next.leader)
  BY DEF Leading
<1> QED  BY <1>1, <1>2, BaseIs DEF Planned, PlanShape

LEMMA PlacePlans ==
  ASSUME TypeOK, Linked, NEW l \in Leader, Leading(l), l # NoLeader, NEW fresh \in BOOLEAN,
         profile[l.on].saved => profile[l.on].bound = None,
         NEW late \in SUBSET {r \in Judgeable : link[r].at \notin {"starting", "up"}},
         Place(l, fresh, late)
  PROVE  \E todo, next : /\ Plan(todo, next) /\ Planned(todo, next)
                         /\ Follows(l, fresh, todo, next)
<1>0. PICK c \in Changes(l, fresh, Settled(l, late), Stalled(late)) :
      \E heir \in IF c.kind = "park" /\ c.radio = l.dev THEN HandOver(l, {c.radio}) ELSE {l} :
      LET moves  == Settled(l, late)
          joins  == {c.radio} \intersect (IF c.kind \in {"join", "swap", "move"} THEN Radios ELSE {})
          idle   == {r \in Wifi : Disconnected(r) /\ ~InFlight(moves[r])}
          parks  == ((Stalled(late) \union idle) \ (joins \union mem.parked))
                      \union (IF c.kind = "park" THEN {c.radio} ELSE {})
          raised == IF joins = {} THEN {} ELSE Raised(l.on)
          target == [target |-> l.on, previous |-> IF c.kind = "join" THEN Uuid(c.radio) ELSE None,
                     stage |-> "begun"]
      IN Plan((IF raised = {} THEN <<>> ELSE <<Cmd("multi", {}, raised)>>)
                \o (IF c.kind = "move" THEN <<Cmd("move", joins, {})>> ELSE <<>>)
                \o (IF joins = {} THEN <<>> ELSE <<Cmd("up", joins, {l.on})>>)
                \o (IF parks = {} THEN <<>> ELSE <<Cmd("park", parks, {})>>),
              [Base(heir) EXCEPT
                 !.known    = Wifi,
                 !.moves    = [r \in Radios |-> IF r \in joins THEN target
                                                ELSE IF r \in parks THEN Still
                                                ELSE moves[r]],
                 !.parked   = (@ \ joins) \union parks,
                 !.modified = @ \union raised])
  BY DEF Place
<1>1. PICK heir \in IF c.kind = "park" /\ c.radio = l.dev THEN HandOver(l, {c.radio}) ELSE {l} :
      LET moves  == Settled(l, late)
          joins  == {c.radio} \intersect (IF c.kind \in {"join", "swap", "move"} THEN Radios ELSE {})
          idle   == {r \in Wifi : Disconnected(r) /\ ~InFlight(moves[r])}
          parks  == ((Stalled(late) \union idle) \ (joins \union mem.parked))
                      \union (IF c.kind = "park" THEN {c.radio} ELSE {})
          raised == IF joins = {} THEN {} ELSE Raised(l.on)
          target == [target |-> l.on, previous |-> IF c.kind = "join" THEN Uuid(c.radio) ELSE None,
                     stage |-> "begun"]
      IN Plan((IF raised = {} THEN <<>> ELSE <<Cmd("multi", {}, raised)>>)
                \o (IF c.kind = "move" THEN <<Cmd("move", joins, {})>> ELSE <<>>)
                \o (IF joins = {} THEN <<>> ELSE <<Cmd("up", joins, {l.on})>>)
                \o (IF parks = {} THEN <<>> ELSE <<Cmd("park", parks, {})>>),
              [Base(heir) EXCEPT
                 !.known    = Wifi,
                 !.moves    = [r \in Radios |-> IF r \in joins THEN target
                                                ELSE IF r \in parks THEN Still
                                                ELSE moves[r]],
                 !.parked   = (@ \ joins) \union parks,
                 !.modified = @ \union raised])
  BY <1>0
<1> DEFINE moves  == Settled(l, late)
           joins  == {c.radio} \intersect (IF c.kind \in {"join", "swap", "move"} THEN Radios ELSE {})
           idle   == {r \in Wifi : Disconnected(r) /\ ~InFlight(moves[r])}
           parks  == ((Stalled(late) \union idle) \ (joins \union mem.parked))
                       \union (IF c.kind = "park" THEN {c.radio} ELSE {})
           raised == IF joins = {} THEN {} ELSE Raised(l.on)
           target == [target |-> l.on, previous |-> IF c.kind = "join" THEN Uuid(c.radio) ELSE None,
                      stage |-> "begun"]
           multi  == IF raised = {} THEN <<>> ELSE <<Cmd("multi", {}, raised)>>
           move   == IF c.kind = "move" THEN <<Cmd("move", joins, {})>> ELSE <<>>
           up     == IF joins = {} THEN <<>> ELSE <<Cmd("up", joins, {l.on})>>
           park   == IF parks = {} THEN <<>> ELSE <<Cmd("park", parks, {})>>
           todo   == multi \o move \o up \o park
           next   == [Base(heir) EXCEPT
                        !.known    = Wifi,
                        !.moves    = [r \in Radios |-> IF r \in joins THEN target
                                                       ELSE IF r \in parks THEN Still
                                                       ELSE moves[r]],
                        !.parked   = (@ \ joins) \union parks,
                        !.modified = @ \union raised]
<1>2. Plan(todo, next)
  BY <1>1
\* The change.
<1>3. l.on \in Profiles /\ l.dev \in Radios
  BY DEF Leading
<1>4. /\ moves \in [Radios -> Move]
      /\ \A r \in Radios : link[r].at = "starting" => moves[r] = mem.moves[r]
  BY SettledIs
<1>5. /\ c.kind \in {"none", "join", "swap", "move", "park"}
      /\ c.kind # "none" => c.radio \in Radios
      /\ c.kind = "park" => c.radio \in Wifi /\ link[c.radio].at = "up"
      /\ c.kind \in {"join", "swap", "move"} =>
           /\ Ssid(l.on) # None
           /\ \A r \in Wifi \ Stalled(late) : ~InFlight(moves[r])
  <2> HIDE DEF moves
  <2> QED  BY DEF Changes, Wifi, moves
<1>6. heir \in Leader /\ Leading(heir) /\ heir # NoLeader /\ heir.on = l.on /\ (heir.dev = l.dev \/ heir.dev \in Up)
  BY HandOverTo
<1>7. joins \subseteq Radios /\ (joins = {} \/ \E r \in Radios : joins = {r}) /\ (c.kind = "move" => joins # {})
  BY <1>5
<1>8. parks \subseteq Radios /\ raised \subseteq Profiles
  BY <1>3, <1>5 DEF Stalled, Judgeable, Wifi, Raised
<1>9. joins # {} => profile[l.on].saved /\ profile[l.on].bound = None
  BY <1>3, <1>5 DEF Ssid
<1>10. target \in Move
  BY <1>3, <1>5, UuidType DEF Move, Stages, ProfileOrNone
<1> HIDE DEF moves, joins, idle, parks, raised, target
<1>11. /\ next \in Memory /\ next.fresh = FALSE /\ next.leader = heir /\ next.last = Base(l).last
       /\ next.moves = [r \in Radios |-> IF r \in joins THEN target
                                          ELSE IF r \in parks THEN Still ELSE moves[r]]
       /\ next.parked = ((mem.parked \intersect Wifi) \ joins) \union parks
       /\ next.modified = mem.modified \union raised
  <2>1. PICK base : base = Base(heir)
    OBVIOUS
  <2>2. /\ base \in Memory /\ base.fresh = FALSE /\ base.leader = heir /\ base.last = Base(l).last
        /\ base.parked = mem.parked \intersect Wifi /\ base.modified = mem.modified
    BY <1>6, <2>1, BaseIs
  <2>3. [r \in Radios |-> IF r \in joins THEN target ELSE IF r \in parks THEN Still ELSE moves[r]]
          \in [Radios -> Move]
    BY <1>4, <1>10, MemoryTypes
  <2>4. Wifi \subseteq Radios
    BY DEF Wifi
  <2> QED  BY <1>7, <1>8, <2>1, <2>2, <2>3, <2>4 DEF Memory
<1>12. /\ Cmd("multi", {}, raised) \in Command /\ Cmd("move", joins, {}) \in Command
       /\ Cmd("up", joins, {l.on}) \in Command /\ Cmd("park", parks, {}) \in Command
  BY <1>3, <1>7, <1>8 DEF Cmd, Command, Ops
<1>13. PICK a : a = multi
  OBVIOUS
<1>14. PICK b : b = move
  OBVIOUS
<1>15. PICK u : u = up
  OBVIOUS
<1>16. PICK d : d = park
  OBVIOUS
<1>17. PICK s : s = a \o b \o u \o d
  OBVIOUS
<1>25. s = todo
  BY <1>13, <1>14, <1>15, <1>16, <1>17
<1>26. /\ a \in Seq(Command) /\ Len(a) \in {0, 1}
       /\ Len(a) = 1 => a[1].op = "multi" /\ a[1].profiles = raised
  <2>1. a = IF raised = {} THEN <<>> ELSE <<Cmd("multi", {}, raised)>>
    BY <1>13
  <2>2. a \in Seq(Command) /\ Len(a) \in {0, 1} /\ (Len(a) = 1 => a[1] = Cmd("multi", {}, raised))
    BY <1>12, <2>1, Optional
  <2> QED  BY <2>2 DEF Cmd
<1>27. /\ b \in Seq(Command) /\ Len(b) \in {0, 1}
       /\ Len(b) = 1 => b[1].op = "move" /\ b[1].radios = joins /\ joins # {}
  <2>1. b = IF c.kind # "move" THEN <<>> ELSE <<Cmd("move", joins, {})>>
    BY <1>14
  <2>2. /\ b \in Seq(Command) /\ Len(b) \in {0, 1} /\ (Len(b) = 1 <=> c.kind = "move")
        /\ Len(b) = 1 => b[1] = Cmd("move", joins, {})
    BY <1>12, <2>1, Optional
  <2> QED  BY <1>7, <2>2 DEF Cmd
<1>28. /\ u \in Seq(Command) /\ Len(u) \in {0, 1} /\ (joins # {} <=> Len(u) = 1)
       /\ Len(u) = 1 => u[1].op = "up" /\ u[1].radios = joins /\ u[1].profiles = {l.on}
  <2>1. u = IF joins = {} THEN <<>> ELSE <<Cmd("up", joins, {l.on})>>
    BY <1>15
  <2>2. /\ u \in Seq(Command) /\ Len(u) \in {0, 1} /\ (Len(u) = 1 <=> joins # {})
        /\ Len(u) = 1 => u[1] = Cmd("up", joins, {l.on})
    BY <1>12, <2>1, Optional
  <2> QED  BY <2>2 DEF Cmd
<1>29. /\ d \in Seq(Command) /\ Len(d) \in {0, 1}
       /\ Len(d) = 1 => d[1].op = "park" /\ d[1].radios = parks
  <2>1. d = IF parks = {} THEN <<>> ELSE <<Cmd("park", parks, {})>>
    BY <1>16
  <2>2. d \in Seq(Command) /\ Len(d) \in {0, 1} /\ (Len(d) = 1 => d[1] = Cmd("park", parks, {}))
    BY <1>12, <2>1, Optional
  <2> QED  BY <2>2 DEF Cmd
<1> HIDE DEF multi, move, up, park, next, todo
<1>18. /\ s \in Seq(Command)
       /\ \A i \in 1 .. Len(s) :
            \/ Len(a) = 1 /\ s[i] = a[1]
            \/ Len(b) = 1 /\ s[i] = b[1] /\ i = Len(a) + 1
            \/ Len(u) = 1 /\ s[i] = u[1]
            \/ Len(d) = 1 /\ s[i] = d[1]
       /\ Len(u) = 1 => Len(a) + Len(b) + 1 \in 1 .. Len(s) /\ s[Len(a) + Len(b) + 1] = u[1]
  <2>1. s \in Seq(Command) /\ ShortRow(s, a, b, u, d)
    BY <1>17, <1>26, <1>27, <1>28, <1>29, InShortRow
  <2> QED  BY <2>1 DEF ShortRow
<1>19. PlanShape(s, next)
  <2> SUFFICES ASSUME NEW i \in 1 .. Len(s)
               PROVE  /\ s[i].op = "multi" => s[i].profiles \subseteq next.modified
                      /\ s[i].op = "park" => s[i].radios \subseteq next.parked
                      /\ s[i].op \notin {"down", "restore"}
                      /\ s[i].op = "up" =>
                           /\ next.leader # NoLeader /\ s[i].profiles = {next.leader.on}
                           /\ \E r \in Radios : /\ s[i].radios = {r}
                                                /\ next.moves[r].target = next.leader.on
                                                /\ InFlight(next.moves[r])
                      /\ s[i].op = "move" =>
                           \E j \in (i + 1) .. Len(s) : s[j].op = "up" /\ s[j].radios = s[i].radios
    BY DEF PlanShape
  <2>1. CASE Len(a) = 1 /\ s[i] = a[1]
    BY <1>11, <1>26, <2>1
  <2>2. CASE Len(b) = 1 /\ i = Len(a) + 1 /\ s[i] = b[1]
    <3>1. Len(u) = 1 /\ s[i].op = "move" /\ s[i].radios = joins
      BY <1>27, <1>28, <2>2
    <3>2. Len(a) + Len(b) + 1 \in (i + 1) .. Len(s)
      BY <1>26, <1>18, <2>2, <3>1
    <3> QED  BY <1>28, <1>18, <3>1, <3>2
  <2>3. CASE Len(u) = 1 /\ s[i] = u[1]
    <3>1. PICK r \in Radios : joins = {r}
      BY <1>7, <1>28, <2>3
    <3>2. next.moves[r] = target /\ target.target = l.on /\ InFlight(target)
      BY <1>11, <3>1 DEF target, InFlight
    <3> QED  BY <1>6, <1>11, <1>28, <2>3, <3>1, <3>2
  <2>4. CASE Len(d) = 1 /\ s[i] = d[1]
    BY <1>11, <1>29, <2>4
  <2> QED  BY <1>18, <2>1, <2>2, <2>3, <2>4
\* The memory.
<1>20. \A i \in 1 .. Len(s) : s[i].op = "up" => profile[next.leader.on].saved /\ profile[next.leader.on].bound = None
  BY <1>6, <1>9, <1>11, <1>26, <1>27, <1>28, <1>29, <1>18
<1>21. ASSUME NEW r \in Radios, link[r].at = "starting", InFlight(mem.moves[r])
       PROVE  next.moves[r] = mem.moves[r]
  <2>1. moves[r] = mem.moves[r] /\ r \in Wifi /\ r \notin Stalled(late)
    BY <1>4, <1>21 DEF Wifi, Stalled
  <2>2. joins = {}
    BY <1>5, <1>21, <2>1 DEF joins
  <2>3. r \notin parks
    BY <1>5, <1>21, <2>1 DEF parks, idle
  <2> QED  BY <1>11, <2>1, <2>2, <2>3
<1>22. Planned(s, next)
  BY <1>6, <1>11, <1>18, <1>19, <1>20, <1>21, BaseIs DEF Planned
<1>23. ASSUME NEW r \in mem.parked \intersect Wifi
       PROVE  r \in next.parked \/ Joins(s, r)
  <2>1. CASE r \in joins
    <3>1. joins = {r} /\ Len(u) = 1
      BY <1>7, <1>28, <2>1
    <3> QED  BY <1>28, <1>18, <3>1 DEF Joins
  <2>2. CASE r \notin joins
    BY <1>11, <2>2
  <2> QED  BY <2>1, <2>2
<1>24. Follows(l, fresh, s, next)
  BY <1>6, <1>11, <1>23 DEF Follows
<1> QED  BY <1>2, <1>22, <1>24, <1>25

LEMMA FollowOnPlans ==
  ASSUME TypeOK, Linked, NEW l \in Leader, Leading(l), NEW fresh \in BOOLEAN, FollowOn(l, fresh)
  PROVE  \E todo, next : /\ Plan(todo, next) /\ Planned(todo, next)
                         /\ Follows(l, fresh, todo, next)
<1> DEFINE known == [Base(l) EXCEPT !.known = Wifi]
           starters(m) == \A r \in Radios :
                            link[r].at = "starting" /\ InFlight(mem.moves[r]) => m[r] = mem.moves[r]
<1>0. PICK base : base = Base(l)
  OBVIOUS
<1>1. /\ base \in Memory /\ base.fresh = FALSE /\ base.leader = l /\ base.last = Base(l).last
      /\ base.moves = mem.moves /\ base.modified = mem.modified /\ base.parked = mem.parked \intersect Wifi
      /\ base.tried = mem.tried
  BY <1>0, BaseIs
<1>2. Wifi \subseteq Radios /\ <<>> \in Seq(Command)
  BY DEF Wifi
<1>3. PICK next : next = known
  OBVIOUS
<1>4. /\ next \in Memory /\ next.fresh = FALSE /\ next.leader = l /\ next.last = Base(l).last
      /\ next.moves = mem.moves /\ next.modified = mem.modified /\ next.parked = mem.parked \intersect Wifi
      /\ next.tried = mem.tried
  BY <1>0, <1>1, <1>2, <1>3 DEF Memory
<1>5. CASE l = NoLeader
  <2>1. Plan(<<>>, next)
    BY <1>3, <1>5 DEF FollowOn
  <2>2. Planned(<<>>, next)
    BY <1>2, <1>4, QuietPlans
  <2> QED  BY <1>4, <1>5, <2>1, <2>2 DEF Follows
<1>6. CASE l # NoLeader /\ profile[l.on].saved /\ profile[l.on].bound \in Wifi /\ l.on \notin mem.tried
  <2>1. PICK tried : tried = [next EXCEPT !.tried = @ \union {l.on}]
    OBVIOUS
  <2>2. l.on \in Profiles
    BY <1>6 DEF Leading
  <2>3. /\ tried \in Memory /\ tried.fresh = FALSE /\ tried.leader = l /\ tried.last = Base(l).last
        /\ tried.moves = mem.moves /\ tried.modified = mem.modified /\ tried.parked = mem.parked \intersect Wifi
    BY <1>4, <2>1, <2>2 DEF Memory
  <2>4. PICK todo : todo = <<Cmd("unbind", {}, {l.on})>>
    OBVIOUS
  <2>5. todo \in Seq(Command)
    BY <2>2, <2>4 DEF Cmd, Command, Ops
  <2>6. Plan(todo, tried)
    BY <1>3, <1>6, <2>1, <2>4 DEF FollowOn
  <2>7. Planned(todo, tried)
    BY <2>3, <2>4, <2>5, QuietPlans
  <2> QED  BY <1>6, <2>3, <2>6, <2>7 DEF Follows
<1>7. CASE /\ l # NoLeader /\ profile[l.on].saved /\ profile[l.on].bound # None
           /\ ~(profile[l.on].bound \in Wifi /\ l.on \notin mem.tried)
  <2>1. Plan(<<>>, next)
    BY <1>3, <1>7 DEF FollowOn
  <2>2. Planned(<<>>, next)
    BY <1>2, <1>4, QuietPlans
  <2> QED  BY <1>4, <1>7, <2>1, <2>2 DEF Follows
<1>8. CASE l # NoLeader /\ (profile[l.on].saved => profile[l.on].bound = None)
  <2>0. ~(profile[l.on].saved /\ profile[l.on].bound \in Wifi /\ l.on \notin mem.tried)
    BY <1>2, <1>8, Nothing
  <2>1. PICK late \in SUBSET {r \in Judgeable : link[r].at \notin {"starting", "up"}} :
          IF lost /\ ~fresh /\ Heirs(l, {}) = {}
          THEN Plan(<<>>, [next EXCEPT !.moves = Settled(l, late), !.leader = NoLeader, !.parked = {}])
          ELSE IF profile[l.on].saved /\ profile[l.on].pinned
          THEN Plan(<<>>, [next EXCEPT !.moves = Settled(l, late)])
          ELSE Place(l, fresh, late)
    BY <1>3, <1>8, <2>0 DEF FollowOn
  <2>2. Settled(l, late) \in [Radios -> Move] /\ starters(Settled(l, late))
    <3>1. \A r \in Radios : link[r].at = "starting" => r \notin late
      OBVIOUS
    <3> QED  BY <3>1, SettledIs
  <2>3. CASE lost /\ ~fresh /\ Heirs(l, {}) = {}
    <3>1. PICK gone : gone = [next EXCEPT !.moves = Settled(l, late), !.leader = NoLeader, !.parked = {}]
      OBVIOUS
    <3>2. /\ gone \in Memory /\ gone.fresh = FALSE /\ gone.leader = NoLeader /\ gone.last = Base(l).last
          /\ gone.moves = Settled(l, late) /\ gone.modified = mem.modified
      BY <1>4, <2>2, <3>1, MemoryTypes DEF Memory
    <3>3. Plan(<<>>, gone)
      BY <2>1, <2>3, <3>1
    <3>4. Planned(<<>>, gone)
      BY <1>2, <2>2, <3>2, QuietPlans
    <3> QED  BY <2>3, <3>2, <3>3, <3>4 DEF Follows
  <2>4. CASE ~(lost /\ ~fresh /\ Heirs(l, {}) = {}) /\ profile[l.on].saved /\ profile[l.on].pinned
    <3>1. PICK held : held = [next EXCEPT !.moves = Settled(l, late)]
      OBVIOUS
    <3>2. /\ held \in Memory /\ held.fresh = FALSE /\ held.leader = l /\ held.last = Base(l).last
          /\ held.moves = Settled(l, late) /\ held.modified = mem.modified
          /\ held.parked = mem.parked \intersect Wifi
      BY <1>4, <2>2, <3>1 DEF Memory
    <3>3. Plan(<<>>, held)
      BY <2>1, <2>4, <3>1
    <3>4. \A r \in Radios : link[r].at = "starting" /\ InFlight(mem.moves[r]) => held.moves[r] = mem.moves[r]
      BY <2>2, <3>2
    <3>5. mem.modified \subseteq held.modified /\ held.leader = l /\ held \in Memory
      BY <3>2
    <3>6. Planned(<<>>, held)
      BY <1>2, <3>2, <3>4, <3>5, QuietPlans
    <3> QED  BY <1>8, <3>2, <3>3, <3>6 DEF Follows
  <2>5. CASE ~(lost /\ ~fresh /\ Heirs(l, {}) = {}) /\ ~(profile[l.on].saved /\ profile[l.on].pinned)
    <3>1. Place(l, fresh, late)
      BY <2>1, <2>5
    <3> QED  BY <1>8, <3>1, PlacePlans
  <2> QED  BY <2>3, <2>4, <2>5
<1> QED  BY <1>5, <1>6, <1>7, <1>8

\* A poll follows one that leads, or drops it for the user left it.
Polled(l, todo, next) ==
  \/ UserLeft(l) /\ next.leader = NoLeader
  \/ ~UserLeft(l) /\ \E h \in Leader : /\ h.on = l.on /\ (l = NoLeader <=> h = NoLeader)
                                       /\ h.dev = l.dev \/ h.dev \in Up
                                       /\ Follows(h, Choosers # {}, todo, next)

LEMMA PollPlans ==
  ASSUME TypeOK, Linked, Leading(mem.leader), Poll
  PROVE  \E todo, next, l : /\ Plan(todo, next) /\ Planned(todo, next)
                            /\ l \in Leaders /\ Polled(l, todo, next)
<1>1. PICK l \in Leaders : IF UserLeft(l) THEN TakeFollowersDown(l)
                           ELSE \E carried \in Carried(l) : FollowOn(carried, Choosers # {})
  BY DEF Poll
<1>2. l \in Leader /\ Leading(l)
  BY LeadersLead
<1>3. CASE UserLeft(l)
  <2> DEFINE followers == {r \in Wifi \ {l.dev} : Uuid(r) = l.on}
             stopped == [r \in Radios |-> IF r \in followers THEN Still ELSE mem.moves[r]]
             todo == <<Cmd("down", followers, {l.on} \ {None})>>
             next == [Base(NoLeader) EXCEPT !.moves = stopped]
  <2>1. Plan(todo, next)
    BY <1>1, <1>3 DEF TakeFollowersDown
  <2>2. l # NoLeader /\ l.on \in Profiles
    BY <1>2, <1>3 DEF UserLeft, Leading
  <2>3. PICK base : base = Base(NoLeader)
    OBVIOUS
  <2>4. /\ base \in Memory /\ base.fresh = FALSE /\ base.leader = NoLeader /\ base.last = Base(l).last
        /\ base.modified = mem.modified
    BY <1>2, <2>3, BaseIs, MemoryTypes
  <2>5. stopped \in [Radios -> Move]
    BY MemoryTypes DEF TypeOK, Memory
  <2>6. /\ next \in Memory /\ next.fresh = FALSE /\ next.leader = NoLeader /\ next.last = Base(l).last
        /\ next.modified = mem.modified /\ next.moves = stopped
    BY <2>3, <2>4, <2>5 DEF Memory
  <2>7. todo \in Seq(Command) /\ Len(todo) = 1 /\ todo[1].op = "down"
    BY <2>2 DEF Cmd, Command, Ops, Wifi
  <2>8. \A r \in Radios : link[r].at = "starting" => stopped[r] = mem.moves[r]
    <3>1. \A r \in Radios : link[r].at = "starting" => r \notin followers
      BY <2>2, Nothing DEF Uuid
    <3> QED  BY <3>1
  <2> HIDE DEF todo, next, stopped
  <2>9. PlanShape(todo, next) /\ \A i \in 1 .. Len(todo) : todo[i].op # "up"
    BY <2>6, <2>7 DEF PlanShape
  <2>10. Planned(todo, next)
    BY <1>2, <2>6, <2>7, <2>8, <2>9, BaseIs DEF Planned, Leading
  <2> QED  BY <1>1, <1>3, <2>1, <2>6, <2>10 DEF Polled
<1>4. CASE ~UserLeft(l)
  <2>1. PICK h \in Carried(l) : FollowOn(h, Choosers # {})
    BY <1>1, <1>4
  <2>2. h \in Leader /\ Leading(h) /\ h.on = l.on /\ (l = NoLeader <=> h = NoLeader) /\ (h.dev = l.dev \/ h.dev \in Up)
    <3>1. CASE h = l
      BY <1>2, <3>1
    <3>2. CASE h # l
      <4>1. l # NoLeader /\ h \in HandOver(l, {})
        BY <3>2 DEF Carried
      <4> QED  BY <1>2, <4>1, HandOverTo
    <3> QED  BY <3>1, <3>2
  <2>3. PICK todo, next : Plan(todo, next) /\ Planned(todo, next) /\ Follows(h, Choosers # {}, todo, next)
    BY <2>1, <2>2, FollowOnPlans
  <2> QED  BY <1>1, <1>4, <2>2, <2>3 DEF Polled
<1> QED  BY <1>3, <1>4

-----------------------------------------------------------------------------
(* Type correctness. *)

Typed ==
  /\ TypeOK /\ Linked /\ Leading(mem.leader)
  /\ job.phase = "acting" => Leading(job.next.leader) /\ PlanShape(job.todo, job.next)

\* A link as the radios have them, and a table of such links.
Sound(l) == l \in Link /\ (l.on = None <=> l.at \in {"none", "gone", "idle"})
Sounds(f) == f \in [Radios -> Link] /\ \A r \in Radios : Sound(f[r])

LEMMA SoundLinks ==
  /\ Sound(Away) /\ \A b \in BOOLEAN : Sound(Idle(b))
  /\ \A p \in Profiles : Sound(On("busy", p)) /\ Sound(On("up", p)) /\ Sound(On("starting", p))
  /\ \A p \in Profiles, b \in BOOLEAN : Sound([at |-> "starting", on |-> p, asked |-> b])
<1>1. \A p \in Profiles : p # None /\ p \in ProfileOrNone
  BY Nothing DEF ProfileOrNone
<1> QED  BY <1>1, LinkTypes DEF Sound, Away, Idle, On, Link

LEMMA SoundTables ==
  ASSUME TypeOK, Linked
  PROVE  /\ Sounds(link) /\ \A r \in Radios : Sound(link[r])
         /\ \A rs : \A b \in BOOLEAN : Sounds(Dropping(rs, b))
         /\ \A r \in Radios, p \in Profiles, l \in Link : Sound(l) => Sounds(Activation(r, p, l))
         /\ \A r \in Radios, l \in Link : Sound(l) => Sounds([link EXCEPT ![r] = l])
<1>1. link \in [Radios -> Link] /\ \A r \in Radios : Sound(link[r])
  BY DEF TypeOK, Linked, Sound
<1>2. ASSUME NEW rs, NEW b \in BOOLEAN
      PROVE  Sounds(Dropping(rs, b))
  <2>1. \A r \in Radios : Dropping(rs, b)[r] \in {link[r], Idle(b)}
    BY DEF Dropping
  <2>2. Dropping(rs, b) \in [Radios -> Link]
    BY DroppingType
  <2> QED  BY <1>1, <2>1, <2>2, SoundLinks DEF Sounds
<1>3. ASSUME NEW r \in Radios, NEW p \in Profiles, NEW l \in Link, Sound(l)
      PROVE  Sounds(Activation(r, p, l))
  <2>1. PICK robbed : robbed = IF profile[p].many THEN {} ELSE {s \in Wifi \ {r} : link[s].on = p}
    OBVIOUS
  <2>2. Activation(r, p, l) = [Dropping(robbed, FALSE) EXCEPT ![r] = l]
    BY <2>1 DEF Activation
  <2>3. PICK f : f = Dropping(robbed, FALSE)
    OBVIOUS
  <2>4. Sounds(f) /\ Activation(r, p, l) = [f EXCEPT ![r] = l]
    BY <1>2, <2>2, <2>3
  <2> QED  BY <1>3, <2>4 DEF Sounds
<1> QED  BY <1>1, <1>2, <1>3 DEF Sounds

LEMMA TypedFrom ==
  ASSUME Sounds(link'), profile' \in [Profiles -> Profile], flag' \in BOOLEAN, failsafe' \in BOOLEAN,
         lost' \in BOOLEAN, mem' \in Memory, Leading(mem'.leader), job' \in Job,
         job'.phase = "acting" => Leading(job'.next.leader) /\ PlanShape(job'.todo, job'.next),
         reasons' \subseteq Nets \union {None}, wish' \in Wish, left' \in Nat
  PROVE  Typed'
BY DEF Typed, TypeOK, Linked, Sounds, Sound

LEMMA BecauseIs ==
  ASSUME TypeOK, NEW cs \in SUBSET (Nets \union {None}), Because(cs)
  PROVE  /\ reasons' = reasons \union cs /\ reasons' \subseteq Nets \union {None}
         /\ job' \in Job /\ job'.phase = job.phase /\ job'.todo = job.todo /\ job'.next = job.next
         /\ job'.why = job.why \ cs
<1>1. job.why \ cs \subseteq Nets \union {None} /\ job \in Job
  BY DEF TypeOK, Job
<1> QED  BY <1>1 DEF Because, Job, TypeOK

LEMMA WishTypes ==
  /\ NoWish \in Wish
  /\ \A n \in Nets \union {None}, b \in BOOLEAN, k \in {"choice", "drop"} :
       [kind |-> k, net |-> n, met |-> FALSE, plain |-> b] \in Wish
BY DEF NoWish, Wish

LEMMA NetTypes ==
  ASSUME TypeOK
  PROVE  /\ \A p \in Profiles : NetOf[p] \in Nets
         /\ \A p : Ssid(p) \in Nets \union {None}
BY Nothing DEF Ssid

LEMMA InitTyped ==
  ASSUME Init
  PROVE  Typed
<1>1. link \in [Radios -> Link] /\ Linked
  <2>1. PICK here, up, out \in SUBSET Radios, p \in Profiles \ Bound :
          /\ <<Cardinality(here), left>> \in Scenes
          /\ up \union out \subseteq here /\ up \intersect out = {}
          /\ Cardinality(up) <= 1 /\ Cardinality(out) <= 1
          /\ link = [r \in Radios |-> IF r \notin here THEN [Away EXCEPT !.at = "none"]
                                      ELSE IF r \in up THEN On("up", p)
                                      ELSE IF r \in out THEN Away ELSE Idle(FALSE)]
    BY Zenon DEF Init
  <2>2. PICK away \in Link : away = Away
    BY LinkTypes
  <2>4. Sound([Away EXCEPT !.at = "none"])
    <3>1. away.on = None /\ away.asked = FALSE
      BY <2>2 DEF Away
    <3>2. Sound([away EXCEPT !.at = "none"])
      BY <3>1 DEF Sound, Link
    <3> QED  BY <2>2, <3>2
  <2>3. \A r \in Radios : Sound(link[r])
    BY <2>1, <2>4, SoundLinks
  <2> QED  BY <2>1, <2>3 DEF Sound, Linked
<1>2. profile \in [Profiles -> Profile]
  <2>1. PICK r \in Radios :
          profile = [p \in Profiles |-> [saved |-> TRUE, many |-> p \in UserMany, pinned |-> FALSE,
                                         bound |-> IF p \in Bound THEN r ELSE None]]
    BY DEF Init
  <2> QED  BY <2>1 DEF Profile, RadioOrNone
<1>3. left \in Nat
  <2>1. PICK scene \in Scenes : left = scene[2]
    BY DEF Init
  <2> QED  BY <2>1, SceneAssumption
<1>4. Forgotten({}).leader = NoLeader /\ Rest.phase = "idle"
  BY DEF Forgotten, Rest
<1>5. /\ flag = TRUE /\ failsafe = FALSE /\ lost = FALSE /\ mem = Forgotten({}) /\ job = Rest
      /\ reasons = {} /\ wish = NoWish
  BY DEF Init
<1> QED  BY <1>1, <1>2, <1>3, <1>4, <1>5, MemoryTypes, WishTypes DEF Typed, TypeOK, Leading

LEMMA PollTyped ==
  ASSUME Typed, Poll
  PROVE  Typed'
<1>1. PICK todo, next : Plan(todo, next) /\ Planned(todo, next)
  BY PollPlans DEF Typed
<1>2. job' = [phase |-> "acting", todo |-> todo, next |-> next, why |-> reasons]
  BY <1>1 DEF Plan
<1>3. job' \in Job
  BY <1>1, <1>2 DEF Planned, Job, Typed, TypeOK
<1>4. UNCHANGED <<link, profile, flag, failsafe, lost, mem, reasons, wish, left>>
  BY <1>1 DEF Plan, nm
<1>5. Sounds(link')
  BY <1>4, SoundTables DEF Typed
<1> QED  BY <1>1, <1>2, <1>3, <1>4, <1>5, TypedFrom DEF Typed, TypeOK, Planned

\* The next command of a poll, and what it leaves.
LEMMA RunsCommand ==
  ASSUME Typed, NEW op, Runs(op)
  PROVE  /\ Head(job.todo) \in Command /\ Head(job.todo) = job.todo[1] /\ Head(job.todo).op = op
         /\ 1 \in 1 .. Len(job.todo) /\ Leading(job.next.leader) /\ PlanShape(job.todo, job.next)
         /\ TheseRadios \subseteq Wifi /\ TheseRadios \subseteq Radios /\ TheseProfiles \subseteq Profiles
         /\ Tail(job.todo) \in Seq(Command) /\ PlanShape(Tail(job.todo), job.next)
         /\ UNCHANGED <<flag, failsafe, lost, mem, reasons, wish>>
         /\ job.phase = "acting" /\ job.todo # <<>>
<1>1. job.todo \in Seq(Command) /\ job.phase = "acting" /\ job.todo # <<>> /\ Head(job.todo).op = op
  BY DEF Runs, Typed, TypeOK, Job
<1>2. Head(job.todo) \in Command /\ Head(job.todo) = job.todo[1] /\ 1 \in 1 .. Len(job.todo)
  BY <1>1
<1>3. TheseRadios \subseteq Wifi /\ TheseRadios \subseteq Radios /\ TheseProfiles \subseteq Profiles
  BY <1>2 DEF TheseRadios, TheseProfiles, Command, Wifi
<1>4. Leading(job.next.leader) /\ PlanShape(job.todo, job.next)
  BY <1>1 DEF Typed
<1>5. Tail(job.todo) \in Seq(Command) /\ PlanShape(Tail(job.todo), job.next)
  BY <1>1, <1>4, ShapeTail
<1> QED  BY <1>1, <1>2, <1>3, <1>4, <1>5 DEF Runs

LEMMA RanIs ==
  ASSUME Typed, NEW op, Runs(op), Ran
  PROVE  /\ job' \in Job /\ job'.phase = "acting" /\ job'.todo = Tail(job.todo) /\ job'.next = job.next
         /\ job'.why = job.why
BY RunsCommand DEF Ran, Typed, TypeOK, Job

\* What a command that leaves the plan as it is has to keep.
LEMMA CommandTyped ==
  ASSUME Typed, NEW op, Runs(op), Ran, Sounds(link'), profile' \in [Profiles -> Profile], left' \in Nat
  PROVE  Typed'
<1>1. /\ UNCHANGED <<flag, failsafe, lost, mem, reasons, wish>>
      /\ Leading(job.next.leader) /\ PlanShape(Tail(job.todo), job.next)
  BY RunsCommand
<1>2. job' \in Job /\ job'.todo = Tail(job.todo) /\ job'.next = job.next
  BY RanIs
<1> QED  BY <1>1, <1>2, TypedFrom DEF Typed, TypeOK

LEMMA TroubleTyped ==
  ASSUME TypeOK, Trouble \/ Peace
  PROVE  left' \in Nat
BY DEF TypeOK, Trouble, Peace

LEMMA MayFailTyped ==
  ASSUME TypeOK, NEW failed, NEW fault, MayFail(failed, fault)
  PROVE  left' \in Nat
BY TroubleTyped DEF MayFail

LEMMA NmcliTyped ==
  ASSUME Typed, Nmcli
  PROVE  Typed'
<1> USE DEF Peace
<1>1. ASSUME Multi PROVE Typed'
  <2>1. link' = link /\ Runs("multi") /\ Ran /\ left' \in Nat
    BY <1>1, TroubleTyped DEF Multi, Typed
  <2>2. profile' \in [Profiles -> Profile]
    <3>1. \A p \in Profiles : \A b \in BOOLEAN : [profile[p] EXCEPT !.many = b] \in Profile
      BY DEF Typed, TypeOK, Profile
    <3>2. \A p \in Profiles : (profile[p].many \/ (p \in TheseProfiles /\ profile[p].saved)) \in BOOLEAN
      OBVIOUS
    <3> QED  BY <1>1, <3>1, <3>2 DEF Multi, Typed, TypeOK, Profile
  <2> QED  BY <2>1, <2>2, CommandTyped, SoundTables DEF Typed
<1>2. ASSUME Unbind PROVE Typed'
  <2>1. link' = link /\ Runs("unbind") /\ Ran /\ left' \in Nat
    BY <1>2, MayFailTyped DEF Unbind, Typed
  <2>2. profile' \in [Profiles -> Profile]
    <3>1. \A p \in Profiles : [profile[p] EXCEPT !.bound = None] \in Profile
      BY DEF Typed, TypeOK, Profile, RadioOrNone
    <3> QED  BY <1>2, <3>1 DEF Unbind, Typed, TypeOK
  <2> QED  BY <2>1, <2>2, CommandTyped, SoundTables DEF Typed
<1>3. ASSUME Down PROVE Typed'
  <2>1. Runs("down") /\ Ran /\ left' \in Nat /\ profile' = profile
    BY <1>3, MayFailTyped DEF Down, Typed
  <2>2. Sounds(link')
    BY <1>3, SoundTables DEF Down, Typed
  <2> QED  BY <2>1, <2>2, CommandTyped DEF Typed, TypeOK
<1>4. ASSUME NEW op, Disconnect(op) PROVE Typed'
  <2>1. Runs(op) /\ Ran /\ left' \in Nat /\ profile' = profile
    BY <1>4, MayFailTyped DEF Disconnect, Typed
  <2>2. Sounds(link')
    BY <1>4, SoundTables DEF Disconnect, Typed
  <2> QED  BY <2>1, <2>2, CommandTyped DEF Typed, TypeOK
<1>5. ASSUME Activate PROVE Typed'
  <2>1. Runs("up") /\ Ran /\ left' \in Nat
    BY <1>5, TroubleTyped DEF Activate, Typed
  <2>2. TheseProfiles \subseteq Profiles /\ TheseRadios \subseteq Radios
    BY <2>1, RunsCommand
  <2>3. PICK p \in TheseProfiles :
          /\ \E pinned \in {FALSE, "pin_left" \in Faults /\ profile[p].saved} :
               profile' = [profile EXCEPT ![p].pinned = pinned]
          /\ IF \A r \in TheseRadios : ~Fits(r, p) THEN UNCHANGED link
             ELSE \E r \in TheseRadios :
                    link' \in {Activation(r, p, On("busy", p))}
                      \union (IF Off(r) \/ ~link[r].asked
                              THEN {link, Activation(r, p, [at |-> "starting", on |-> p, asked |-> link[r].asked])}
                              ELSE {})
    BY <1>5 DEF Activate
  <2>4. p \in Profiles
    BY <2>2, <2>3
  <2>5. profile' \in [Profiles -> Profile]
    BY <2>3, <2>4 DEF Typed, TypeOK, Profile
  <2>6. Sounds(link')
    <3>1. CASE link' = link
      BY <3>1, SoundTables DEF Typed
    <3>2. CASE link' # link
      <4>1. PICK r \in Radios :
              \/ link' = Activation(r, p, On("busy", p))
              \/ link' = Activation(r, p, [at |-> "starting", on |-> p, asked |-> link[r].asked])
        BY <2>2, <2>3, <3>2
      <4>2. link[r].asked \in BOOLEAN
        BY DEF Typed, TypeOK, Link
      <4>3. PICK l \in Link : Sound(l) /\ link' = Activation(r, p, l)
        BY <2>4, <4>1, <4>2, SoundLinks DEF Sound
      <4> QED  BY <2>4, <4>3, SoundTables DEF Typed
    <3> QED  BY <3>1, <3>2
  <2> QED  BY <2>1, <2>5, <2>6, CommandTyped
<1>6. ASSUME Restore PROVE Typed'
  <2>1. PICK kept \in SUBSET {p \in TheseProfiles : profile[p].saved} :
          /\ IF kept = {} THEN Peace ELSE "multi_fails" \in Faults /\ Trouble
          /\ profile' = [p \in Profiles |->
                           IF p \in TheseProfiles \ kept THEN [profile[p] EXCEPT !.many = p \in UserMany]
                           ELSE profile[p]]
          /\ job' = [job EXCEPT !.todo = Tail(@), !.next = Keep(kept)]
    BY <1>6 DEF Restore
  <2>2. Runs("restore") /\ link' = link /\ left' \in Nat
    BY <1>6, <2>1, TroubleTyped DEF Restore, Typed
  <2>3. /\ TheseProfiles \subseteq Profiles /\ Tail(job.todo) \in Seq(Command)
        /\ UNCHANGED <<flag, failsafe, lost, mem, reasons, wish>>
        /\ Len(job.todo) = 1
    BY <2>2, RunsCommand DEF PlanShape
  <2>4. Keep(kept) \in Memory /\ Keep(kept).leader = NoLeader
    BY <2>1, <2>3, MemoryTypes DEF Keep, Forgotten
  <2>5. profile' \in [Profiles -> Profile]
    <3>1. \A p \in Profiles : [profile[p] EXCEPT !.many = p \in UserMany] \in Profile
      <4>1. \A p \in Profiles : \A b \in BOOLEAN : [profile[p] EXCEPT !.many = b] \in Profile
        BY DEF Typed, TypeOK, Profile
      <4>2. \A p \in Profiles : (p \in UserMany) \in BOOLEAN
        OBVIOUS
      <4> QED  BY <4>1, <4>2, Zenon
    <3> QED  BY <2>1, <3>1 DEF Typed, TypeOK
  <2>6. job' \in Job /\ job'.todo = Tail(job.todo) /\ job'.next = Keep(kept)
    <3>1. PICK none \in Memory : none = Keep(kept)
      BY <2>4
    <3>2. job' = [job EXCEPT !.todo = Tail(job.todo), !.next = none]
      BY <2>1, <3>1
    <3> QED  BY <2>3, <3>1, <3>2 DEF Typed, TypeOK, Job
  <2>7. Len(job'.todo) = 0
    <3>1. job.todo \in Seq(Command) /\ job.todo # <<>>
      BY <2>2, RunsCommand DEF Typed, TypeOK, Job
    <3> QED  BY <2>3, <2>6, <3>1
  <2>8. PlanShape(job'.todo, job'.next)
    BY <2>7 DEF PlanShape
  <2>9. Sounds(link)
    BY SoundTables DEF Typed
  <2> QED  BY <2>2, <2>3, <2>4, <2>5, <2>6, <2>8, <2>9, TypedFrom DEF Typed, TypeOK, Leading
<1> QED  BY <1>1, <1>2, <1>3, <1>4, <1>5, <1>6 DEF Nmcli

LEMMA BroughtTyped ==
  ASSUME Typed, NEW cs \in SUBSET (Nets \union {None}), Brings(cs), Trouble \/ Peace,
         Sounds(link'), profile' \in [Profiles -> Profile], flag' \in BOOLEAN, lost' \in BOOLEAN,
         wish' \in Wish
  PROVE  Typed'
<1>1. /\ failsafe' = failsafe /\ mem' = mem /\ reasons' \subseteq Nets \union {None}
      /\ job' \in Job /\ job'.phase = job.phase /\ job'.todo = job.todo /\ job'.next = job.next
  BY BecauseIs DEF Brings, Typed
<1>2. left' \in Nat
  BY TroubleTyped DEF Typed
<1> QED  BY <1>1, <1>2, TypedFrom DEF Typed, TypeOK

LEMMA UserTyped ==
  ASSUME Typed, NEW r, NEW p,
         \/ r \in Radios /\ p \in Profiles /\ UserActivates(r, p)
         \/ r \in Radios /\ UserDisconnects(r)
         \/ p \in Profiles /\ UserDeletes(p)
         \/ Switch
  PROVE  Typed'
<1> USE DEF Happens
<1>0. /\ \A q \in Profiles : {NetOf[q]} \in SUBSET (Nets \union {None}) /\ NetOf[q] \in Nets
      /\ {None} \in SUBSET (Nets \union {None}) /\ {} \in SUBSET (Nets \union {None}) /\ Ssid(mem.leader.on) \in Nets \union {None}
      /\ TypeOK /\ Sounds(link) /\ NoWish \in Wish
  BY NetTypes, SoundTables, WishTypes DEF Typed
<1>1. CASE r \in Radios /\ p \in Profiles /\ UserActivates(r, p)
  <2>1. Sounds(link')
    BY <1>1, SoundTables, SoundLinks DEF UserActivates, Typed, Sound
  <2>2. wish' \in Wish
    <3>1. (mem.moves[r].target # p /\ ~(mem.moves[r].previous = p /\ mem.moves[r].stage # "old")) \in BOOLEAN
      OBVIOUS
    <3>2. PICK plain \in BOOLEAN :
            plain = (mem.moves[r].target # p /\ ~(mem.moves[r].previous = p /\ mem.moves[r].stage # "old"))
      BY <3>1
    <3>3. wish' = (IF Heard /\ ~New(r) /\ mem.last[r] # p
                   THEN [kind |-> "choice", net |-> NetOf[p], met |-> FALSE, plain |-> plain] ELSE NoWish)
      BY <1>1, <3>2, Zenon DEF UserActivates
    <3> QED  BY <1>0, <1>1, <3>3, WishTypes
  <2>3. lost' \in BOOLEAN
    BY <1>1, Zenon DEF UserActivates, Seen
  <2> QED  BY <1>0, <1>1, <2>1, <2>2, <2>3, BroughtTyped DEF UserActivates, TypeOK
<1>2. CASE r \in Radios /\ UserDisconnects(r)
  <2> DEFINE cs == IF r = Latest.leader.dev THEN {None} ELSE {}
  <2>1. Sounds(link')
    BY <1>2, SoundTables, SoundLinks DEF UserDisconnects, Typed, Sound
  <2>2. wish' \in Wish
    <3> DEFINE others == \A s \in Wifi \ {r} : link[s].on # None =>
                           /\ link[s].at # "starting"
                           /\ link[s].on = mem.leader.on \/ Ssid(link[s].on) # Ssid(mem.leader.on)
    <3>1. others \in BOOLEAN
      OBVIOUS
    <3>2. PICK plain \in BOOLEAN : plain = others
      BY <3>1
    <3>3. wish' = (IF Heard /\ r = Latest.leader.dev /\ Uuid(r) = mem.leader.on /\ r \notin mem.parked
                   THEN [kind |-> "drop", net |-> Ssid(mem.leader.on), met |-> FALSE, plain |-> plain]
                   ELSE NoWish)
      BY <1>2, <3>2, Zenon DEF UserDisconnects
    <3> QED  BY <1>0, <3>3, WishTypes
  <2>3. cs \in SUBSET (Nets \union {None}) /\ Brings(cs) /\ Trouble
    BY <1>0, <1>2 DEF UserDisconnects
  <2> HIDE DEF cs
  <2>4. UNCHANGED <<profile, flag, lost>>
    BY <1>2 DEF UserDisconnects
  <2> QED  BY <1>0, <2>1, <2>2, <2>3, <2>4, BroughtTyped DEF TypeOK
<1>3. CASE p \in Profiles /\ UserDeletes(p)
  <2> DEFINE cs == IF p = Latest.leader.on THEN {None} ELSE {}
  <2>1. Sounds(link')
    BY <1>3, SoundTables DEF UserDeletes, Typed
  <2>2. profile' \in [Profiles -> Profile]
    BY <1>0, <1>3 DEF UserDeletes, TypeOK, Profile
  <2>3. cs \in SUBSET (Nets \union {None}) /\ Brings(cs) /\ Trouble
    BY <1>0, <1>3 DEF UserDeletes
  <2> HIDE DEF cs
  <2>4. UNCHANGED <<flag, lost>> /\ wish' = NoWish
    BY <1>3 DEF UserDeletes
  <2> QED  BY <1>0, <2>1, <2>2, <2>3, <2>4, BroughtTyped DEF TypeOK
<1>4. CASE Switch
  <2> DEFINE cs == IF flag THEN {None} ELSE {}
  <2>1. cs \in SUBSET (Nets \union {None}) /\ Brings(cs) /\ Trouble
    BY <1>0, <1>4 DEF Switch
  <2> HIDE DEF cs
  <2>2. UNCHANGED <<link, profile, lost>> /\ wish' = NoWish /\ flag' \in BOOLEAN
    BY <1>4 DEF Switch, nm
  <2> QED  BY <1>0, <2>1, <2>2, BroughtTyped DEF TypeOK, Sounds, Sound
<1> QED  BY <1>1, <1>2, <1>3, <1>4

LEMMA AirTyped ==
  ASSUME Typed, NEW r, NEW p,
         \/ r \in Radios /\ (Fails(r) \/ FallsBack(r) \/ Unplug(r) \/ Plug(r))
         \/ r \in Radios /\ p \in Profiles /\ Autoconnects(r, p)
         \/ Vanishes
  PROVE  Typed'
<1> USE DEF Happens
<1>0. /\ \A q \in Profiles : {NetOf[q]} \in SUBSET (Nets \union {None})
      /\ {None} \in SUBSET (Nets \union {None})
      /\ {} \in SUBSET (Nets \union {None})
      /\ TypeOK /\ Sounds(link) /\ NoWish \in Wish
  BY NetTypes, SoundTables, WishTypes DEF Typed
<1>1. CASE r \in Radios /\ Fails(r)
  <2>1. Sounds(link')
    BY <1>1, SoundTables, SoundLinks DEF Fails, Typed, Sound
  <2> QED  BY <1>0, <1>1, <2>1, BroughtTyped DEF Fails, TypeOK
<1>2. CASE r \in Radios /\ p \in Profiles /\ Autoconnects(r, p)
  <2>1. Sounds(link')
    BY <1>2, SoundTables, SoundLinks DEF Autoconnects, Typed, Sound
  <2>2. lost' \in BOOLEAN
    BY <1>2, Zenon DEF Autoconnects, Seen
  <2>3. PICK cs \in SUBSET (Nets \union {None}) : Brings(cs) /\ (Trouble \/ Peace)
    BY <1>0, <1>2 DEF Autoconnects
  <2>4. UNCHANGED <<profile, flag>> /\ wish' = NoWish
    BY <1>2 DEF Autoconnects
  <2> QED  BY <1>0, <2>1, <2>2, <2>3, <2>4, BroughtTyped DEF TypeOK
<1>3. CASE r \in Radios /\ FallsBack(r)
  <2>1. PICK q \in Profiles : q = Latest.moves[r].previous
    <3>1. Latest \in Memory
      BY <1>0 DEF Latest, TypeOK, Job
    <3> QED  BY <1>3, <3>1 DEF FallsBack, Memory, Move, ProfileOrNone
  <2>2. link' = Activation(r, q, On("busy", q))
    BY <1>3, <2>1 DEF FallsBack
  <2>3. Sounds(link')
    BY <1>3, <2>2, SoundTables, SoundLinks DEF Typed, Sound
  <2>4. Brings({}) /\ Trouble /\ UNCHANGED <<profile, flag, lost>> /\ wish' = NoWish
    BY <1>3 DEF FallsBack
  <2> QED  BY <1>0, <2>3, <2>4, BroughtTyped DEF TypeOK
<1>4. CASE r \in Radios /\ Unplug(r)
  <2> DEFINE cs == IF Cardinality(Wifi) <= 2 THEN {None} ELSE {}
  <2>1. cs \in SUBSET (Nets \union {None}) /\ Brings(cs) /\ Trouble
    BY <1>0, <1>4 DEF Unplug
  <2> HIDE DEF cs
  <2>2. Sounds(link')
    BY <1>4, SoundTables, SoundLinks DEF Unplug, Typed, Sound
  <2> QED  BY <1>0, <1>4, <2>1, <2>2, BroughtTyped DEF Unplug, TypeOK
<1>5. CASE r \in Radios /\ Plug(r)
  <2>1. Sounds(link')
    BY <1>5, SoundTables, SoundLinks DEF Plug, Typed, Sound
  <2> QED  BY <1>0, <1>5, <2>1, BroughtTyped DEF Plug, TypeOK
<1>6. CASE Vanishes
  BY <1>0, <1>6, BroughtTyped DEF Vanishes, TypeOK, nm, Sounds, Sound
<1> QED  BY <1>1, <1>2, <1>3, <1>4, <1>5, <1>6

LEMMA ProgressTyped ==
  ASSUME Typed, NEW r,
         \/ r \in Radios /\ (Starts(r) \/ Lands(r) \/ TimePasses(r) \/ GrownUp(r))
         \/ FailsafeEnds \/ Failsafe \/ Die
  PROVE  Typed'
<1>0. TypeOK /\ Sounds(link) /\ NoWish \in Wish
  BY SoundTables, WishTypes DEF Typed
<1>1. CASE r \in Radios /\ Starts(r)
  <2>1. link[r].on \in Profiles
    BY <1>0, <1>1 DEF Starts, Typed, Linked, TypeOK, Link, ProfileOrNone
  <2>2. link' = [link EXCEPT ![r] = On("busy", link[r].on)]
    BY <1>1 DEF Starts
  <2>3. Sounds(link')
    BY <1>1, <2>1, <2>2, SoundTables, SoundLinks DEF Typed, Sound
  <2> QED  BY <1>1, <2>3, TypedFrom DEF Starts, Others, Typed, TypeOK
<1>2. CASE r \in Radios /\ Lands(r)
  <2>1. link[r].on # None
    BY <1>2 DEF Lands, Typed, Linked
  <2>2. Sounds(link')
    BY <1>0, <1>2, <2>1 DEF Lands, Sounds, Sound, Link
  <2> QED  BY <1>2, <2>2, TypedFrom DEF Lands, Others, Typed, TypeOK
<1>3. CASE r \in Radios /\ TimePasses(r)
  <2>1. mem' = [mem EXCEPT !.moves[r].stage = "old", !.moves[r].previous = None] /\ UNCHANGED <<link, job>>
    BY <1>3 DEF TimePasses
  <2>2. mem' \in Memory /\ mem'.leader = mem.leader
    <3>5. PICK n \in Move : n = mem.moves[r]
      BY <1>0, <1>3 DEF TypeOK, Memory
    <3>1. PICK m : m = [n EXCEPT !.stage = "old", !.previous = None]
      OBVIOUS
    <3>2. m \in Move /\ mem \in Memory
      BY <1>0, <3>1 DEF TypeOK, Move, Stages, ProfileOrNone
    <3>3. mem' = [mem EXCEPT !.moves = [mem.moves EXCEPT ![r] = m]]
      BY <1>0, <1>3, <2>1, <3>1, <3>5 DEF TypeOK, Memory, Move
    <3>4. [mem.moves EXCEPT ![r] = m] \in [Radios -> Move]
      BY <1>3, <3>2 DEF Memory
    <3> QED  BY <3>2, <3>3, <3>4 DEF Memory
  <2>3. Sounds(link')
    BY <1>0, <2>1
  <2> QED  BY <1>3, <2>1, <2>2, <2>3, TypedFrom DEF TimePasses, Others, Typed, TypeOK
<1>4. CASE r \in Radios /\ GrownUp(r)
  <2>1. mem' \in Memory /\ mem'.leader = mem.leader
    BY <1>0, <1>4 DEF GrownUp, TypeOK, Memory
  <2>2. PICK cs : cs = {NetOf[q] : q \in {Uuid(r)} \ {None, mem.last[r]}}
    OBVIOUS
  <2>3. cs \in SUBSET (Nets \union {None})
    BY <1>0, <1>4, <2>2, UuidType, NetTypes
  <2>4. Because(cs) /\ UNCHANGED <<link, profile, flag, failsafe, lost, wish, left>> /\ job.phase = "idle"
    BY <1>4, <2>2 DEF GrownUp, nm
  <2>5. reasons' \subseteq Nets \union {None} /\ job' \in Job /\ job'.phase = job.phase
    BY <1>0, <2>3, <2>4, BecauseIs
  <2>6. Sounds(link')
    BY <1>0, <2>4
  <2> QED  BY <2>1, <2>4, <2>5, <2>6, TypedFrom DEF Typed, TypeOK
<1>5. CASE FailsafeEnds
  <2>1. Sounds(link')
    BY <1>0, <1>5 DEF FailsafeEnds, nm
  <2> QED  BY <1>5, <2>1, TypedFrom DEF FailsafeEnds, nm, Typed, TypeOK
<1>6. CASE Failsafe
  <2>1. mem' \in Memory /\ mem'.leader = mem.leader
    BY <1>0, <1>6 DEF Failsafe, TypeOK, Memory
  <2>2. Sounds(link') /\ left' \in Nat
    BY <1>0, <1>6, TroubleTyped DEF Failsafe, nm
  <2> QED  BY <1>0, <1>6, <2>1, <2>2, TypedFrom DEF Failsafe, nm, Typed, TypeOK
<1>7. CASE Die
  <2>1. mem' \in Memory /\ mem'.leader = mem.leader
    BY <1>0, <1>7 DEF Die, TypeOK, Memory
  <2>2. Sounds(link') /\ left' \in Nat
    BY <1>0, <1>7, TroubleTyped DEF Die
  <2>3. job' \in Job /\ job'.phase = "idle"
    BY <1>7, MemoryTypes DEF Die, Rest
  <2> QED  BY <1>0, <1>7, <2>1, <2>2, <2>3, TypedFrom DEF Die, Typed, TypeOK
<1> QED  BY <1>1, <1>2, <1>3, <1>4, <1>5, <1>6, <1>7

LEMMA TypedStep ==
  ASSUME Typed, [Next]_vars
  PROVE  Typed'
<1>1. CASE Poll
  BY <1>1, PollTyped
<1>2. CASE StandDown
  <2>1. mem.modified \in SUBSET Profiles /\ Sounds(link)
    BY SoundTables DEF Typed, TypeOK, Memory
  <2>2. PICK todo : todo = IF mem.modified = {} THEN <<>> ELSE <<Cmd("restore", {}, mem.modified)>>
    OBVIOUS
  <2>3. PICK next : next = Forgotten(mem.modified)
    OBVIOUS
  <2>4. next \in Memory /\ next.leader = NoLeader
    BY <2>1, <2>3, MemoryTypes DEF Forgotten
  <2>5. Cmd("restore", {}, mem.modified) \in Command
    BY <2>1 DEF Cmd, Command, Ops
  <2>6. /\ todo \in Seq(Command) /\ Len(todo) \in {0, 1}
        /\ Len(todo) = 1 => todo[1] = Cmd("restore", {}, mem.modified)
    BY <2>2, <2>5, Optional
  <2>7. PlanShape(todo, next)
    <3>1. \A i \in 1 .. Len(todo) : Len(todo) = 1 /\ i = 1 /\ todo[i].op = "restore" /\ todo[i].profiles = mem.modified
      BY <2>6 DEF Cmd
    <3> QED  BY <2>3, <3>1 DEF PlanShape
  <2>8. job' = [phase |-> "acting", next |-> next, why |-> reasons, todo |-> todo]
    BY <1>2, <2>2, <2>3 DEF StandDown, Keep
  <2>9. job' \in Job
    BY <2>4, <2>6, <2>8 DEF Job, Typed, TypeOK
  <2>10. failsafe' = FALSE /\ UNCHANGED <<link, profile, flag, lost, mem, reasons, wish, left>>
    BY <1>2 DEF StandDown, nm
  <2>11. Sounds(link')
    BY <2>1, <2>10
  <2> QED  BY <2>4, <2>7, <2>8, <2>9, <2>10, <2>11, TypedFrom DEF Typed, TypeOK, Leading
<1>3. CASE Nmcli
  BY <1>3, NmcliTyped
<1>4. CASE Save
  <2>1. job \in Job /\ job.phase = "acting" /\ Sounds(link)
    BY <1>4, SoundTables DEF Save, Typed, TypeOK
  <2>2. mem' = job.next /\ job' = Rest /\ reasons' = reasons \ job.why /\ lost' = FALSE
    BY <1>4 DEF Save
  <2>3. UNCHANGED <<link, profile, flag, failsafe, left>>
    BY <1>4 DEF Save, nm
  <2>4. wish' \in Wish
    <3> DEFINE met == wish.met \/ (wish.kind = "choice" /\ wish.net \in job.why)
                               \/ (wish.kind = "drop" /\ None \in job.why)
    <3>1. PICK b \in BOOLEAN : b = met
      <4>1. met \in BOOLEAN
        OBVIOUS
      <4> QED  BY <4>1
    <3>2. wish' = [wish EXCEPT !.met = b]
      BY <1>4, <3>1, Zenon DEF Save
    <3> QED  BY <3>2 DEF Typed, TypeOK, Wish
  <2>5. mem' \in Memory /\ Leading(mem'.leader) /\ job' \in Job /\ job'.phase = "idle"
    BY <2>1, <2>2, MemoryTypes DEF Job, Typed, Rest
  <2>6. Sounds(link')
    BY <2>1, <2>3
  <2> QED  BY <2>2, <2>3, <2>4, <2>5, <2>6, TypedFrom DEF Typed, TypeOK
<1>5. CASE Environment
  <2> QED  BY <1>5, UserTyped, AirTyped, ProgressTyped DEF Environment
<1>6. CASE UNCHANGED vars
  <2>1. Sounds(link') /\ UNCHANGED <<link, profile, flag, failsafe, lost, mem, job, reasons, wish, left>>
    BY <1>6, SoundTables DEF vars, Typed
  <2> QED  BY <2>1, TypedFrom DEF Typed, TypeOK
<1> QED  BY <1>1, <1>2, <1>3, <1>4, <1>5, <1>6 DEF Next, Daemon

\* The follower's memory, plan and view of the radios stay what they are
\* taken to be, the commands of a plan and the memory to be saved included.
THEOREM TypeCorrect == Spec => []TypeOK
<1>1. Init => Typed
  BY InitTyped
<1>2. Typed /\ [Next]_vars => Typed'
  BY TypedStep
<1>3. Typed => TypeOK
  BY DEF Typed
<1> QED  BY <1>1, <1>2, <1>3, PTL DEF Spec

-----------------------------------------------------------------------------
(* The record of changed profiles. *)

Recorded == Typed /\ ModifiedRecorded

\* What a step may do to a profile and to the record, and the record still holds.
LEMMA RecordedFrom ==
  ASSUME ModifiedRecorded,
         \A p \in Profiles : profile'[p].saved =>
           \/ profile[p].saved /\ profile'[p].many = profile[p].many
           \/ profile'[p].many = (p \in UserMany)
           \/ p \in Latest'.modified,
         \A p \in Latest.modified : p \in Latest'.modified \/ profile'[p].many = (p \in UserMany)
  PROVE  ModifiedRecorded'
BY DEF ModifiedRecorded

LEMMA ManyKept ==
  ASSUME ModifiedRecorded, profile' = profile, Latest.modified \subseteq Latest'.modified
  PROVE  ModifiedRecorded'
BY DEF ModifiedRecorded

LEMMA RecordedStep ==
  ASSUME Recorded, [Next]_vars, "crash_mid_poll" \notin Faults
  PROVE  ModifiedRecorded'
<1>0. TypeOK /\ Typed /\ ModifiedRecorded
  BY DEF Recorded, Typed
<1>1. CASE Poll
  <2>1. PICK todo, next : Plan(todo, next) /\ Planned(todo, next)
    BY <1>0, <1>1, PollPlans DEF Typed
  <2>2. Latest = mem /\ Latest' = next /\ profile' = profile
    BY <1>1, <2>1 DEF Poll, Plan, Latest, nm
  <2> QED  BY <1>0, <2>1, <2>2, ManyKept DEF Planned
<1>2. CASE StandDown
  <2>1. Latest = mem /\ Latest' = Forgotten(mem.modified) /\ profile' = profile
    BY <1>2 DEF StandDown, Latest, Keep, nm
  <2> QED  BY <1>0, <2>1, ManyKept DEF Forgotten
<1>3. CASE Nmcli
  <2>1. ASSUME NEW op, Runs(op), Ran
        PROVE  Latest = job.next /\ Latest' = job.next
    BY <1>0, <2>1, RunsCommand, RanIs DEF Latest
  <2>2. CASE Multi
    <3>1. Runs("multi") /\ Ran /\ TheseProfiles \subseteq job.next.modified
      <4>1. Runs("multi") /\ Ran
        BY <2>2 DEF Multi
      <4> QED  BY <1>0, <4>1, RunsCommand DEF PlanShape, TheseProfiles
    <3>2. \A p \in Profiles : profile'[p].saved =>
            profile[p].saved /\ (profile'[p].many = profile[p].many \/ p \in TheseProfiles)
      <4>1. CASE profile' = profile
        BY <4>1
      <4>2. CASE profile' = [p \in Profiles |->
                     [profile[p] EXCEPT !.many = @ \/ (p \in TheseProfiles /\ profile[p].saved)]]
        <5>1. ASSUME NEW p \in Profiles, p \notin TheseProfiles
              PROVE  profile'[p].many = profile[p].many
          BY <1>0, <4>2, <5>1 DEF TypeOK, Profile
        <5>2. \A p \in Profiles : profile'[p].saved = profile[p].saved
          BY <1>0, <4>2 DEF TypeOK, Profile
        <5> QED  BY <5>1, <5>2
      <4> QED  BY <2>2, <4>1, <4>2 DEF Multi
    <3> QED  BY <1>0, <2>1, <3>1, <3>2, RecordedFrom
  <2>3. CASE Unbind
    <3>1. \A p \in Profiles : profile'[p].saved = profile[p].saved /\ profile'[p].many = profile[p].many
      BY <1>0, <2>3 DEF Unbind, TypeOK, Profile
    <3> QED  BY <1>0, <2>1, <2>3, <3>1, RecordedFrom DEF Unbind
  <2>4. CASE Down
    BY <1>0, <2>1, <2>4, ManyKept DEF Down
  <2>5. ASSUME NEW op, Disconnect(op)
        PROVE  ModifiedRecorded'
    BY <1>0, <2>1, <2>5, ManyKept DEF Disconnect
  <2>6. CASE Activate
    <3>1. Runs("up") /\ Ran
      BY <2>6 DEF Activate
    <3>4. PICK q \in Profiles : \E pinned : profile' = [profile EXCEPT ![q].pinned = pinned]
      BY <1>0, <2>6, <3>1, RunsCommand DEF Activate
    <3>2. PICK pinned : profile' = [profile EXCEPT ![q].pinned = pinned]
      BY <3>4
    <3>3. \A p \in Profiles : profile'[p].saved = profile[p].saved /\ profile'[p].many = profile[p].many
      BY <1>0, <3>2 DEF TypeOK, Profile
    <3> QED  BY <1>0, <2>1, <3>1, <3>3, RecordedFrom
  <2>7. CASE Restore
    <3>1. PICK kept \in SUBSET {p \in TheseProfiles : profile[p].saved} :
            /\ profile' = [p \in Profiles |->
                             IF p \in TheseProfiles \ kept THEN [profile[p] EXCEPT !.many = p \in UserMany]
                             ELSE profile[p]]
            /\ job' = [job EXCEPT !.todo = Tail(@), !.next = Keep(kept)]
      BY <2>7 DEF Restore
    <3>2. Runs("restore")
      BY <2>7 DEF Restore
    <3>3. job.next = Forgotten(TheseProfiles) /\ job.phase = "acting"
      BY <1>0, <3>2, RunsCommand DEF PlanShape, TheseProfiles
    <3>4. Latest.modified = TheseProfiles /\ Latest'.modified = kept
      <4>1. job'.phase = "acting" /\ job'.next = Keep(kept)
        BY <1>0, <3>1, <3>3 DEF TypeOK, Job
      <4> QED  BY <3>3, <4>1 DEF Latest, Forgotten, Keep
    <3>5. \A p \in Profiles \ (TheseProfiles \ kept) : profile'[p] = profile[p]
      BY <1>0, <3>1 DEF TypeOK
    <3>6. ASSUME NEW p \in TheseProfiles \ kept, p \in Profiles
          PROVE  profile'[p].many = (p \in UserMany)
      <4>0. (p \in UserMany) \in BOOLEAN
        OBVIOUS
      <4>1. PICK b \in BOOLEAN : b = (p \in UserMany)
        BY <4>0
      <4>2. profile'[p] = [profile[p] EXCEPT !.many = b]
        BY <3>1, <3>6, <4>1, Zenon
      <4>3. profile'[p].many = b
        BY <1>0, <3>6, <4>2 DEF TypeOK, Profile
      <4> QED  BY <4>1, <4>3
    <3>7. TheseProfiles \subseteq Profiles
      BY <1>0, <3>2, RunsCommand
    <3> QED  BY <1>0, <3>4, <3>5, <3>6, <3>7, RecordedFrom
  <2> QED  BY <1>3, <2>2, <2>3, <2>4, <2>5, <2>6, <2>7 DEF Nmcli
<1>4. CASE Save
  <2>1. Latest = job.next /\ Latest' = job.next /\ profile' = profile
    BY <1>4 DEF Save, Latest, Rest, nm
  <2> QED  BY <1>0, <2>1, ManyKept
<1>5. ASSUME NEW r \in Radios, NEW p \in Profiles, UserActivates(r, p) \/ Autoconnects(r, p)
      PROVE  ModifiedRecorded'
  <2>1. PICK cs : Because(cs)
    BY <1>5 DEF UserActivates, Autoconnects, Happens, Brings
  <2>2. job'.phase = job.phase /\ job'.next = job.next /\ mem' = mem /\ profile' = profile
    BY <1>0, <1>5, <2>1 DEF UserActivates, Autoconnects, Happens, Brings, Because, TypeOK, Job
  <2> QED  BY <1>0, <2>2, ManyKept DEF Latest
<1>6. ASSUME NEW r \in Radios, \/ UserDisconnects(r) \/ Fails(r) \/ FallsBack(r) \/ Unplug(r) \/ Plug(r)
                               \/ Vanishes \/ Switch
      PROVE  ModifiedRecorded'
  <2>1. PICK cs : Because(cs)
    BY <1>6 DEF UserDisconnects, Fails, FallsBack, Unplug, Plug, Vanishes, Switch, Happens, Brings
  <2>2. mem' = mem /\ profile' = profile
    BY <1>6 DEF UserDisconnects, Fails, FallsBack, Unplug, Plug, Vanishes, Switch, Happens, Brings, nm
  <2>3. job'.phase = job.phase /\ job'.next = job.next
    BY <1>0, <2>1 DEF Because, TypeOK, Job
  <2> QED  BY <1>0, <2>2, <2>3, ManyKept DEF Latest
<1>7. ASSUME NEW p \in Profiles, UserDeletes(p)
      PROVE  ModifiedRecorded'
  <2>1. PICK cs : Because(cs)
    BY <1>7 DEF UserDeletes, Happens, Brings
  <2>2. mem' = mem /\ profile' = [profile EXCEPT ![p].saved = FALSE]
    BY <1>7 DEF UserDeletes, Happens, Brings
  <2>3. job'.phase = job.phase /\ job'.next = job.next
    BY <1>0, <2>1 DEF Because, TypeOK, Job
  <2>4. ~profile'[p].saved /\ \A q \in Profiles \ {p} : profile'[q] = profile[q]
    BY <1>0, <2>2 DEF TypeOK, Profile
  <2> QED  BY <1>0, <2>2, <2>3, <2>4 DEF Latest, ModifiedRecorded
<1>8. ASSUME NEW r \in Radios, Starts(r) \/ Lands(r) \/ TimePasses(r) \/ GrownUp(r)
      PROVE  ModifiedRecorded'
  <2>1. profile' = profile
    BY <1>8 DEF Starts, Lands, TimePasses, GrownUp, Others, nm
  <2>2. mem'.modified = mem.modified
    BY <1>0, <1>8 DEF Starts, Lands, TimePasses, GrownUp, TypeOK, Memory
  <2>3. job'.phase = job.phase /\ job'.next = job.next
    BY <1>0, <1>8 DEF Starts, Lands, TimePasses, GrownUp, Because, TypeOK, Job
  <2> QED  BY <1>0, <2>1, <2>2, <2>3, ManyKept DEF Latest
<1>9. CASE FailsafeEnds \/ Failsafe \/ Die
  <2>1. profile' = profile
    BY <1>9 DEF FailsafeEnds, Failsafe, Die, nm
  <2>2. mem'.modified = mem.modified
    BY <1>0, <1>9 DEF FailsafeEnds, Failsafe, Die, TypeOK, Memory
  <2>3. job.phase # "acting" /\ job'.phase # "acting"
    BY <1>0, <1>9 DEF FailsafeEnds, Failsafe, Die, Rest, TypeOK, Job
  <2> QED  BY <1>0, <2>1, <2>2, <2>3, ManyKept DEF Latest
<1>10. CASE Switch \/ Vanishes
  <2>1. PICK cs : Because(cs)
    BY <1>10 DEF Vanishes, Switch, Happens, Brings
  <2>2. mem' = mem /\ profile' = profile
    BY <1>10 DEF Vanishes, Switch, Happens, Brings, nm
  <2>3. job'.phase = job.phase /\ job'.next = job.next
    BY <1>0, <2>1 DEF Because, TypeOK, Job
  <2> QED  BY <1>0, <2>2, <2>3, ManyKept DEF Latest
<1>11. CASE UNCHANGED vars
  BY <1>0, <1>11, ManyKept DEF vars, Latest
<1> QED  BY <1>1, <1>2, <1>3, <1>4, <1>5, <1>6, <1>7, <1>8, <1>9, <1>10, <1>11 DEF Next, Daemon, Environment

\* Unless the daemon dies between its commands and saving its memory, no
\* profile keeps a multi-connect that is not the user's and that nothing
\* remembers to restore.
THEOREM ModifiedIsRecorded ==
  ASSUME "crash_mid_poll" \notin Faults
  PROVE  Spec => []ModifiedRecorded
<1>1. Init => Recorded
  <2> SUFFICES ASSUME Init PROVE Recorded
    OBVIOUS
  <2>1. PICK r \in Radios :
          profile = [p \in Profiles |-> [saved |-> TRUE, many |-> p \in UserMany, pinned |-> FALSE,
                                         bound |-> IF p \in Bound THEN r ELSE None]]
    BY DEF Init
  <2>2. \A p \in Profiles : profile[p].many = (p \in UserMany)
    BY <2>1
  <2> QED  BY <2>2, InitTyped DEF Recorded, ModifiedRecorded
<1>2. Recorded /\ [Next]_vars => Recorded'
  BY RecordedStep, TypedStep DEF Recorded
<1>3. Recorded => ModifiedRecorded
  BY DEF Recorded
<1> QED  BY <1>1, <1>2, <1>3, PTL DEF Spec

-----------------------------------------------------------------------------
(* The promise: what the invariant says. *)

\* The network a leader stands for, and the reasons that the poll under way, if any,
\* has not seen.
NetBy(l) == IF l = NoLeader THEN None ELSE NetOf[l.on]
Unspent  == reasons \ job.why

Resting == job.phase = "idle" => job.todo = <<>> /\ job.why = {}

\* Only a radio that is not active was asked to be so.
AskedOnly == \A r \in Radios : link[r].asked => link[r].at \in {"idle", "starting"}

\* A radio that starts to join does so for a join that is remembered as begun.
StartsJoined ==
  \A r \in Radios : link[r].at = "starting" =>
    InFlight(Latest.moves[r]) /\ Latest.moves[r].target = link[r].on

\* Why radio r may be on p without the choice being reviewed, or that it will be.
Explains(r, p) ==
  \/ Latest.fresh \/ r \notin Latest.known \/ r \in Latest.appeared
  \/ p \in {None, Latest.last[r], Latest.moves[r].target}
  \/ Latest.moves[r].previous = p /\ Latest.moves[r].stage # "old"
  \/ NetOf[p] \in Unspent

Explained == \A r \in Wifi : Explains(r, link[r].on)

\* A leader's radio that was parked may have been handed back and left there, which looks
\* as if the user had disconnected it; not since a choice was made in a state that was seen.
LooksLeft == "parked_released" \in Faults /\ wish.kind # "choice"

\* A leader's radio that was asked to disconnect is parked, is about to join, or the user
\* asked for it.
Excused ==
  Latest.leader # NoLeader /\ link[Latest.leader.dev].asked =>
    \/ LooksLeft \/ Latest.leader.dev \in Latest.parked
    \/ None \in Unspent \/ Joins(job.todo, Latest.leader.dev)

\* What is joined can be: its profile is there and bound to no radio.
UpsFit ==
  \A i \in 1 .. Len(job.todo) : job.todo[i].op = "up" =>
    /\ profile[Latest.leader.on].bound = None
    /\ profile[Latest.leader.on].saved \/ None \in Unspent

\* A poll that finds wifimimo switched off or too few radios, or the network out of
\* sight, has a reason to let go of it.
Standing == Latest.leader # NoLeader /\ (~flag \/ Cardinality(Wifi) < 2) => None \in Unspent
LostSeen == job.phase = "idle" /\ lost /\ mem.leader # NoLeader => None \in reasons

\* The memory to be saved follows what was followed, or what there is a reason to.
Turned ==
  "parked_released" \notin Faults /\ job.phase = "acting" =>
    Followed = None \/ NetBy(job.next.leader) \in {Followed} \union reasons

Sense ==
  /\ Typed /\ Resting /\ AskedOnly /\ StartsJoined /\ Explained
  /\ Excused /\ UpsFit /\ Standing /\ LostSeen /\ Turned

-----------------------------------------------------------------------------
(* The promise: radios. *)

\* What becomes of a radio's link: it stays, the radio goes idle or away, or it begins
\* something there is an explanation for.
Rested(r) ==
  /\ link'[r].on = None /\ link'[r].at \in {"idle", "gone"}
  /\ link'[r].asked => link'[r].at = "idle"

Begun(r) ==
  /\ link'[r].at \in {"busy", "up", "starting"} /\ ~link'[r].asked
  /\ link'[r].at = "starting" =>
       InFlight(Latest'.moves[r]) /\ Latest'.moves[r].target = link'[r].on
  /\ \/ r \notin Latest'.known \/ r \in Latest'.appeared
     \/ link'[r].on \in {Latest'.last[r], Latest'.moves[r].target}
     \/ Latest'.moves[r].previous = link'[r].on /\ Latest'.moves[r].stage # "old"
     \/ NetOf[link'[r].on] \in Unspent'

LEMMA LinksExplained ==
  ASSUME Sense, Latest' = Latest, Unspent \subseteq Unspent',
         \A r \in Radios : link'[r] = link[r] \/ Rested(r) \/ Begun(r)
  PROVE  AskedOnly' /\ StartsJoined' /\ Explained'
<1>1. AskedOnly'
  BY DEF Sense, AskedOnly, Rested, Begun
<1>2. StartsJoined'
  BY DEF Sense, StartsJoined, Rested, Begun
<1>3. ASSUME NEW r \in Radios, link'[r].at \notin {"none", "gone"}
      PROVE  Explains(r, link[r].on)'
  <2>1. CASE link'[r] = link[r]
    BY <1>3, <2>1 DEF Sense, Explained, Explains, Wifi
  <2>2. CASE Rested(r)
    BY <2>2 DEF Rested, Explains
  <2>3. CASE Begun(r)
    BY <2>3 DEF Begun, Explains
  <2> QED  BY <2>1, <2>2, <2>3
<1>4. Explained'
  BY <1>3 DEF Explained, Wifi
<1> QED  BY <1>1, <1>2, <1>4

\* Radios that are switched away from what they do.
LEMMA DroppedLinks ==
  ASSUME Sense, NEW rs \in SUBSET Wifi, NEW asked \in BOOLEAN, NEW f, f = Dropping(rs, asked)
  PROVE  \A r \in Radios :
           /\ f[r] = link[r] \/ (r \in rs /\ f[r] = Idle(asked))
           /\ f[r].at \in {"none", "gone"} <=> link[r].at \in {"none", "gone"}
BY DEF Dropping, Wifi, Idle

\* A radio that is activated, and what becomes of the others.
Activates(f, r, l) ==
  /\ f[r] = l
  /\ \A s \in Radios :
       /\ s # r => f[s] = link[s] \/ f[s] = Idle(FALSE)
       /\ f[s].at \in {"none", "gone"} <=> link[s].at \in {"none", "gone"}

LEMMA ActivatedLinks ==
  ASSUME Sense, NEW r \in Wifi, NEW p, NEW l, l.at \in {"busy", "starting"}
  PROVE  Activates(Activation(r, p, l), r, l)
<1>0. PICK f : f = Activation(r, p, l)
  OBVIOUS
<1>1. PICK robbed : robbed = IF profile[p].many THEN {} ELSE {s \in Wifi \ {r} : link[s].on = p}
  OBVIOUS
<1>2. PICK g : g = Dropping(robbed, FALSE)
  OBVIOUS
<1>3. f = [g EXCEPT ![r] = l] /\ robbed \in SUBSET Wifi
  BY <1>0, <1>1, <1>2 DEF Activation
<1>4. \A s \in Radios : /\ g[s] = link[s] \/ g[s] = Idle(FALSE)
                        /\ g[s].at \in {"none", "gone"} <=> link[s].at \in {"none", "gone"}
  BY <1>2, <1>3 DEF Dropping, Wifi, Idle
<1>5. DOMAIN g = Radios /\ r \in Radios /\ link[r].at \notin {"none", "gone"}
  BY <1>2 DEF Dropping, Wifi
<1>6. Activates(f, r, l)
  BY <1>3, <1>4, <1>5 DEF Activates
<1> QED  BY <1>0, <1>6

-----------------------------------------------------------------------------
(* The promise: the environment. *)

LEMMA Unreviewed ==
  ASSUME Sense, NEW cs, Brings(cs)
  PROVE  /\ Latest' = Latest /\ mem' = mem /\ Unspent' = Unspent \union cs
         /\ job'.phase = job.phase /\ job'.todo = job.todo /\ job'.next = job.next
         /\ reasons' = reasons \union cs
         /\ Resting' /\ Turned'
<1>1. /\ job'.phase = job.phase /\ job'.todo = job.todo /\ job'.next = job.next /\ job'.why = job.why \ cs
      /\ reasons' = reasons \union cs /\ mem' = mem
  BY DEF Brings, Because, Sense, Typed, TypeOK, Job
<1>2. Resting'
  BY <1>1 DEF Sense, Resting
<1>3. Turned'
  BY <1>1 DEF Sense, Turned, Followed
<1> QED  BY <1>1, <1>2, <1>3 DEF Latest, Unspent

\* What remains to be seen of a step that gives a reason or none: the radios, the leader's
\* excuse, what is to be joined and how many radios there are.
LEMMA BroughtSense ==
  ASSUME Sense, Typed', NEW cs, Brings(cs),
         \A r \in Radios : link'[r] = link[r] \/ Rested(r) \/ Begun(r),
         \A r \in Radios : r = Latest.leader.dev =>
           link'[r] = link[r] \/ ~link'[r].asked \/ None \in cs,
         \A p \in Profiles : /\ profile[p].bound = None => profile'[p].bound = None
                             /\ profile[p].saved => profile'[p].saved \/ (Latest.leader.on = p => None \in cs),
         Standing', lost' => lost \/ None \in cs, LooksLeft => LooksLeft' \/ Excused'
  PROVE  Sense'
<1>1. /\ Latest' = Latest /\ mem' = mem /\ Unspent' = Unspent \union cs
      /\ job'.phase = job.phase /\ job'.todo = job.todo /\ job'.next = job.next
      /\ reasons' = reasons \union cs
      /\ Resting' /\ Turned'
  BY Unreviewed
<1>2. AskedOnly' /\ StartsJoined' /\ Explained'
  BY <1>1, LinksExplained
<1>3. Leading(Latest.leader)
  BY DEF Sense, Typed, Latest, TypeOK, Job
<1>4. Excused'
  BY <1>1, <1>3 DEF Sense, Excused, Leading
<1>5. UpsFit'
  <2>1. ASSUME NEW i \in 1 .. Len(job.todo), job.todo[i].op = "up"
        PROVE  Latest.leader.on \in Profiles
    <3>1. job.phase = "acting" /\ Latest = job.next
      BY <2>1 DEF Sense, Resting, Latest, Typed, TypeOK, Job
    <3>2. job.next.leader # NoLeader
      BY <2>1, <3>1 DEF Sense, Typed, PlanShape
    <3> QED  BY <1>3, <3>1, <3>2 DEF Leading
  <2> QED  BY <1>1, <2>1 DEF Sense, UpsFit
<1>6. LostSeen'
  BY <1>1 DEF Sense, LostSeen
<1> QED  BY <1>1, <1>2, <1>4, <1>5, <1>6 DEF Sense

LEMMA AsManyRadios ==
  ASSUME Sense, Latest'.leader \in {Latest.leader, NoLeader}, Unspent \subseteq Unspent', flag' = flag,
         \A r \in Radios : link'[r].at \in {"none", "gone"} <=> link[r].at \in {"none", "gone"}
  PROVE  Standing'
<1>1. Wifi' = Wifi
  BY DEF Wifi
<1> QED  BY <1>1 DEF Sense, Standing

\* Links of radios that are idle, away or busy.
LEMMA IdleRests ==
  ASSUME NEW r, link'[r] \in {Away, Idle(FALSE), Idle(TRUE)}
  PROVE  Rested(r) /\ (link'[r] # Idle(TRUE) => ~link'[r].asked)
<1>1. Away.on = None /\ Away.at = "gone" /\ Away.asked = FALSE
  BY DEF Away
<1>2. \A b : Idle(b).on = None /\ Idle(b).at = "idle" /\ Idle(b).asked = b
  BY DEF Idle
<1>3. CASE link'[r] = Away
  BY <1>1, <1>3 DEF Rested
<1>4. CASE link'[r] = Idle(FALSE)
  BY <1>2, <1>4 DEF Rested
<1>5. CASE link'[r] = Idle(TRUE)
  BY <1>2, <1>5 DEF Rested
<1> QED  BY <1>3, <1>4, <1>5

LEMMA UserSense ==
  ASSUME Sense, Typed', NEW r, NEW p,
         \/ r \in Radios /\ p \in Profiles /\ UserActivates(r, p)
         \/ r \in Radios /\ UserDisconnects(r)
         \/ p \in Profiles /\ UserDeletes(p)
         \/ Switch
  PROVE  Sense'
<1>0. TypeOK /\ link \in [Radios -> Link]
  BY DEF Sense, Typed, TypeOK
<1>1. CASE r \in Radios /\ p \in Profiles /\ UserActivates(r, p)
  <2>1. /\ Brings({NetOf[p]}) /\ r \in Wifi /\ link' = Activation(r, p, On("busy", p))
        /\ profile' = profile /\ flag' = flag
    BY <1>1 DEF UserActivates, Happens
  <2>2. PICK l : l = On("busy", p)
    OBVIOUS
  <2>3. l.at = "busy" /\ l.on = p /\ l.asked = FALSE
    BY <2>2 DEF On
  <2>4. /\ link'[r] = l
        /\ \A s \in Radios :
             /\ s # r => link'[s] = link[s] \/ link'[s] = Idle(FALSE)
             /\ link'[s].at \in {"none", "gone"} <=> link[s].at \in {"none", "gone"}
    <3>1. Activates(Activation(r, p, l), r, l)
      BY <2>1, <2>3, ActivatedLinks
    <3> QED  BY <2>1, <2>2, <3>1 DEF Activates
  <2>5. Unspent' = Unspent \union {NetOf[p]} /\ Latest' = Latest
    BY <2>1, Unreviewed
  <2>6. Begun(r)
    BY <2>3, <2>4, <2>5 DEF Begun
  <2>7. ASSUME NEW s \in Radios
        PROVE  /\ link'[s] = link[s] \/ Rested(s) \/ Begun(s)
               /\ link'[s] = link[s] \/ ~link'[s].asked
    BY <2>3, <2>4, <2>6, IdleRests DEF Idle
  <2>8. Standing'
    BY <2>1, <2>4, <2>5, AsManyRadios
  <2>9. lost' => lost
    BY <1>1 DEF UserActivates, Seen
  <2>10. ASSUME LooksLeft, ~LooksLeft'
         PROVE  Excused'
    <3>1. Heard
      BY <1>1, <2>10 DEF UserActivates, LooksLeft, NoWish
    <3>2. SUFFICES ASSUME Latest.leader # NoLeader, link'[Latest.leader.dev].asked
                   PROVE  Latest.leader.dev \in Latest.parked
      BY <2>5 DEF Excused
    <3>3. Latest = mem /\ mem.leader.dev \in Radios /\ mem.leader.on # None
      BY <3>1, <3>2, Nothing DEF Heard, Latest, Sense, Typed, Leading
    <3>4. link'[mem.leader.dev] = link[mem.leader.dev]
      BY <2>3, <2>4, <3>2, <3>3 DEF Idle
    <3>5. link[mem.leader.dev].at \in {"idle", "starting"}
      BY <3>2, <3>3, <3>4 DEF Sense, AskedOnly
    <3>6. mem.leader.dev \in Wifi /\ ~UserLeft(mem.leader)
      BY <3>1, <3>3, <3>5 DEF Heard, Wifi
    <3> QED  BY <3>2, <3>3, <3>4, <3>5, <3>6 DEF UserLeft, Disconnected, Uuid
  <2> QED  BY <2>1, <2>7, <2>8, <2>9, <2>10, BroughtSense
<1>2. CASE r \in Radios /\ UserDisconnects(r)
  <2>0. LooksLeft => LooksLeft'
    BY <1>2 DEF UserDisconnects, LooksLeft, NoWish
  <2>1. PICK cs : Brings(cs) /\ (r = Latest.leader.dev => None \in cs)
    BY <1>2 DEF UserDisconnects, Happens
  <2>2. /\ r \in Wifi /\ link' = [link EXCEPT ![r] = Idle(TRUE)] /\ profile' = profile
        /\ flag' = flag /\ lost' = lost
    BY <1>2 DEF UserDisconnects
  <2>3. ASSUME NEW s \in Radios
        PROVE  /\ link'[s] = link[s] \/ (s = r /\ Rested(s))
               /\ link'[s].at \in {"none", "gone"} <=> link[s].at \in {"none", "gone"}
    BY <1>0, <2>2, IdleRests DEF Wifi, Idle
  <2>4. Unspent' = Unspent \union cs /\ Latest' = Latest
    BY <2>1, Unreviewed
  <2>5. Standing'
    BY <2>2, <2>3, <2>4, AsManyRadios
  <2> QED  BY <2>0, <2>1, <2>2, <2>3, <2>5, BroughtSense
<1>3. CASE p \in Profiles /\ UserDeletes(p)
  <2>0. LooksLeft => LooksLeft'
    BY <1>3 DEF UserDeletes, LooksLeft, NoWish
  <2>1. PICK cs : Brings(cs) /\ (p = Latest.leader.on => None \in cs)
    BY <1>3 DEF UserDeletes, Happens
  <2>2. /\ profile' = [profile EXCEPT ![p].saved = FALSE] /\ flag' = flag /\ lost' = lost
        /\ link' = Dropping({s \in Wifi : link[s].on = p}, FALSE)
    BY <1>3 DEF UserDeletes
  <2>3. ASSUME NEW s \in Radios
        PROVE  /\ link'[s] = link[s] \/ link'[s] = Idle(FALSE)
               /\ link'[s].at \in {"none", "gone"} <=> link[s].at \in {"none", "gone"}
    BY <2>2, <2>3 DEF Dropping, Wifi, Idle
  <2>4. \A s \in Radios : link'[s] = link[s] \/ (Rested(s) /\ ~link'[s].asked)
    BY <2>3, IdleRests DEF Idle
  <2>5. \A q \in Profiles : /\ profile'[q].bound = profile[q].bound
                            /\ q # p => profile'[q].saved = profile[q].saved
    BY <1>0, <2>2 DEF TypeOK, Profile
  <2>6. Unspent' = Unspent \union cs /\ Latest' = Latest
    BY <2>1, Unreviewed
  <2>7. Standing'
    BY <2>2, <2>3, <2>6, AsManyRadios
  <2> QED  BY <2>0, <2>1, <2>2, <2>4, <2>5, <2>7, BroughtSense
<1>4. CASE Switch
  <2>0. LooksLeft => LooksLeft'
    BY <1>4 DEF Switch, LooksLeft, NoWish
  <2>1. PICK cs : Brings(cs) /\ (flag => None \in cs)
    BY <1>4 DEF Switch, Happens
  <2>2. UNCHANGED <<link, profile, lost>> /\ flag' = ~flag
    BY <1>4 DEF Switch, nm
  <2>3. Unspent' = Unspent \union cs /\ Latest' = Latest
    BY <2>1, Unreviewed
  <2>4. Standing'
    <3>1. Wifi' = Wifi
      BY <2>2 DEF Wifi
    <3> QED  BY <2>1, <2>2, <2>3, <3>1 DEF Sense, Standing
  <2> QED  BY <2>0, <2>1, <2>2, <2>4, BroughtSense
<1> QED  BY <1>1, <1>2, <1>3, <1>4

LEMMA WifiFinite == IsFiniteSet(Wifi) /\ Cardinality(Wifi) \in Nat
BY FiniteRadios, FS_Subset, FS_CardinalityType DEF Wifi

LEMMA AirSense ==
  ASSUME Sense, Typed', NEW r, NEW p,
         \/ r \in Radios /\ (Fails(r) \/ FallsBack(r) \/ Unplug(r) \/ Plug(r))
         \/ r \in Radios /\ p \in Profiles /\ Autoconnects(r, p)
         \/ Vanishes
  PROVE  Sense'
<1>0. TypeOK /\ link \in [Radios -> Link]
  BY DEF Sense, Typed, TypeOK
<1>8. LooksLeft => LooksLeft'
  <2>1. wish' = NoWish
    BY DEF Fails, FallsBack, Unplug, Plug, Autoconnects, Vanishes
  <2> QED  BY <2>1 DEF LooksLeft, NoWish
<1>1. CASE r \in Radios /\ Fails(r)
  <2>1. /\ Brings({}) /\ link[r].at \in {"busy", "up"} /\ link' = [link EXCEPT ![r] = Idle(FALSE)]
        /\ profile' = profile /\ flag' = flag /\ lost' = lost
    BY <1>1 DEF Fails, Happens
  <2>2. ASSUME NEW s \in Radios
        PROVE  /\ link'[s] = link[s] \/ (Rested(s) /\ ~link'[s].asked)
               /\ link'[s].at \in {"none", "gone"} <=> link[s].at \in {"none", "gone"}
    BY <1>0, <2>1, IdleRests DEF Idle
  <2>3. Unspent' = Unspent /\ Latest' = Latest
    BY <2>1, Unreviewed
  <2>4. Standing'
    BY <2>1, <2>2, <2>3, AsManyRadios
  <2> QED  BY <1>8, <2>1, <2>2, <2>4, BroughtSense
<1>2. CASE r \in Radios /\ p \in Profiles /\ Autoconnects(r, p)
  <2>1. PICK cs : Brings(cs) /\ (New(r) \/ NetOf[p] \in cs)
    BY <1>2 DEF Autoconnects, Happens
  <2>2. /\ link[r].at = "idle" /\ link' = [link EXCEPT ![r] = On("busy", p)]
        /\ profile' = profile /\ flag' = flag
    BY <1>2 DEF Autoconnects
  <2>3. Unspent' = Unspent \union cs /\ Latest' = Latest
    BY <2>1, Unreviewed
  <2>4. Begun(r)
    BY <1>0, <1>2, <2>1, <2>2, <2>3 DEF Begun, New, On
  <2>5. ASSUME NEW s \in Radios
        PROVE  /\ link'[s] = link[s] \/ (Begun(s) /\ ~link'[s].asked)
               /\ link'[s].at \in {"none", "gone"} <=> link[s].at \in {"none", "gone"}
    BY <1>0, <2>2, <2>4 DEF On
  <2>6. Standing'
    BY <2>2, <2>3, <2>5, AsManyRadios
  <2>7. lost' => lost
    BY <1>2 DEF Autoconnects, Seen
  <2> QED  BY <1>8, <2>1, <2>2, <2>5, <2>6, <2>7, BroughtSense
<1>3. CASE r \in Radios /\ FallsBack(r)
  <2>1. PICK q : q = Latest.moves[r].previous
    OBVIOUS
  <2>2. /\ Brings({}) /\ link[r].at = "busy" /\ Latest.moves[r].stage # "old"
        /\ link' = Activation(r, q, On("busy", q))
        /\ profile' = profile /\ flag' = flag /\ lost' = lost
    BY <1>3, <2>1 DEF FallsBack, Happens
  <2>3. PICK l : l = On("busy", q)
    OBVIOUS
  <2>4. l.at = "busy" /\ l.on = q /\ l.asked = FALSE /\ r \in Wifi
    BY <1>3, <2>2, <2>3 DEF On, Wifi
  <2>5. /\ link'[r] = l
        /\ \A s \in Radios :
             /\ s # r => link'[s] = link[s] \/ link'[s] = Idle(FALSE)
             /\ link'[s].at \in {"none", "gone"} <=> link[s].at \in {"none", "gone"}
    <3>1. Activates(Activation(r, q, l), r, l)
      BY <2>4, ActivatedLinks
    <3> QED  BY <2>2, <2>3, <3>1 DEF Activates
  <2>6. Unspent' = Unspent /\ Latest' = Latest
    BY <2>2, Unreviewed
  <2>7. Begun(r)
    BY <2>1, <2>2, <2>4, <2>5, <2>6 DEF Begun
  <2>8. ASSUME NEW s \in Radios
        PROVE  /\ link'[s] = link[s] \/ Rested(s) \/ Begun(s)
               /\ link'[s] = link[s] \/ ~link'[s].asked
    BY <2>4, <2>5, <2>7, IdleRests DEF Idle
  <2>9. Standing'
    BY <2>2, <2>5, <2>6, AsManyRadios
  <2> QED  BY <1>8, <2>2, <2>8, <2>9, BroughtSense
<1>4. CASE r \in Radios /\ Unplug(r)
  <2>1. PICK cs : Brings(cs) /\ (Cardinality(Wifi) <= 2 => None \in cs)
    BY <1>4 DEF Unplug, Happens
  <2>2. /\ r \in Wifi /\ link' = [link EXCEPT ![r] = Away]
        /\ profile' = profile /\ flag' = flag /\ lost' = lost
    BY <1>4 DEF Unplug
  <2>3. \A s \in Radios : link'[s] = link[s] \/ (Rested(s) /\ ~link'[s].asked)
    BY <1>0, <1>4, <2>2, IdleRests DEF Away, Idle
  <2>4. Unspent' = Unspent \union cs /\ Latest' = Latest
    BY <2>1, Unreviewed
  <2>5. Standing'
    <3>1. Wifi' = Wifi \ {r}
      BY <1>0, <1>4, <2>2 DEF Wifi, Away
    <3>2. Cardinality(Wifi') = Cardinality(Wifi) - 1
      BY <2>2, <3>1, WifiFinite, FS_RemoveElement
    <3>3. Cardinality(Wifi') < 2 => Cardinality(Wifi) <= 2
      BY <3>2, WifiFinite
    <3> QED  BY <2>1, <2>2, <2>4, <3>3 DEF Sense, Standing
  <2> QED  BY <1>8, <2>1, <2>2, <2>3, <2>5, BroughtSense
<1>5. CASE r \in Radios /\ Plug(r)
  <2>1. /\ Brings({}) /\ link[r].at = "gone" /\ link' = [link EXCEPT ![r] = Idle(FALSE)]
        /\ profile' = profile /\ flag' = flag /\ lost' = lost
    BY <1>5 DEF Plug
  <2>2. \A s \in Radios : link'[s] = link[s] \/ (Rested(s) /\ ~link'[s].asked)
    BY <1>0, <1>5, <2>1, IdleRests DEF Idle
  <2>3. Unspent' = Unspent /\ Latest' = Latest
    BY <2>1, Unreviewed
  <2>4. Standing'
    <3>1. Wifi \subseteq Wifi' /\ Wifi' \subseteq Radios
      BY <1>0, <1>5, <2>1 DEF Wifi, Idle
    <3>2. IsFiniteSet(Wifi')
      BY <3>1, FiniteRadios, FS_Subset
    <3>3. Cardinality(Wifi) <= Cardinality(Wifi') /\ Cardinality(Wifi') \in Nat
      BY <3>1, <3>2, FS_Subset, FS_CardinalityType
    <3>4. Cardinality(Wifi') < 2 => Cardinality(Wifi) < 2
      BY <3>3, WifiFinite
    <3> QED  BY <2>1, <2>3, <3>4 DEF Sense, Standing
  <2> QED  BY <1>8, <2>1, <2>2, <2>4, BroughtSense
<1>6. CASE Vanishes
  <2>1. Brings({None}) /\ UNCHANGED <<link, profile, flag>>
    BY <1>6 DEF Vanishes, Happens, nm
  <2>2. Unspent' = Unspent \union {None} /\ Latest' = Latest
    BY <2>1, Unreviewed
  <2>3. Standing'
    BY <2>1, <2>2, AsManyRadios
  <2> QED  BY <1>8, <2>1, <2>3, BroughtSense
<1> QED  BY <1>1, <1>2, <1>3, <1>4, <1>5, <1>6

LEMMA ProgressSense ==
  ASSUME Sense, Typed', Faults \intersect {"crash_mid_poll", "stays_off"} = {}, NEW r,
         \/ r \in Radios /\ (Starts(r) \/ Lands(r) \/ TimePasses(r) \/ GrownUp(r))
         \/ FailsafeEnds \/ Failsafe \/ Die
  PROVE  Sense'
<1>0. TypeOK /\ link \in [Radios -> Link] /\ mem \in Memory /\ job \in Job
  BY DEF Sense, Typed, TypeOK
<1>6. LooksLeft => LooksLeft'
  <2>1. wish' \in {wish, NoWish}
    <3>1. CASE r \in Radios /\ (Starts(r) \/ Lands(r))
      BY <3>1 DEF Starts, Lands, Others
    <3>2. CASE r \in Radios /\ (TimePasses(r) \/ GrownUp(r))
      BY <3>2 DEF TimePasses, GrownUp, Others
    <3>3. CASE FailsafeEnds \/ Failsafe \/ Die
      BY <3>3 DEF FailsafeEnds, Failsafe, Die
    <3> QED  BY <3>1, <3>2, <3>3
  <2> QED  BY <2>1 DEF LooksLeft, NoWish
<1>1. CASE r \in Radios /\ (Starts(r) \/ Lands(r))
  <2>1. /\ UNCHANGED <<profile, flag, lost, reasons, mem, job>>
        /\ link[r].at \in {"starting", "busy"}
        /\ \/ link[r].at = "starting" /\ link' = [link EXCEPT ![r] = On("busy", link[r].on)]
           \/ link[r].at = "busy" /\ link' = [link EXCEPT ![r].at = "up"]
    BY <1>1 DEF Starts, Lands, Others
  <2>2. Latest' = Latest /\ Unspent' = Unspent
    BY <2>1 DEF Latest, Unspent
  <2>3. Resting' /\ Turned' /\ UpsFit' /\ LostSeen'
    BY <2>1, <2>2 DEF Sense, Resting, Turned, Followed, UpsFit, LostSeen
  <2>4. /\ link'[r].on = link[r].on /\ link'[r].at \in {"busy", "up"} /\ ~link'[r].asked
        /\ \A s \in Radios : s # r => link'[s] = link[s]
    <3>1. link[r].at = "busy" => ~link[r].asked
      BY <1>1 DEF Sense, AskedOnly
    <3> QED  BY <1>0, <1>1, <2>1, <3>1 DEF Link, On
  <2>5. Wifi' = Wifi
    BY <1>1, <2>1, <2>4 DEF Wifi
  <2>6. AskedOnly' /\ StartsJoined'
    BY <1>1, <2>2, <2>4 DEF Sense, AskedOnly, StartsJoined
  <2>7. Explained'
    <3>1. \A s \in Wifi : link'[s].on = link[s].on
      BY <2>4 DEF Wifi
    <3>2. ASSUME NEW s \in Wifi'
          PROVE  Explains(s, link[s].on)'
      <4>1. Explains(s, link[s].on)
        BY <2>5 DEF Sense, Explained
      <4> QED  BY <2>2, <2>5, <3>1, <4>1 DEF Explains
    <3> QED  BY <3>2 DEF Explained
  <2>8. Excused'
    <3>1. Latest.leader # NoLeader => Latest.leader.dev \in Radios
      BY <1>0 DEF Sense, Typed, Latest, Leading
    <3> QED  BY <1>6, <2>1, <2>2, <2>4, <3>1 DEF Sense, Excused
  <2>9. Standing'
    BY <2>1, <2>2, <2>5 DEF Sense, Standing
  <2> QED  BY <2>3, <2>6, <2>7, <2>8, <2>9 DEF Sense
<1>2. CASE r \in Radios /\ TimePasses(r)
  <2>1. /\ UNCHANGED <<link, profile, flag, lost, reasons, job>> /\ job.phase = "idle"
        /\ Uuid(r) = mem.last[r] /\ link[r].at # "starting"
        /\ mem' = [mem EXCEPT !.moves[r].stage = "old", !.moves[r].previous = None]
    BY <1>2 DEF TimePasses, Others
  <2>2. Latest = mem /\ Latest' = mem' /\ Unspent' = Unspent /\ Wifi' = Wifi
    BY <2>1 DEF Latest, Unspent, Wifi
  <2>3. /\ mem'.fresh = mem.fresh /\ mem'.leader = mem.leader /\ mem'.last = mem.last
        /\ mem'.known = mem.known /\ mem'.parked = mem.parked /\ mem'.appeared = mem.appeared
        /\ mem'.moves[r].target = mem.moves[r].target
        /\ \A s \in Radios : s # r => mem'.moves[s] = mem.moves[s]
    <3>1. PICK n \in Move : n = mem.moves[r]
      BY <1>0, <1>2 DEF Memory
    <3>2. PICK m : m = [n EXCEPT !.stage = "old", !.previous = None]
      OBVIOUS
    <3>3. mem' = [mem EXCEPT !.moves = [mem.moves EXCEPT ![r] = m]]
      BY <1>0, <1>2, <2>1, <3>1, <3>2 DEF Memory, Move
    <3>4. m.target = n.target
      BY <3>2 DEF Move
    <3>5. mem'.moves = [mem.moves EXCEPT ![r] = m]
      BY <1>0, <3>3 DEF Memory
    <3> QED  BY <1>0, <1>2, <3>1, <3>3, <3>4, <3>5 DEF Memory
  <2>4. Resting' /\ Turned' /\ UpsFit' /\ LostSeen'
    BY <2>1, <2>2, <2>3 DEF Sense, Resting, Turned, Followed, UpsFit, LostSeen
  <2>5. AskedOnly' /\ StartsJoined'
    BY <1>2, <2>1, <2>2, <2>3 DEF Sense, AskedOnly, StartsJoined
  <2>6. ASSUME NEW s \in Wifi
        PROVE  Explains(s, link[s].on)'
    <3>0. Explains(s, link[s].on) /\ s \in Radios
      BY DEF Sense, Explained, Wifi
    <3>1. CASE s # r
      BY <2>1, <2>2, <2>3, <3>0, <3>1 DEF Explains
    <3>2. CASE s = r
      <4>1. link[s].on \in {None, mem.last[s]}
        BY <2>1, <3>0, <3>2 DEF Sense, Typed, Linked, Uuid, Wifi, TypeOK, Link
      <4> QED  BY <2>1, <2>2, <2>3, <4>1 DEF Explains
    <3> QED  BY <3>1, <3>2
  <2>7. Explained'
    BY <2>2, <2>6 DEF Explained
  <2>8. Excused' /\ Standing'
    BY <1>6, <2>1, <2>2, <2>3 DEF Sense, Excused, Standing
  <2> QED  BY <2>4, <2>5, <2>7, <2>8 DEF Sense
<1>3. CASE r \in Radios /\ GrownUp(r)
  <2>1. /\ UNCHANGED <<link, profile, flag, lost>> /\ job.phase = "idle"
        /\ mem' = [mem EXCEPT !.appeared = @ \ {r}]
    BY <1>3 DEF GrownUp, nm
  <2>2. PICK cs : cs = {NetOf[p] : p \in {Uuid(r)} \ {None, mem.last[r]}}
    OBVIOUS
  <2>3. Because(cs)
    BY <1>3, <2>2 DEF GrownUp
  <2>4. reasons' = reasons \union cs /\ job'.phase = "idle" /\ job'.todo = job.todo /\ job'.why = job.why \ cs
    BY <1>0, <2>1, <2>3 DEF Because, Job
  <2>5. Latest = mem /\ Latest' = mem' /\ Unspent' = Unspent \union cs /\ Wifi' = Wifi
    BY <2>1, <2>4 DEF Latest, Unspent, Wifi
  <2>6. /\ mem'.fresh = mem.fresh /\ mem'.leader = mem.leader /\ mem'.last = mem.last
        /\ mem'.known = mem.known /\ mem'.parked = mem.parked /\ mem'.moves = mem.moves
        /\ mem'.appeared = mem.appeared \ {r}
    BY <1>0, <2>1 DEF Memory
  <2>7. Resting' /\ Turned' /\ UpsFit' /\ LostSeen'
    BY <2>1, <2>4, <2>5, <2>6 DEF Sense, Resting, Turned, UpsFit, LostSeen
  <2>8. AskedOnly' /\ StartsJoined'
    BY <2>1, <2>5, <2>6 DEF Sense, AskedOnly, StartsJoined
  <2>9. ASSUME NEW s \in Wifi
        PROVE  Explains(s, link[s].on)'
    <3>0. Explains(s, link[s].on) /\ s \in Radios
      BY DEF Sense, Explained, Wifi
    <3>1. CASE s # r
      BY <2>1, <2>5, <2>6, <3>0, <3>1 DEF Explains
    <3>2. CASE s = r /\ link[s].at = "starting"
      <4>1. link[s].on = mem.moves[s].target
        BY <2>5, <3>0, <3>2 DEF Sense, StartsJoined
      <4> QED  BY <2>1, <2>5, <2>6, <4>1 DEF Explains
    <3>3. CASE s = r /\ link[s].at # "starting"
      <4>1. link[s].on = Uuid(s)
        BY <3>0, <3>3 DEF Sense, Typed, Linked, Uuid, Wifi, TypeOK, Link
      <4>2. link[s].on \in {None, mem.last[s]} \/ NetOf[link[s].on] \in cs
        BY <2>2, <3>3, <4>1
      <4> QED  BY <2>1, <2>5, <2>6, <4>2 DEF Explains
    <3> QED  BY <3>1, <3>2, <3>3
  <2>10. Explained'
    BY <2>5, <2>9 DEF Explained
  <2>11. Excused' /\ Standing'
    BY <1>6, <2>1, <2>4, <2>5, <2>6 DEF Sense, Excused, Standing
  <2> QED  BY <2>7, <2>8, <2>10, <2>11 DEF Sense
<1>4. CASE FailsafeEnds
  <2>1. UNCHANGED <<link, profile, flag, lost, reasons, mem, job>>
    BY <1>4 DEF FailsafeEnds, nm
  <2>2. Latest' = Latest /\ Unspent' = Unspent /\ Wifi' = Wifi
    BY <2>1 DEF Latest, Unspent, Wifi
  <2> QED  BY <1>6, <2>1, <2>2 DEF Sense, Resting, AskedOnly, StartsJoined, Explained, Explains, Excused, UpsFit,
                                   Standing, LostSeen, Turned, Followed
<1>5. CASE Failsafe \/ Die
  <2>1. /\ UNCHANGED <<link, profile, flag, lost, reasons>> /\ job.phase = "idle"
        /\ mem' = [mem EXCEPT !.parked = {}] /\ HandsBackLeader /\ (job' = job \/ job' = Rest)
    BY <1>0, <1>5 DEF Failsafe, Die, nm, Job
  <2>2. job'.phase = "idle" /\ job'.todo = job.todo /\ job'.why = job.why
    <3>1. Rest.phase = "idle" /\ Rest.todo = <<>> /\ Rest.why = {}
      BY DEF Rest
    <3>2. job.todo = <<>> /\ job.why = {}
      BY <2>1 DEF Sense, Resting
    <3> QED  BY <2>1, <3>1, <3>2
  <2>3. Latest = mem /\ Latest' = mem' /\ Unspent' = Unspent /\ Wifi' = Wifi
    BY <2>1, <2>2 DEF Latest, Unspent, Wifi
  <2>4. /\ mem'.fresh = mem.fresh /\ mem'.leader = mem.leader /\ mem'.last = mem.last
        /\ mem'.known = mem.known /\ mem'.appeared = mem.appeared /\ mem'.moves = mem.moves
    BY <1>0, <2>1 DEF Memory
  <2>5. Resting' /\ Turned' /\ UpsFit' /\ LostSeen'
    BY <2>1, <2>2, <2>3, <2>4 DEF Sense, Resting, Turned, UpsFit, LostSeen
  <2>6. AskedOnly' /\ StartsJoined' /\ Explained' /\ Standing'
    BY <2>1, <2>3, <2>4 DEF Sense, AskedOnly, StartsJoined, Explained, Explains, Standing
  <2>7. LooksLeft' \/ mem.leader.dev \notin mem.parked
    BY <1>5, <2>1 DEF HandsBackLeader, Failsafe, Die, LooksLeft, NoWish
  <2>8. ~Joins(job.todo, mem.leader.dev)
    BY <2>1 DEF Sense, Resting, Joins
  <2>9. Excused'
    BY <1>6, <2>1, <2>3, <2>4, <2>7, <2>8 DEF Sense, Excused
  <2> QED  BY <2>5, <2>6, <2>9 DEF Sense
<1> QED  BY <1>1, <1>2, <1>3, <1>4, <1>5

-----------------------------------------------------------------------------
(* The promise: the commands. *)

LEMMA RanSense ==
  ASSUME Sense, NEW op, Runs(op), Ran
  PROVE  /\ Latest = job.next /\ Latest' = Latest /\ Unspent' = Unspent
         /\ job'.todo = Tail(job.todo) /\ job.todo \in Seq(Command) /\ job.todo # <<>>
         /\ UNCHANGED <<flag, lost, mem, reasons>>
         /\ Resting' /\ Turned' /\ LostSeen'
<1>1. /\ job'.phase = "acting" /\ job'.next = job.next /\ job'.why = job.why
      /\ job'.todo = Tail(job.todo) /\ job.phase = "acting" /\ job.todo # <<>>
      /\ UNCHANGED <<flag, lost, mem, reasons>>
  BY RanIs, RunsCommand DEF Sense
<1>2. job.todo \in Seq(Command)
  BY DEF Sense, Typed, TypeOK, Job
<1> QED  BY <1>1, <1>2 DEF Sense, Latest, Unspent, Resting, Turned, Followed, LostSeen

\* A join that has still to run, after a command that is none, or another's.
LEMMA StillJoins ==
  ASSUME NEW todo \in Seq(Command), todo # <<>>, NEW r, Joins(todo, r),
         todo[1].op # "up" \/ todo[1].radios # {r}
  PROVE  Joins(Tail(todo), r)
<1>1. PICK i \in 1 .. Len(todo) : todo[i].op = "up" /\ todo[i].radios = {r}
  BY DEF Joins
<1>2. i # 1 /\ Len(todo) \in Nat /\ Len(Tail(todo)) = Len(todo) - 1
  BY <1>1
<1>3. i - 1 \in 1 .. Len(Tail(todo)) /\ Tail(todo)[i - 1] = todo[i]
  BY <1>1, <1>2
<1> QED  BY <1>1, <1>3 DEF Joins

LEMMA UpsFitTail ==
  ASSUME Sense, NEW op, Runs(op), Ran,
         \A p \in Profiles : /\ profile[p].bound = None => profile'[p].bound = None
                             /\ profile'[p].saved = profile[p].saved
  PROVE  UpsFit'
<1>1. /\ Latest = job.next /\ Latest' = Latest /\ Unspent' = Unspent
      /\ job'.todo = Tail(job.todo) /\ job.todo \in Seq(Command) /\ job.todo # <<>>
  BY RanSense
<1>2. PICK todo \in Seq(Command) : todo = job.todo
  BY <1>1
<1>3. PICK rest : rest = Tail(todo)
  OBVIOUS
<1>4. /\ Len(rest) = Len(todo) - 1 /\ Len(todo) \in Nat
      /\ \A i \in 1 .. Len(rest) : rest[i] = todo[i + 1] /\ i + 1 \in 1 .. Len(todo)
  BY <1>1, <1>2, <1>3
<1>5. ASSUME NEW i \in 1 .. Len(rest), rest[i].op = "up"
      PROVE  /\ profile'[Latest.leader.on].bound = None
             /\ profile'[Latest.leader.on].saved \/ None \in Unspent
  <2>1. i + 1 \in 1 .. Len(job.todo) /\ job.todo[i + 1].op = "up"
    BY <1>2, <1>4, <1>5
  <2>2. /\ profile[Latest.leader.on].bound = None
        /\ profile[Latest.leader.on].saved \/ None \in Unspent
    BY <2>1 DEF Sense, UpsFit
  <2>3. Latest.leader # NoLeader /\ Leading(Latest.leader)
    BY <1>1, <2>1, RunsCommand DEF Sense, PlanShape
  <2> QED  BY <2>2, <2>3 DEF Leading
<1> QED  BY <1>1, <1>2, <1>3, <1>5 DEF UpsFit

\* What remains to be seen of a command: the radios, the excuse and the profiles.
LEMMA CommandSense ==
  ASSUME Sense, Typed', NEW op, Runs(op), Ran,
         \A r \in Radios : /\ link'[r] = link[r] \/ Rested(r) \/ Begun(r)
                           /\ link'[r].at \in {"none", "gone"} <=> link[r].at \in {"none", "gone"},
         \A r \in Radios : r = Latest.leader.dev /\ Latest.leader # NoLeader =>
           \/ ~link'[r].asked \/ None \in Unspent \/ r \in Latest.parked \/ Joins(Tail(job.todo), r)
           \/ link'[r] = link[r] /\ (op # "up" \/ job.todo[1].radios # {r}),
         \A p \in Profiles : /\ profile[p].bound = None => profile'[p].bound = None
                             /\ profile'[p].saved = profile[p].saved
  PROVE  Sense'
<1>1. /\ Latest = job.next /\ Latest' = Latest /\ Unspent' = Unspent
      /\ job'.todo = Tail(job.todo) /\ job.todo \in Seq(Command) /\ job.todo # <<>>
      /\ UNCHANGED <<flag, lost, mem, reasons>>
      /\ Resting' /\ Turned' /\ LostSeen'
  BY RanSense
<1>2. AskedOnly' /\ StartsJoined' /\ Explained'
  BY <1>1, LinksExplained
<1>3. Standing'
  BY <1>1, AsManyRadios
<1>4. UpsFit'
  BY UpsFitTail
<1>5. job.todo[1].op = op /\ Leading(Latest.leader)
  BY <1>1, RunsCommand DEF Sense
<1>6. Excused'
  <2> SUFFICES ASSUME NEW r \in Radios, r = Latest.leader.dev, Latest.leader # NoLeader, link'[r].asked
               PROVE  LooksLeft \/ r \in Latest.parked \/ None \in Unspent \/ Joins(Tail(job.todo), r)
    <3>1. wish' = wish
      BY DEF Runs
    <3> QED  BY <1>1, <1>5, <3>1 DEF Excused, Leading, LooksLeft
  <2>1. CASE link'[r] = link[r] /\ (op # "up" \/ job.todo[1].radios # {r})
    <3>1. LooksLeft \/ r \in Latest.parked \/ None \in Unspent \/ Joins(job.todo, r)
      BY <2>1 DEF Sense, Excused
    <3>2. Joins(job.todo, r) => Joins(Tail(job.todo), r)
      BY <1>1, <1>5, <2>1, StillJoins
    <3> QED  BY <3>1, <3>2
  <2> QED  BY <2>1
<1> QED  BY <1>1, <1>2, <1>3, <1>4, <1>6 DEF Sense

\* Radios that a command switches off.
LEMMA SwitchedOff ==
  ASSUME Sense, NEW rs \in SUBSET Wifi, link' = Dropping(rs, TRUE)
  PROVE  \A r \in Radios : /\ link'[r] = link[r] \/ (r \in rs /\ Rested(r))
                           /\ link'[r].at \in {"none", "gone"} <=> link[r].at \in {"none", "gone"}
<1>1. PICK f : f = Dropping(rs, TRUE)
  OBVIOUS
<1>2. \A r \in Radios : /\ f[r] = link[r] \/ (r \in rs /\ f[r] = Idle(TRUE))
                        /\ f[r].at \in {"none", "gone"} <=> link[r].at \in {"none", "gone"}
  BY <1>1 DEF Dropping, Wifi, Idle
<1>3. ASSUME NEW r \in Radios, link'[r] = Idle(TRUE)
      PROVE  Rested(r)
  <2>1. Idle(TRUE).on = None /\ Idle(TRUE).at = "idle"
    BY DEF Idle
  <2> QED  BY <1>3, <2>1 DEF Rested
<1>4. link' = f
  BY <1>1
<1> QED  BY <1>2, <1>3, <1>4

LEMMA NmcliSense ==
  ASSUME Sense, Typed', Faults \intersect {"crash_mid_poll", "stays_off"} = {}, Nmcli
  PROVE  Sense'
<1>0. TypeOK /\ link \in [Radios -> Link] /\ profile \in [Profiles -> Profile]
  BY DEF Sense, Typed, TypeOK
<1>1. CASE Multi
  <2>1. Runs("multi") /\ Ran /\ link' = link
    BY <1>1 DEF Multi
  <2>2. \A p \in Profiles : profile'[p].bound = profile[p].bound /\ profile'[p].saved = profile[p].saved
    BY <1>0, <1>1 DEF Multi, Profile
  <2> QED  BY <2>1, <2>2, CommandSense
<1>2. CASE Unbind
  <2>1. Runs("unbind") /\ Ran /\ link' = link
    BY <1>2 DEF Unbind
  <2>2. \A p \in Profiles : profile'[p].bound \in {None, profile[p].bound} /\ profile'[p].saved = profile[p].saved
    BY <1>0, <1>2 DEF Unbind, Profile
  <2> QED  BY <2>1, <2>2, CommandSense
<1>3. CASE Down
  <2>1. Runs("down") /\ Ran /\ profile' = profile
    BY <1>3 DEF Down
  <2>2. PICK rs \in SUBSET TheseRadios : link' = Dropping(rs, TRUE)
    BY <1>3 DEF Down
  <2>3. rs \in SUBSET Wifi /\ link' = Dropping(rs, TRUE)
    BY <2>2 DEF TheseRadios
  <2>4. Latest.leader = NoLeader
    BY <2>1, RanSense, RunsCommand DEF Sense, PlanShape
  <2> QED  BY <2>1, <2>3, <2>4, SwitchedOff, CommandSense
<1>4. CASE Disconnect("park")
  <2>0. PICK rs \in SUBSET TheseRadios : link' = Dropping(rs, TRUE)
    BY <1>4 DEF Disconnect
  <2>1. Runs("park") /\ Ran /\ profile' = profile
    BY <1>4 DEF Disconnect
  <2>2. rs \in SUBSET Wifi
    BY <2>0 DEF TheseRadios
  <2>3. TheseRadios \subseteq Latest.parked
    BY <2>1, RanSense, RunsCommand DEF Sense, PlanShape, TheseRadios
  <2>4. \A r \in Radios : /\ link'[r] = link[r] \/ (r \in rs /\ Rested(r))
                          /\ link'[r].at \in {"none", "gone"} <=> link[r].at \in {"none", "gone"}
    BY <2>0, <2>2, SwitchedOff
  <2> QED  BY <2>0, <2>1, <2>3, <2>4, CommandSense
<1>5. CASE Disconnect("move")
  <2>0. PICK rs \in SUBSET TheseRadios : link' = Dropping(rs, TRUE)
    BY <1>5 DEF Disconnect
  <2>1. Runs("move") /\ Ran /\ profile' = profile
    BY <1>5 DEF Disconnect
  <2>2. rs \in SUBSET Wifi
    BY <2>0 DEF TheseRadios
  <2>3. PICK todo \in Seq(Command) : todo = job.todo
    BY <2>1, RanSense
  <2>4. /\ todo # <<>> /\ todo[1].op = "move" /\ TheseRadios \subseteq todo[1].radios
        /\ PlanShape(todo, Latest) /\ 1 \in 1 .. Len(todo)
    BY <2>1, <2>3, RanSense, RunsCommand DEF Sense, TheseRadios
  <2>5. PICK j \in 2 .. Len(todo) : todo[j].op = "up" /\ todo[j].radios = todo[1].radios
    BY <2>4 DEF PlanShape
  <2>6. PICK r \in Radios : todo[j].radios = {r}
    BY <2>4, <2>5 DEF PlanShape
  <2>7. Joins(todo, r)
    BY <2>5, <2>6 DEF Joins
  <2>8. Joins(Tail(job.todo), r)
    BY <2>3, <2>4, <2>7, StillJoins
  <2>9. \A s \in TheseRadios : s = r
    BY <2>4, <2>5, <2>6
  <2>10. ASSUME NEW s \in Radios
         PROVE  /\ link'[s] = link[s] \/ (s = r /\ Rested(s))
                /\ link'[s].at \in {"none", "gone"} <=> link[s].at \in {"none", "gone"}
    BY <2>0, <2>2, <2>9, SwitchedOff
  <2>11. ASSUME NEW s \in Radios
         PROVE  Joins(Tail(job.todo), s) \/ link'[s] = link[s]
    BY <2>8, <2>10
  <2> QED  BY <2>1, <2>10, <2>11, CommandSense
<1>6. CASE Activate
  <2>1. Runs("up") /\ Ran
    BY <1>6 DEF Activate
  <2>2. /\ Latest = job.next /\ Latest' = Latest /\ job.todo \in Seq(Command) /\ 1 \in 1 .. Len(job.todo)
        /\ TheseProfiles = job.todo[1].profiles /\ TheseRadios = job.todo[1].radios \intersect Wifi
        /\ job.todo[1].op = "up" /\ PlanShape(job.todo, job.next) /\ Leading(job.next.leader)
    BY <2>1, RanSense, RunsCommand DEF Sense, TheseRadios, TheseProfiles
  <2>3. PICK r \in Radios : /\ job.todo[1].radios = {r}
                            /\ Latest.moves[r].target = Latest.leader.on /\ InFlight(Latest.moves[r])
    BY <2>2 DEF PlanShape
  <2>4. PICK p : p = Latest.leader.on
    OBVIOUS
  <2>5. TheseProfiles = {p} /\ p \in Profiles
    BY <2>2, <2>4 DEF PlanShape, Leading
  <2>6. /\ \E pinned \in {FALSE, "pin_left" \in Faults /\ profile[p].saved} :
             profile' = [profile EXCEPT ![p].pinned = pinned]
        /\ IF \A s \in TheseRadios : ~Fits(s, p) THEN UNCHANGED link
           ELSE \E s \in TheseRadios :
                  link' \in {Activation(s, p, On("busy", p))}
                    \union (IF Off(s) \/ ~link[s].asked
                            THEN {link, Activation(s, p, [at |-> "starting", on |-> p, asked |-> link[s].asked])}
                            ELSE {})
    BY <1>6, <2>5 DEF Activate
  <2>7. \A q \in Profiles : profile'[q].bound = profile[q].bound /\ profile'[q].saved = profile[q].saved
    <3>1. PICK pinned : profile' = [profile EXCEPT ![p].pinned = pinned]
      BY <2>6
    <3> QED  BY <1>0, <3>1 DEF Profile
  <2>8. profile[p].bound = None /\ (profile[p].saved \/ None \in Unspent)
    BY <2>2, <2>4 DEF Sense, UpsFit
  <2>9. ~Off(r)
    BY DEF Off
  <2>10. CASE \A s \in TheseRadios : ~Fits(s, p)
    <3>1. link' = link
      BY <2>6, <2>10
    <3>2. r \in Wifi => None \in Unspent
      BY <2>2, <2>3, <2>8, <2>10 DEF Fits
    <3>3. r \notin Wifi => ~link[r].asked
      BY DEF Sense, AskedOnly, Wifi
    <3> QED  BY <2>1, <2>3, <2>7, <3>1, <3>2, <3>3, CommandSense
  <2>12. CASE link' = link /\ ~link[r].asked
    <3>1. job.todo[1].radios # {Latest.leader.dev} \/ Latest.leader.dev = r
      BY <2>3
    <3> QED  BY <2>1, <2>3, <2>7, <2>12, <3>1, CommandSense
  <2>11. CASE ~(\A s \in TheseRadios : ~Fits(s, p)) /\ ~(link' = link /\ ~link[r].asked)
    <3>1. r \in Wifi /\ \/ link' = Activation(r, p, On("busy", p))
                        \/ /\ ~link[r].asked
                           /\ link' = Activation(r, p, [at |-> "starting", on |-> p, asked |-> link[r].asked])
      BY <2>2, <2>3, <2>6, <2>9, <2>11
    <3>2. link[r].asked \in BOOLEAN
      BY <1>0 DEF Link
    <3>3. PICK l : /\ l.at \in {"busy", "starting"} /\ l.on = p /\ ~l.asked
                   /\ link' = Activation(r, p, l)
      <4>1. CASE link' = Activation(r, p, On("busy", p))
        <5>1. On("busy", p).at = "busy" /\ On("busy", p).on = p /\ ~On("busy", p).asked
          BY DEF On
        <5> QED  BY <4>1, <5>1
      <4>2. CASE ~link[r].asked /\ link' = Activation(r, p, [at |-> "starting", on |-> p, asked |-> link[r].asked])
        <5>1. PICK l : l = [at |-> "starting", on |-> p, asked |-> link[r].asked]
          OBVIOUS
        <5>2. l.at = "starting" /\ l.on = p /\ ~l.asked
          BY <4>2, <5>1
        <5> QED  BY <4>2, <5>1, <5>2
      <4> QED  BY <3>1, <4>1, <4>2
    <3>4. Activates(link', r, l)
      <4>1. Activates(Activation(r, p, l), r, l)
        BY <3>1, <3>3, ActivatedLinks
      <4> QED  BY <3>3, <4>1
    <3>5. Begun(r) /\ ~link'[r].asked
      BY <2>2, <2>3, <2>4, <3>3, <3>4 DEF Activates, Begun
    <3>6. ASSUME NEW s \in Radios, s # r
          PROVE  link'[s] = link[s] \/ (Rested(s) /\ ~link'[s].asked)
      BY <3>4, <3>6, IdleRests DEF Activates, Idle
    <3>7. job.todo[1].radios # {Latest.leader.dev} \/ Latest.leader.dev = r
      BY <2>3
    <3> QED  BY <2>1, <2>3, <2>7, <3>4, <3>5, <3>6, CommandSense DEF Activates
  <2> QED  BY <2>10, <2>11, <2>12
<1>7. CASE Restore
  <2>1. PICK kept \in SUBSET {p \in TheseProfiles : profile[p].saved} :
          job' = [job EXCEPT !.todo = Tail(@), !.next = Keep(kept)]
    BY <1>7 DEF Restore
  <2>2. Runs("restore") /\ link' = link
    BY <1>7 DEF Restore
  <2>3. /\ job.phase = "acting" /\ job.next = Forgotten(TheseProfiles) /\ Len(job.todo) = 1
        /\ UNCHANGED <<flag, lost, mem, reasons>>
    BY <2>2, RunsCommand DEF Sense, PlanShape, TheseProfiles
  <2>4. job'.phase = "acting" /\ job'.todo = Tail(job.todo) /\ job'.next = Keep(kept) /\ job'.why = job.why
    BY <2>1, <2>3 DEF Sense, Typed, TypeOK, Job
  <2>5. Len(job'.todo) = 0
    <3>1. job.todo \in Seq(Command)
      BY DEF Sense, Typed, TypeOK, Job
    <3> QED  BY <2>3, <2>4, <3>1
  <2>6. /\ Latest = job.next /\ Latest' = job'.next /\ Unspent' = Unspent /\ Wifi' = Wifi
    BY <2>2, <2>3, <2>4 DEF Latest, Unspent, Wifi
  <2>7. \A ps : /\ Forgotten(ps).fresh /\ Forgotten(ps).leader = NoLeader
                /\ \A r \in Radios : Forgotten(ps).moves[r] = Still
    BY DEF Forgotten
  <2>8. Resting' /\ LostSeen' /\ UpsFit' /\ AskedOnly'
    BY <2>2, <2>3, <2>4, <2>5 DEF Sense, Resting, LostSeen, UpsFit, AskedOnly
  <2>9. Turned'
    BY <2>3, <2>4, <2>7 DEF Sense, Turned, Followed, NetBy, Keep
  <2>10. \A r \in Radios : link[r].at # "starting"
    BY <2>3, <2>6, <2>7 DEF Sense, StartsJoined, InFlight, Still
  <2>11. StartsJoined' /\ Explained' /\ Excused' /\ Standing'
    BY <2>2, <2>4, <2>6, <2>7, <2>10 DEF StartsJoined, Explained, Explains, Excused, Standing, Keep
  <2> QED  BY <2>8, <2>9, <2>11 DEF Sense
<1> QED  BY <1>1, <1>2, <1>3, <1>4, <1>5, <1>6, <1>7 DEF Nmcli

-----------------------------------------------------------------------------
(* The promise: a poll's plan. *)

\* Whoever is activated has a reason no poll has reviewed.
LEMMA ActivatedHasReason ==
  ASSUME Sense, job.phase = "idle", NEW r \in Activated
  PROVE  /\ Uuid(r) # None /\ Uuid(r) = link[r].on /\ r \in Wifi
         /\ link[r].at \in {"busy", "up"} /\ NetOf[Uuid(r)] \in reasons
<1>1. /\ r \in Wifi /\ r \in mem.known /\ ~mem.fresh /\ Uuid(r) # None /\ Uuid(r) # mem.last[r]
      /\ ~Fallback(r) /\ ~Ours(r) /\ r \notin mem.appeared
  BY DEF Activated, Changed, Appeared
<1>2. Latest = mem /\ Unspent = reasons
  BY DEF Sense, Resting, Latest, Unspent
<1>3. Uuid(r) = link[r].on /\ link[r].at \in {"busy", "up"}
  BY <1>1 DEF Uuid
<1>4. Explains(r, link[r].on)
  BY <1>1 DEF Sense, Explained
<1> QED  BY <1>1, <1>2, <1>3, <1>4 DEF Explains, Fallback, Ours

LEMMA WhoLeads ==
  ASSUME NEW l \in Leaders
  PROVE  \/ Choosers # {} /\ \E r \in Activated : l = LeaderOn(r)
         \/ Choosers = {} /\ mem.leader # NoLeader /\ l = mem.leader
         \/ mem.leader = NoLeader /\ (l = NoLeader \/ \E r \in Up : l = LeaderOn(r))
<1>1. Choosers \subseteq Activated
  BY DEF Choosers
<1> QED  BY <1>1 DEF Leaders

LEMMA PollTurns ==
  ASSUME Sense, Poll, NEW todo, NEW next, NEW l \in Leaders, Planned(todo, next), Polled(l, todo, next)
  PROVE  "parked_released" \in Faults \/ Followed = None \/ NetBy(next.leader) \in {Followed} \union reasons
<1>0. job.phase = "idle" /\ Latest = mem /\ Unspent = reasons
  BY DEF Poll, Sense, Resting, Latest, Unspent
<1>1. next.leader = NoLeader \/ next.leader.on = l.on
  BY DEF Polled, Follows
<1>2. CASE Choosers # {} /\ \E r \in Activated : l = LeaderOn(r)
  <2>1. PICK r \in Activated : l = LeaderOn(r)
    BY <1>2
  <2>2. l.on = Uuid(r) /\ l.dev = r /\ Uuid(r) # None /\ NetOf[l.on] \in reasons
    BY <1>0, <2>1, ActivatedHasReason DEF LeaderOn
  <2>3. ~UserLeft(l) /\ l # NoLeader
    BY <2>2 DEF UserLeft, NoLeader
  <2>4. next.leader # NoLeader
    BY <1>2, <2>3 DEF Polled, Follows
  <2> QED  BY <1>1, <2>2, <2>4 DEF NetBy
<1>3. CASE Choosers = {} /\ mem.leader # NoLeader /\ l = mem.leader
  <2>1. CASE next.leader # NoLeader
    BY <1>1, <1>3, <2>1 DEF NetBy, Followed
  <2>2. CASE next.leader = NoLeader
    <3>1. CASE UserLeft(l)
      <4>1. /\ l.dev \in Wifi /\ l.dev \notin mem.parked /\ link[l.dev].asked
        BY <3>1 DEF UserLeft
      <4>2. ~Joins(job.todo, l.dev)
        BY <1>0 DEF Sense, Resting, Joins
      <4>3. "parked_released" \in Faults \/ None \in reasons
        BY <1>0, <1>3, <4>1, <4>2 DEF Sense, Excused, LooksLeft
      <4> QED  BY <2>2, <4>3 DEF NetBy
    <3>2. CASE ~UserLeft(l)
      <4>1. lost
        BY <1>3, <2>2, <3>2 DEF Polled, Follows
      <4>2. None \in reasons
        BY <1>0, <1>3, <4>1 DEF Sense, LostSeen
      <4> QED  BY <2>2, <4>2 DEF NetBy
    <3> QED  BY <3>1, <3>2
  <2> QED  BY <2>1, <2>2
<1>4. CASE mem.leader = NoLeader
  BY <1>4 DEF Followed
<1> QED  BY <1>2, <1>3, <1>4, WhoLeads

LEMMA PollExcuses ==
  ASSUME Sense, Poll, NEW todo, NEW next, NEW l \in Leaders, Planned(todo, next), Polled(l, todo, next),
         next.leader # NoLeader, link[next.leader.dev].asked
  PROVE  next.leader.dev \in next.parked \/ Joins(todo, next.leader.dev)
<1>0. job.phase = "idle" /\ Latest = mem /\ Unspent = reasons
  BY DEF Poll, Sense, Resting, Latest, Unspent
<1>1. \A r \in Radios : link[r].at \in {"up", "busy"} => ~link[r].asked
  BY DEF Sense, AskedOnly
<1>2. next.leader.dev \notin Up
  BY <1>1 DEF Up
<1>3. /\ ~UserLeft(l) /\ next.leader.dev = l.dev /\ l # NoLeader
      /\ \A r \in mem.parked \intersect Wifi : r \in next.parked \/ Joins(todo, r)
  BY <1>2 DEF Polled, Follows
<1>4. \A r : LeaderOn(r).dev = r
  BY DEF LeaderOn
<1>5. l = mem.leader
  <2>1. ASSUME NEW r \in Activated, l = LeaderOn(r) PROVE FALSE
    <3>1. r \in Radios /\ link[r].at \in {"busy", "up"} /\ l.dev = r
      BY <1>0, <1>4, <2>1, ActivatedHasReason DEF Wifi
    <3> QED  BY <1>1, <1>3, <3>1
  <2>2. ASSUME NEW r \in Up, l = LeaderOn(r) PROVE FALSE
    BY <1>2, <1>3, <1>4, <2>2
  <2> QED  BY <1>3, <2>1, <2>2, WhoLeads
<1>6. l.dev \in Radios /\ l.on # None
  BY <1>3, <1>5, Nothing DEF Sense, Typed, Leading
<1>7. link[l.dev].at \in {"idle", "starting"}
  BY <1>3, <1>6 DEF Sense, AskedOnly
<1>8. l.dev \in Wifi /\ Disconnected(l.dev) /\ Uuid(l.dev) # l.on
  BY <1>6, <1>7 DEF Wifi, Disconnected, Uuid
<1>9. l.dev \in mem.parked
  BY <1>3, <1>8 DEF UserLeft
<1> QED  BY <1>3, <1>8, <1>9

LEMMA PollSense ==
  ASSUME Sense, Typed', Poll
  PROVE  Sense'
<1>1. PICK todo, next, l : /\ Plan(todo, next) /\ Planned(todo, next)
                           /\ l \in Leaders /\ Polled(l, todo, next)
  BY PollPlans DEF Sense, Typed
<1>2. /\ job.phase = "idle" /\ job' = [phase |-> "acting", todo |-> todo, next |-> next, why |-> reasons]
      /\ UNCHANGED <<link, profile, flag, lost, mem, reasons>>
      /\ flag /\ Cardinality(Wifi) >= 2
  BY <1>1 DEF Poll, Plan, nm, InCharge
<1>3. job'.phase = "acting" /\ job'.todo = todo /\ job'.next = next /\ job'.why = reasons
  BY <1>2
<1>4. Latest = mem /\ Latest' = next /\ Unspent' = {} /\ Wifi' = Wifi
  BY <1>2, <1>3 DEF Latest, Unspent, Wifi
<1>5. Resting' /\ LostSeen' /\ AskedOnly' /\ UpsFit'
  BY <1>1, <1>2, <1>3, <1>4 DEF Sense, Resting, LostSeen, AskedOnly, UpsFit, Planned
<1>6. Turned'
  <2>1. "parked_released" \in Faults \/ Followed = None \/ NetBy(next.leader) \in {Followed} \union reasons
    BY <1>1, PollTurns
  <2> QED  BY <1>2, <1>3, <2>1 DEF Turned, Followed
<1>7. Excused'
  <2>1. next.leader # NoLeader /\ link[next.leader.dev].asked =>
          next.leader.dev \in next.parked \/ Joins(todo, next.leader.dev)
    BY <1>1, PollExcuses
  <2> QED  BY <1>2, <1>3, <1>4, <2>1 DEF Excused
<1>8. Standing'
  <2>1. ~(Cardinality(Wifi) < 2)
    BY <1>2, WifiFinite
  <2> QED  BY <1>2, <1>4, <2>1 DEF Standing
<1>9. StartsJoined'
  BY <1>1, <1>2, <1>4 DEF Sense, StartsJoined, Planned
<1>10. Explained'
  <2>1. ASSUME NEW r \in Wifi
        PROVE  link[r].on \in {None, next.last[r], next.moves[r].target}
    <3>0. r \in Radios
      BY DEF Wifi
    <3>1. CASE link[r].at = "starting"
      <4>1. next.moves[r].target = link[r].on
        BY <1>2, <1>4, <1>9, <3>0, <3>1 DEF StartsJoined
      <4> QED  BY <4>1
    <3>2. CASE link[r].at # "starting"
      <4>1. link[r].on = Uuid(r)
        BY <3>0, <3>2 DEF Sense, Typed, Linked, Uuid, Wifi, TypeOK, Link
      <4>2. next.last[r] = Uuid(r)
        BY <1>1, <3>0 DEF Planned
      <4> QED  BY <4>1, <4>2
    <3> QED  BY <3>1, <3>2
  <2> QED  BY <1>2, <1>4, <2>1 DEF Explained, Explains
<1> QED  BY <1>5, <1>6, <1>7, <1>8, <1>9, <1>10 DEF Sense

LEMMA StandDownSense ==
  ASSUME Sense, Typed', StandDown
  PROVE  Sense'
<1>1. /\ job.phase = "idle" /\ (~flag \/ Cardinality(Wifi) < 2)
      /\ \A r \in Radios : link[r].at # "starting"
      /\ UNCHANGED <<link, profile, flag, lost, mem, reasons>>
      /\ job'.phase = "acting" /\ job'.next = Forgotten(mem.modified) /\ job'.why = reasons
      /\ job'.todo = IF mem.modified = {} THEN <<>> ELSE <<Cmd("restore", {}, mem.modified)>>
  BY DEF StandDown, nm, Keep
<1>2. Latest = mem /\ Unspent = reasons /\ Latest' = Forgotten(mem.modified) /\ Wifi' = Wifi
  BY <1>1 DEF Sense, Resting, Latest, Unspent, Wifi
<1>3. Latest'.fresh /\ Latest'.leader = NoLeader
  BY <1>2 DEF Forgotten
<1>4. Resting' /\ LostSeen' /\ AskedOnly' /\ StartsJoined' /\ Explained' /\ Excused' /\ Standing'
  BY <1>1, <1>2, <1>3 DEF Sense, Resting, LostSeen, AskedOnly, StartsJoined, Explained, Explains, Excused,
                          Standing
<1>5. \A i \in 1 .. Len(job'.todo) : job'.todo[i].op # "up"
  BY <1>1 DEF Cmd
<1>6. UpsFit'
  BY <1>5 DEF UpsFit
<1>7. Turned'
  <2>1. Followed = None \/ None \in reasons
    BY <1>1, <1>2 DEF Sense, Standing, Followed
  <2>2. NetBy(job'.next.leader) = None
    BY <1>1, <1>2, <1>3 DEF NetBy
  <2> QED  BY <1>1, <2>1, <2>2 DEF Turned, Followed, NetBy
<1> QED  BY <1>4, <1>6, <1>7 DEF Sense

LEMMA SaveSense ==
  ASSUME Sense, Typed', Save
  PROVE  Sense'
<1>1. /\ job.phase = "acting" /\ job.todo = <<>> /\ mem' = job.next /\ job' = Rest
      /\ reasons' = reasons \ job.why /\ lost' = FALSE /\ UNCHANGED <<link, profile, flag>>
  BY DEF Save, nm
<1>2. Rest.phase = "idle" /\ Rest.todo = <<>> /\ Rest.why = {}
  BY DEF Rest
<1>3. Latest' = Latest /\ Unspent' = Unspent /\ Wifi' = Wifi /\ job'.todo = job.todo
  BY <1>1, <1>2 DEF Latest, Unspent, Wifi
<1>4. Resting' /\ LostSeen' /\ Turned' /\ AskedOnly' /\ StartsJoined' /\ Standing' /\ UpsFit'
  BY <1>1, <1>2, <1>3 DEF Sense, Resting, LostSeen, Turned, AskedOnly, StartsJoined, Standing, UpsFit
<1>5. LooksLeft => LooksLeft'
  <2>1. wish'.kind = wish.kind
    BY DEF Save, Sense, Typed, TypeOK, Wish
  <2> QED  BY <2>1 DEF LooksLeft
<1>6. Explained' /\ Excused'
  BY <1>1, <1>3, <1>5 DEF Sense, Explained, Explains, Excused
<1> QED  BY <1>4, <1>6 DEF Sense

LEMMA InitSense ==
  ASSUME Init
  PROVE  Sense
<1>1. mem = Forgotten({}) /\ job = Rest /\ flag = TRUE /\ lost = FALSE /\ reasons = {}
  BY DEF Init
<1>2. job.phase = "idle" /\ job.todo = <<>> /\ job.why = {} /\ Latest = mem
  BY <1>1 DEF Rest, Latest
<1>3. mem.fresh /\ mem.leader = NoLeader
  BY <1>1 DEF Forgotten
<1>4. \A r \in Radios : ~link[r].asked /\ link[r].at # "starting"
  <2>1. PICK here, up, out \in SUBSET Radios, p \in Profiles \ Bound :
          /\ <<Cardinality(here), left>> \in Scenes
          /\ up \union out \subseteq here /\ up \intersect out = {}
          /\ Cardinality(up) <= 1 /\ Cardinality(out) <= 1
          /\ link = [r \in Radios |-> IF r \notin here THEN [Away EXCEPT !.at = "none"]
                                      ELSE IF r \in up THEN On("up", p)
                                      ELSE IF r \in out THEN Away ELSE Idle(FALSE)]
    BY Zenon DEF Init
  <2>2. PICK away \in Link : away = Away
    BY LinkTypes
  <2>3. away.asked = FALSE
    BY <2>2 DEF Away
  <2>4. LET none == [away EXCEPT !.at = "none"] IN none.asked = FALSE /\ none.at = "none"
    BY <2>3 DEF Link
  <2>5. /\ Away.asked = FALSE /\ Away.at = "gone" /\ On("up", p).asked = FALSE /\ On("up", p).at = "up"
        /\ Idle(FALSE).asked = FALSE /\ Idle(FALSE).at = "idle"
    BY DEF Away, On, Idle
  <2> QED  BY <2>1, <2>2, <2>4, <2>5
<1>5. AskedOnly /\ StartsJoined
  BY <1>4 DEF AskedOnly, StartsJoined
<1> QED  BY <1>1, <1>2, <1>3, <1>5, InitTyped DEF Sense, Resting, Explained, Explains, Excused, UpsFit, Standing,
                                                  LostSeen, Turned

LEMMA SenseStep ==
  ASSUME Sense, [Next]_vars, Faults \intersect {"crash_mid_poll", "stays_off"} = {}
  PROVE  Sense'
<1>0. Typed'
  BY TypedStep DEF Sense
<1>1. CASE Daemon
  BY <1>0, <1>1, PollSense, StandDownSense, NmcliSense, SaveSense DEF Daemon
<1>2. CASE Environment
  BY <1>0, <1>2, UserSense, AirSense, ProgressSense DEF Environment
<1>3. CASE UNCHANGED vars
  <2>1. UNCHANGED <<link, profile, flag, lost, mem, job, reasons, wish>>
    BY <1>3 DEF vars
  <2>2. Latest' = Latest /\ Unspent' = Unspent /\ Wifi' = Wifi /\ LooksLeft' = LooksLeft
    BY <2>1 DEF Latest, Unspent, Wifi, LooksLeft
  <2> QED  BY <1>0, <2>1, <2>2 DEF Sense, Resting, AskedOnly, StartsJoined, Explained, Explains, Excused, UpsFit, Standing,
                                   LostSeen, Turned, Followed
<1> QED  BY <1>1, <1>2, <1>3 DEF Next

-----------------------------------------------------------------------------
(* The promise: every step keeps it. *)

\* A step that gives at most one reason.
LEMMA ReasonGiven ==
  ASSUME NEW cs, cs = {} \/ \E c \in Nets \union {None} : cs = {c},
         reasons' = reasons \union cs, Followed' = Followed
  PROVE  Kept!Reason \/ UNCHANGED <<Followed, reasons>>
<1>1. CASE cs = {}
  BY <1>1
<1>2. ASSUME NEW c \in Nets \union {None}, cs = {c}
      PROVE  Kept!Reason
  BY <1>2 DEF Kept!Reason
<1> QED  BY <1>1, <1>2

LEMMA PromiseStep ==
  ASSUME Sense, [Next]_vars, "parked_released" \notin Faults
  PROVE  Kept!PromiseNext \/ UNCHANGED <<Followed, reasons>>
<1>0. TypeOK /\ mem \in Memory /\ job \in Job
  BY DEF Sense, Typed, TypeOK
<1>1. CASE Save
  <2>1. job.phase = "acting" /\ mem' = job.next /\ reasons' \subseteq reasons
    BY <1>1 DEF Save
  <2>2. Followed' = NetBy(job.next.leader)
    BY <2>1 DEF Followed, NetBy
  <2>3. NetBy(job.next.leader) \in Nets \union {None}
    BY <2>1, Nothing DEF Sense, Typed, Leading, NetBy
  <2>4. Followed = None \/ NetBy(job.next.leader) \in {Followed} \union reasons
    BY <2>1 DEF Sense, Turned
  <2>5. Kept!Review
    BY <2>1, <2>2, <2>3, <2>4 DEF Kept!Review
  <2> QED  BY <2>5 DEF Kept!PromiseNext
<1>2. ASSUME NEW cs, cs = {} \/ \E c \in Nets \union {None} : cs = {c}, Brings(cs)
      PROVE  Kept!PromiseNext \/ UNCHANGED <<Followed, reasons>>
  <2>1. reasons' = reasons \union cs /\ Followed' = Followed
    BY <1>2 DEF Brings, Because, Followed
  <2> QED  BY <1>2, <2>1, ReasonGiven DEF Kept!PromiseNext
<1>3. ASSUME UNCHANGED <<mem, reasons>>
      PROVE  UNCHANGED <<Followed, reasons>>
  BY <1>3 DEF Followed
<1>4. CASE Poll \/ StandDown
  BY <1>3, <1>4, PollPlans DEF StandDown, Sense, Typed, Plan
<1>5. CASE Nmcli
  <2>1. \E op : Runs(op)
    BY <1>5 DEF Nmcli, Multi, Unbind, Down, Disconnect, Activate, Restore
  <2> QED  BY <1>3, <2>1 DEF Runs
<1>6. ASSUME NEW r \in Radios, NEW p \in Profiles, UserActivates(r, p) \/ Autoconnects(r, p) \/ UserDeletes(p)
      PROVE  \E cs : (cs = {} \/ \E c \in Nets \union {None} : cs = {c}) /\ Brings(cs)
  BY <1>6, Nothing DEF UserActivates, Autoconnects, UserDeletes, Happens
<1>7. ASSUME NEW r \in Radios, UserDisconnects(r) \/ Fails(r) \/ FallsBack(r) \/ Unplug(r) \/ Plug(r)
      PROVE  \E cs : (cs = {} \/ \E c \in Nets \union {None} : cs = {c}) /\ Brings(cs)
  BY <1>7 DEF UserDisconnects, Fails, FallsBack, Unplug, Plug, Happens
<1>8. ASSUME Switch \/ Vanishes \/ \E p \in Profiles : UserDeletes(p)
      PROVE  \E cs : (cs = {} \/ \E c \in Nets \union {None} : cs = {c}) /\ Brings(cs)
  BY <1>8 DEF Switch, Vanishes, UserDeletes, Happens
<1>9. ASSUME NEW r \in Radios, GrownUp(r)
      PROVE  Kept!PromiseNext \/ UNCHANGED <<Followed, reasons>>
  <2>1. PICK cs : cs = {NetOf[p] : p \in {Uuid(r)} \ {None, mem.last[r]}}
    OBVIOUS
  <2>2. cs = {} \/ \E c \in Nets \union {None} : cs = {c}
    <3>1. CASE Uuid(r) \in {None, mem.last[r]}
      BY <2>1, <3>1
    <3>2. CASE Uuid(r) \notin {None, mem.last[r]}
      <4>1. cs = {NetOf[Uuid(r)]}
        BY <2>1, <3>2
      <4> QED  BY <1>0, <3>2, <4>1, UuidType, Nothing
    <3> QED  BY <3>1, <3>2
  <2>3. reasons' = reasons \union cs
    BY <1>9, <2>1 DEF GrownUp, Because
  <2>4. mem'.leader = mem.leader
    BY <1>0, <1>9 DEF GrownUp, Memory
  <2>5. Followed' = Followed
    BY <2>4 DEF Followed
  <2> QED  BY <2>2, <2>3, <2>5, ReasonGiven DEF Kept!PromiseNext
<1>10. ASSUME NEW r \in Radios, Starts(r) \/ Lands(r) \/ TimePasses(r)
       PROVE  UNCHANGED <<Followed, reasons>>
  <2>1. mem'.leader = mem.leader /\ reasons' = reasons
    BY <1>0, <1>10 DEF Starts, Lands, TimePasses, Others, Memory
  <2> QED  BY <2>1 DEF Followed
<1>11. CASE FailsafeEnds \/ Failsafe \/ Die
  <2>1. mem'.leader = mem.leader /\ reasons' = reasons
    BY <1>0, <1>11 DEF FailsafeEnds, Failsafe, Die, Memory
  <2> QED  BY <2>1 DEF Followed
<1>12. CASE UNCHANGED vars
  BY <1>3, <1>12 DEF vars
<1>13. CASE Environment
  BY <1>2, <1>6, <1>7, <1>8, <1>9, <1>10, <1>11, <1>13 DEF Environment
<1> QED  BY <1>1, <1>4, <1>5, <1>12, <1>13 DEF Next, Daemon

\* wifimimo never picks a network itself: every change of the followed
\* network in the saved memory answers a reason the user, NetworkManager on
\* a radio it had, or the air gave since the poll before, however the
\* commands, the joins, the fallbacks and the radios that come and go are
\* interleaved.  The three faults left out each break it: a death between
\* a poll's commands and its save, a parked leader's radio handed back and
\* left there, a radio that stays off when told to join.
THEOREM PromiseKept ==
  ASSUME Faults \intersect {"crash_mid_poll", "stays_off", "parked_released"} = {}
  PROVE  Spec => KeepsPromise
<1>1. Init => Kept!PromiseInit
  BY DEF Init, Kept!PromiseInit, Followed, Forgotten
<1>2. Init => Sense
  BY InitSense
<1>3. Sense /\ [Next]_vars => Sense'
  BY SenseStep
<1>4. Sense /\ [Next]_vars => [Kept!PromiseNext]_(Kept!promise)
  BY PromiseStep DEF Kept!promise
<1> QED  BY <1>1, <1>2, <1>3, <1>4, PTL DEF Spec, KeepsPromise, Kept!Promise

-----------------------------------------------------------------------------
(* A disconnected leader: what the user said last, while it stands. *)

\* Radios are on profiles that exist.
OnSaved == \A r \in Radios : link[r].on # None => profile[link[r].on].saved

\* The next poll finds the leader's radio disconnected, and no choice.
DropAwaited ==
  /\ UserLeft(mem.leader) /\ Ssid(mem.leader.on) = wish.net /\ None \in reasons
  /\ \A s \in Wifi : /\ link[s].at # "starting" /\ link[s].on \in {None, mem.last[s]}
                     /\ link[s].on \in {None, mem.leader.on} \/ Ssid(link[s].on) # wish.net

\* The poll under way takes the followers down, and follows nobody.
DropUnderway ==
  /\ None \in job.why /\ job.next.leader = NoLeader
  /\ job.todo = <<>> \/ (Len(job.todo) = 1 /\ job.todo[1].op = "down")
  /\ \A s \in Wifi :
       /\ link[s].at # "starting"
       /\ \/ link[s].on = None \/ Ssid(link[s].on) # wish.net
          \/ job.todo # <<>> /\ s \in job.todo[1].radios /\ link[s].on \in job.todo[1].profiles

\* Nothing is on the network, and nothing is to join it.
DropDone ==
  /\ Ssid(Latest.leader.on) # wish.net
  /\ \A s \in Wifi : link[s].on # None => Ssid(link[s].on) # wish.net

DropStands ==
  wish.kind = "drop" /\ wish.plain =>
    /\ flag /\ Cardinality(Wifi) >= 2 /\ wish.net # None
    /\ wish.met => DropDone
    /\ ~wish.met /\ job.phase = "idle" => DropAwaited
    /\ ~wish.met /\ job.phase = "acting" => DropUnderway

Left == Typed /\ OnSaved /\ DropStands

LEMMA OnSavedFrom ==
  ASSUME TypeOK, OnSaved, \A p \in Profiles : profile'[p].saved = profile[p].saved,
         \A r \in Radios : \/ link'[r].on \in {None, link[r].on}
                           \/ link'[r].on \in Profiles /\ profile[link'[r].on].saved
  PROVE  OnSaved'
<1>1. \A r \in Radios : link[r].on \in Profiles \union {None}
  BY DEF TypeOK, Link, ProfileOrNone
<1> QED  BY <1>1 DEF OnSaved

LEMMA OnSavedStep ==
  ASSUME Typed, OnSaved, [Next]_vars
  PROVE  OnSaved'
<1>0. TypeOK /\ profile \in [Profiles -> Profile] /\ link \in [Radios -> Link]
  BY DEF Typed, TypeOK
<1>1. ASSUME link' = link, \A p \in Profiles : profile'[p].saved = profile[p].saved
      PROVE  OnSaved'
  BY <1>0, <1>1, OnSavedFrom
<1>2. \A p \in Profiles : \A b : [profile[p] EXCEPT !.many = b].saved = profile[p].saved
  BY <1>0 DEF Profile
<1>3. \A rs, b : \A r \in Radios : Dropping(rs, b)[r].on \in {None, link[r].on}
  BY DEF Dropping, Idle
<1>4. ASSUME NEW r \in Radios, NEW p \in Profiles, NEW l, l.on = p, profile[p].saved,
             link' = Activation(r, p, l), \A q \in Profiles : profile'[q].saved = profile[q].saved
      PROVE  OnSaved'
  <2>1. PICK robbed : robbed = IF profile[p].many THEN {} ELSE {s \in Wifi \ {r} : link[s].on = p}
    OBVIOUS
  <2>2. PICK f : f = Dropping(robbed, FALSE)
    OBVIOUS
  <2>3. link' = [f EXCEPT ![r] = l] /\ DOMAIN f = Radios
    BY <1>4, <2>1, <2>2 DEF Activation, Dropping
  <2>4. \A s \in Radios : f[s].on \in {None, link[s].on}
    BY <1>3, <2>2
  <2>5. \A s \in Radios : \/ link'[s].on \in {None, link[s].on}
                          \/ link'[s].on \in Profiles /\ profile[link'[s].on].saved
    BY <1>4, <2>3, <2>4
  <2> QED  BY <1>0, <1>4, <2>5, OnSavedFrom
<1>5. CASE Multi \/ Unbind \/ Restore
  <2>1. \A p \in Profiles : [profile[p] EXCEPT !.bound = None].saved = profile[p].saved
    BY <1>0 DEF Profile
  <2>2. link' = link /\ \A p \in Profiles : profile'[p].saved = profile[p].saved
    <3>1. CASE Multi
      <4>1. CASE profile' = profile
        BY <3>1, <4>1 DEF Multi
      <4>2. CASE profile' = [p \in Profiles |->
                     [profile[p] EXCEPT !.many = @ \/ (p \in TheseProfiles /\ profile[p].saved)]]
        <5>1. \A p \in Profiles : profile'[p].saved = profile[p].saved
          BY <1>0, <4>2 DEF TypeOK, Profile
        <5> QED  BY <3>1, <5>1 DEF Multi
      <4> QED  BY <3>1, <4>1, <4>2 DEF Multi
    <3>2. CASE Unbind
      BY <2>1, <3>2 DEF Unbind
    <3>3. CASE Restore
      BY <1>2, <3>3 DEF Restore
    <3> QED  BY <1>5, <3>1, <3>2, <3>3
  <2> QED  BY <1>1, <2>2
<1>6. CASE Down \/ Disconnect("move") \/ Disconnect("park")
  <2>1. PICK rs : link' = Dropping(rs, TRUE) /\ profile' = profile
    BY <1>6 DEF Down, Disconnect
  <2> QED  BY <1>0, <1>3, <2>1, OnSavedFrom
<1>7. CASE Activate
  <2>1. PICK p \in TheseProfiles :
          /\ \E pinned \in {FALSE, "pin_left" \in Faults /\ profile[p].saved} :
               profile' = [profile EXCEPT ![p].pinned = pinned]
          /\ IF \A r \in TheseRadios : ~Fits(r, p) THEN UNCHANGED link
             ELSE \E r \in TheseRadios :
                    link' \in {Activation(r, p, On("busy", p))}
                      \union (IF Off(r) \/ ~link[r].asked
                              THEN {link, Activation(r, p, [at |-> "starting", on |-> p, asked |-> link[r].asked])}
                              ELSE {})
    BY <1>7 DEF Activate
  <2>2. TheseProfiles \subseteq Profiles /\ TheseRadios \subseteq Radios
    BY <1>7, RunsCommand DEF Activate
  <2>3. \A q \in Profiles : profile'[q].saved = profile[q].saved
    BY <1>0, <2>1, <2>2 DEF Profile
  <2>4. CASE link' = link
    BY <1>1, <2>3, <2>4
  <2>5. CASE link' # link
    <3>1. profile[p].saved
      BY <2>1, <2>5 DEF Fits
    <3>2. PICK r \in TheseRadios :
            link' \in {Activation(r, p, On("busy", p)),
                       Activation(r, p, [at |-> "starting", on |-> p, asked |-> link[r].asked])}
      BY <2>1, <2>5
    <3>3. On("busy", p).on = p
      BY DEF On
    <3> QED  BY <1>4, <2>2, <2>3, <3>1, <3>2, <3>3
  <2> QED  BY <2>4, <2>5
<1>8. CASE Poll \/ StandDown \/ Save \/ Switch \/ Vanishes \/ Die \/ FailsafeEnds \/ Failsafe \/ UNCHANGED vars
  <2>1. link' = link /\ profile' = profile
    <3>1. CASE Poll
      BY <3>1, PollPlans DEF Typed, Plan, nm
    <3> QED  BY <1>8, <3>1 DEF StandDown, Save, Switch, Vanishes, Die, FailsafeEnds, Failsafe, vars, nm
  <2> QED  BY <1>1, <2>1
<1>9. ASSUME NEW r \in Radios,
             UserDisconnects(r) \/ Fails(r) \/ Unplug(r) \/ Plug(r) \/ Starts(r) \/ Lands(r)
               \/ TimePasses(r) \/ GrownUp(r)
      PROVE  OnSaved'
  <2>1. Away.on = None /\ \A b : Idle(b).on = None
    BY DEF Away, Idle
  <2>2. profile' = profile /\ \E l : (link' = [link EXCEPT ![r] = l] \/ link' = link) /\ l.on \in {None, link[r].on}
    <3>1. CASE UserDisconnects(r) \/ Fails(r) \/ Unplug(r) \/ Plug(r)
      BY <2>1, <3>1 DEF UserDisconnects, Fails, Unplug, Plug
    <3>2. CASE Starts(r)
      <4>1. On("busy", link[r].on).on = link[r].on
        BY DEF On
      <4> QED  BY <3>2, <4>1 DEF Starts, Others
    <3>3. CASE Lands(r)
      <4>1. PICK l : l = [link[r] EXCEPT !.at = "up"]
        OBVIOUS
      <4>2. l.on = link[r].on
        BY <1>0, <4>1 DEF Link
      <4>3. link' = [link EXCEPT ![r] = l] /\ profile' = profile
        BY <3>3, <4>1 DEF Lands, Others
      <4> QED  BY <4>2, <4>3
    <3>4. CASE TimePasses(r) \/ GrownUp(r)
      BY <3>4 DEF TimePasses, GrownUp, Others, nm
    <3> QED  BY <1>9, <3>1, <3>2, <3>3, <3>4
  <2>3. \A s \in Radios : link'[s].on \in {None, link[s].on}
    BY <1>0, <2>2
  <2> QED  BY <1>0, <2>2, <2>3, OnSavedFrom
<1>10. ASSUME NEW r \in Radios, NEW p \in Profiles, UserActivates(r, p) \/ Autoconnects(r, p)
       PROVE  OnSaved'
  <2>1. profile[p].saved /\ profile' = profile /\ On("busy", p).on = p
    BY <1>10 DEF UserActivates, Autoconnects, Fits, On
  <2>2. CASE UserActivates(r, p)
    BY <1>4, <2>1, <2>2 DEF UserActivates
  <2>3. CASE Autoconnects(r, p)
    <3>1. link' = [link EXCEPT ![r] = On("busy", p)]
      BY <2>3 DEF Autoconnects
    <3>2. \A s \in Radios : \/ link'[s].on \in {None, link[s].on}
                            \/ link'[s].on \in Profiles /\ profile[link'[s].on].saved
      BY <1>0, <2>1, <3>1
    <3> QED  BY <1>0, <2>1, <3>2, OnSavedFrom
  <2> QED  BY <1>10, <2>2, <2>3
<1>11. ASSUME NEW r \in Radios, FallsBack(r)
       PROVE  OnSaved'
  <2>1. PICK p : p = Latest.moves[r].previous
    OBVIOUS
  <2>2. profile[p].saved /\ profile' = profile /\ link' = Activation(r, p, On("busy", p)) /\ p # None
    BY <1>11, <2>1 DEF FallsBack, Fits
  <2>3. p \in Profiles /\ On("busy", p).on = p
    BY <1>0, <2>1, <2>2 DEF Latest, TypeOK, Memory, Move, Job, ProfileOrNone, On
  <2> QED  BY <1>4, <2>2, <2>3
<1>12. ASSUME NEW p \in Profiles, UserDeletes(p)
       PROVE  OnSaved'
  <2>1. /\ profile' = [profile EXCEPT ![p].saved = FALSE]
        /\ link' = Dropping({r \in Wifi : link[r].on = p}, FALSE)
    BY <1>12 DEF UserDeletes
  <2>2. \A q \in Profiles : q # p => profile'[q].saved = profile[q].saved
    BY <1>0, <2>1
  <2>3. ASSUME NEW r \in Radios, link'[r].on # None
        PROVE  link'[r].on = link[r].on /\ link[r].on \in Profiles \ {p}
    <3>1. link[r].at \notin {"none", "gone", "idle"} /\ link'[r].on = link[r].on
      <4>1. Idle(FALSE).on = None
        BY DEF Idle
      <4>2. link'[r] = link[r]
        BY <2>1, <2>3, <4>1 DEF Dropping
      <4> QED  BY <2>3, <4>2 DEF Typed, Linked
    <3>2. link[r].on # p
      <4>1. SUFFICES ASSUME link[r].on = p PROVE FALSE
        OBVIOUS
      <4>2. r \in {s \in Wifi : link[s].on = p}
        BY <3>1, <4>1 DEF Wifi
      <4>3. link'[r] = Idle(FALSE)
        BY <2>1, <3>1, <4>2 DEF Dropping
      <4> QED  BY <2>3, <4>3 DEF Idle
    <3> QED  BY <1>0, <2>3, <3>1, <3>2 DEF Link, ProfileOrNone
  <2> QED  BY <2>2, <2>3 DEF OnSaved
<1> QED  BY <1>5, <1>6, <1>7, <1>8, <1>9, <1>10, <1>11, <1>12 DEF Next, Daemon, Nmcli, Environment

\* What a command does to the radios: it leaves a radio where it is, switches it off, or
\* has it join the leader's profile.
LEMMA NmcliMoves ==
  ASSUME Typed, Nmcli
  PROVE  /\ \A p \in Profiles : profile'[p].saved = profile[p].saved
         /\ \A r \in Radios :
              /\ link'[r].at \in {"none", "gone"} <=> link[r].at \in {"none", "gone"}
              /\ \/ link'[r] = link[r] \/ link'[r].on = None
                 \/ /\ link'[r].on = job.next.leader.on /\ job.todo # <<>>
                    /\ job.todo[1].op = "up" /\ job.todo[1].radios = {r}
<1>0. TypeOK /\ profile \in [Profiles -> Profile] /\ link \in [Radios -> Link]
  BY DEF Typed, TypeOK
<1>1. \A p \in Profiles : \A b : [profile[p] EXCEPT !.many = b].saved = profile[p].saved
  BY <1>0 DEF Profile
<1>2. CASE Multi
  <2>1. link' = link
    BY <1>2 DEF Multi
  <2>2. CASE profile' = profile
    BY <2>1, <2>2
  <2>3. CASE profile' = [p \in Profiles |->
               [profile[p] EXCEPT !.many = @ \/ (p \in TheseProfiles /\ profile[p].saved)]]
    <3>1. \A p \in Profiles : profile'[p].saved = profile[p].saved
      BY <1>0, <2>3 DEF TypeOK, Profile
    <3> QED  BY <2>1, <3>1
  <2> QED  BY <1>2, <2>2, <2>3 DEF Multi
<1>3. CASE Unbind
  <2>1. \A p \in Profiles : [profile[p] EXCEPT !.bound = None].saved = profile[p].saved
    BY <1>0 DEF Profile
  <2>2. \A p \in Profiles : profile'[p].saved = profile[p].saved
    BY <1>3, <2>1 DEF Unbind
  <2> QED  BY <1>3, <2>2 DEF Unbind
<1>4. CASE Restore
  BY <1>1, <1>4 DEF Restore
<1>5. CASE Down \/ Disconnect("move") \/ Disconnect("park")
  <2>1. PICK rs \in SUBSET Wifi : link' = Dropping(rs, TRUE) /\ profile' = profile
    BY <1>5 DEF Down, Disconnect, TheseRadios
  <2> QED  BY <2>1 DEF Dropping, Idle, Wifi
<1>6. CASE Activate
  <2>0. Runs("up")
    BY <1>6 DEF Activate
  <2>1. PICK p \in TheseProfiles :
          /\ \E pinned \in {FALSE, "pin_left" \in Faults /\ profile[p].saved} :
               profile' = [profile EXCEPT ![p].pinned = pinned]
          /\ IF \A r \in TheseRadios : ~Fits(r, p) THEN UNCHANGED link
             ELSE \E r \in TheseRadios :
                    link' \in {Activation(r, p, On("busy", p))}
                      \union (IF Off(r) \/ ~link[r].asked
                              THEN {link, Activation(r, p, [at |-> "starting", on |-> p, asked |-> link[r].asked])}
                              ELSE {})
    BY <1>6 DEF Activate
  <2>2. \A q \in Profiles : profile'[q].saved = profile[q].saved
    BY <1>0, <2>1 DEF Profile
  <2>3. CASE link' = link
    BY <2>2, <2>3
  <2>4. CASE link' # link
    <3>1. PICK r \in TheseRadios :
            link' \in {Activation(r, p, On("busy", p)),
                       Activation(r, p, [at |-> "starting", on |-> p, asked |-> link[r].asked])}
      BY <2>1, <2>4
    <3>2. PICK l : link' = Activation(r, p, l) /\ l.on = p /\ l.at \in {"busy", "starting"}
      BY <3>1 DEF On
    <3>3. /\ r \in Wifi /\ r \in Radios /\ job.todo # <<>> /\ job.todo[1].op = "up"
          /\ job.todo[1].radios = {r} /\ p = job.next.leader.on
      BY <2>0, <3>1, RunsCommand DEF PlanShape, TheseRadios, TheseProfiles
    <3>4. PICK robbed \in SUBSET Wifi : link' = [Dropping(robbed, FALSE) EXCEPT ![r] = l]
      BY <3>2, <3>3 DEF Activation
    <3>5. PICK f : f = Dropping(robbed, FALSE)
      OBVIOUS
    <3>6. /\ DOMAIN f = Radios
          /\ \A s \in Radios : /\ f[s] = link[s] \/ f[s].on = None
                               /\ f[s].at \in {"none", "gone"} <=> link[s].at \in {"none", "gone"}
      BY <3>5 DEF Dropping, Idle, Wifi
    <3>7. link' = [f EXCEPT ![r] = l]
      BY <3>4, <3>5
    <3>8. link[r].at \notin {"none", "gone"}
      BY <3>3 DEF Wifi
    <3> QED  BY <2>2, <3>2, <3>3, <3>6, <3>7, <3>8
  <2> QED  BY <2>3, <2>4
<1> QED  BY <1>2, <1>3, <1>4, <1>5, <1>6 DEF Nmcli

\* What nobody has touched of the networks and radios.
LEMMA SameNetworks ==
  ASSUME \A p \in Profiles : profile'[p].saved = profile[p].saved,
         \A r \in Radios : link'[r].at \in {"none", "gone"} <=> link[r].at \in {"none", "gone"}
  PROVE  Wifi' = Wifi /\ \A p : Ssid(p)' = Ssid(p)
BY DEF Wifi, Ssid

LEMMA DropPoll ==
  ASSUME Left, Poll
  PROVE  DropStands'
<1>0. TypeOK /\ Linked /\ Leading(mem.leader) /\ DropStands
  BY DEF Left, Typed
<1>1. PICK todo, next, l : /\ Plan(todo, next) /\ Planned(todo, next)
                           /\ l \in Leaders /\ Polled(l, todo, next)
  BY <1>0, PollPlans
<1>2. /\ job.phase = "idle" /\ Latest = mem /\ Latest' = next /\ job'.phase = "acting"
      /\ UNCHANGED <<link, profile, flag, wish>>
  BY <1>1 DEF Poll, Plan, nm, Latest
<1>3. Wifi' = Wifi /\ (\A p : Ssid(p)' = Ssid(p)) /\ Ssid(None) = None
  BY <1>2, SameNetworks, Nothing DEF Ssid
<1>4. SUFFICES ASSUME wish.kind = "drop", wish.plain
               PROVE  DropStands'
  BY <1>2 DEF DropStands
<1>5. CASE wish.met
  <2>1. DropDone /\ wish.net # None
    BY <1>0, <1>4, <1>5 DEF DropStands
  <2>2. \A r : LeaderOn(r).on = Uuid(r)
    BY DEF LeaderOn
  <2>3. \A r \in Activated \union Up : r \in Wifi /\ Uuid(r) # None /\ Uuid(r) = link[r].on
    BY <1>0, Nothing DEF Activated, Changed, Up, Wifi, Uuid, Linked
  <2>4. Ssid(l.on) # wish.net
    <3>1. ASSUME NEW r \in Activated \union Up, l = LeaderOn(r) PROVE Ssid(l.on) # wish.net
      BY <2>1, <2>2, <2>3, <3>1 DEF DropDone
    <3>2. NoLeader.on = None
      BY DEF NoLeader
    <3> QED  BY <1>1, <1>2, <1>3, <2>1, <3>1, <3>2, WhoLeads DEF DropDone
  <2>5. next.leader.on \in {l.on, None}
    BY <1>1 DEF Polled, Follows, NoLeader
  <2>6. DropDone'
    BY <1>2, <1>3, <2>1, <2>4, <2>5 DEF DropDone
  <2> QED  BY <1>0, <1>2, <1>3, <1>4, <1>5, <2>6 DEF DropStands
<1>6. CASE ~wish.met
  <2>1. DropAwaited
    BY <1>0, <1>2, <1>4, <1>6 DEF DropStands
  <2>2. \A s \in Wifi : Uuid(s) \in {None, mem.last[s]}
    BY <2>1 DEF DropAwaited, Uuid
  <2>3. Choosers = {} /\ mem.leader # NoLeader
    BY <2>1, <2>2 DEF Choosers, Elsewhere, Activated, Changed, DropAwaited, UserLeft
  <2>4. Leaders = {mem.leader}
    BY <2>3 DEF Leaders
  <2>5. TakeFollowersDown(mem.leader)
    BY <2>1, <2>4 DEF Poll, DropAwaited
  <2> DEFINE followers == {r \in Wifi \ {mem.leader.dev} : Uuid(r) = mem.leader.on}
             down == <<Cmd("down", followers, {mem.leader.on} \ {None})>>
             stopped == [r \in Radios |-> IF r \in followers THEN Still ELSE mem.moves[r]]
             none == [Base(NoLeader) EXCEPT !.moves = stopped]
  <2>6. job' = [phase |-> "acting", todo |-> down, next |-> none, why |-> reasons]
    BY <2>5 DEF TakeFollowersDown, Plan
  <2>7. none.leader = NoLeader
    <3>1. PICK base \in Memory : base = Base(NoLeader) /\ base.leader = NoLeader
      BY <1>0, MemoryTypes, BaseIs
    <3> QED  BY <3>1 DEF Memory
  <2>8. /\ Len(down) = 1 /\ down # <<>> /\ down[1].op = "down" /\ down[1].radios = followers
        /\ down[1].profiles = {mem.leader.on} \ {None}
    BY DEF Cmd
  <2> HIDE DEF down, none
  <2>9. ASSUME NEW s \in Wifi
        PROVE  /\ link[s].at # "starting"
               /\ \/ link[s].on = None \/ Ssid(link[s].on) # wish.net
                  \/ s \in followers /\ link[s].on \in {mem.leader.on} \ {None}
    <3>1. s \in Radios /\ link[s].at # "starting"
      BY <2>1 DEF DropAwaited, Wifi
    <3>2. SUFFICES ASSUME link[s].on # None, link[s].on = mem.leader.on
                   PROVE  s \in followers
      BY <2>1, <3>1 DEF DropAwaited
    <3>3. link[s].at \in {"busy", "up"}
      BY <1>0, <3>1, <3>2 DEF Linked, TypeOK, Link
    <3>4. s # mem.leader.dev
      BY <2>1, <3>3 DEF DropAwaited, UserLeft, Disconnected
    <3> QED  BY <3>2, <3>3, <3>4 DEF Uuid
  <2>10. /\ job'.todo = down /\ job'.next = none /\ job'.why = reasons
    BY <2>6
  <2>11. DropUnderway'
    BY <1>2, <1>3, <2>1, <2>7, <2>8, <2>9, <2>10 DEF DropUnderway, DropAwaited
  <2> QED  BY <1>0, <1>2, <1>3, <1>4, <1>6, <2>11 DEF DropStands
<1> QED  BY <1>5, <1>6

LEMMA DropStandDown ==
  ASSUME Left, StandDown
  PROVE  DropStands'
<1>1. ~(flag /\ Cardinality(Wifi) >= 2) /\ wish' = wish
  BY WifiFinite DEF StandDown
<1> QED  BY <1>1 DEF Left, DropStands

\* A command leaves a radio where it is, switches it off or has it join the leader's
\* profile.
LEMMA DropCommand ==
  ASSUME Left, Nmcli, "down_fails" \notin Faults
  PROVE  DropStands'
<1>0. Typed /\ TypeOK /\ Linked /\ DropStands /\ profile \in [Profiles -> Profile] /\ link \in [Radios -> Link]
  BY DEF Left, Typed, TypeOK
<1>1. PICK op \in Ops : Runs(op)
  <2>1. Disconnect("move") => Runs("move")
    BY DEF Disconnect
  <2>2. Disconnect("park") => Runs("park")
    BY DEF Disconnect
  <2>3. (Multi => Runs("multi")) /\ (Unbind => Runs("unbind")) /\ (Down => Runs("down"))
    BY DEF Multi, Unbind, Down
  <2>4. Activate => Runs("up")
    BY DEF Activate
  <2>5. Restore => Runs("restore")
    BY DEF Restore
  <2> QED  BY <2>1, <2>2, <2>3, <2>4, <2>5 DEF Nmcli, Ops
<1>2. /\ job.phase = "acting" /\ job.todo # <<>> /\ Head(job.todo).op = op
      /\ UNCHANGED <<flag, failsafe, lost, mem, reasons, wish>> /\ Latest = job.next
      /\ PlanShape(job.todo, job.next) /\ 1 \in 1 .. Len(job.todo) /\ Head(job.todo) = job.todo[1]
      /\ TheseRadios \subseteq Radios /\ TheseProfiles \subseteq Profiles
  BY <1>0, <1>1, RunsCommand DEF Latest
<1>3. SUFFICES ASSUME wish.kind = "drop", wish.plain
               PROVE  DropStands'
  BY <1>2 DEF DropStands
<1>4. job \in Job
  BY <1>0 DEF TypeOK
<1>5. /\ job'.phase = "acting" /\ job'.why = job.why /\ Latest' = job'.next
      /\ job'.next = job.next \/ job'.next.leader = NoLeader
      /\ job'.todo = Tail(job.todo)
  <2>1. CASE Restore
    <3>1. PICK kept \in SUBSET {p \in TheseProfiles : profile[p].saved} :
            /\ profile' = [p \in Profiles |->
                             IF p \in TheseProfiles \ kept THEN [profile[p] EXCEPT !.many = p \in UserMany]
                             ELSE profile[p]]
            /\ job' = [job EXCEPT !.todo = Tail(@), !.next = Keep(kept)]
      BY <2>1, Zenon DEF Restore
    <3> QED  BY <1>2, <1>4, <3>1 DEF Job, Latest, Keep, Forgotten
  <2>2. CASE Ran
    BY <1>2, <1>4, <2>2 DEF Ran, Job, Latest
  <2> QED  BY <2>1, <2>2 DEF Nmcli, Multi, Unbind, Down, Disconnect, Activate
<1>6. CASE wish.met
  <2>1. DropDone /\ wish.net # None
    BY <1>0, <1>3, <1>6 DEF DropStands
  <2>2. /\ \A p \in Profiles : profile'[p].saved = profile[p].saved
        /\ \A r \in Radios : /\ link'[r].at \in {"none", "gone"} <=> link[r].at \in {"none", "gone"}
                             /\ link'[r].on \in {None, link[r].on, job.next.leader.on}
    BY NmcliMoves, <1>0
  <2>3. Wifi' = Wifi /\ \A p : Ssid(p)' = Ssid(p)
    BY <2>2, SameNetworks
  <2>4. ASSUME NEW s \in Wifi, link'[s].on # None
        PROVE  Ssid(link'[s].on) # wish.net
    BY <1>2, <2>1, <2>2, <2>4 DEF DropDone, Wifi
  <2>5. Ssid(Latest'.leader.on) # wish.net
    BY <1>2, <1>5, <2>1, Nothing DEF DropDone, NoLeader, Ssid
  <2>6. DropDone'
    BY <1>2, <2>3, <2>4, <2>5 DEF DropDone
  <2> QED  BY <1>0, <1>2, <1>3, <1>5, <1>6, <2>3, <2>6 DEF DropStands
<1>7. CASE ~wish.met
  <2>1. DropUnderway
    BY <1>0, <1>2, <1>3, <1>7 DEF DropStands
  <2>2. Len(job.todo) = 1 /\ op = "down" /\ job'.todo = <<>>
    BY <1>2, <1>4, <1>5, <2>1 DEF DropUnderway, Job
  <2>3. Down
    <3>1. ASSUME NEW other, Runs(other) PROVE other = "down"
      BY <1>2, <2>2, <3>1 DEF Runs
    <3>2. ~Multi /\ ~Unbind
      BY <3>1 DEF Multi, Unbind
    <3>3. ~Disconnect("move") /\ ~Disconnect("park")
      BY <3>1 DEF Disconnect
    <3>4. ~Activate
      <4>1. Activate => Runs("up")
        BY DEF Activate
      <4> QED  BY <3>1, <4>1
    <3>5. ~Restore
      <4>1. Restore => Runs("restore")
        BY DEF Restore
      <4> QED  BY <3>1, <4>1
    <3> QED  BY <3>2, <3>3, <3>4, <3>5 DEF Nmcli
  <2>4. link' = Dropping({r \in TheseRadios : Uuid(r) \in TheseProfiles}, TRUE) /\ profile' = profile /\ Ran
    <3>1. PICK failing \in SUBSET TheseRadios :
            /\ MayFail(failing # {}, "down_fails")
            /\ link' = Dropping({r \in TheseRadios \ failing : Uuid(r) \in TheseProfiles}, TRUE)
      BY <2>3 DEF Down
    <3>2. failing = {}
      BY <3>1 DEF MayFail
    <3> QED  BY <2>3, <3>1, <3>2 DEF Down
  <2>5. \A r \in Radios : link'[r].at \in {"none", "gone"} <=> link[r].at \in {"none", "gone"}
    BY <2>4 DEF Dropping, Idle, TheseRadios, Wifi
  <2>6. Wifi' = Wifi /\ \A p : Ssid(p)' = Ssid(p)
    BY <2>4, <2>5, SameNetworks
  <2>7. job'.next = job.next
    BY <1>4, <2>4 DEF Ran, Job
  <2>8. ASSUME NEW s \in Wifi
        PROVE  link'[s].at # "starting" /\ (link'[s].on = None \/ Ssid(link'[s].on) # wish.net)
    <3>1. s \in Radios /\ link[s].at # "starting"
      BY <2>1 DEF DropUnderway, Wifi
    <3>2. link'[s] = link[s] \/ (link'[s].on = None /\ link'[s].at = "idle")
      BY <2>4, <3>1 DEF Dropping, Idle
    <3>3. CASE s \in job.todo[1].radios /\ link[s].on \in job.todo[1].profiles /\ link[s].on # None
      <4>1. link[s].at \in {"busy", "up"}
        BY <1>0, <3>1, <3>3 DEF Linked, TypeOK, Link
      <4>2. s \in TheseRadios /\ Uuid(s) \in TheseProfiles
        BY <1>2, <3>3, <4>1 DEF TheseRadios, TheseProfiles, Uuid
      <4>3. link'[s] = Idle(TRUE)
        BY <2>4, <3>1, <4>1, <4>2 DEF Dropping
      <4> QED  BY <4>3 DEF Idle
    <3>4. CASE link[s].on = None \/ Ssid(link[s].on) # wish.net
      BY <3>1, <3>2, <3>4
    <3> QED  BY <2>1, <3>3, <3>4 DEF DropUnderway
  <2>9. DropUnderway'
    BY <1>2, <1>5, <2>1, <2>2, <2>6, <2>7, <2>8 DEF DropUnderway
  <2> QED  BY <1>0, <1>2, <1>3, <1>5, <1>7, <2>6, <2>9 DEF DropStands
<1> QED  BY <1>6, <1>7

LEMMA DropSave ==
  ASSUME Left, Save
  PROVE  DropStands'
<1>1. /\ job.phase = "acting" /\ job.todo = <<>> /\ mem' = job.next /\ job' = Rest
      /\ UNCHANGED <<link, profile, flag>> /\ job'.phase = "idle"
      /\ wish' = [wish EXCEPT !.met = @ \/ (wish.kind = "choice" /\ wish.net \in job.why)
                                         \/ (wish.kind = "drop" /\ None \in job.why)]
  BY DEF Save, nm, Rest
<1>2. wish \in Wish /\ DropStands
  BY DEF Left, Typed, TypeOK
<1>3. Latest = job.next /\ Latest' = job.next
  BY <1>1 DEF Latest
<1>4. Wifi' = Wifi /\ (\A p : Ssid(p)' = Ssid(p)) /\ Ssid(None) = None
  BY <1>1, SameNetworks, Nothing DEF Ssid
<1>5. wish'.kind = wish.kind /\ wish'.plain = wish.plain /\ wish'.net = wish.net
  BY <1>1, <1>2 DEF Wish
<1>6. SUFFICES ASSUME wish.kind = "drop", wish.plain
               PROVE  DropStands'
  BY <1>5 DEF DropStands
<1>7. flag /\ Cardinality(Wifi) >= 2 /\ wish.net # None
  BY <1>2, <1>6 DEF DropStands
<1>8. DropDone
  <2>1. CASE wish.met
    BY <1>2, <1>6, <2>1 DEF DropStands
  <2>2. CASE ~wish.met
    <3>1. DropUnderway
      BY <1>1, <1>2, <1>6, <2>2 DEF DropStands
    <3> QED  BY <1>1, <1>3, <1>4, <1>7, <3>1 DEF DropUnderway, DropDone, NoLeader
  <2> QED  BY <2>1, <2>2
<1>9. wish'.met
  <2>1. CASE wish.met
    BY <1>1, <1>2, <2>1 DEF Wish
  <2>2. CASE ~wish.met
    <3>1. None \in job.why
      BY <1>1, <1>2, <1>6, <2>2 DEF DropStands, DropUnderway
    <3> QED  BY <1>1, <1>2, <1>6, <3>1 DEF Wish
  <2> QED  BY <2>1, <2>2
<1>10. DropDone'
  BY <1>1, <1>3, <1>4, <1>5, <1>8 DEF DropDone
<1> QED  BY <1>1, <1>4, <1>5, <1>7, <1>9, <1>10 DEF DropStands

\* The user, and what goes on of itself.
LEMMA DropAir ==
  ASSUME Left, Typed', Environment
  PROVE  DropStands'
<1>0. /\ TypeOK /\ Linked /\ Leading(mem.leader) /\ OnSaved /\ DropStands /\ link \in [Radios -> Link]
      /\ mem \in Memory /\ job \in Job
  BY DEF Left, Typed, TypeOK
<1>1. ASSUME wish'.kind # "drop" PROVE DropStands'
  BY <1>1 DEF DropStands
<1>2. NoWish.kind = "none"
  BY DEF NoWish
<1>3. ASSUME NEW r \in Radios, UserDisconnects(r), wish'.kind = "drop", wish'.plain
      PROVE  DropStands'
  <2>1. /\ Heard /\ r = Latest.leader.dev /\ Uuid(r) = mem.leader.on /\ r \notin mem.parked
        /\ wish' = [kind |-> "drop", net |-> Ssid(mem.leader.on), met |-> FALSE,
                    plain |-> \A s \in Wifi \ {r} : link[s].on # None =>
                                /\ link[s].at # "starting"
                                /\ link[s].on = mem.leader.on \/ Ssid(link[s].on) # Ssid(mem.leader.on)]
        /\ Happens({None}) /\ r \in Wifi /\ ~Disconnected(r)
        /\ link' = [link EXCEPT ![r] = Idle(TRUE)] /\ UNCHANGED <<profile, flag, lost>>
    BY <1>2, <1>3 DEF UserDisconnects
  <2>2. /\ job.phase = "idle" /\ flag /\ Cardinality(Wifi) >= 2 /\ Latest = mem
        /\ \A s \in Wifi : Uuid(s) = mem.last[s]
    BY <2>1 DEF Heard, InCharge, Latest
  <2>3. \A s \in Wifi \ {r} : link[s].on # None =>
          /\ link[s].at # "starting"
          /\ link[s].on = mem.leader.on \/ Ssid(link[s].on) # Ssid(mem.leader.on)
    BY <1>3, <2>1
  <2>4. link[r].at \in {"busy", "up"} /\ link[r].on # None /\ link[r].on = mem.leader.on
    BY <1>0, <2>1 DEF Disconnected, Wifi, TypeOK, Link, Linked, Uuid
  <2>5. /\ link'[r].on = None /\ link'[r].at = "idle" /\ link'[r].asked = TRUE
        /\ \A s \in Radios : s # r => link'[s] = link[s]
    BY <1>0, <2>1 DEF Idle
  <2>6. Wifi' = Wifi /\ \A p : Ssid(p)' = Ssid(p)
    BY <2>1, <2>4, <2>5, SameNetworks
  <2>7. Ssid(mem.leader.on) # None
    <3>1. mem.leader.on \in Profiles /\ profile[mem.leader.on].saved
      BY <1>0, <2>4 DEF OnSaved, TypeOK, Link, ProfileOrNone
    <3> QED  BY <3>1, Nothing DEF Ssid
  <2>8. mem' = mem /\ job'.phase = "idle" /\ reasons' = reasons \union {None}
    BY <1>0, <2>1, <2>2 DEF Happens, Brings, Because, Job
  <2>9. UserLeft(mem.leader)'
    <3>1. mem.leader # NoLeader /\ mem.leader.dev = r
      BY <2>1, <2>2, <2>4 DEF NoLeader
    <3>2. Uuid(r)' = None /\ Disconnected(r)'
      BY <2>5 DEF Uuid, Disconnected
    <3> QED  BY <2>1, <2>4, <2>5, <2>6, <2>8, <3>1, <3>2 DEF UserLeft
  <2>10. ASSUME NEW s \in Wifi
         PROVE  /\ link'[s].at # "starting" /\ link'[s].on \in {None, mem.last[s]}
                /\ link'[s].on \in {None, mem.leader.on} \/ Ssid(link'[s].on) # Ssid(mem.leader.on)
    <3>1. s \in Radios
      BY DEF Wifi
    <3>2. CASE s = r
      BY <2>5, <3>2
    <3>3. CASE s # r
      <4>1. link[s].at # "starting"
        BY <1>0, <2>3, <3>1, <3>3 DEF Linked
      <4>2. link[s].on = None \/ link[s].on = Uuid(s)
        BY <1>0, <3>1, <4>1 DEF Linked, Uuid, TypeOK, Link
      <4> QED  BY <2>2, <2>3, <2>5, <3>1, <3>3, <4>1, <4>2
    <3> QED  BY <3>2, <3>3
  <2>11. DropAwaited'
    BY <2>1, <2>6, <2>8, <2>9, <2>10 DEF DropAwaited
  <2> QED  BY <2>1, <2>2, <2>6, <2>7, <2>8, <2>11 DEF DropStands
<1>4. ASSUME UNCHANGED <<profile, flag, wish>>, job'.phase = job.phase, job'.todo = job.todo,
             job'.next = job.next, job.phase = "acting" => job'.why = job.why,
             Latest'.leader = Latest.leader, reasons \subseteq reasons',
             job.phase = "idle" => /\ mem'.leader = mem.leader /\ mem'.last = mem.last
                                   /\ mem'.parked = mem.parked,
             \A r \in Radios :
               \/ link'[r] = link[r]
               \/ /\ link[r].at \in {"starting", "busy"} /\ link'[r].at \in {"busy", "up"}
                  /\ link'[r].on = link[r].on
      PROVE  DropStands'
  <2>1. Wifi' = Wifi /\ \A p : Ssid(p)' = Ssid(p)
    BY <1>4, SameNetworks
  <2>2. \A r \in Wifi : r \in Radios /\ link'[r].on = link[r].on
    BY <1>4 DEF Wifi
  <2>3. DropDone => DropDone'
    BY <1>4, <2>1, <2>2 DEF DropDone
  <2>4. job.phase = "acting" /\ DropUnderway => DropUnderway'
    BY <1>4, <2>1, <2>2 DEF DropUnderway
  <2>5. ASSUME job.phase = "idle", DropAwaited PROVE DropAwaited'
    <3>1. \A r \in Wifi : link'[r].at # "starting"
      BY <1>4, <2>2, <2>5 DEF DropAwaited
    <3>2. mem.leader.dev \in Wifi /\ mem.leader.dev \in Radios /\ Disconnected(mem.leader.dev)
      BY <2>2, <2>5 DEF DropAwaited, UserLeft
    <3>3. link'[mem.leader.dev] = link[mem.leader.dev]
      BY <1>4, <2>5, <3>2 DEF DropAwaited, Disconnected
    <3>4. UserLeft(mem.leader)'
      BY <1>4, <2>1, <2>5, <3>2, <3>3 DEF DropAwaited, UserLeft, Uuid, Disconnected
    <3> QED  BY <1>4, <2>1, <2>2, <2>5, <3>1, <3>4 DEF DropAwaited
  <2> QED  BY <1>0, <1>4, <2>1, <2>3, <2>4, <2>5 DEF DropStands
<1>5. ASSUME NEW r \in Radios, Starts(r) \/ Lands(r)
      PROVE  DropStands'
  <2>1. UNCHANGED <<profile, flag, reasons, wish, mem, job>> /\ Latest' = Latest
    BY <1>5 DEF Starts, Lands, Others, Latest
  <2>2. /\ link[r].at \in {"starting", "busy"} /\ link'[r].at \in {"busy", "up"} /\ link'[r].on = link[r].on
        /\ \A s \in Radios : s # r => link'[s] = link[s]
    BY <1>0, <1>5 DEF Starts, Lands, On, Link
  <2> QED  BY <1>4, <2>1, <2>2
<1>6. ASSUME NEW r \in Radios, TimePasses(r) \/ GrownUp(r)
      PROVE  DropStands'
  <2>1. UNCHANGED <<link, profile, flag, wish>> /\ job.phase = "idle" /\ reasons \subseteq reasons'
    BY <1>6 DEF TimePasses, GrownUp, Others, nm, Because
  <2>2. job'.phase = job.phase /\ job'.todo = job.todo /\ job'.next = job.next
    BY <1>0, <1>6 DEF TimePasses, GrownUp, Because, Job
  <2>3. mem'.leader = mem.leader /\ mem'.last = mem.last /\ mem'.parked = mem.parked
    <3>1. CASE TimePasses(r)
      <4>1. mem' = [mem EXCEPT !.moves[r].stage = "old", !.moves[r].previous = None]
        BY <3>1 DEF TimePasses
      <4> QED  BY <1>0, <4>1 DEF Memory
    <3>2. CASE GrownUp(r)
      BY <1>0, <3>2 DEF GrownUp, Memory
    <3> QED  BY <1>6, <3>1, <3>2
  <2>4. Latest'.leader = Latest.leader
    BY <2>1, <2>2, <2>3 DEF Latest
  <2> QED  BY <1>4, <2>1, <2>2, <2>3, <2>4
<1>7. CASE FailsafeEnds
  <2>1. UNCHANGED <<link, profile, flag, wish, mem, job, reasons>> /\ Latest' = Latest
    BY <1>7 DEF FailsafeEnds, nm, Latest
  <2> QED  BY <1>4, <2>1
<1>8. CASE Switch \/ Vanishes \/ Die \/ Failsafe \/ \E p \in Profiles : UserDeletes(p)
  BY <1>1, <1>2, <1>8 DEF Switch, Vanishes, Die, Failsafe, UserDeletes
<1>9. ASSUME NEW r \in Radios,
             \/ Fails(r) \/ FallsBack(r) \/ Unplug(r) \/ Plug(r)
             \/ \E p \in Profiles : UserActivates(r, p) \/ Autoconnects(r, p)
      PROVE  DropStands'
  <2>1. CASE Fails(r) \/ FallsBack(r) \/ Unplug(r) \/ Plug(r)
    BY <1>1, <1>2, <2>1 DEF Fails, FallsBack, Unplug, Plug
  <2>2. ASSUME NEW p \in Profiles, UserActivates(r, p) \/ Autoconnects(r, p)
        PROVE  DropStands'
    BY <1>1, <1>2, <2>2 DEF UserActivates, Autoconnects
  <2> QED  BY <1>9, <2>1, <2>2
<1>10. ASSUME NEW r \in Radios, UserDisconnects(r)
       PROVE  DropStands'
  BY <1>3, <1>10 DEF DropStands
<1> QED  BY <1>5, <1>6, <1>7, <1>8, <1>9, <1>10 DEF Environment

LEMMA LeftStep ==
  ASSUME Left, [Next]_vars, "down_fails" \notin Faults
  PROVE  Left'
<1>1. Typed'
  BY TypedStep DEF Left
<1>2. OnSaved'
  BY OnSavedStep DEF Left
<1>3. Daemon => DropStands'
  BY DropPoll, DropStandDown, DropCommand, DropSave DEF Daemon
<1>4. Environment => DropStands'
  BY <1>1, DropAir
<1>5. ASSUME UNCHANGED vars PROVE DropStands'
  <2>1. UNCHANGED <<link, profile, flag, mem, job, reasons, wish>>
    BY <1>5 DEF vars, nm
  <2> QED  BY <2>1 DEF Left, DropStands, DropDone, DropAwaited, DropUnderway, UserLeft, Uuid, Disconnected,
                       Ssid, Wifi, Latest
<1> QED  BY <1>1, <1>2, <1>3, <1>4, <1>5 DEF Left, Next

\* When the user disconnects the leader's radio, the next poll takes the
\* other radios off the network, and no radio comes back to it before
\* something else happens: not by the commands that were still to run, not
\* by a later poll, not by a radio that was starting; however many radios,
\* profiles and networks there are, and whatever fails but one thing: nmcli
\* has to take the followers down ("down_fails" left out), for the leader is
\* forgotten whether it does or not, and a radio left up is followed next.
\* The other radios have to be on the leader's own profile, and past the
\* start of a join.
THEOREM DropSticks ==
  ASSUME "down_fails" \notin Faults
  PROVE  Spec => []PlainDropSticks
<1>1. Init => Left
  <2>1. SUFFICES ASSUME Init PROVE OnSaved /\ DropStands
    BY InitTyped DEF Left
  <2>2. wish.kind = "none" /\ TypeOK
    BY <2>1, InitTyped DEF Init, NoWish, Typed
  <2>3. \A p \in Profiles : profile[p].saved
    BY <2>1 DEF Init
  <2> QED  BY <2>2, <2>3 DEF OnSaved, DropStands, TypeOK, Link, ProfileOrNone
<1>2. Left /\ [Next]_vars => Left'
  BY LeftStep
<1>3. Left => PlainDropSticks
  <2> SUFFICES ASSUME Left, wish.kind = "drop", wish.met, wish.plain
               PROVE  OffNet(wish.net)
    BY DEF PlainDropSticks
  <2>1. DropDone
    BY DEF Left, DropStands
  <2> QED  BY <2>1 DEF DropDone, OffNet, Uuid
<1> QED  BY <1>1, <1>2, <1>3, PTL DEF Spec

-----------------------------------------------------------------------------
(* The choice: what the user picked last, while it stands. *)

\* Nothing is on radio s but what was there when last looked at, or a join of wifimimo's.
Quiet(s) == link[s].on \in {None, Latest.last[s], Latest.moves[s].target}

\* Radio r is on what the user picked, and no poll has seen it.
Picked(r) ==
  /\ ~mem.fresh /\ r \in mem.known /\ r \notin mem.appeared
  /\ link[r].at \in {"busy", "up"} /\ link[r].on \notin {mem.last[r], mem.moves[r].target}
  /\ ~(mem.moves[r].previous = link[r].on /\ mem.moves[r].stage # "old")
  /\ profile[link[r].on].saved /\ NetOf[link[r].on] = wish.net

\* The next poll finds the choice, and nothing else that could be one.
ChoiceAwaited ==
  /\ wish.net \in reasons /\ ~UserLeft(mem.leader)
  /\ lost => Ssid(mem.leader.on) # wish.net
  /\ \E r \in Wifi : Picked(r) /\ \A s \in Wifi \ {r} : Quiet(s)

\* The choice is in the memory that is saved, or about to be, and nothing but wifimimo's
\* own joins has happened since.
ChoiceTaken ==
  /\ None \notin Unspent /\ \A s \in Wifi : Quiet(s)
  /\ wish.met => Followed = wish.net
  /\ job.phase = "idle" => ~lost
  /\ job.phase = "acting" => NetBy(job.next.leader) = wish.net /\ (wish.met \/ wish.net \in job.why)

ChoiceStands ==
  wish.kind = "choice" /\ wish.plain =>
    /\ flag /\ Cardinality(Wifi) >= 2 /\ wish.net \in Nets
    /\ IF job.phase = "idle" /\ ~wish.met THEN ChoiceAwaited ELSE ChoiceTaken

\* A poll finds the radios where it leaves them for the next one.
LEMMA PolledQuiet ==
  ASSUME Sense', NEW r \in Wifi', Latest'.last = [s \in Radios |-> IF s \in Wifi THEN Uuid(s) ELSE None],
         link' = link
  PROVE  Quiet(r)'
<1>1. r \in Radios /\ r \in Wifi
  BY DEF Wifi
<1>2. CASE link'[r].at = "starting"
  BY <1>1, <1>2 DEF Sense, StartsJoined, Quiet
<1>3. CASE link'[r].at # "starting"
  <2>1. link'[r].on = Uuid(r)
    BY <1>1, <1>3 DEF Sense, Typed, Linked, Uuid, Wifi, TypeOK, Link
  <2> QED  BY <1>1, <2>1 DEF Quiet
<1> QED  BY <1>2, <1>3

\* No poll takes a quiet radio for a choice, and each takes the picked one for it.
LEMMA QuietOrPicked ==
  ASSUME Sense, job.phase = "idle", NEW r \in Wifi
  PROVE  /\ Quiet(r) => r \notin Activated
         /\ Picked(r) => r \in Activated /\ Uuid(r) = link[r].on /\ Ssid(Uuid(r)) = wish.net
<1>1. Latest = mem /\ r \in Radios /\ Linked /\ link[r] \in Link
  BY DEF Latest, Wifi, Sense, Typed, TypeOK
<1>2. ASSUME Quiet(r), r \in Activated PROVE FALSE
  <2>1. Uuid(r) # None /\ Uuid(r) # mem.last[r] /\ Uuid(r) = link[r].on /\ mem.moves[r].target # Uuid(r)
    BY <1>2 DEF Activated, Changed, Uuid, Ours
  <2> QED  BY <1>1, <1>2, <2>1 DEF Quiet
<1>3. ASSUME Picked(r)
      PROVE  r \in Activated /\ Uuid(r) = link[r].on /\ Ssid(Uuid(r)) = wish.net
  <2>1. Uuid(r) = link[r].on /\ link[r].on \in Profiles
    BY <1>1, <1>3 DEF Picked, Uuid, Linked, Link, ProfileOrNone
  <2>2. r \notin Appeared
    BY <1>3 DEF Picked, Appeared
  <2>3. ~Fallback(r) /\ ~Ours(r)
    BY <1>3, <2>1 DEF Picked, Fallback, Ours
  <2> QED  BY <1>3, <2>1, <2>2, <2>3, Nothing DEF Activated, Changed, Picked, Ssid
<1> QED  BY <1>2, <1>3

\* What a poll makes of a choice.
LEMMA ChoicePoll ==
  ASSUME Sense, Sense', ChoiceStands, Poll
  PROVE  ChoiceStands'
<1>1. PICK todo, next, l : /\ Plan(todo, next) /\ Planned(todo, next)
                           /\ l \in Leaders /\ Polled(l, todo, next)
  BY PollPlans DEF Sense, Typed
<1>2. /\ job.phase = "idle" /\ Latest = mem /\ Latest' = next /\ job'.phase = "acting"
      /\ job'.next = next /\ job'.why = reasons /\ Unspent = reasons /\ job.todo = <<>>
      /\ UNCHANGED <<link, profile, flag, lost, mem, reasons, wish>>
  BY <1>1 DEF Poll, Plan, nm, Latest, Unspent, Sense, Resting
<1>3. SUFFICES ASSUME wish.kind = "choice", wish.plain
               PROVE  ChoiceStands'
  BY <1>2 DEF ChoiceStands
<1>4. /\ flag /\ Cardinality(Wifi) >= 2 /\ wish.net \in Nets
      /\ IF ~wish.met THEN ChoiceAwaited ELSE ChoiceTaken
  BY <1>2, <1>3 DEF ChoiceStands
<1>5. Wifi' = Wifi /\ Followed' = Followed /\ Unspent' = {}
  BY <1>2 DEF Wifi, Followed, Unspent
<1>6. \A s \in Wifi : Quiet(s)'
  BY <1>1, <1>2, <1>5, PolledQuiet DEF Planned
<1>7. ~UserLeft(mem.leader)
  <2>1. CASE ~wish.met
    BY <1>4, <2>1 DEF ChoiceAwaited
  <2>2. CASE wish.met
    <3>1. SUFFICES ASSUME UserLeft(mem.leader) PROVE FALSE
      OBVIOUS
    <3>2. ~Joins(job.todo, mem.leader.dev)
      BY <1>2 DEF Joins
    <3>3. None \in Unspent
      BY <1>2, <1>3, <3>1, <3>2 DEF Sense, Excused, UserLeft, LooksLeft
    <3> QED  BY <1>4, <2>2, <3>3 DEF ChoiceTaken
  <2> QED  BY <2>1, <2>2
<1>8. ASSUME Choosers = {}, mem.leader # NoLeader, ~lost
      PROVE  NetBy(next.leader) = NetOf[mem.leader.on]
  <2>1. l = mem.leader
    BY <1>1, <1>8, WhoLeads
  <2>2. next.leader # NoLeader /\ next.leader.on = l.on
    BY <1>1, <1>7, <1>8, <2>1 DEF Polled, Follows
  <2> QED  BY <2>1, <2>2 DEF NetBy
<1>9. NetBy(next.leader) = wish.net
  <2>1. CASE wish.met
    <3>1. Activated = {}
      <4>1. Activated \subseteq Wifi
        BY DEF Activated, Changed
      <4> QED  BY <1>2, <1>4, <2>1, <4>1, QuietOrPicked DEF ChoiceTaken
    <3>2. mem.leader # NoLeader /\ NetOf[mem.leader.on] = wish.net /\ ~lost
      BY <1>2, <1>4, <2>1, Nothing DEF ChoiceTaken, Followed
    <3> QED  BY <1>8, <3>1, <3>2 DEF Choosers, Elsewhere
  <2>2. CASE ~wish.met
    <3>1. PICK r \in Wifi : Picked(r) /\ \A s \in Wifi \ {r} : Quiet(s)
      BY <1>4, <2>2 DEF ChoiceAwaited
    <3>2. Activated = {r} /\ Uuid(r) = link[r].on /\ Ssid(Uuid(r)) = wish.net
      <4>1. Activated \subseteq Wifi
        BY DEF Activated, Changed
      <4> QED  BY <1>2, <3>1, <4>1, QuietOrPicked
    <3>3. CASE Ssid(mem.leader.on) # wish.net
      <4>1. Choosers = {r} /\ l = LeaderOn(r)
        BY <1>1, <3>2, <3>3 DEF Choosers, Elsewhere, Leaders
      <4>2. l.on = Uuid(r) /\ l.dev = r /\ Uuid(r) \in Profiles /\ NetOf[Uuid(r)] = wish.net
        BY <1>4, <3>2, <4>1, Nothing DEF LeaderOn, Ssid
      <4>3. ~UserLeft(l) /\ l # NoLeader
        BY <4>2, Nothing DEF UserLeft, NoLeader
      <4>4. next.leader # NoLeader /\ next.leader.on = l.on
        BY <1>1, <4>1, <4>3 DEF Polled, Follows
      <4> QED  BY <4>2, <4>4 DEF NetBy
    <3>4. CASE Ssid(mem.leader.on) = wish.net
      <4>1. Choosers = {}
        BY <3>2, <3>4 DEF Choosers, Elsewhere
      <4>2. mem.leader.on \in Profiles /\ NetOf[mem.leader.on] = wish.net
        BY <1>4, <3>4, Nothing DEF Ssid
      <4>3. mem.leader # NoLeader /\ ~lost
        BY <1>4, <2>2, <3>4, <4>2, Nothing DEF ChoiceAwaited, NoLeader
      <4> QED  BY <1>8, <4>1, <4>2, <4>3
    <3> QED  BY <3>3, <3>4
  <2> QED  BY <2>1, <2>2
<1>10. wish.met \/ wish.net \in reasons
  BY <1>4 DEF ChoiceAwaited
<1>11. wish.met => Followed = wish.net
  BY <1>4 DEF ChoiceTaken
<1>12. ChoiceTaken'
  BY <1>2, <1>5, <1>6, <1>9, <1>10, <1>11 DEF ChoiceTaken
<1> QED  BY <1>2, <1>3, <1>4, <1>5, <1>12 DEF ChoiceStands

LEMMA ChoiceStandDown ==
  ASSUME ChoiceStands, StandDown
  PROVE  ChoiceStands'
<1>1. ~(flag /\ Cardinality(Wifi) >= 2) /\ wish' = wish
  BY WifiFinite DEF StandDown
<1> QED  BY <1>1 DEF ChoiceStands

LEMMA ChoiceCommand ==
  ASSUME Sense, ChoiceStands, Nmcli
  PROVE  ChoiceStands'
<1>0. Typed /\ job \in Job
  BY DEF Sense, Typed, TypeOK
<1>1. SUFFICES ASSUME wish'.kind = "choice", wish'.plain
               PROVE  ChoiceStands'
  BY DEF ChoiceStands
<1>2. ASSUME NEW op, Runs(op)
      PROVE  /\ UNCHANGED <<flag, failsafe, lost, mem, reasons, wish>> /\ job.phase = "acting"
             /\ PlanShape(job.todo, job.next) /\ 1 \in 1 .. Len(job.todo) /\ job.todo[1].op = op
  BY <1>0, <1>2, RunsCommand
<1>3. ~Restore
  <2>1. SUFFICES ASSUME Restore PROVE FALSE
    OBVIOUS
  <2>2. Runs("restore")
    BY <2>1 DEF Restore
  <2>3. job.next.leader = NoLeader
    <3>1. job.next = Forgotten(job.todo[1].profiles)
      BY <1>2, <2>2 DEF PlanShape
    <3>2. \A ps : Forgotten(ps).leader = NoLeader
      BY DEF Forgotten
    <3> QED  BY <3>1, <3>2
  <2>4. wish.net = None /\ wish.net \in Nets
    BY <1>1, <1>2, <2>2, <2>3 DEF ChoiceStands, ChoiceTaken, NetBy
  <2> QED  BY <2>4, Nothing
<1>4. PICK op : Runs(op) /\ Ran
  <2>1. Activate => Runs("up") /\ Ran
    BY DEF Activate
  <2> QED  BY <1>3, <2>1 DEF Nmcli, Multi, Unbind, Down, Disconnect
<1>5. /\ Latest = job.next /\ Latest' = Latest /\ Unspent' = Unspent /\ job'.phase = "acting"
      /\ job'.next = job.next /\ job'.why = job.why
      /\ UNCHANGED <<flag, lost, mem, reasons, wish>>
  BY <1>0, <1>2, <1>4, RanSense, RanIs
<1>6. ChoiceTaken /\ flag /\ Cardinality(Wifi) >= 2 /\ wish.net \in Nets
  BY <1>1, <1>2, <1>4, <1>5 DEF ChoiceStands
<1>7. /\ \A r \in Radios :
           /\ link'[r].at \in {"none", "gone"} <=> link[r].at \in {"none", "gone"}
           /\ \/ link'[r] = link[r] \/ link'[r].on = None
              \/ link'[r].on = job.next.leader.on /\ job.todo[1].op = "up" /\ job.todo[1].radios = {r}
  BY <1>0, NmcliMoves
<1>8. Wifi' = Wifi
  BY <1>7 DEF Wifi
<1>9. ASSUME NEW s \in Wifi PROVE Quiet(s)'
  <2>1. s \in Radios /\ Quiet(s)
    BY <1>6 DEF ChoiceTaken, Wifi
  <2>2. CASE link'[s] = link[s] \/ link'[s].on = None
    BY <1>5, <2>1, <2>2 DEF Quiet
  <2>3. CASE link'[s].on = job.next.leader.on /\ job.todo[1].op = "up" /\ job.todo[1].radios = {s}
    <3>1. job.next.moves[s].target = job.next.leader.on
      <4>1. PlanShape(job.todo, job.next) /\ 1 \in 1 .. Len(job.todo)
        BY <1>2, <1>4
      <4>2. \E r \in Radios : job.todo[1].radios = {r} /\ job.next.moves[r].target = job.next.leader.on
        BY <2>3, <4>1 DEF PlanShape
      <4> QED  BY <2>3, <4>2
    <3> QED  BY <1>5, <2>3, <3>1 DEF Quiet
  <2> QED  BY <1>7, <2>1, <2>2, <2>3
<1>10. ChoiceTaken'
  <2>1. Followed' = Followed /\ job.phase = "acting"
    BY <1>2, <1>4, <1>5 DEF Followed
  <2>2. /\ wish.met => Followed = wish.net
        /\ NetBy(job.next.leader) = wish.net /\ (wish.met \/ wish.net \in job.why) /\ None \notin Unspent
    BY <1>6, <2>1 DEF ChoiceTaken
  <2> QED  BY <1>5, <1>8, <1>9, <2>1, <2>2 DEF ChoiceTaken
<1> QED  BY <1>1, <1>5, <1>6, <1>8, <1>10 DEF ChoiceStands

LEMMA ChoiceSave ==
  ASSUME Sense, ChoiceStands, Save
  PROVE  ChoiceStands'
<1>1. /\ job.phase = "acting" /\ mem' = job.next /\ job'.phase = "idle" /\ job'.why = {}
      /\ reasons' = reasons \ job.why /\ lost' = FALSE /\ UNCHANGED <<link, profile, flag>>
      /\ wish' = [wish EXCEPT !.met = @ \/ (wish.kind = "choice" /\ wish.net \in job.why)
                                         \/ (wish.kind = "drop" /\ None \in job.why)]
  BY DEF Save, nm, Rest
<1>2. wish \in Wish
  BY DEF Sense, Typed, TypeOK
<1>3. Latest' = Latest /\ Unspent' = Unspent /\ Wifi' = Wifi /\ Followed' = NetBy(job.next.leader)
  BY <1>1 DEF Latest, Unspent, Wifi, Followed, NetBy
<1>4. wish'.kind = wish.kind /\ wish'.plain = wish.plain /\ wish'.net = wish.net
  BY <1>1, <1>2 DEF Wish
<1>5. SUFFICES ASSUME wish.kind = "choice", wish.plain
               PROVE  ChoiceStands'
  BY <1>4 DEF ChoiceStands
<1>6. ChoiceTaken /\ flag /\ Cardinality(Wifi) >= 2 /\ wish.net \in Nets
  BY <1>1, <1>5 DEF ChoiceStands
<1>7. wish'.met
  BY <1>1, <1>2, <1>5, <1>6 DEF Wish, ChoiceTaken
<1>8. \A s \in Wifi : Quiet(s)'
  BY <1>1, <1>3, <1>6 DEF ChoiceTaken, Quiet
<1>9. ChoiceTaken'
  BY <1>1, <1>3, <1>4, <1>6, <1>8 DEF ChoiceTaken
<1> QED  BY <1>1, <1>3, <1>4, <1>6, <1>7, <1>9 DEF ChoiceStands

LEMMA ChoiceUnchanged ==
  ASSUME ChoiceStands, UNCHANGED <<link, profile, flag, lost, mem, job, reasons, wish>>
  PROVE  ChoiceStands'
<1>1. /\ Latest' = Latest /\ Unspent' = Unspent /\ Wifi' = Wifi /\ Followed' = Followed
      /\ UserLeft(mem.leader)' = UserLeft(mem.leader) /\ \A p : Ssid(p)' = Ssid(p)
  BY DEF Latest, Unspent, Wifi, Followed, UserLeft, Disconnected, Uuid, Ssid
<1>2. \A s \in Wifi : (Quiet(s) => Quiet(s)') /\ (Picked(s) => Picked(s)')
  BY <1>1 DEF Quiet, Picked
<1> QED  BY <1>1, <1>2 DEF ChoiceStands, ChoiceAwaited, ChoiceTaken

LEMMA ChoiceAir ==
  ASSUME Sense, Typed', ChoiceStands, Environment
  PROVE  ChoiceStands'
<1>0. /\ TypeOK /\ Linked /\ Leading(mem.leader) /\ link \in [Radios -> Link] /\ mem \in Memory /\ job \in Job
      /\ Resting
  BY DEF Sense, Typed, TypeOK
<1>1. ASSUME wish'.kind # "choice" PROVE ChoiceStands'
  BY <1>1 DEF ChoiceStands
<1>2. NoWish.kind = "none"
  BY DEF NoWish
<1>3. ASSUME NEW r \in Radios, NEW p \in Profiles, UserActivates(r, p), wish'.kind = "choice", wish'.plain
      PROVE  ChoiceStands'
  <2>1. /\ Heard /\ ~New(r) /\ mem.last[r] # p
        /\ wish' = [kind |-> "choice", net |-> NetOf[p], met |-> FALSE,
                    plain |-> mem.moves[r].target # p
                                /\ ~(mem.moves[r].previous = p /\ mem.moves[r].stage # "old")]
        /\ Happens({NetOf[p]}) /\ r \in Wifi /\ Fits(r, p) /\ Seen(p)
        /\ link' = Activation(r, p, On("busy", p)) /\ UNCHANGED <<profile, flag>>
    BY <1>2, <1>3 DEF UserActivates
  <2>2. /\ job.phase = "idle" /\ flag /\ Cardinality(Wifi) >= 2 /\ ~mem.fresh /\ Latest = mem
        /\ \A s \in Wifi : Uuid(s) = mem.last[s] /\ ~(mem.leader.dev = s /\ UserLeft(mem.leader))
    BY <2>1 DEF Heard, InCharge, Latest
  <2>3. mem' = mem /\ job'.phase = "idle" /\ reasons' = reasons \union {NetOf[p]} /\ Latest' = mem
    BY <1>0, <2>1, <2>2 DEF Happens, Brings, Because, Job, Latest
  <2>4. PICK l : l = On("busy", p)
    OBVIOUS
  <2>5. l.at = "busy" /\ l.on = p /\ l.asked = FALSE
    BY <2>4 DEF On
  <2>6. /\ link'[r] = l /\ r \in Radios
        /\ \A s \in Radios :
             /\ s # r => link'[s] = link[s] \/ link'[s] = Idle(FALSE)
             /\ link'[s].at \in {"none", "gone"} <=> link[s].at \in {"none", "gone"}
    <3>1. Activates(Activation(r, p, l), r, l)
      BY <2>1, <2>5, ActivatedLinks
    <3> QED  BY <1>3, <2>1, <2>4, <3>1 DEF Activates
  <2>7. Wifi' = Wifi /\ \A q : Ssid(q)' = Ssid(q)
    BY <2>1, <2>6, SameNetworks
  <2>8. mem.moves[r].target # p /\ ~(mem.moves[r].previous = p /\ mem.moves[r].stage # "old")
    BY <1>3, <2>1
  <2>9. Picked(r)'
    BY <2>1, <2>2, <2>3, <2>5, <2>6, <2>8 DEF Picked, New, Fits
  <2>10. Idle(FALSE).on = None /\ Idle(FALSE).asked = FALSE
    BY DEF Idle
  <2>11. ASSUME NEW s \in Wifi \ {r} PROVE Quiet(s)'
    <3>1. s \in Radios
      BY DEF Wifi
    <3>2. CASE link'[s] = Idle(FALSE)
      BY <2>10, <3>2 DEF Quiet
    <3>3. CASE link'[s] = link[s] /\ link[s].at = "starting"
      BY <2>2, <2>3, <3>1, <3>3 DEF Sense, StartsJoined, Quiet
    <3>4. CASE link'[s] = link[s] /\ link[s].at # "starting"
      <4>1. link[s].on = None \/ link[s].on = Uuid(s)
        BY <1>0, <3>1, <3>4 DEF Linked, Uuid, Link
      <4> QED  BY <2>2, <2>3, <3>4, <4>1 DEF Quiet
    <3> QED  BY <2>6, <3>1, <3>2, <3>3, <3>4
  <2>12. ~UserLeft(mem.leader)'
    <3>1. SUFFICES ASSUME UserLeft(mem.leader)' PROVE FALSE
      OBVIOUS
    <3>2. PICK d \in Wifi : d = mem.leader.dev
      BY <2>3, <2>7, <3>1 DEF UserLeft
    <3>3. /\ mem.leader # NoLeader /\ d \notin mem.parked /\ link'[d].asked
          /\ link'[d].at \in {"idle", "starting"} /\ d \in Radios
      BY <2>3, <3>1, <3>2 DEF UserLeft, Disconnected, Wifi
    <3>4. d # r /\ link'[d] = link[d]
      BY <2>5, <2>6, <2>10, <3>3
    <3>5. mem.leader.on # None
      BY <1>0, <3>3, Nothing DEF Leading
    <3>6. UserLeft(mem.leader)
      BY <3>2, <3>3, <3>4, <3>5 DEF UserLeft, Disconnected, Uuid
    <3> QED  BY <2>2, <3>2, <3>6
  <2>13. wish'.net = NetOf[p] /\ ~wish'.met /\ NetOf[p] \in Nets
    BY <2>1, Nothing
  <2>14. lost' => Ssid(mem.leader.on) # NetOf[p]
    <3>1. Ssid(p) = NetOf[p]
      BY <1>3, <2>1 DEF Fits, Ssid
    <3> QED  BY <2>1, <3>1 DEF Seen
  <2>15. ChoiceAwaited'
    BY <2>1, <2>3, <2>7, <2>9, <2>11, <2>12, <2>13, <2>14 DEF ChoiceAwaited
  <2> QED  BY <2>1, <2>2, <2>3, <2>7, <2>13, <2>15 DEF ChoiceStands
\* The radios' progress.
<1>4. ASSUME NEW r \in Radios, Starts(r) \/ Lands(r)
      PROVE  ChoiceStands'
  <2>1. UNCHANGED <<profile, flag, lost, reasons, wish, mem, job>>
    BY <1>4 DEF Starts, Lands, Others
  <2>2. /\ link[r].at \in {"starting", "busy"} /\ link'[r].at \in {"busy", "up"} /\ link'[r].on = link[r].on
        /\ \A s \in Radios : s # r => link'[s] = link[s]
    BY <1>0, <1>4 DEF Starts, Lands, On, Link
  <2>3. Wifi' = Wifi /\ \A p : Ssid(p)' = Ssid(p)
    BY <2>1, <2>2, SameNetworks
  <2>4. Latest' = Latest /\ Unspent' = Unspent /\ Followed' = Followed
    BY <2>1 DEF Latest, Unspent, Followed
  <2>5. \A s \in Wifi : (Quiet(s) => Quiet(s)') /\ (Picked(s) => Picked(s)')
    <3>1. \A s \in Wifi : link'[s].on = link[s].on /\ (link[s].at \in {"busy", "up"} => link'[s].at \in {"busy", "up"})
      BY <2>2 DEF Wifi
    <3> QED  BY <2>1, <2>4, <3>1 DEF Quiet, Picked
  <2>6. UserLeft(mem.leader)' => UserLeft(mem.leader)
    <3>1. SUFFICES ASSUME UserLeft(mem.leader)' PROVE UserLeft(mem.leader)
      OBVIOUS
    <3>2. mem.leader.dev \in Radios /\ mem.leader.dev # r
      BY <2>1, <2>2, <3>1 DEF UserLeft, Disconnected, Wifi
    <3>3. link'[mem.leader.dev] = link[mem.leader.dev]
      BY <2>2, <3>2
    <3> QED  BY <2>1, <2>3, <3>1, <3>3 DEF UserLeft, Disconnected, Uuid
  <2>7. ChoiceAwaited => ChoiceAwaited'
    BY <2>1, <2>3, <2>5, <2>6 DEF ChoiceAwaited
  <2>8. ChoiceTaken => ChoiceTaken'
    BY <2>1, <2>3, <2>4, <2>5 DEF ChoiceTaken
  <2> QED  BY <2>1, <2>3, <2>7, <2>8 DEF ChoiceStands
<1>5. ASSUME NEW r \in Radios, TimePasses(r) \/ GrownUp(r)
      PROVE  ChoiceStands'
  <2>1. UNCHANGED <<link, profile, flag, lost, wish>> /\ job.phase = "idle"
    BY <1>5 DEF TimePasses, GrownUp, Others, nm
  <2>2. /\ job'.phase = "idle" /\ reasons \subseteq reasons'
        /\ None \in reasons' => None \in reasons
        /\ job'.why = {} /\ job.why = {}
    <3>1. CASE TimePasses(r)
      BY <1>0, <2>1, <3>1 DEF TimePasses, Others, Resting
    <3>2. CASE GrownUp(r)
      <4>1. PICK cs : cs = {NetOf[p] : p \in {Uuid(r)} \ {None, mem.last[r]}}
        OBVIOUS
      <4>2. Because(cs) /\ None \notin cs
        <5>1. \A p \in {Uuid(r)} \ {None, mem.last[r]} : NetOf[p] # None
          BY <1>0, UuidType, Nothing
        <5> QED  BY <3>2, <4>1, <5>1 DEF GrownUp
      <4> QED  BY <1>0, <2>1, <4>2 DEF Because, Job, Resting
    <3> QED  BY <1>5, <3>1, <3>2
  <2>3. /\ mem'.fresh = mem.fresh /\ mem'.leader = mem.leader /\ mem'.last = mem.last
        /\ mem'.known = mem.known /\ mem'.parked = mem.parked /\ mem'.appeared \subseteq mem.appeared
        /\ \A s \in Radios : /\ mem'.moves[s].target = mem.moves[s].target
                             /\ mem'.moves[s] = mem.moves[s] \/ Uuid(s) = mem.last[s]
    <3>1. CASE TimePasses(r)
      <4>1. Uuid(r) = mem.last[r] /\ mem' = [mem EXCEPT !.moves[r].stage = "old", !.moves[r].previous = None]
        BY <3>1 DEF TimePasses
      <4>2. PICK n \in Move : n = mem.moves[r]
        BY <1>0, <1>5 DEF Memory
      <4>3. PICK m : m = [n EXCEPT !.stage = "old", !.previous = None]
        OBVIOUS
      <4>4. mem' = [mem EXCEPT !.moves = [mem.moves EXCEPT ![r] = m]]
        BY <1>0, <1>5, <4>1, <4>2, <4>3 DEF Memory, Move
      <4>5. m.target = n.target
        BY <4>3 DEF Move
      <4>6. mem'.moves = [mem.moves EXCEPT ![r] = m]
        BY <1>0, <4>4 DEF Memory
      <4> QED  BY <1>0, <1>5, <4>1, <4>2, <4>4, <4>5, <4>6 DEF Memory
    <3>2. CASE GrownUp(r)
      BY <1>0, <3>2 DEF GrownUp, Memory
    <3> QED  BY <1>5, <3>1, <3>2
  <2>4. Wifi' = Wifi /\ (\A p : Ssid(p)' = Ssid(p)) /\ Latest = mem /\ Latest' = mem' /\ Followed' = Followed
    BY <2>1, <2>2, <2>3, SameNetworks DEF Latest, Followed
  <2>5. \A s \in Wifi : (Quiet(s) => Quiet(s)') /\ (Picked(s) => Picked(s)')
    <3>1. ASSUME NEW s \in Wifi PROVE Quiet(s) => Quiet(s)'
      BY <2>1, <2>3, <2>4 DEF Quiet, Wifi
    <3>2. ASSUME NEW s \in Wifi, Picked(s) PROVE Picked(s)'
      <4>1. s \in Radios /\ Uuid(s) # mem.last[s]
        BY <3>2 DEF Picked, Uuid, Wifi
      <4>2. mem'.moves[s] = mem.moves[s] /\ s \notin mem'.appeared
        BY <2>3, <3>2, <4>1 DEF Picked
      <4> QED  BY <2>1, <2>3, <3>2, <4>2 DEF Picked
    <3> QED  BY <3>1, <3>2
  <2>6. UserLeft(mem.leader)' <=> UserLeft(mem.leader)
    BY <2>1, <2>3, <2>4 DEF UserLeft, Disconnected, Uuid
  <2>7. ChoiceAwaited => ChoiceAwaited'
    BY <2>1, <2>2, <2>3, <2>4, <2>5, <2>6 DEF ChoiceAwaited
  <2>8. ChoiceTaken => ChoiceTaken'
    BY <2>1, <2>2, <2>4, <2>5 DEF ChoiceTaken, Unspent
  <2> QED  BY <2>1, <2>2, <2>4, <2>7, <2>8 DEF ChoiceStands
<1>6. CASE FailsafeEnds
  <2>1. UNCHANGED <<link, profile, flag, lost, mem, job, reasons, wish>>
    BY <1>6 DEF FailsafeEnds, nm
  <2> QED  BY <2>1, ChoiceUnchanged
<1>7. CASE Switch \/ Vanishes \/ Die \/ Failsafe \/ \E p \in Profiles : UserDeletes(p)
  BY <1>1, <1>2, <1>7 DEF Switch, Vanishes, Die, Failsafe, UserDeletes
<1>8. ASSUME NEW r \in Radios,
             \/ Fails(r) \/ FallsBack(r) \/ Unplug(r) \/ Plug(r) \/ UserDisconnects(r)
             \/ \E p \in Profiles : Autoconnects(r, p)
      PROVE  ChoiceStands'
  <2>1. CASE Fails(r) \/ FallsBack(r) \/ Unplug(r) \/ Plug(r) \/ \E p \in Profiles : Autoconnects(r, p)
    BY <1>1, <1>2, <2>1 DEF Fails, FallsBack, Unplug, Plug, Autoconnects
  <2>2. CASE UserDisconnects(r)
    BY <1>1, <1>2, <2>2 DEF UserDisconnects
  <2> QED  BY <1>8, <2>1, <2>2
<1>9. ASSUME NEW r \in Radios, NEW p \in Profiles, UserActivates(r, p)
      PROVE  ChoiceStands'
  BY <1>3, <1>9 DEF ChoiceStands
<1> QED  BY <1>4, <1>5, <1>6, <1>7, <1>8, <1>9 DEF Environment

LEMMA ChoiceStep ==
  ASSUME Sense, Sense', ChoiceStands, [Next]_vars
  PROVE  ChoiceStands'
<1>1. Typed'
  BY DEF Sense
<1>2. Daemon => ChoiceStands'
  BY ChoicePoll, ChoiceStandDown, ChoiceCommand, ChoiceSave DEF Daemon
<1>3. Environment => ChoiceStands'
  BY <1>1, ChoiceAir
<1>4. UNCHANGED vars => ChoiceStands'
  BY ChoiceUnchanged DEF vars, nm
<1> QED  BY <1>2, <1>3, <1>4 DEF Next

\* The network the user picks is the one that is followed from the poll
\* that sees it on, for as long as the user, NetworkManager and the air say
\* nothing else: the joins that bring the other radios over, those that fail,
\* their fallbacks, the radios that have just come and a parked leader's
\* radio that was handed back do not turn it.  The user picks between two
\* polls, on a radio that was not last joined to that very profile, nor to
\* another one from it within FLAP_WINDOW_S.  The two faults left
\* out each break it: a death between a poll's commands and its save, and a
\* radio that stays off when told to join.
THEOREM ChoiceStays ==
  ASSUME Faults \intersect {"crash_mid_poll", "stays_off"} = {}
  PROVE  Spec => []PlainChoiceWins
<1>1. Init => Sense /\ ChoiceStands
  <2>1. Init => wish.kind = "none"
    BY DEF Init, NoWish
  <2> QED  BY <2>1, InitSense DEF ChoiceStands
<1>2. Sense /\ ChoiceStands /\ [Next]_vars => (Sense /\ ChoiceStands)'
  BY SenseStep, ChoiceStep
<1>3. ChoiceStands => PlainChoiceWins
  BY DEF ChoiceStands, ChoiceTaken, PlainChoiceWins
<1> QED  BY <1>1, <1>2, <1>3, PTL DEF Spec
====
