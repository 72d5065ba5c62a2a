-------------------------- MODULE PlacementProofs --------------------------
(***************************************************************************)
(* Theorems about Placement: its types, one join at a time, no radio sent  *)
(* to a taken access point, the last working link kept, and a planner that *)
(* comes to rest.  The third and the fourth open up the ranking of the     *)
(* planner: whoever would double up, or leave the last link for nothing,   *)
(* is beaten by a radio that looks around.  The last one shows the ranking *)
(* to be a strict order in which each change that lands is a step upwards. *)
(***************************************************************************)
EXTENDS Placement, FiniteSetTheorems, WellFoundedInduction, TLAPS

-----------------------------------------------------------------------------
(* What the planner answers.                                               *)

ChangeOK(c, settling) ==
  /\ c.kind \in {"none", "join", "move", "park", "swap"}
  /\ c.kind \in {"join", "move"} => c.dev \in Radios /\ c.ap \in Aps
  /\ c.kind = "park" => c.dev \in Radios
  /\ c.kind = "swap" => /\ c.a \in Radios /\ c.b \in Radios
                        /\ c.aTo \in Aps /\ c.bTo \in Aps
  /\ settling => c.kind \in {"none", "park"}

LEMMA OptionsOK ==
  ASSUME NEW r \in Radios, NEW now, NEW views, views[r].cands \subseteq Aps,
         NEW o \in Options(r, now, views)
  PROVE  \/ o.kind = "scan"
         \/ o.kind = "go" /\ o.ap \in Aps /\ ~Settling(now)
<1> DEFINE scans == {Option("scan", NoAp) : x \in {s \in {r} : now[s].kind = "stay" /\
                      (StaysAs("dead", r, now, views) \/ now[s].ap \in Stacked(now))}}
           goes  == {Option("go", a) : a \in
                      {c \in views[r].cands \ {now[r].ap} :
                         /\ survey[r][c] >= MinJoinDbm
                         /\ StaysAs("strong", r, now, views) => c \in proven
                         /\ AnyoneUp(now) => survey[r][c] >= StrongDbm}}
<1>1. \/ o \in scans
      \/ o \in goes /\ ~Settling(now)
  BY DEF Options
<1>2. CASE o \in scans
  BY <1>2 DEF Option
<1>3. CASE o \in goes /\ ~Settling(now)
  BY <1>3 DEF Option
<1> QED  BY <1>1, <1>2, <1>3

LEMMA TrialsOK ==
  ASSUME NEW now, NEW views, NEW t \in Trials(now, views)
  PROVE  t.dev \in Radios /\ t.opt \in Options(t.dev, now, views)
<1>1. PICK r \in Radios : \E o \in Options(r, now, views) :
        t = [dev |-> r, opt |-> o, score |-> Score([now EXCEPT ![r] = o], views)]
  BY DEF Trials
<1> QED  BY <1>1

LEMMA SwapsOK ==
  ASSUME NEW now, NEW views, \A r \in Radios : views[r].cands \subseteq Aps,
         NEW w \in Swaps(now, views)
  PROVE  w.a \in Radios /\ w.b \in Radios /\ w.aTo \in Aps /\ w.bTo \in Aps
<1>1. PICK p \in Radios \X Radios :
        /\ now[p[2]].ap \in views[p[1]].cands /\ now[p[1]].ap \in views[p[2]].cands
        /\ w = [a |-> p[1], aTo |-> now[p[2]].ap, b |-> p[2], bTo |-> now[p[1]].ap,
                score |-> Score([now EXCEPT ![p[1]] = Option("go", now[p[2]].ap),
                                            ![p[2]] = Option("go", now[p[1]].ap)], views)]
  BY DEF Swaps
<1> QED  BY <1>1

LEMMA PlanOK ==
  ASSUME NEW views, \A r \in Radios : views[r].cands \subseteq Aps, NEW c \in PlanSlots(views)
  PROVE  ChangeOK(c, Settling(Current(views)))
<1> DEFINE now     == Current(views)
           trials  == Trials(now, views)
           kind(t) == IF t.opt.kind = "scan" THEN "park"
                      ELSE IF now[t.dev].kind = "stay" THEN "move" ELSE "join"
<1>1. \/ \E t \in trials : c = Change(kind(t), t.dev, t.opt.ap)
      \/ c = NoChange
      \/ /\ ~Settling(now)
         /\ \E w \in Swaps(now, views) :
              c = [kind |-> "swap", a |-> w.a, aTo |-> w.aTo, b |-> w.b, bTo |-> w.bTo]
  BY DEF PlanSlots
<1>2. ASSUME NEW t \in trials, c = Change(kind(t), t.dev, t.opt.ap)
      PROVE  ChangeOK(c, Settling(now))
  <2> HIDE DEF now
  <2>1. t.dev \in Radios /\ t.opt \in Options(t.dev, now, views)
    BY TrialsOK
  <2>2. \/ t.opt.kind = "scan"
        \/ t.opt.kind = "go" /\ t.opt.ap \in Aps /\ ~Settling(now)
    BY <2>1, OptionsOK
  <2>3. c.kind = kind(t) /\ c.dev = t.dev /\ c.ap = t.opt.ap
    BY <1>2 DEF Change
  <2> QED  BY <2>1, <2>2, <2>3 DEF ChangeOK
<1>3. CASE c = NoChange
  BY <1>3 DEF NoChange, Change, ChangeOK
<1>4. ASSUME ~Settling(now), NEW w \in Swaps(now, views),
             c = [kind |-> "swap", a |-> w.a, aTo |-> w.aTo, b |-> w.b, bTo |-> w.bTo]
      PROVE  ChangeOK(c, Settling(now))
  <2> HIDE DEF now
  <2> QED  BY <1>4, SwapsOK DEF ChangeOK
<1> QED  BY <1>1, <1>2, <1>3, <1>4

-----------------------------------------------------------------------------
(* What a poll does.                                                       *)

Views(struck, stalled) == [r \in Radios |-> Describe(r, struck, stalled)]

Planned(c, struck, stalled) ==
  /\ ChangeOK(c, Settling(Current(Views(struck, stalled))))
  /\ swap' = IF c.kind = "swap" THEN SwapOf(c) ELSE NoSwap

Swapping(c) ==
  /\ swap \in SwapRec
  /\ \/ c.kind = "wait" /\ swap' = swap
     \/ /\ swap.step = 0 /\ swap' = [swap EXCEPT !.step = 1]
        /\ c = Change("move", swap.a, swap.aTo)
     \/ /\ swap.step = 1 /\ swap' = [swap EXCEPT !.step = 2] /\ IsUp(swap.a)
        /\ c = Change("join", swap.b, swap.bTo)

LEMMA CandsOK ==
  ASSUME NEW r \in Radios, NEW struck, NEW stalled, place[r].phase \in {"up", "joining", "down"}
  PROVE  Describe(r, struck, stalled).cands \subseteq Aps
<1>1. CASE r \in stalled
  BY <1>1 DEF Describe, View, Unsettled, IsUp, IsGoing, IsDown
<1>2. CASE r \notin stalled /\ r \in Unsettled(struck)
  <2>1. ~IsUp(r)
    BY <1>2 DEF Unsettled
  <2> QED  BY <1>2, <2>1 DEF Describe, View
<1>3. CASE r \notin stalled /\ r \notin Unsettled(struck) /\ IsUp(r)
  BY <1>3 DEF Describe, View, IsUp, IsGoing, IsDown
<1>4. CASE r \notin stalled /\ r \notin Unsettled(struck) /\ IsGoing(r)
  BY <1>4 DEF Describe, View, IsUp, IsGoing, IsDown
<1>5. CASE r \notin stalled /\ r \notin Unsettled(struck) /\ IsDown(r)
  BY <1>5 DEF Describe, View, IsUp, IsGoing, IsDown
<1> QED  BY <1>1, <1>2, <1>3, <1>4, <1>5 DEF IsUp, IsGoing, IsDown

LEMMA PhaseOK ==
  ASSUME TypeOK, NEW r \in Radios
  PROVE  place[r].phase \in {"up", "joining", "down"} /\ place[r].ap \in Aps \union {NoAp}
<1>1. place[r] \in {Down} \union {Up(a) : a \in Aps} \union {Going(a) : a \in Aps}
  BY DEF TypeOK
<1> QED  BY <1>1 DEF Down, Up, Going

\* A join that is still open is shown to the planner as busy.
LEMMA BusyOK ==
  ASSUME NEW struck, NEW stalled, stalled \subseteq struck,
         NEW r \in Unsettled(struck), r \in Radios
  PROVE  Settling(Current(Views(struck, stalled)))
<1>1. r \notin stalled /\ ~IsUp(r)
  BY DEF Unsettled
<1>2. Describe(r, struck, stalled).status = "busy"
  BY <1>1 DEF Describe, View
<1>3. Views(struck, stalled)[r].status = "busy"
  BY <1>2 DEF Views
<1>4. Current(Views(struck, stalled))[r].kind = "busy"
  BY <1>3 DEF Current, Option
<1> QED  BY <1>4 DEF Settling

LEMMA PollOK ==
  ASSUME TypeOK, NEW dropped, NEW stalled, NEW fails, Poll(dropped, stalled, fails)
  PROVE  \E c : /\ Carry(c, Views(Struck(dropped, stalled), stalled), Struck(dropped, stalled),
                         stalled, fails)
                /\ \/ Planned(c, Struck(dropped, stalled), stalled)
                   \/ Swapping(c)
<1> DEFINE struck == Struck(dropped, stalled)
           step   == IF swap = NoSwap THEN Change("over", 0, NoAp) ELSE SwapStep(dropped, stalled)
           views  == Views(struck, stalled)
<1>1. PICK c \in IF step.kind = "over" THEN PlanSlots(views) ELSE {step} :
        /\ Carry(c, views, struck, stalled, fails)
        /\ swap' = IF c.kind = "swap" THEN SwapOf(c)
                   ELSE IF step.kind = "over" THEN NoSwap
                   ELSE IF step.kind = "wait" THEN swap ELSE [swap EXCEPT !.step = @ + 1]
  BY DEF Poll, Views
<1>2. CASE step.kind = "over"
  <2>1. c \in PlanSlots(views)
    BY <1>1, <1>2
  <2>2. \A r \in Radios : views[r].cands \subseteq Aps
    BY CandsOK, PhaseOK DEF Views
  <2>3. ChangeOK(c, Settling(Current(views)))
    <3> HIDE DEF views
    <3> QED  BY <2>1, <2>2, PlanOK
  <2>4. swap' = IF c.kind = "swap" THEN SwapOf(c) ELSE NoSwap
    <3> HIDE DEF step
    <3> QED  BY <1>1, <1>2
  <2>5. Planned(c, struck, stalled)
    BY <2>3, <2>4 DEF Planned
  <2> QED  BY <1>1, <2>5
<1>3. CASE step.kind # "over"
  <2>1. swap # NoSwap /\ swap \in SwapRec
    BY <1>3 DEF Change, TypeOK
  <2>2. c = step /\ step = SwapStep(dropped, stalled)
    BY <1>1, <1>3, <2>1
  <2>3. \/ step.kind = "wait"
        \/ swap.step = 0 /\ step = Change("move", swap.a, swap.aTo)
        \/ swap.step = 1 /\ IsUp(swap.a) /\ step = Change("join", swap.b, swap.bTo)
    <3>1. swap.step \in {0, 1, 2}
      BY <2>1 DEF SwapRec
    <3>2. CASE swap.step = 0
      BY <1>3, <2>2, <3>2 DEF SwapStep, Change
    <3>3. CASE swap.step = 1
      BY <1>3, <2>2, <3>3 DEF SwapStep, Change
    <3>4. CASE swap.step = 2
      BY <1>3, <2>2, <3>4 DEF SwapStep, Change
    <3> QED  BY <3>1, <3>2, <3>3, <3>4
  <2>4. CASE step.kind = "wait"
    <3>1. swap' = swap
      <4> HIDE DEF step
      <4> QED  BY <1>1, <2>2, <2>4
    <3> QED  BY <1>1, <2>1, <2>2, <2>4, <3>1 DEF Swapping
  <2>5. CASE swap.step = 0 /\ step = Change("move", swap.a, swap.aTo)
    <3>1. step.kind = "move"
      BY <2>5 DEF Change
    <3>2. swap' = [swap EXCEPT !.step = 1]
      <4> HIDE DEF step
      <4> QED  BY <1>1, <2>2, <2>5, <3>1
    <3> QED  BY <1>1, <2>1, <2>2, <2>5, <3>2 DEF Swapping
  <2>6. CASE swap.step = 1 /\ IsUp(swap.a) /\ step = Change("join", swap.b, swap.bTo)
    <3>1. step.kind = "join"
      BY <2>6 DEF Change
    <3>2. swap' = [swap EXCEPT !.step = 2]
      <4> HIDE DEF step
      <4> QED  BY <1>1, <2>2, <2>6, <3>1
    <3> QED  BY <1>1, <2>1, <2>2, <2>6, <3>2 DEF Swapping
  <2> QED  BY <2>3, <2>4, <2>5, <2>6
<1> QED  BY <1>2, <1>3

-----------------------------------------------------------------------------
(* Invariants.  A radio whose join is open has been sent somewhere, and the *)
(* step a swap has reached says whose join can be open.                     *)

OpenIsSent == \A r \in open : move[r] \in Aps

Alone ==
  /\ \A q, r \in open : q = r
  /\ swap.step = 0 => open = {}
  /\ swap.step = 1 => open \subseteq {swap.a}
  /\ swap.step = 2 => open \subseteq {swap.b}

IInv == TypeOK /\ OpenIsSent /\ Alone

THEOREM InitOK == Init => IInv
<1> SUFFICES ASSUME Init PROVE IInv
  OBVIOUS
<1>1. TypeOK
  <2>1. left \in 0..MaxTrouble
    BY TroubleAssumption DEF Init
  <2>2. place \in [Radios -> {Down} \union {Up(a) : a \in Aps} \union {Going(a) : a \in Aps}]
    BY DEF Init
  <2>3. survey \in [Radios -> [Aps -> Signals]] /\ swap \in SwapRec \union {NoSwap}
    BY SurveysAssumption DEF Init
  <2>4. /\ mute \subseteq Radios /\ open \subseteq Radios /\ recent \subseteq Radios
        /\ parked \subseteq Radios /\ proven \subseteq Aps /\ beat \in BOOLEAN
    BY DEF Init
  <2>5. /\ move \in [Radios -> Aps \union {NoAp}] /\ held \in [Radios -> Aps \union {NoAp}]
        /\ avoid \in [Radios -> SUBSET Aps]
    BY DEF Init
  <2> QED  BY <2>1, <2>2, <2>3, <2>4, <2>5 DEF TypeOK
<1>2. OpenIsSent /\ Alone
  BY DEF Init, OpenIsSent, Alone, NoSwap
<1> QED  BY <1>1, <1>2 DEF IInv

\* The radios that a change takes part in.
Joining(c) == IF c.kind \in {"join", "move"} THEN {c.dev} ELSE {}
Parking(c) == IF c.kind = "park" THEN {c.dev} ELSE IF c.kind = "swap" THEN {c.b} ELSE {}

LEMMA ChosenOK ==
  ASSUME TypeOK, NEW c, NEW struck, NEW stalled, Planned(c, struck, stalled) \/ Swapping(c)
  PROVE  /\ c.kind \in {"join", "move"} => c.dev \in Radios /\ c.ap \in Aps
         /\ Joining(c) \subseteq Radios /\ Parking(c) \subseteq Radios
         /\ swap' \in SwapRec \union {NoSwap}
<1>1. CASE Planned(c, struck, stalled)
  BY <1>1 DEF Planned, ChangeOK, Joining, Parking, SwapOf, SwapRec
<1>2. CASE Swapping(c)
  <2>1. CASE c.kind = "wait" /\ swap' = swap
    BY <1>2, <2>1 DEF Swapping, Joining, Parking
  <2>2. CASE /\ swap.step = 0 /\ swap' = [swap EXCEPT !.step = 1]
             /\ c = Change("move", swap.a, swap.aTo)
    BY <1>2, <2>2 DEF Swapping, Joining, Parking, Change, SwapRec
  <2>3. CASE /\ swap.step = 1 /\ swap' = [swap EXCEPT !.step = 2] /\ IsUp(swap.a)
             /\ c = Change("join", swap.b, swap.bTo)
    BY <1>2, <2>3 DEF Swapping, Joining, Parking, Change, SwapRec
  <2> QED  BY <1>2, <2>1, <2>2, <2>3 DEF Swapping
<1> QED  BY <1>1, <1>2

Parks(c, struck, stalled) ==
  Parking(c) \union Finish(Views(struck, stalled), Joining(c), stalled)

LEMMA CarriedOK ==
  ASSUME NEW c, NEW struck, NEW stalled, NEW fails,
         Carry(c, Views(struck, stalled), struck, stalled, fails)
  PROVE  /\ \E stays : place' = [r \in Radios |->
                         IF r \in Joining(c) THEN IF fails THEN Down ELSE Going(c.ap)
                         ELSE IF r \in Parks(c, struck, stalled) \ stays THEN Down ELSE place[r]]
         /\ move' = [r \in Radios |->
                       IF r \in Joining(c) THEN c.ap
                       ELSE IF r \in Parks(c, struck, stalled) \union struck THEN NoAp ELSE move[r]]
         /\ open' = (Unsettled(struck) \ Parks(c, struck, stalled)) \union Joining(c)
         /\ recent' = recent \union Joining(c) \union Parks(c, struck, stalled)
         /\ parked' = (parked \union Parks(c, struck, stalled)) \ Joining(c)
         /\ mute' \subseteq mute
BY DEF Carry, Joining, Parking, Parks

LEMMA StruckOK ==
  ASSUME NEW dropped \in SUBSET {r \in open : IsDown(r)},
         NEW stalled \in SUBSET {r \in open : IsGoing(r)}
  PROVE  stalled \subseteq Struck(dropped, stalled) /\ Struck(dropped, stalled) \subseteq open
BY DEF Struck, Unfit

LEMMA AvoidedOK ==
  ASSUME TypeOK, OpenIsSent, NEW struck \in SUBSET open, NEW r \in Radios
  PROVE  Avoided(r, struck) \subseteq Aps
<1>1. \A q \in struck : move[q] \in Aps
  BY DEF OpenIsSent
<1>2. \A q \in HeldMute \union Lost : held[q] \in Aps
  BY DEF HeldMute, Lost, TypeOK
<1>3. avoid[r] \subseteq Aps
  BY DEF TypeOK
<1> QED  BY <1>1, <1>2, <1>3 DEF Avoided

LEMMA PollKeeps ==
  ASSUME IInv,
         NEW dropped \in SUBSET {r \in open : IsDown(r)},
         NEW stalled \in SUBSET {r \in open : IsGoing(r)},
         NEW fails \in BOOLEAN, Poll(dropped, stalled, fails), left' \in 0..MaxTrouble
  PROVE  IInv'
<1> DEFINE struck == Struck(dropped, stalled)
<1> USE DEF IInv
<1>1. PICK c : /\ Carry(c, Views(struck, stalled), struck, stalled, fails)
               /\ Planned(c, struck, stalled) \/ Swapping(c)
  BY PollOK
<1>2. stalled \subseteq struck /\ struck \subseteq open
  BY StruckOK
<1> DEFINE parks == Parks(c, struck, stalled)
<1>3. /\ c.kind \in {"join", "move"} => c.dev \in Radios /\ c.ap \in Aps
      /\ Joining(c) \subseteq Radios /\ Parking(c) \subseteq Radios
      /\ swap' \in SwapRec \union {NoSwap}
  BY <1>1, ChosenOK
<1>4. /\ \E stays : place' = [r \in Radios |->
                       IF r \in Joining(c) THEN IF fails THEN Down ELSE Going(c.ap)
                       ELSE IF r \in parks \ stays THEN Down ELSE place[r]]
      /\ move' = [r \in Radios |-> IF r \in Joining(c) THEN c.ap
                                   ELSE IF r \in parks \union struck THEN NoAp ELSE move[r]]
      /\ open' = (Unsettled(struck) \ parks) \union Joining(c)
      /\ recent' = recent \union Joining(c) \union parks
      /\ parked' = (parked \union parks) \ Joining(c)
      /\ mute' \subseteq mute
  BY <1>1, CarriedOK
<1>5. parks \subseteq Radios
  BY <1>2, <1>3 DEF Parks, Finish, TypeOK
<1>6. Unsettled(struck) \subseteq open \ struck
  BY DEF Unsettled
<1>7. /\ avoid' = [r \in Radios |-> Avoided(r, struck)]
      /\ held' = [r \in Radios |-> IF IsUp(r) THEN place[r].ap ELSE NoAp]
      /\ proven' = proven \union {place[r].ap : r \in {q \in Radios \ mute : IsUp(q)}}
      /\ beat' = ~beat /\ survey' = survey
  BY DEF Poll
<1>8. Joining(c) # {} => c.ap \in Aps
  BY <1>3 DEF Joining
<1> HIDE DEF struck, parks
<1>9. TypeOK'
  <2>1. place' \in [Radios -> {Down} \union {Up(a) : a \in Aps} \union {Going(a) : a \in Aps}]
    <3>1. PICK stays : place' = [r \in Radios |->
                         IF r \in Joining(c) THEN IF fails THEN Down ELSE Going(c.ap)
                         ELSE IF r \in parks \ stays THEN Down ELSE place[r]]
      BY <1>4
    <3>2. \A r \in Radios : place[r] \in {Down} \union {Up(a) : a \in Aps} \union {Going(a) : a \in Aps}
      BY DEF TypeOK
    <3>3. \A r \in Joining(c) : Going(c.ap) \in {Going(a) : a \in Aps}
      BY <1>8
    <3> QED  BY <3>1, <3>2, <3>3
  <2>2. move' \in [Radios -> Aps \union {NoAp}]
    BY <1>4, <1>8 DEF TypeOK
  <2>3. /\ open' \subseteq Radios /\ recent' \subseteq Radios /\ parked' \subseteq Radios
        /\ mute' \subseteq Radios
    BY <1>3, <1>4, <1>5, <1>6 DEF TypeOK
  <2>4. avoid' \in [Radios -> SUBSET Aps]
    BY <1>2, <1>7, AvoidedOK DEF TypeOK
  <2>5. \A r \in Radios : IsUp(r) => place[r].ap \in Aps
    <3> SUFFICES ASSUME NEW r \in Radios, IsUp(r) PROVE place[r].ap \in Aps
      OBVIOUS
    <3>1. place[r] \in {Down} \union {Up(a) : a \in Aps} \union {Going(a) : a \in Aps}
      BY DEF TypeOK
    <3> QED  BY <3>1 DEF IsUp, Down, Up, Going
  <2>6. held' \in [Radios -> Aps \union {NoAp}] /\ proven' \subseteq Aps
    BY <1>7, <2>5 DEF TypeOK
  <2>7. beat' \in BOOLEAN /\ survey' \in [Radios -> [Aps -> Signals]]
    BY <1>7 DEF TypeOK
  <2> QED  BY <1>3, <2>1, <2>2, <2>3, <2>4, <2>6, <2>7 DEF TypeOK
<1>10. OpenIsSent'
  <2> SUFFICES ASSUME NEW r \in open' PROVE move'[r] \in Aps
    BY DEF OpenIsSent
  <2>1. CASE r \in Joining(c)
    BY <1>3, <1>4, <1>8, <2>1
  <2>2. CASE r \notin Joining(c)
    <3>1. r \in open /\ r \notin struck /\ r \notin parks
      BY <1>4, <1>6, <2>2
    <3> QED  BY <1>4, <2>2, <3>1 DEF OpenIsSent, TypeOK
  <2> QED  BY <2>1, <2>2
<1>11. Alone'
  <2>1. CASE Planned(c, struck, stalled)
    <3>1. Joining(c) # {} \/ c.kind = "swap" => Unsettled(struck) = {}
      <4> SUFFICES ASSUME Joining(c) # {} \/ c.kind = "swap", NEW r \in Unsettled(struck)
                   PROVE  FALSE
        OBVIOUS
      <4>1. r \in Radios
        BY <1>6 DEF TypeOK
      <4>2. Settling(Current(Views(struck, stalled)))
        BY <1>2, <4>1, BusyOK
      <4> QED  BY <2>1, <4>2 DEF Planned, ChangeOK, Joining
    <3>2. \A q, r \in open' : q = r
      <4>1. CASE Joining(c) = {}
        BY <1>4, <1>6, <4>1 DEF Alone
      <4>2. CASE Joining(c) # {}
        BY <1>4, <3>1, <4>2 DEF Joining
      <4> QED  BY <4>1, <4>2
    <3>3. CASE c.kind = "swap"
      <4>1. open' = {}
        BY <1>4, <3>1, <3>3 DEF Joining
      <4> QED  BY <4>1 DEF Alone
    <3>4. CASE c.kind # "swap"
      <4>1. swap' = NoSwap
        BY <2>1, <3>4 DEF Planned
      <4> QED  BY <3>2, <4>1 DEF Alone, NoSwap
    <3> QED  BY <3>3, <3>4
  <2>2. CASE Swapping(c)
    <3>1. CASE c.kind = "wait" /\ swap' = swap
      <4>1. open' \subseteq open
        BY <1>4, <1>6, <3>1 DEF Joining
      <4> QED  BY <3>1, <4>1 DEF Alone
    <3>2. CASE /\ swap.step = 0 /\ swap' = [swap EXCEPT !.step = 1]
               /\ c = Change("move", swap.a, swap.aTo)
      <4>1. open' = {swap.a}
        BY <1>4, <1>6, <3>2 DEF Alone, Joining, Change
      <4>2. swap'.step = 1 /\ swap'.a = swap.a
        BY <2>2, <3>2 DEF Swapping, SwapRec
      <4> QED  BY <4>1, <4>2 DEF Alone
    <3>3. CASE /\ swap.step = 1 /\ swap' = [swap EXCEPT !.step = 2] /\ IsUp(swap.a)
               /\ c = Change("join", swap.b, swap.bTo)
      <4>1. Unsettled(struck) = {}
        BY <3>3 DEF Alone, Unsettled
      <4>2. open' = {swap.b}
        BY <1>4, <3>3, <4>1 DEF Joining, Change
      <4>3. swap'.step = 2 /\ swap'.b = swap.b
        BY <2>2, <3>3 DEF Swapping, SwapRec
      <4> QED  BY <4>2, <4>3 DEF Alone
    <3> QED  BY <2>2, <3>1, <3>2, <3>3 DEF Swapping
  <2> QED  BY <1>1, <2>1, <2>2
<1> QED  BY <1>9, <1>10, <1>11

LEMMA LeftOK == ASSUME TypeOK, Trouble \/ Peace PROVE left' \in 0..MaxTrouble
BY TroubleAssumption DEF TypeOK, Trouble, Peace

LEMMA BecomesOK ==
  ASSUME TypeOK, NEW r \in Radios, NEW a \in Aps,
         Becomes(r, Down) \/ Becomes(r, Up(a)) \/ Becomes(r, Going(a))
  PROVE  place' \in [Radios -> {Down} \union {Up(b) : b \in Aps} \union {Going(b) : b \in Aps}]
BY DEF TypeOK, Becomes

LEMMA WorldKeeps ==
  ASSUME IInv, World
  PROVE  IInv'
<1> USE DEF IInv
<1>1. ASSUME place' \in [Radios -> {Down} \union {Up(a) : a \in Aps} \union {Going(a) : a \in Aps}],
             survey' \in [Radios -> [Aps -> Signals]], mute' \subseteq Radios,
             Trouble \/ Peace, UNCHANGED <<beat, memory>>
      PROVE  IInv'
  <2>1. left' \in 0..MaxTrouble
    BY <1>1, LeftOK
  <2> QED  BY <1>1, <2>1 DEF TypeOK, OpenIsSent, Alone, memory
<1>2. ASSUME NEW r \in Radios, Land(r) PROVE IInv'
  <2>1. place[r].ap \in Aps
    <3>1. place[r] \in {Down} \union {Up(a) : a \in Aps} \union {Going(a) : a \in Aps}
      BY DEF TypeOK
    <3> QED  BY <1>2, <3>1 DEF Land, IsGoing, Down, Up, Going
  <2>2. place' \in [Radios -> {Down} \union {Up(a) : a \in Aps} \union {Going(a) : a \in Aps}]
    BY <1>2, <2>1, BecomesOK DEF Land
  <2> QED  BY <1>1, <1>2, <2>2 DEF Land, TypeOK
<1>3. ASSUME NEW r \in Radios, GoesDown(r) PROVE IInv'
  <2>1. place' \in [Radios -> {Down} \union {Up(a) : a \in Aps} \union {Going(a) : a \in Aps}]
    BY <1>3 DEF GoesDown, Becomes, TypeOK
  <2> QED  BY <1>1, <1>3, <2>1 DEF GoesDown, TypeOK
<1>4. ASSUME NEW r \in Radios, GoesMute(r) \/ Recovers(r) PROVE IInv'
  BY <1>1, <1>4 DEF GoesMute, Recovers, TypeOK
<1>5. ASSUME NEW r \in Radios, NEW a \in Aps, NmConnects(r, a) PROVE IInv'
  <2>1. place' \in [Radios -> {Down} \union {Up(b) : b \in Aps} \union {Going(b) : b \in Aps}]
    BY <1>5, BecomesOK DEF NmConnects
  <2> QED  BY <1>1, <1>5, <2>1 DEF NmConnects, TypeOK
<1>6. CASE SignalsChange
  <2>1. survey' \in [Radios -> [Aps -> Signals]]
    BY <1>6, SurveysAssumption DEF SignalsChange
  <2> QED  BY <1>1, <1>6, <2>1 DEF SignalsChange, TypeOK
<1>7. ASSUME NEW r \in Radios, Rest(r) PROVE IInv'
  BY <1>7, LeftOK DEF Rest, TypeOK, OpenIsSent, Alone
<1>8. ASSUME NEW r \in Radios, NEW a \in Aps, Forgets(r, a) PROVE IInv'
  BY <1>8, LeftOK DEF Forgets, TypeOK, OpenIsSent, Alone
<1> QED  BY <1>2, <1>3, <1>4, <1>5, <1>6, <1>7, <1>8 DEF World

THEOREM StepOK == IInv /\ [Next]_vars => IInv'
<1> SUFFICES ASSUME IInv, [Next]_vars PROVE IInv'
  OBVIOUS
<1>1. CASE PollAll
  <2>1. left' \in 0..MaxTrouble
    BY <1>1, LeftOK DEF PollAll, IInv
  <2> QED  BY <1>1, <2>1, PollKeeps DEF PollAll
<1>2. CASE World
  BY <1>2, WorldKeeps
<1>3. CASE UNCHANGED vars
  BY <1>3 DEF vars, IInv, TypeOK, OpenIsSent, Alone
<1> QED  BY <1>1, <1>2, <1>3 DEF Next

THEOREM Invariant == Spec => []IInv
<1> QED  BY InitOK, StepOK, PTL DEF Spec

(* Every state of the placement model is typed, whatever the planner       *)
(* decides and the world does (plan_follow, plan_slots, swap_step).        *)
THEOREM Typed == Spec => []TypeOK
<1>1. IInv => TypeOK
  BY DEF IInv
<1> QED  BY <1>1, Invariant, PTL

(* For any number of radios and access points at most one of the           *)
(* follower's joins is open: two switches never overlap (plan_follow, "A   *)
(* switch in flight is busy"; swap_step).                                  *)
THEOREM OneJoinAtATime == Spec => []OneAtATime
<1>1. IInv => OneAtATime
  <2> SUFFICES ASSUME IInv PROVE OneAtATime
    OBVIOUS
  <2>1. CASE open = {}
    BY <2>1, FS_EmptySet DEF OneAtATime
  <2>2. ASSUME NEW r \in open PROVE OneAtATime
    <3>1. open = {r}
      BY <2>2 DEF IInv, Alone
    <3>2. Cardinality({r}) = 1
      BY FS_Singleton
    <3> QED  BY <3>1, <3>2 DEF OneAtATime
  <2> QED  BY <2>1, <2>2
<1> QED  BY <1>1, Invariant, PTL

-----------------------------------------------------------------------------
(* How the planner ranks: the parts of a score that decide.                *)

Placing(plan) == {r \in Radios : plan[r].ap # NoAp}
Held(plan)    == {plan[r].ap : r \in Placing(plan)}
Doubled(plan) == Cardinality(Placing(plan)) - Cardinality(Held(plan))
Strongs(plan, views) == {r \in Placing(plan) : Grade(r, plan[r], views) = "strong"}

LEMMA ScoreParts ==
  ASSUME NEW plan, NEW views
  PROVE  /\ Score(plan, views)[1] = -Doubled(plan)
         /\ Score(plan, views)[2] = IF Placing(plan) # {} THEN 1 ELSE 0
         /\ Score(plan, views)[3] = Cardinality(Strongs(plan, views))
BY DEF Score, Placing, Held, Strongs, Shared, Doubled

LEMMA Counts ==
  ASSUME NEW plan
  PROVE  IsFiniteSet(Placing(plan)) /\ IsFiniteSet(Held(plan))
         /\ Cardinality(Placing(plan)) \in Nat /\ Cardinality(Held(plan)) \in Nat
         /\ Doubled(plan) \in Int
<1>1. IsFiniteSet(Placing(plan))
  BY RadiosAssumption, FS_Subset DEF Placing
<1>2. IsFiniteSet(Held(plan))
  <2> DEFINE f == [r \in Placing(plan) |-> plan[r].ap]
  <2>1. f \in Surjection(Placing(plan), Held(plan))
    BY DEF Surjection, Held
  <2> QED  BY <1>1, <2>1, FS_Surjection
<1>3. Cardinality(Placing(plan)) \in Nat /\ Cardinality(Held(plan)) \in Nat
  BY <1>1, <1>2, FS_CardinalityType
<1> QED  BY <1>1, <1>2, <1>3 DEF Doubled

LEMMA StrongCounts ==
  ASSUME NEW plan, NEW views
  PROVE  IsFiniteSet(Strongs(plan, views)) /\ Cardinality(Strongs(plan, views)) \in Nat
BY Counts, FS_Subset, FS_CardinalityType DEF Strongs

\* A radio that looks around from a shared access point leaves one fewer doubled up.
LEMMA ScanUnshares ==
  ASSUME NEW plan, NEW r \in Radios, NEW q \in Radios \ {r}, DOMAIN plan = Radios,
         plan[r].ap # NoAp, plan[q].ap = plan[r].ap, NEW to, to = [plan EXCEPT ![r] = Option("scan", NoAp)]
  PROVE  Placing(to) = Placing(plan) \ {r} /\ Doubled(to) = Doubled(plan) - 1
<1>1. \A s \in Radios : to[s] = IF s = r THEN Option("scan", NoAp) ELSE plan[s]
  OBVIOUS
<1>2. Option("scan", NoAp).ap = NoAp
  BY DEF Option
<1>3. Placing(to) = Placing(plan) \ {r}
  BY <1>1, <1>2 DEF Placing
<1>4. Held(to) = Held(plan)
  <2>1. \A s \in Placing(to) : s # r /\ to[s] = plan[s] /\ s \in Placing(plan)
    BY <1>1, <1>3 DEF Placing
  <2>2. q \in Placing(to) /\ to[q].ap = plan[r].ap
    BY <1>1, <1>3 DEF Placing
  <2>3. Held(to) \subseteq Held(plan)
    BY <2>1 DEF Held
  <2>4. ASSUME NEW s \in Placing(plan) PROVE plan[s].ap \in Held(to)
    <3>1. CASE s = r
      BY <2>2, <3>1 DEF Held
    <3>2. CASE s # r
      <4>1. s \in Placing(to) /\ to[s].ap = plan[s].ap
        BY <1>1, <1>3, <3>2 DEF Placing
      <4> QED  BY <4>1 DEF Held
    <3> QED  BY <3>1, <3>2
  <2>5. Held(plan) \subseteq Held(to)
    BY <2>4 DEF Held
  <2> QED  BY <2>3, <2>5
<1>5. r \in Placing(plan)
  BY DEF Placing
<1>6. Cardinality(Placing(plan) \ {r}) = Cardinality(Placing(plan)) - 1
  BY <1>5, Counts, FS_RemoveElement
<1>7. Cardinality(Placing(plan)) \in Nat /\ Cardinality(Held(plan)) \in Nat
  BY Counts
<1>8. Doubled(to) = (Cardinality(Placing(plan)) - 1) - Cardinality(Held(plan))
  BY <1>3, <1>4, <1>6 DEF Doubled
<1>9. Doubled(to) = Doubled(plan) - 1
  BY <1>7, <1>8 DEF Doubled
<1> QED  BY <1>3, <1>9

\* Going to a held access point never leaves fewer doubled up, and one more unless the
\* radio leaves a shared one.
LEMMA GoShares ==
  ASSUME NEW plan, NEW r \in Radios, NEW q \in Radios \ {r}, DOMAIN plan = Radios,
         NEW a, a # NoAp, plan[r].ap # a, plan[q].ap = a,
         NEW to, to = [plan EXCEPT ![r] = Option("go", a)]
  PROVE  /\ Doubled(to) >= Doubled(plan)
         /\ Doubled(to) <= Doubled(plan) =>
               plan[r].ap # NoAp /\ \E s \in Radios \ {r} : plan[s].ap = plan[r].ap
<1>1. \A s \in Radios : to[s] = IF s = r THEN Option("go", a) ELSE plan[s]
  OBVIOUS
<1>2. Option("go", a).ap = a
  BY DEF Option
<1>3. Placing(to) = Placing(plan) \union {r}
  BY <1>1, <1>2 DEF Placing
<1>4. a \in Held(plan)
  BY DEF Held, Placing
<1>5. Held(to) \subseteq Held(plan)
  <2> SUFFICES ASSUME NEW s \in Placing(to) PROVE to[s].ap \in Held(plan)
    BY DEF Held
  <2>1. CASE s = r
    BY <1>1, <1>2, <1>4, <2>1
  <2>2. CASE s # r
    <3>1. s \in Placing(plan) /\ to[s] = plan[s]
      BY <1>1, <1>3, <2>2 DEF Placing
    <3> QED  BY <3>1 DEF Held
  <2> QED  BY <2>1, <2>2
<1>6. Cardinality(Held(to)) <= Cardinality(Held(plan))
  BY <1>5, Counts, FS_Subset
<1>7. /\ Cardinality(Placing(plan)) \in Nat /\ Cardinality(Held(plan)) \in Nat
      /\ Cardinality(Placing(to)) \in Nat /\ Cardinality(Held(to)) \in Nat
  BY Counts
<1>8. CASE plan[r].ap = NoAp
  <2>1. r \notin Placing(plan)
    BY <1>8 DEF Placing
  <2>2. Cardinality(Placing(to)) = Cardinality(Placing(plan)) + 1
    BY <1>3, <2>1, Counts, FS_AddElement
  <2> QED  BY <1>6, <1>7, <2>2 DEF Doubled
<1>9. CASE plan[r].ap # NoAp
  <2>1. Placing(to) = Placing(plan) /\ r \in Placing(plan)
    BY <1>3, <1>9 DEF Placing
  <2>2. CASE \E s \in Radios \ {r} : plan[s].ap = plan[r].ap
    BY <1>6, <1>7, <1>9, <2>1, <2>2 DEF Doubled
  <2>3. CASE ~ \E s \in Radios \ {r} : plan[s].ap = plan[r].ap
    <3>1. plan[r].ap \in Held(plan)
      BY <2>1 DEF Held
    <3>2. plan[r].ap \notin Held(to)
      <4> SUFFICES ASSUME NEW s \in Placing(to), to[s].ap = plan[r].ap PROVE FALSE
        BY DEF Held
      <4>1. CASE s = r
        BY <1>1, <1>2, <4>1
      <4>2. CASE s # r
        BY <1>1, <2>3, <4>2 DEF Placing
      <4> QED  BY <4>1, <4>2
    <3>3. Held(to) \subseteq Held(plan) \ {plan[r].ap}
      BY <1>5, <3>2
    <3>4. IsFiniteSet(Held(plan) \ {plan[r].ap})
          /\ Cardinality(Held(plan) \ {plan[r].ap}) = Cardinality(Held(plan)) - 1
      BY <3>1, Counts, FS_RemoveElement
    <3>5. Cardinality(Held(to)) <= Cardinality(Held(plan)) - 1
      <4> DEFINE rest == Held(plan) \ {plan[r].ap}
      <4>1. IsFiniteSet(rest) /\ Cardinality(rest) = Cardinality(Held(plan)) - 1 /\ Held(to) \in SUBSET rest
        BY <3>3, <3>4
      <4> HIDE DEF rest
      <4> QED  BY <4>1, FS_Subset
    <3> QED  BY <1>7, <2>1, <3>5 DEF Doubled
  <2> QED  BY <2>2, <2>3
<1> QED  BY <1>8, <1>9

LEMMA BeatsByOne ==
  ASSUME NEW s, NEW t, NEW n \in Nat, n >= 1, s[1] > t[1]
  PROVE  Beats(s, t, n)
<1>1. 1 \in 1..n /\ \A j \in 1..(1 - 1) : s[j] = t[j]
  OBVIOUS
<1> QED  BY <1>1 DEF Beats

LEMMA BeatsByThree ==
  ASSUME NEW s, NEW t, s[1] = t[1], s[2] = t[2], s[3] > t[3]
  PROVE  Beats(s, t, 7)
<1>1. 3 \in 1..7 /\ \A j \in 1..(3 - 1) : s[j] = t[j]
  <2>1. \A j \in 1..(3 - 1) : j = 1 \/ j = 2
    OBVIOUS
  <2> QED  BY <2>1
<1> QED  BY <1>1 DEF Beats

LEMMA BetterShares ==
  ASSUME NEW s, NEW t, s[1] \in Int, t[1] \in Int, Better(s, t)
  PROVE  s[1] >= t[1]
<1>1. CASE Ties(s, t, 5)
  <2>1. 1 \in 1..5
    OBVIOUS
  <2>2. s[1] = t[1]
    BY <1>1, <2>1 DEF Ties
  <2> QED  BY <2>2
<1>2. CASE Beats(s, t, 5)
  <2>1. PICK i \in 1..5 : s[i] > t[i] /\ \A j \in 1..(i - 1) : s[j] = t[j]
    BY <1>2 DEF Beats
  <2>2. CASE i = 1
    BY <2>1, <2>2
  <2>3. CASE i # 1
    <3>1. 1 \in 1..(i - 1)
      BY <2>3
    <3>2. s[1] = t[1]
      BY <2>1, <3>1
    <3> QED  BY <3>2
  <2> QED  BY <2>2, <2>3
<1> QED  BY <1>1, <1>2 DEF Better

-----------------------------------------------------------------------------
(* What the planner sees, and what it may choose.                          *)

\* The planner sees a radio that is up on its access point, and no other one on any.
Seen(now) ==
  /\ DOMAIN now = Radios
  /\ \A r \in Radios :
       \/ now[r].kind = "stay" /\ now[r] = Option("stay", now[r].ap) /\ now[r].ap \in Aps
       \/ now[r].kind = "busy"
       \/ now[r].kind = "scan" /\ now[r].ap = NoAp

LEMMA ApIsSome == \A a \in Aps : a # NoAp
BY ApsAssumption DEF NoAp

LEMMA StackedIs ==
  ASSUME NEW now, NEW a \in Aps, NEW r \in Radios, NEW q \in Radios \ {r},
         now[r] = Option("stay", a), now[q] = Option("stay", a)
  PROVE  a \in Stacked(now)
<1> DEFINE both == {s \in Radios : now[s] = Option("stay", a)}
<1>1. {r, q} \in SUBSET both
  OBVIOUS
<1>2. IsFiniteSet(both)
  BY RadiosAssumption, FS_Subset
<1>3. Cardinality({r, q}) = 2
  <2>1. IsFiniteSet({r}) /\ Cardinality({r}) = 1
    BY FS_Singleton
  <2>2. Cardinality({r} \union {q}) = 2
    BY <2>1, FS_AddElement
  <2>3. {r} \union {q} = {r, q}
    OBVIOUS
  <2> QED  BY <2>2, <2>3
<1> HIDE DEF both
<1>4. Cardinality(both) >= 2
  BY <1>1, <1>2, <1>3, FS_Subset, FS_CardinalityType
<1>5. Cardinality(both) > 1
  BY <1>2, <1>4, FS_CardinalityType
<1> QED  BY <1>5 DEF Stacked, both

\* A radio on a shared access point may look around, unless it is left alone.
LEMMA ScanIsTrial ==
  ASSUME NEW now, NEW views, Seen(now), NEW r \in Radios, NEW q \in Radios \ {r},
         now[r].kind = "stay", now[q].kind = "stay", now[q].ap = now[r].ap,
         views[r].locked => StaysAs("dead", r, now, views)
  PROVE  \E u \in Trials(now, views) :
           u.dev = r /\ u.score = Score([now EXCEPT ![r] = Option("scan", NoAp)], views)
<1> DEFINE scan == Option("scan", NoAp)
           to   == [now EXCEPT ![r] = scan]
           u    == [dev |-> r, opt |-> scan, score |-> Score(to, views)]
<1>1. now[r] = Option("stay", now[r].ap) /\ now[q] = Option("stay", now[r].ap) /\ now[r].ap \in Aps
  BY DEF Seen
<1>2. now[r].ap \in Stacked(now)
  BY <1>1, StackedIs
<1>3. scan \in Options(r, now, views)
  <2>1. scan \in {Option("scan", NoAp) : x \in {s \in {r} : now[s].kind = "stay" /\
                    (StaysAs("dead", r, now, views) \/ now[s].ap \in Stacked(now))}}
    BY <1>2
  <2>2. ~(now[r].kind = "busy" \/ (views[r].locked /\ ~StaysAs("dead", r, now, views)))
    OBVIOUS
  <2> QED  BY <2>1, <2>2 DEF Options
<1>4. Better(Score(to, views), Score(now, views))
  <2>1. Doubled(to) = Doubled(now) - 1
    BY <1>1, ScanUnshares, ApIsSome DEF Seen
  <2> HIDE DEF to
  <2>2. Score(to, views)[1] > Score(now, views)[1]
    BY <2>1, ScoreParts, Counts
  <2>3. Beats(Score(to, views), Score(now, views), 5)
    BY <2>2, BeatsByOne
  <2> QED  BY <2>3 DEF Better
<1>5. u \in UNION {{[dev |-> s, opt |-> o, score |-> Score([now EXCEPT ![s] = o], views)] :
                      o \in Options(s, now, views)} : s \in Radios}
  <2>1. u \in {[dev |-> r, opt |-> o, score |-> Score([now EXCEPT ![r] = o], views)] :
                 o \in Options(r, now, views)}
    BY <1>3
  <2> QED  BY <2>1
<1>6. ~TooLittle(r, scan, Score(to, views), Score(now, views), now)
  BY DEF TooLittle, Option
<1>7. u \in Trials(now, views)
  BY <1>4, <1>5, <1>6 DEF Trials
<1> QED  BY <1>7

\* No better change is left aside.
Best(t, trials) == t \in trials /\ ~ \E u \in trials : Beats(u.score, t.score, 7)

LEMMA TrialIs ==
  ASSUME NEW now, NEW views, NEW t \in Trials(now, views)
  PROVE  /\ t.dev \in Radios /\ t.opt \in Options(t.dev, now, views)
         /\ t.score = Score([now EXCEPT ![t.dev] = t.opt], views)
         /\ Better(t.score, Score(now, views))
<1>1. PICK r \in Radios : \E o \in Options(r, now, views) :
        t = [dev |-> r, opt |-> o, score |-> Score([now EXCEPT ![r] = o], views)]
  BY DEF Trials
<1>2. Better(t.score, Score(now, views))
  BY DEF Trials
<1> QED  BY <1>1, <1>2

LEMMA OptionIs ==
  ASSUME NEW now, NEW views, NEW r \in Radios, views[r].cands \subseteq Aps,
         NEW o \in Options(r, now, views)
  PROVE  /\ views[r].locked => StaysAs("dead", r, now, views)
         /\ \/ /\ o = Option("scan", NoAp) /\ now[r].kind = "stay"
               /\ StaysAs("dead", r, now, views) \/ now[r].ap \in Stacked(now)
            \/ /\ ~Settling(now) /\ ~SoleAndFine(r, now, views)
               /\ \E a \in Aps : o = Option("go", a) /\ a # now[r].ap
<1> DEFINE scans == {Option("scan", NoAp) : x \in {s \in {r} : now[s].kind = "stay" /\
                      (StaysAs("dead", r, now, views) \/ now[s].ap \in Stacked(now))}}
           goes  == {Option("go", a) : a \in
                      {c \in views[r].cands \ {now[r].ap} :
                         /\ survey[r][c] >= MinJoinDbm
                         /\ StaysAs("strong", r, now, views) => c \in proven
                         /\ AnyoneUp(now) => survey[r][c] >= StrongDbm}}
<1>1. /\ ~(views[r].locked /\ ~StaysAs("dead", r, now, views))
      /\ \/ o \in scans
         \/ o \in goes /\ ~Settling(now) /\ ~SoleAndFine(r, now, views)
  BY DEF Options
<1>2. o \in scans => /\ o = Option("scan", NoAp) /\ now[r].kind = "stay"
                     /\ StaysAs("dead", r, now, views) \/ now[r].ap \in Stacked(now)
  OBVIOUS
<1>3. o \in goes => \E a \in Aps : o = Option("go", a) /\ a # now[r].ap
  OBVIOUS
<1> HIDE DEF scans, goes
<1> QED  BY <1>1, <1>2, <1>3

\* The best change never sends a radio to a held access point.
LEMMA GoesWhereNoneIs ==
  ASSUME NEW now, NEW views, Seen(now), \A r \in Radios : views[r].cands \subseteq Aps,
         NEW t, Best(t, Trials(now, views)), t.opt.kind = "go",
         NEW q \in Radios \ {t.dev}
  PROVE  ~Settling(now) /\ t.opt.ap \in Aps /\ now[q].ap # t.opt.ap
<1> DEFINE trials == Trials(now, views)
<1>1. PICK r \in Radios : r = t.dev
  BY TrialIs DEF Best
<1>2. /\ t.opt \in Options(r, now, views) /\ Better(t.score, Score(now, views))
      /\ t.score = Score([now EXCEPT ![r] = t.opt], views)
  BY <1>1, TrialIs DEF Best
<1>3. Option("scan", NoAp).kind # "go"
  BY DEF Option
<1>4. views[r].locked => StaysAs("dead", r, now, views)
  BY <1>2, OptionIs
<1>5. PICK a \in Aps : t.opt = Option("go", a) /\ a # now[r].ap
  BY <1>2, <1>3, OptionIs
<1>6. t.opt.ap = a /\ a # NoAp
  BY <1>5, ApIsSome DEF Option
<1>7. ~Settling(now)
  BY <1>2, <1>3, OptionIs
<1>8. ASSUME now[q].ap = a PROVE FALSE
  <2>0. PICK to : to = [now EXCEPT ![r] = Option("go", a)]
    OBVIOUS
  <2>taken. a # NoAp /\ r \in Radios /\ q \in Radios \ {r} /\ DOMAIN now = Radios /\ now[q].ap = a /\ now[r].ap # a
    BY <1>1, <1>5, <1>6, <1>8 DEF Seen
  <2>1. /\ Doubled(to) >= Doubled(now)
        /\ Doubled(to) <= Doubled(now) => now[r].ap # NoAp /\ \E s \in Radios \ {r} : now[s].ap = now[r].ap
    BY <2>0, <2>taken, GoShares
  <2>2. t.score = Score(to, views)
    BY <1>2, <1>5, <2>0
  <2>3. t.score[1] = -Doubled(to) /\ Score(now, views)[1] = -Doubled(now)
    BY <2>2, ScoreParts
  <2>4. Doubled(to) \in Int /\ Doubled(now) \in Int
    BY Counts
  <2>5. t.score[1] >= Score(now, views)[1]
    BY <1>2, <2>3, <2>4, BetterShares
  <2>6. t.score[1] = Score(now, views)[1]
    BY <2>1, <2>3, <2>4, <2>5
  <2>7. PICK s \in Radios \ {r} : now[s].ap = now[r].ap /\ now[r].ap # NoAp
    BY <2>1, <2>3, <2>4, <2>5
  <2>8. now[r].kind = "stay" /\ now[s].kind = "stay"
    BY <1>7, <2>7 DEF Settling, Seen
  <2>9. PICK u \in trials : u.score = Score([now EXCEPT ![r] = Option("scan", NoAp)], views)
    BY <1>4, <2>7, <2>8, ScanIsTrial
  <2>10. Doubled([now EXCEPT ![r] = Option("scan", NoAp)]) = Doubled(now) - 1
    BY <2>7, ScanUnshares DEF Seen
  <2>11. u.score[1] = -(Doubled(now) - 1)
    BY <2>9, <2>10, ScoreParts
  <2>12. u.score[1] > t.score[1]
    BY <2>3, <2>4, <2>6, <2>11
  <2>13. Beats(u.score, t.score, 7)
    BY <2>12, BeatsByOne
  <2> QED  BY <2>9, <2>13 DEF Best
<1> QED  BY <1>5, <1>6, <1>7, <1>8

-----------------------------------------------------------------------------
(* What the follower tells the planner.                                    *)

LEMMA ViewIs ==
  ASSUME TypeOK, NEW struck, NEW stalled \in SUBSET {r \in open : IsGoing(r)}, stalled \subseteq struck,
         NEW r \in Radios
  PROVE  /\ IsUp(r) => /\ place[r].ap \in Aps
                       /\ Describe(r, struck, stalled).status = "on"
                       /\ Describe(r, struck, stalled).ap = place[r].ap
                       /\ Describe(r, struck, stalled).dead = (r \in Unfit \union HeldMute)
         /\ ~IsUp(r) => \/ Describe(r, struck, stalled).status = "busy"
                        \/ /\ Describe(r, struck, stalled).status = "free"
                           /\ r \in stalled \/ IsDown(r)
<1>1. place[r] \in {Down} \union {Up(a) : a \in Aps} \union {Going(a) : a \in Aps}
  BY DEF TypeOK
<1>2. /\ IsUp(r) => place[r].ap \in Aps /\ ~IsGoing(r) /\ ~IsDown(r)
      /\ IsUp(r) \/ IsGoing(r) \/ IsDown(r)
      /\ ~(IsGoing(r) /\ IsDown(r))
  BY <1>1 DEF IsUp, IsGoing, IsDown, Down, Up, Going
<1>3. CASE IsUp(r)
  <2>1. r \notin stalled /\ r \notin Unsettled(struck)
    BY <1>2, <1>3 DEF Unsettled
  <2> QED  BY <1>2, <1>3, <2>1 DEF Describe, View
<1>4. CASE ~IsUp(r) /\ r \in stalled
  <2>1. IsGoing(r) /\ ~IsDown(r)
    BY <1>2, <1>4
  <2> QED  BY <1>4, <2>1 DEF Describe, View, Unsettled
<1>5. CASE ~IsUp(r) /\ r \notin stalled /\ r \in Unsettled(struck)
  BY <1>5 DEF Describe, View
<1>6. CASE ~IsUp(r) /\ r \notin stalled /\ r \notin Unsettled(struck) /\ IsGoing(r)
  BY <1>2, <1>6 DEF Describe, View
<1>7. CASE ~IsUp(r) /\ r \notin stalled /\ r \notin Unsettled(struck) /\ IsDown(r)
  BY <1>2, <1>7 DEF Describe, View
<1> QED  BY <1>2, <1>3, <1>4, <1>5, <1>6, <1>7

LEMMA SeenIs ==
  ASSUME TypeOK, NEW struck, NEW stalled \in SUBSET {r \in open : IsGoing(r)},
         stalled \subseteq struck, NEW now, now = Current(Views(struck, stalled))
  PROVE  /\ Seen(now)
         /\ \A r \in Radios :
              /\ IsUp(r)  => now[r] = Option("stay", place[r].ap)
              /\ ~IsUp(r) => \/ now[r].kind = "busy"
                             \/ now[r].kind = "scan" /\ (r \in stalled \/ IsDown(r))
<1>1. ASSUME NEW r \in Radios, IsUp(r)
      PROVE  now[r] = Option("stay", place[r].ap) /\ place[r].ap \in Aps
  <2>1. Views(struck, stalled)[r].status = "on" /\ Views(struck, stalled)[r].ap = place[r].ap
        /\ place[r].ap \in Aps
    BY <1>1, ViewIs DEF Views
  <2> QED  BY <2>1 DEF Current
<1>2. ASSUME NEW r \in Radios, ~IsUp(r)
      PROVE  \/ now[r].kind = "busy"
             \/ now[r] = Option("scan", NoAp) /\ (r \in stalled \/ IsDown(r))
  <2>1. \/ Views(struck, stalled)[r].status = "busy"
        \/ Views(struck, stalled)[r].status = "free" /\ (r \in stalled \/ IsDown(r))
    BY <1>2, ViewIs DEF Views
  <2> QED  BY <2>1 DEF Current, Option
<1>3. DOMAIN now = Radios
  BY DEF Current
<1> QED  BY <1>1, <1>2, <1>3 DEF Seen, Option

LEMMA CandsAll ==
  ASSUME TypeOK, NEW struck, NEW stalled, NEW r \in Radios
  PROVE  Views(struck, stalled)[r].cands \subseteq Aps
BY CandsOK, PhaseOK DEF Views

\* What a poll outside a swap carries out.
Chosen(c, views) ==
  \/ c = NoChange
  \/ \E t : /\ Best(t, Trials(Current(views), views))
            /\ c.dev = t.dev /\ c.ap = t.opt.ap
            /\ c.kind = IF t.opt.kind = "scan" THEN "park"
                        ELSE IF Current(views)[t.dev].kind = "stay" THEN "move" ELSE "join"
  \/ \E w \in Swaps(Current(views), views) : c.kind = "swap" /\ c.a = w.a /\ c.b = w.b

LEMMA ChosenIs ==
  ASSUME NEW views, NEW c \in PlanSlots(views)
  PROVE  Chosen(c, views)
<1> DEFINE now     == Current(views)
           trials  == Trials(now, views)
           best    == {t \in trials : ~ \E u \in trials :
                        Beats(u.score, t.score, 7) \/ (Ties(u.score, t.score, 7) /\ u.dev > t.dev)}
           kind(t) == IF t.opt.kind = "scan" THEN "park"
                      ELSE IF now[t.dev].kind = "stay" THEN "move" ELSE "join"
<1>1. \/ \E t \in best : c = Change(kind(t), t.dev, t.opt.ap)
      \/ c = NoChange
      \/ \E w \in Swaps(now, views) :
           c = [kind |-> "swap", a |-> w.a, aTo |-> w.aTo, b |-> w.b, bTo |-> w.bTo]
  BY DEF PlanSlots
<1>2. ASSUME NEW t \in best, c = Change(kind(t), t.dev, t.opt.ap) PROVE Chosen(c, views)
  <2>1. Best(t, trials)
    BY DEF Best
  <2>2. c.dev = t.dev /\ c.ap = t.opt.ap /\ c.kind = kind(t)
    BY <1>2 DEF Change
  <2> QED  BY <2>1, <2>2 DEF Chosen
<1>3. ASSUME NEW w \in Swaps(now, views),
             c = [kind |-> "swap", a |-> w.a, aTo |-> w.aTo, b |-> w.b, bTo |-> w.bTo]
      PROVE  Chosen(c, views)
  BY <1>3 DEF Chosen
<1> QED  BY <1>1, <1>2, <1>3 DEF Chosen

Stays(c, fails) == IF fails THEN Parking(c) ELSE {}

LEMMA PollsOut ==
  ASSUME swap = NoSwap, NEW dropped, NEW stalled, NEW fails, Poll(dropped, stalled, fails),
         NEW struck, struck = Struck(dropped, stalled)
  PROVE  \E c : /\ Chosen(c, Views(struck, stalled))
                /\ Carry(c, Views(struck, stalled), struck, stalled, fails)
<1>1. Change("over", 0, NoAp).kind = "over"
  BY DEF Change
<1>2. \E c \in PlanSlots(Views(struck, stalled)) : Carry(c, Views(struck, stalled), struck, stalled, fails)
  BY <1>1 DEF Poll, Views
<1> QED  BY <1>2, ChosenIs

LEMMA CarriedTo ==
  ASSUME NEW c, NEW struck, NEW stalled, NEW fails,
         Carry(c, Views(struck, stalled), struck, stalled, fails)
  PROVE  /\ place' = [r \in Radios |->
                        IF r \in Joining(c) THEN IF fails THEN Down ELSE Going(c.ap)
                        ELSE IF r \in Parks(c, struck, stalled) \ Stays(c, fails) THEN Down ELSE place[r]]
         /\ mute' = mute \ (Joining(c) \union (Parks(c, struck, stalled) \ Stays(c, fails)))
BY DEF Carry, Joining, Parking, Parks, Stays

\* A radio that is up stays as it is unless the change is about it.
LEMMA LeftAlone ==
  ASSUME TypeOK, NEW c, NEW struck, NEW stalled \in SUBSET {r \in open : IsGoing(r)}, NEW fails,
         Carry(c, Views(struck, stalled), struck, stalled, fails),
         NEW r \in Radios, IsUp(r), r \notin Joining(c), r \notin Parking(c)
  PROVE  place'[r] = place[r] /\ (r \in mute' <=> r \in mute)
<1>1. r \notin stalled
  BY DEF IsUp, IsGoing
<1>2. ~IsDown(r)
  BY DEF IsUp, IsDown
<1>3. r \notin Parks(c, struck, stalled)
  BY <1>1, <1>2 DEF Parks, Finish
<1> QED  BY <1>3, CarriedTo

-----------------------------------------------------------------------------
(* A parked radio has no join open, and a link falls silent only once a     *)
(* poll has seen it up, so that the next one finds it.                      *)

MuteSeen == \A r \in mute : IsUp(r) /\ (held[r] # NoAp \/ r \in open)

PInv == IInv /\ open \intersect parked = {} /\ MuteSeen

LEMMA UpSomewhere ==
  ASSUME TypeOK, NEW r \in Radios
  PROVE  IsUp(r) => place[r].ap \in Aps /\ place[r].ap # NoAp
<1>1. place[r] \in {Down} \union {Up(a) : a \in Aps} \union {Going(a) : a \in Aps}
  BY DEF TypeOK
<1>2. IsUp(r) => place[r].ap \in Aps
  BY <1>1 DEF IsUp, Down, Up, Going
<1> QED  BY <1>2, ApIsSome

LEMMA PollKeepsMore ==
  ASSUME PInv, PollAll
  PROVE  open' \intersect parked' = {} /\ MuteSeen'
<1>1. PICK dropped \in SUBSET {r \in open : IsDown(r)}, stalled \in SUBSET {r \in open : IsGoing(r)},
           fails \in BOOLEAN : Poll(dropped, stalled, fails)
  BY DEF PollAll
<1>2. PICK struck : struck = Struck(dropped, stalled)
  OBVIOUS
<1>3. PICK c : Carry(c, Views(struck, stalled), struck, stalled, fails)
  BY <1>1, <1>2, PollOK DEF PInv, IInv
<1> DEFINE parks == Parks(c, struck, stalled)
<1>4. /\ open' = (Unsettled(struck) \ parks) \union Joining(c)
      /\ parked' = (parked \union parks) \ Joining(c)
  BY <1>3, CarriedOK
<1>5. /\ place' = [r \in Radios |->
                     IF r \in Joining(c) THEN IF fails THEN Down ELSE Going(c.ap)
                     ELSE IF r \in parks \ Stays(c, fails) THEN Down ELSE place[r]]
      /\ mute' = mute \ (Joining(c) \union (parks \ Stays(c, fails)))
  BY <1>3, CarriedTo
<1>6. held' = [r \in Radios |-> IF IsUp(r) THEN place[r].ap ELSE NoAp]
  BY <1>1 DEF Poll
<1> HIDE DEF parks
<1>7. open' \intersect parked' = {}
  <2>1. Unsettled(struck) \subseteq open
    BY DEF Unsettled
  <2> QED  BY <1>4, <2>1 DEF PInv
<1>8. MuteSeen'
  <2> SUFFICES ASSUME NEW r \in mute' PROVE IsUp(r)' /\ held'[r] # NoAp
    BY DEF MuteSeen
  <2>1. r \in mute /\ r \in Radios /\ r \notin Joining(c) /\ r \notin parks \ Stays(c, fails)
    BY <1>5 DEF PInv, IInv, TypeOK
  <2>2. IsUp(r)
    BY <2>1 DEF PInv, MuteSeen
  <2>3. place'[r] = place[r]
    BY <1>5, <2>1
  <2>4. held'[r] = place[r].ap /\ place[r].ap # NoAp
    BY <1>6, <2>1, <2>2, UpSomewhere DEF PInv, IInv
  <2> QED  BY <2>2, <2>3, <2>4 DEF IsUp
<1> QED  BY <1>7, <1>8

LEMMA WorldKeepsMore ==
  ASSUME PInv, World
  PROVE  open' \intersect parked' = {} /\ MuteSeen'
<1> USE DEF PInv, MuteSeen
<1>1. place \in [Radios -> {Down} \union {Up(a) : a \in Aps} \union {Going(a) : a \in Aps}] /\ mute \subseteq Radios
  BY DEF IInv, TypeOK
<1>2. ASSUME NEW r \in Radios, Land(r) PROVE open' \intersect parked' = {} /\ MuteSeen'
  <2>1. place' = [place EXCEPT ![r] = Up(place[r].ap)] /\ UNCHANGED <<mute, memory>> /\ IsGoing(r)
    BY <1>2 DEF Land, Becomes
  <2>2. r \notin mute
    BY <2>1 DEF IsGoing, IsUp
  <2> QED  BY <1>1, <2>1, <2>2 DEF memory, IsUp
<1>3. ASSUME NEW r \in Radios, GoesDown(r) PROVE open' \intersect parked' = {} /\ MuteSeen'
  <2>1. place' = [place EXCEPT ![r] = Down] /\ mute' = mute \ {r} /\ UNCHANGED memory
    BY <1>3 DEF GoesDown, Becomes
  <2> QED  BY <1>1, <2>1 DEF memory, IsUp
<1>4. ASSUME NEW r \in Radios, GoesMute(r) \/ Recovers(r) PROVE open' \intersect parked' = {} /\ MuteSeen'
  BY <1>4 DEF GoesMute, Recovers, memory, IsUp
<1>5. ASSUME NEW r \in Radios, NEW a \in Aps, NmConnects(r, a) PROVE open' \intersect parked' = {} /\ MuteSeen'
  <2>1. place' = [place EXCEPT ![r] = Going(a)] /\ UNCHANGED <<mute, memory>> /\ IsDown(r)
    BY <1>5 DEF NmConnects, Becomes
  <2>2. r \notin mute
    BY <2>1 DEF IsDown, IsUp
  <2> QED  BY <1>1, <2>1, <2>2 DEF memory, IsUp
<1>6. CASE SignalsChange
  BY <1>6 DEF SignalsChange, memory, IsUp
<1>7. ASSUME NEW r \in Radios, Rest(r) PROVE open' \intersect parked' = {} /\ MuteSeen'
  BY <1>7 DEF Rest, IsUp
<1>8. ASSUME NEW r \in Radios, NEW a \in Aps, Forgets(r, a) PROVE open' \intersect parked' = {} /\ MuteSeen'
  BY <1>8 DEF Forgets, IsUp
<1> QED  BY <1>2, <1>3, <1>4, <1>5, <1>6, <1>7, <1>8 DEF World

LEMMA PInvariant == Spec => []PInv
<1>1. Init => PInv
  BY InitOK DEF Init, PInv, MuteSeen
<1>2. PInv /\ [Next]_vars => PInv'
  <2> SUFFICES ASSUME PInv, [Next]_vars PROVE PInv'
    OBVIOUS
  <2>1. IInv'
    BY StepOK DEF PInv
  <2>2. CASE PollAll
    BY <2>1, <2>2, PollKeepsMore DEF PInv
  <2>3. CASE World
    BY <2>1, <2>3, WorldKeepsMore DEF PInv
  <2>4. CASE UNCHANGED vars
    BY <2>1, <2>4 DEF vars, PInv, MuteSeen, IsUp
  <2> QED  BY <2>2, <2>3, <2>4 DEF Next
<1> QED  BY <1>1, <1>2, PTL DEF Spec

\* What a poll outside a swap does, for the two theorems to come.
LEMMA PollIs ==
  ASSUME PInv, PollAll, swap = NoSwap
  PROVE  \E struck, c :
           \E stalled \in SUBSET {r \in open : IsGoing(r)} : \E fails \in BOOLEAN :
             /\ stalled \subseteq struck
             /\ Chosen(c, Views(struck, stalled))
             /\ Carry(c, Views(struck, stalled), struck, stalled, fails)
             /\ survey' = survey
<1>1. PICK dropped \in SUBSET {r \in open : IsDown(r)}, stalled \in SUBSET {r \in open : IsGoing(r)},
           fails \in BOOLEAN : Poll(dropped, stalled, fails)
  BY DEF PollAll
<1>2. PICK struck : struck = Struck(dropped, stalled)
  OBVIOUS
<1>3. stalled \subseteq struck
  BY <1>2, StruckOK
<1>4. PICK c : Chosen(c, Views(struck, stalled)) /\ Carry(c, Views(struck, stalled), struck, stalled, fails)
  BY <1>1, <1>2, PollsOut
<1>5. survey' = survey
  BY <1>1 DEF Poll
<1> QED  BY <1>3, <1>4, <1>5

LEMMA NotDoubled ==
  ASSUME PInv, PollAll, swap = NoSwap, NEW r \in Radios, Sent(r), NEW q \in Radios \ {r},
         place'[q].ap = place'[r].ap
  PROVE  FALSE
<1>1. PICK struck, c : \E stalled \in SUBSET {s \in open : IsGoing(s)} : \E fails \in BOOLEAN :
        /\ stalled \subseteq struck
        /\ Chosen(c, Views(struck, stalled))
        /\ Carry(c, Views(struck, stalled), struck, stalled, fails)
  BY PollIs
<1>2. PICK stalled \in SUBSET {s \in open : IsGoing(s)}, fails \in BOOLEAN :
        /\ stalled \subseteq struck
        /\ Chosen(c, Views(struck, stalled))
        /\ Carry(c, Views(struck, stalled), struck, stalled, fails)
  BY <1>1
<1>3. TypeOK /\ open \intersect parked = {}
  BY DEF PInv, IInv
<1>4. PICK views : views = Views(struck, stalled)
  OBVIOUS
<1>5. PICK now : now = Current(views)
  OBVIOUS
<1>6. /\ Seen(now)
      /\ \A s \in Radios : /\ IsUp(s)  => now[s] = Option("stay", place[s].ap)
                           /\ ~IsUp(s) => \/ now[s].kind = "busy"
                                          \/ now[s].kind = "scan" /\ (s \in stalled \/ IsDown(s))
  BY <1>2, <1>3, <1>4, <1>5, SeenIs
<1>7. place' = [s \in Radios |->
                  IF s \in Joining(c) THEN IF fails THEN Down ELSE Going(c.ap)
                  ELSE IF s \in Parks(c, struck, stalled) \ Stays(c, fails) THEN Down ELSE place[s]]
  BY <1>2, CarriedTo
<1>8. r \in Joining(c) /\ ~fails /\ place'[r] = Going(c.ap)
  BY <1>7 DEF Sent, Down
<1>9. c.kind \in {"join", "move"} /\ c.dev = r /\ Joining(c) = {r} /\ Parking(c) = {}
  BY <1>8 DEF Joining, Parking
<1>10. PICK t : /\ Best(t, Trials(now, views))
                /\ c.dev = t.dev /\ c.ap = t.opt.ap
                /\ t.opt.kind # "scan"
  BY <1>2, <1>4, <1>5, <1>9 DEF Chosen, NoChange, Change
<1>11. \A s \in Radios : views[s].cands \subseteq Aps
  BY <1>3, <1>4, CandsAll
<1>12. t.opt.kind = "go"
  <2>1. t.opt \in Options(r, now, views)
    BY <1>9, <1>10, TrialIs DEF Best
  <2>2. t.opt = Option("scan", NoAp) \/ \E a \in Aps : t.opt = Option("go", a)
    BY <1>11, <2>1, OptionIs
  <2>3. t.opt # Option("scan", NoAp)
    BY <1>10 DEF Option
  <2>4. \A a \in Aps : Option("go", a).kind = "go"
    BY DEF Option
  <2> QED  BY <2>2, <2>3, <2>4
<1>13. ~Settling(now) /\ c.ap \in Aps /\ now[q].ap # c.ap
  BY <1>6, <1>9, <1>10, <1>11, <1>12, GoesWhereNoneIs
<1>14. place'[q].ap = c.ap /\ c.ap # NoAp
  BY <1>8, <1>13, ApIsSome DEF Going
<1>15. place'[q] = place[q] /\ q \notin Parks(c, struck, stalled)
  BY <1>7, <1>8, <1>9, <1>14 DEF Down, Stays
<1>16. ~IsUp(q)
  <2>1. place[q].ap = c.ap
    BY <1>14, <1>15
  <2>2. IsUp(q) => now[q] = Option("stay", place[q].ap)
    BY <1>6
  <2>3. Option("stay", place[q].ap).ap = place[q].ap
    BY DEF Option
  <2> QED  BY <1>13, <2>1, <2>2, <2>3
<1>17. q \in stalled \/ IsDown(q)
  BY <1>6, <1>13, <1>16 DEF Settling
<1>18. ~IsDown(q)
  <2>1. place[q] \in {Down} \union {Up(a) : a \in Aps} \union {Going(a) : a \in Aps}
    BY <1>3 DEF TypeOK
  <2> QED  BY <1>14, <1>15, <2>1 DEF IsDown, Down, Up, Going
<1>19. q \in Parks(c, struck, stalled)
  BY <1>3, <1>17, <1>18 DEF Parks, Finish
<1> QED  BY <1>15, <1>19

(* Outside a swap, no poll sends a radio to an access point that another   *)
(* radio holds or is on its way to, whatever the signals, the channels and *)
(* the memory say (plan_slots, score; plan_follow).                        *)
THEOREM NeverDoubledHolds == Spec => NeverDoubled
<1>1. PInv /\ [Next]_vars =>
        [swap = NoSwap /\ (\E r \in Radios : Sent(r) /\ \E q \in Radios \ {r} : place'[q].ap = place'[r].ap)
           => ~PollAll]_vars
  BY NotDoubled
<1> QED  BY <1>1, PInvariant, PTL DEF Spec, NeverDoubled

-----------------------------------------------------------------------------
(* The last working link.                                                  *)

Freed(to, plan, r) == \A s \in Radios : to[s] = IF s = r THEN Option("scan", NoAp) ELSE plan[s]

LEMMA ScanStrongs ==
  ASSUME NEW plan, NEW views, NEW r \in Radios, NEW to, Freed(to, plan, r)
  PROVE  Strongs(to, views) = Strongs(plan, views) \ {r}
<1>1. \A s \in Radios : to[s] = IF s = r THEN Option("scan", NoAp) ELSE plan[s]
  BY DEF Freed
<1>2. Option("scan", NoAp).ap = NoAp
  BY DEF Option
<1>3. Placing(to) = Placing(plan) \ {r}
  BY <1>1, <1>2 DEF Placing
<1>4. \A s \in Placing(to) : to[s] = plan[s]
  BY <1>1, <1>3 DEF Placing
<1> QED  BY <1>3, <1>4 DEF Strongs

LEMMA OnStacked ==
  ASSUME NEW now, NEW r \in Radios, now[r] = Option("stay", now[r].ap), now[r].ap \in Stacked(now)
  PROVE  \E q \in Radios \ {r} : now[q] = Option("stay", now[r].ap)
<1> DEFINE both == {s \in Radios : now[s] = Option("stay", now[r].ap)}
<1>1. Cardinality(both) > 1
  BY DEF Stacked
<1>2. both # {r}
  <2>1. Cardinality({r}) = 1
    BY FS_Singleton
  <2> HIDE DEF both
  <2> QED  BY <1>1, <2>1
<1>3. r \in both
  OBVIOUS
<1> QED  BY <1>2, <1>3

\* The best change never makes the only working radio look around: of two radios that share
\* an access point it is the other one that leaves.
LEMMA SoleStays ==
  ASSUME NEW now, NEW views, Seen(now), NEW r \in Radios, SoleAndFine(r, now, views),
         NEW q \in Radios \ {r}, now[q] = now[r],
         NEW t, Best(t, Trials(now, views)), t.dev = r, t.opt = Option("scan", NoAp)
  PROVE  FALSE
<1>1. /\ now[r].kind = "stay" /\ Grade(r, now[r], views) = "strong"
      /\ now[q].kind = "stay" /\ ~(Grade(q, now[q], views) \in {"strong", "usable"})
  BY DEF SoleAndFine, StaysAs, Working
<1>2. Grade(q, now[q], views) = "dead"
  BY <1>1 DEF Grade
<1>3. now[r].ap \in Aps /\ now[q].ap \in Aps /\ DOMAIN now = Radios /\ now[r].ap # NoAp /\ now[q].ap # NoAp
  BY <1>1, ApIsSome DEF Seen, Option
<1>4. StaysAs("dead", q, now, views)
  BY <1>1, <1>2 DEF StaysAs
<1>5. PICK u \in Trials(now, views) : u.score = Score([now EXCEPT ![q] = Option("scan", NoAp)], views)
  BY <1>1, <1>4, ScanIsTrial
<1>6. t.score = Score([now EXCEPT ![r] = Option("scan", NoAp)], views)
  BY TrialIs DEF Best
<1>7. PICK a : a = [now EXCEPT ![q] = Option("scan", NoAp)]
  OBVIOUS
<1>8. PICK b : b = [now EXCEPT ![r] = Option("scan", NoAp)]
  OBVIOUS
<1>9. /\ Placing(a) = Placing(now) \ {q} /\ Doubled(a) = Doubled(now) - 1
      /\ Placing(b) = Placing(now) \ {r} /\ Doubled(b) = Doubled(now) - 1
  BY <1>3, <1>7, <1>8, ScanUnshares
<1>10. Strongs(a, views) = Strongs(now, views) \ {q} /\ Strongs(b, views) = Strongs(now, views) \ {r}
  <2>1. Freed(a, now, q) /\ Freed(b, now, r)
    BY <1>3, <1>7, <1>8 DEF Freed
  <2> QED  BY <2>1, ScanStrongs
<1>11. r \in Placing(now) /\ q \in Placing(now)
  BY <1>3 DEF Placing
<1>12. r \in Strongs(now, views) /\ q \notin Strongs(now, views)
  BY <1>1, <1>2, <1>11 DEF Strongs
<1>13. Strongs(a, views) = Strongs(now, views)
  BY <1>10, <1>12
<1>14. Cardinality(Strongs(b, views)) = Cardinality(Strongs(now, views)) - 1
  BY <1>10, <1>12, StrongCounts, FS_RemoveElement
<1>15. u.score[1] = t.score[1]
  BY <1>5, <1>6, <1>7, <1>8, <1>9, ScoreParts
<1>16. u.score[2] = t.score[2]
  <2>1. Placing(a) # {} /\ Placing(b) # {}
    BY <1>9, <1>11
  <2>2. Score(a, views)[2] = 1 /\ Score(b, views)[2] = 1
    BY <2>1, ScoreParts
  <2> QED  BY <1>5, <1>6, <1>7, <1>8, <2>2
<1>17. u.score[3] > t.score[3]
  <2>1. u.score[3] = Cardinality(Strongs(now, views)) /\ t.score[3] = Cardinality(Strongs(now, views)) - 1
    BY <1>5, <1>6, <1>7, <1>8, <1>13, <1>14, ScoreParts
  <2>2. Cardinality(Strongs(now, views)) \in Nat
    BY StrongCounts
  <2> QED  BY <2>1, <2>2
<1>18. Beats(u.score, t.score, 7)
  BY <1>15, <1>16, <1>17, BeatsByThree
<1> QED  BY <1>5, <1>18 DEF Best

LEMMA SignalIs ==
  ASSUME TypeOK, NEW r \in Radios, NEW a \in Aps
  PROVE  survey[r][a] \in Int
<1>1. survey[r][a] \in Signals
  BY DEF TypeOK
<1>2. \A x \in -100..-1 : x \in Int
  OBVIOUS
<1> QED  BY <1>1, <1>2, SignalsAssumption

\* What the planner takes for a working radio carries traffic on a live slot, and a strong
\* link is a strong slot to it.
LEMMA WorksIs ==
  ASSUME PInv, NEW struck, NEW stalled \in SUBSET {r \in open : IsGoing(r)}, stalled \subseteq struck,
         NEW views, views = Views(struck, stalled), NEW now, now = Current(views), NEW r \in Radios
  PROVE  /\ Working(r, now, views) => Alive(r)
         /\ Strong(r) => StaysAs("strong", r, now, views) /\ Alive(r)
<1>1. TypeOK /\ MuteSeen
  BY DEF PInv, IInv
<1>2. /\ IsUp(r)  => now[r] = Option("stay", place[r].ap)
      /\ ~IsUp(r) => now[r].kind \in {"busy", "scan"}
  BY <1>1, SeenIs
<1>3. IsUp(r) => views[r].dead = (r \in Unfit \union HeldMute) /\ place[r].ap \in Aps
  BY <1>1, ViewIs DEF Views
<1>4. IsUp(r) => survey[r][place[r].ap] \in Int
  BY <1>1, <1>3, SignalIs
<1>5. IsUp(r) => now[r].kind = "stay" /\ now[r].ap = place[r].ap
  BY <1>2 DEF Option
<1>6. IsUp(r) => Grade(r, now[r], views) = IF views[r].dead \/ survey[r][place[r].ap] < DeadDbm THEN "dead"
                                           ELSE IF survey[r][place[r].ap] >= KeepDbm THEN "strong" ELSE "usable"
  BY <1>5 DEF Grade
<1>7. IsUp(r) /\ r \in mute => r \in Unfit \union HeldMute
  BY <1>1 DEF MuteSeen, Unfit, HeldMute
<1>8. ASSUME Working(r, now, views) PROVE Alive(r)
  <2>1. IsUp(r) /\ Grade(r, now[r], views) \in {"strong", "usable"}
    BY <1>2, <1>8 DEF Working
  <2>2. ~views[r].dead /\ ~(survey[r][place[r].ap] < DeadDbm)
    BY <1>6, <2>1
  <2>3. r \notin mute
    BY <1>3, <1>7, <2>1, <2>2
  <2> QED  BY <1>4, <2>1, <2>2, <2>3 DEF Alive, Carrying, DeadDbm
<1>9. ASSUME Strong(r) PROVE StaysAs("strong", r, now, views) /\ Alive(r)
  <2>1. IsUp(r) /\ r \notin mute /\ place[r].ap \notin Poor /\ survey[r][place[r].ap] >= KeepDbm
    BY <1>9 DEF Strong, Carrying
  <2>2. r \notin Unfit \union HeldMute
    BY <2>1 DEF Unfit, HeldMute
  <2>3. ~(survey[r][place[r].ap] < DeadDbm) /\ survey[r][place[r].ap] >= DeadDbm
    BY <1>4, <2>1 DEF DeadDbm, KeepDbm
  <2>4. Grade(r, now[r], views) = "strong"
    BY <1>3, <1>6, <2>1, <2>2, <2>3
  <2> QED  BY <1>5, <2>1, <2>3, <2>4 DEF StaysAs, Alive, Carrying
<1> QED  BY <1>8, <1>9

LEMMA NotCut ==
  ASSUME PInv, PollAll, swap = NoSwap, NEW s \in Radios, Strong(s)
  PROVE  \E r \in Radios : Alive(r)'
<1>1. PICK struck, c : \E stalled \in SUBSET {r \in open : IsGoing(r)} : \E fails \in BOOLEAN :
        /\ stalled \subseteq struck
        /\ Chosen(c, Views(struck, stalled))
        /\ Carry(c, Views(struck, stalled), struck, stalled, fails)
        /\ survey' = survey
  BY PollIs
<1>2. PICK stalled \in SUBSET {r \in open : IsGoing(r)}, fails \in BOOLEAN :
        /\ stalled \subseteq struck
        /\ Chosen(c, Views(struck, stalled))
        /\ Carry(c, Views(struck, stalled), struck, stalled, fails)
        /\ survey' = survey
  BY <1>1
<1>3. TypeOK
  BY DEF PInv, IInv
<1>4. PICK views : views = Views(struck, stalled)
  OBVIOUS
<1>5. PICK now : now = Current(views)
  OBVIOUS
<1>6. \A r \in Radios : /\ Working(r, now, views) => Alive(r)
                        /\ Strong(r) => StaysAs("strong", r, now, views) /\ Alive(r)
  BY <1>2, <1>4, <1>5, WorksIs
<1>7. ASSUME NEW r \in Radios, Alive(r), r \notin Joining(c), r \notin Parking(c)
      PROVE  \E q \in Radios : Alive(q)'
  <2>1. IsUp(r) /\ r \notin mute /\ survey[r][place[r].ap] >= DeadDbm
    BY <1>7 DEF Alive, Carrying
  <2>2. place'[r] = place[r] /\ r \notin mute'
    BY <1>2, <1>3, <1>7, <2>1, LeftAlone
  <2>3. Alive(r)'
    BY <1>2, <2>1, <2>2 DEF Alive, Carrying, IsUp
  <2> QED  BY <2>3
<1>8. StaysAs("strong", s, now, views) /\ Alive(s)
  BY <1>6
<1>9. CASE c = NoChange
  <2>1. Joining(c) = {} /\ Parking(c) = {}
    BY <1>9 DEF NoChange, Change, Joining, Parking
  <2> QED  BY <1>7, <1>8, <2>1
<1>10. ASSUME NEW w \in Swaps(now, views), c.kind = "swap", c.a = w.a, c.b = w.b
       PROVE  \E r \in Radios : Alive(r)'
  <2>1. PICK p \in Radios \X Radios :
          /\ \E q \in Radios \ {p[1], p[2]} : Working(q, now, views)
          /\ w = [a |-> p[1], aTo |-> now[p[2]].ap, b |-> p[2], bTo |-> now[p[1]].ap,
                  score |-> Score([now EXCEPT ![p[1]] = Option("go", now[p[2]].ap),
                                              ![p[2]] = Option("go", now[p[1]].ap)], views)]
    BY DEF Swaps
  <2>2. PICK q \in Radios \ {w.a, w.b} : Working(q, now, views)
    BY <2>1
  <2>3. q \notin Joining(c) /\ q \notin Parking(c)
    BY <1>10, <2>2 DEF Joining, Parking
  <2> QED  BY <1>6, <1>7, <2>2, <2>3
<1>11. ASSUME NEW t, Best(t, Trials(now, views)), c.dev = t.dev, c.kind \in {"park", "move", "join"}
       PROVE  \E r \in Radios : Alive(r)'
  <2>1. Joining(c) \subseteq {t.dev} /\ Parking(c) \subseteq {t.dev}
    BY <1>11 DEF Joining, Parking
  <2>2. CASE t.dev # s
    BY <1>7, <1>8, <2>1, <2>2
  <2>3. CASE \E q \in Radios \ {s} : Working(q, now, views)
    <3>1. PICK q \in Radios \ {s} : Working(q, now, views)
      BY <2>3
    <3>2. CASE t.dev = s
      BY <1>6, <1>7, <2>1, <3>1, <3>2
    <3> QED  BY <2>2, <3>2
  <2>4. CASE t.dev = s /\ ~ \E q \in Radios \ {s} : Working(q, now, views)
    <3>1. SoleAndFine(s, now, views)
      BY <1>8, <2>4 DEF SoleAndFine
    <3>2. t.opt \in Options(s, now, views)
      BY <1>11, <2>4, TrialIs DEF Best
    <3>3. views[s].cands \subseteq Aps
      BY <1>3, <1>4, CandsAll
    <3>4. /\ t.opt = Option("scan", NoAp)
          /\ StaysAs("dead", s, now, views) \/ now[s].ap \in Stacked(now)
      BY <3>1, <3>2, <3>3, OptionIs
    <3>5. now[s].ap \in Stacked(now)
      BY <1>8, <3>4 DEF StaysAs
    <3>6. Seen(now)
      BY <1>2, <1>3, <1>4, <1>5, SeenIs
    <3>7. now[s] = Option("stay", now[s].ap)
      BY <1>8, <3>6 DEF Seen, StaysAs
    <3>8. PICK q \in Radios \ {s} : now[q] = now[s]
      BY <3>5, <3>7, OnStacked
    <3> QED  BY <1>11, <2>4, <3>1, <3>4, <3>6, <3>8, SoleStays
  <2> QED  BY <2>2, <2>3, <2>4
<1> QED  BY <1>2, <1>4, <1>5, <1>9, <1>10, <1>11 DEF Chosen

(* Outside a swap, no poll takes the last link that carries traffic from a *)
(* strong slot: whatever it changes, some radio goes on carrying traffic   *)
(* (plan_slots, sole_and_fine; plan_follow).                               *)
THEOREM LinkKeptHolds == Spec => LinkKept
<1>1. PInv /\ [Next]_vars => [swap = NoSwap /\ LastLinkCut => ~PollAll]_vars
  BY NotCut DEF LastLinkCut
<1> QED  BY <1>1, PInvariant, PTL DEF Spec, LinkKept

-----------------------------------------------------------------------------
(* The planner comes to rest.  While the air stays as it is, every change   *)
(* that it plans leads, once landed, to a placement clearly better than the *)
(* one before, whatever is avoided or left alone meanwhile.  Clearly better *)
(* is a strict order, though it is made of two tests, one of them with a    *)
(* tolerance; and there are only finitely many placements.                  *)

LEMMA Lowest ==
  ASSUME NEW S \in SUBSET Nat, S # {}
  PROVE  \E n \in S : \A m \in S : n <= m
<1>1. PICK n \in S : \A m \in S : ~(<<m, n>> \in OpToRel(<, Nat))
  BY NatLessThanWellFounded, WFMin
<1>2. \A m \in S : ~(m < n)
  BY <1>1 DEF OpToRel
<1>3. \A m \in S : n <= m
  BY <1>2
<1> QED  BY <1>3

(* Sums over the radios. *)

\* The sum of g over s, from the sums over the smaller sets.
SumAt(g, f, s) == IF s = {} THEN 0 ELSE g[CHOOSE x \in s : TRUE] + f[s \ {CHOOSE x \in s : TRUE}]

Sums(g, A, f) == f = [s \in SUBSET A |-> SumAt(g, f, s)]

LEMMA Smaller ==
  ASSUME NEW s, IsFiniteSet(s), s # {}, NEW x, x = CHOOSE y \in s : TRUE
  PROVE  /\ x \in s /\ IsFiniteSet(s \ {x}) /\ Cardinality(s \ {x}) \in Nat
         /\ Cardinality(s) = Cardinality(s \ {x}) + 1
<1>1. x \in s
  OBVIOUS
<1>2. IsFiniteSet(s \ {x}) /\ Cardinality(s \ {x}) = Cardinality(s) - 1
  BY <1>1, FS_RemoveElement
<1>3. Cardinality(s) \in Nat /\ Cardinality(s \ {x}) \in Nat
  BY <1>2, FS_CardinalityType
<1> QED  BY <1>1, <1>2, <1>3

Upto(A, n) == {s \in SUBSET A : Cardinality(s) <= n}

LEMMA SumExists ==
  ASSUME NEW A, IsFiniteSet(A), NEW g \in [A -> Int]
  PROVE  \E f \in [SUBSET A -> Int] : Sums(g, A, f)
<1> DEFINE Has(n) == \E f \in [Upto(A, n) -> Int] : \A s \in Upto(A, n) : f[s] = SumAt(g, f, s)
<1>1. \A s \in SUBSET A : IsFiniteSet(s) /\ Cardinality(s) \in Nat
  BY FS_Subset, FS_CardinalityType
<1>2. Has(0)
  <2>1. \A s \in Upto(A, 0) : s = {}
    <3> SUFFICES ASSUME NEW s \in Upto(A, 0), s # {} PROVE FALSE
      OBVIOUS
    <3>1. PICK x : x = CHOOSE y \in s : TRUE
      OBVIOUS
    <3>2. IsFiniteSet(s) /\ Cardinality(s) <= 0
      BY <1>1 DEF Upto
    <3>3. Cardinality(s \ {x}) \in Nat /\ Cardinality(s) = Cardinality(s \ {x}) + 1
      BY <3>1, <3>2, Smaller
    <3> QED  BY <3>2, <3>3
  <2>2. PICK f : f = [s \in Upto(A, 0) |-> 0]
    OBVIOUS
  <2>3. f \in [Upto(A, 0) -> Int] /\ \A s \in Upto(A, 0) : f[s] = SumAt(g, f, s)
    BY <2>1, <2>2 DEF SumAt
  <2> QED  BY <2>3
<1>3. ASSUME NEW n \in Nat, Has(n) PROVE Has(n + 1)
  <2>1. PICK f \in [Upto(A, n) -> Int] : \A s \in Upto(A, n) : f[s] = SumAt(g, f, s)
    BY <1>3
  <2>2. PICK h : h = [s \in Upto(A, n + 1) |-> SumAt(g, f, s)]
    OBVIOUS
  <2>3. Upto(A, n) \subseteq Upto(A, n + 1)
    BY <1>1 DEF Upto
  <2>4. \A s \in Upto(A, n) : h[s] = f[s]
    BY <2>1, <2>2, <2>3
  <2>5. ASSUME NEW s \in Upto(A, n + 1)
        PROVE  h[s] \in Int /\ h[s] = SumAt(g, h, s)
    <3>1. CASE s = {}
      BY <2>2, <2>5, <3>1 DEF SumAt
    <3>2. CASE s # {}
      <4>1. PICK x : x = CHOOSE y \in s : TRUE
        OBVIOUS
      <4>2. s \in SUBSET A /\ IsFiniteSet(s) /\ Cardinality(s) <= n + 1
        BY <1>1 DEF Upto
      <4>3. /\ x \in s /\ Cardinality(s \ {x}) \in Nat
            /\ Cardinality(s) = Cardinality(s \ {x}) + 1
        BY <3>2, <4>1, <4>2, Smaller
      <4>4. s \ {x} \in Upto(A, n)
        BY <4>2, <4>3 DEF Upto
      <4>5. h[s \ {x}] = f[s \ {x}] /\ f[s \ {x}] \in Int /\ g[x] \in Int
        BY <2>1, <2>4, <4>2, <4>3, <4>4
      <4>6. h[s] = g[x] + f[s \ {x}] /\ SumAt(g, h, s) = g[x] + h[s \ {x}]
        BY <2>2, <3>2, <4>1 DEF SumAt
      <4> QED  BY <4>5, <4>6
    <3> QED  BY <3>1, <3>2
  <2>6. h \in [Upto(A, n + 1) -> Int]
    BY <2>2, <2>5
  <2> QED  BY <2>5, <2>6
<1>4. \A n \in Nat : Has(n)
  <2> DEFINE lacks == {n \in Nat : ~Has(n)}
  <2> HIDE DEF Has
  <2> SUFFICES ASSUME lacks # {} PROVE FALSE
    OBVIOUS
  <2>1. PICK n \in lacks : \A m \in lacks : n <= m
    BY Lowest
  <2>2. n # 0 /\ n \in Nat /\ ~Has(n)
    BY <1>2, <2>1
  <2>3. n - 1 \in Nat /\ n - 1 \notin lacks /\ n = (n - 1) + 1
    BY <2>1, <2>2
  <2>4. Has(n - 1)
    BY <2>3
  <2>5. Has((n - 1) + 1)
    BY <1>3, <2>3, <2>4
  <2> QED  BY <2>2, <2>3, <2>5
<1>5. Cardinality(A) \in Nat /\ Upto(A, Cardinality(A)) = SUBSET A
  BY FS_Subset, FS_CardinalityType DEF Upto
<1>6. PICK f \in [SUBSET A -> Int] : \A s \in SUBSET A : f[s] = SumAt(g, f, s)
  BY <1>4, <1>5
<1>7. f = [s \in SUBSET A |-> SumAt(g, f, s)]
  BY <1>6
<1> QED  BY <1>7 DEF Sums

LEMMA SumsAgree ==
  ASSUME NEW A, IsFiniteSet(A), NEW g, NEW f, NEW h, Sums(g, A, f), Sums(g, A, h), NEW s \in SUBSET A
  PROVE  f[s] = h[s]
<1> DEFINE differ == {t \in SUBSET A : f[t] # h[t]}
           sizes  == {n \in Nat : \E t \in differ : n = Cardinality(t)}
<1>1. \A t \in SUBSET A : f[t] = SumAt(g, f, t) /\ h[t] = SumAt(g, h, t)
  BY DEF Sums
<1>2. \A t \in SUBSET A : IsFiniteSet(t) /\ Cardinality(t) \in Nat
  BY FS_Subset, FS_CardinalityType
<1> SUFFICES ASSUME f[s] # h[s] PROVE FALSE
  OBVIOUS
<1>3. sizes # {}
  BY <1>2
<1>4. PICK n \in sizes : \A m \in sizes : n <= m
  BY <1>3, Lowest
<1>5. PICK t \in differ : n = Cardinality(t)
  BY <1>4
<1>6. t \in SUBSET A /\ f[t] # h[t]
  BY <1>5
<1>7. t # {}
  BY <1>1, <1>6 DEF SumAt
<1>8. PICK x : x = CHOOSE y \in t : TRUE
  OBVIOUS
<1>9. Cardinality(t \ {x}) \in Nat /\ Cardinality(t) = Cardinality(t \ {x}) + 1
  BY <1>2, <1>6, <1>7, <1>8, Smaller
<1>10. t \ {x} \in SUBSET A
  BY <1>6
<1>11. f[t \ {x}] = h[t \ {x}]
  <2> SUFFICES ASSUME f[t \ {x}] # h[t \ {x}] PROVE FALSE
    OBVIOUS
  <2>1. PICK m \in Nat : m = Cardinality(t \ {x})
    BY <1>9
  <2>2. m \in sizes
    BY <1>10, <2>1
  <2>3. n <= m /\ n = m + 1
    BY <1>4, <1>5, <1>9, <2>1, <2>2
  <2> QED  BY <2>1, <2>3
<1> QED  BY <1>1, <1>6, <1>7, <1>8, <1>11 DEF SumAt

\* There is one sum of g over A, and it is an integer.
LEMMA SumIs ==
  ASSUME NEW A, IsFiniteSet(A), NEW g \in [A -> Int], NEW f, Sums(g, A, f)
  PROVE  f[A] \in Int /\ \A h : Sums(g, A, h) => h[A] = f[A]
<1>1. PICK e \in [SUBSET A -> Int] : Sums(g, A, e)
  BY SumExists
<1>2. A \in SUBSET A
  OBVIOUS
<1>3. \A h : Sums(g, A, h) => h[A] = e[A]
  BY <1>1, <1>2, SumsAgree
<1> QED  BY <1>1, <1>2, <1>3

(* The parts of a score, but for the last one, which no clear gain looks at. *)

Sharing(plan, r) == {q \in Placing(plan) \ {r} : Overlap(plan[r].ap, plan[q].ap)}
Alives(plan, views) == {r \in Placing(plan) : Grade(r, plan[r], views) # "dead"}
Rate(plan, r) ==
  (12 * EstRate(survey[r][plan[r].ap], Width[plan[r].ap])) \div (1 + Cardinality(Sharing(plan, r)))
Rates(plan, A) == [r \in A |-> Rate(plan, r)]

Apart(plan, views) == {r \in Strongs(plan, views) : Sharing(plan, r) = {}}

LEMMA RateIs ==
  ASSUME TypeOK, NEW plan, NEW r \in Radios, plan[r].ap \in Aps
  PROVE  Rate(plan, r) \in Int
<1>1. PICK signal \in Int : signal = survey[r][plan[r].ap]
  BY SignalIs
<1>2. PICK width \in {20, 40, 80, 160} : width = Width[plan[r].ap]
  BY WidthAssumption
<1>3. EstRate(signal, width) \in Int
  <2>1. PICK noise \in {95, 91, 88, 85} :
          noise = CASE width = 20 -> 95 [] width = 40 -> 91 [] width = 80 -> 88 [] width = 160 -> 85
    OBVIOUS
  <2>2. PICK factor \in {10, 20, 41, 82} :
          factor = CASE width = 20 -> 10 [] width = 40 -> 20 [] width = 80 -> 41 [] width = 160 -> 82
    OBVIOUS
  <2>3. PICK mcs : mcs = {i \in DOMAIN McsSnr : signal + noise >= McsSnr[i]}
    OBVIOUS
  <2>4. EstRate(signal, width) = IF mcs = {} THEN 0 ELSE 2 * factor * McsRate[Max(mcs)]
    BY <2>1, <2>2, <2>3 DEF EstRate
  <2>5. CASE mcs # {}
    <3>1. mcs \subseteq 1..12
      BY <2>3 DEF McsSnr
    <3>2. PICK gaps : gaps = {n \in Nat : \E i \in mcs : n = 12 - i}
      OBVIOUS
    <3>3. \A i \in mcs : 12 - i \in gaps
      BY <3>1, <3>2
    <3>4. gaps \in SUBSET Nat /\ gaps # {}
      BY <2>5, <3>2, <3>3
    <3>5. PICK n \in gaps : \A m \in gaps : n <= m
      BY <3>4, Lowest
    <3>6. PICK i \in mcs : n = 12 - i
      BY <3>2, <3>5
    <3>7. \A j \in mcs : i >= j
      BY <3>1, <3>3, <3>5, <3>6
    <3>8. Max(mcs) \in mcs
      BY <3>7 DEF Max
    <3>9. \A j \in 1..12 : McsRate[j] \in Int
      BY DEF McsRate
    <3>10. McsRate[Max(mcs)] \in Int
      BY <3>1, <3>8, <3>9
    <3> QED  BY <2>4, <2>5, <3>10
  <2> QED  BY <2>4, <2>5
<1>4. IsFiniteSet(Sharing(plan, r)) /\ Cardinality(Sharing(plan, r)) \in Nat
  BY Counts, FS_Subset, FS_CardinalityType DEF Sharing
<1>5. PICK k \in Nat : k = Cardinality(Sharing(plan, r))
  BY <1>4
<1>6. \A a \in Int, n \in Nat : (12 * a) \div (1 + n) \in Int
  OBVIOUS
<1> QED  BY <1>1, <1>2, <1>3, <1>5, <1>6 DEF Rate

LEMMA ScoreIs ==
  ASSUME TypeOK, NEW plan, NEW views, \A r \in Placing(plan) : plan[r].ap \in Aps
  PROVE  /\ \A i \in 1..6 : Score(plan, views)[i] \in Int
         /\ Score(plan, views)[4] = Cardinality(Apart(plan, views))
         /\ Score(plan, views)[5] = Cardinality(Alives(plan, views)) - Cardinality(Placing(plan))
         /\ \A f : Sums(Rates(plan, Alives(plan, views)), Alives(plan, views), f)
              => Score(plan, views)[6] = f[Alives(plan, views)]
<1>1. PICK A : A = Alives(plan, views)
  OBVIOUS
<1>2. A \subseteq Placing(plan) /\ IsFiniteSet(A) /\ Cardinality(A) \in Nat
  BY <1>1, Counts, FS_Subset, FS_CardinalityType DEF Alives
<1>3. PICK g : g = Rates(plan, A)
  OBVIOUS
<1>4. g \in [A -> Int]
  BY <1>2, <1>3, RateIs DEF Rates, Placing
<1>5. Score(plan, views)[4] = Cardinality(Apart(plan, views))
  BY DEF Score, Apart, Strongs, Placing, Sharing
<1>6. Score(plan, views)[5] = Cardinality(Alives(plan, views)) - Cardinality(Placing(plan))
  BY DEF Score, Alives, Placing
<1> DEFINE total == CHOOSE f : f = [s \in SUBSET A |-> IF s = {} THEN 0
                      ELSE Rate(plan, CHOOSE x \in s : TRUE) + f[s \ {CHOOSE x \in s : TRUE}]]
<1>7. Score(plan, views)[6] = total[A]
  BY <1>1 DEF Score, MapThenSumSet, MapThenFoldSet, Alives, Rate, Sharing, Placing
<1>8. ASSUME NEW f, NEW s \in SUBSET A
      PROVE  SumAt(g, f, s) = IF s = {} THEN 0
                              ELSE Rate(plan, CHOOSE x \in s : TRUE) + f[s \ {CHOOSE x \in s : TRUE}]
  <2>1. CASE s = {}
    BY <2>1 DEF SumAt
  <2>2. CASE s # {}
    <3>1. PICK x : x = CHOOSE y \in s : TRUE
      OBVIOUS
    <3>2. x \in A
      BY <2>2, <3>1
    <3>3. g[x] = Rate(plan, x)
      BY <1>3, <3>2 DEF Rates
    <3> QED  BY <2>2, <3>1, <3>3 DEF SumAt
  <2> QED  BY <2>1, <2>2
<1>9. \A f : Sums(g, A, f) <=> f = [s \in SUBSET A |-> IF s = {} THEN 0
                      ELSE Rate(plan, CHOOSE x \in s : TRUE) + f[s \ {CHOOSE x \in s : TRUE}]]
  BY <1>8 DEF Sums
<1>10. Sums(g, A, total)
  <2>1. \E f : Sums(g, A, f)
    BY <1>2, <1>4, SumExists
  <2> QED  BY <1>9, <2>1
<1> HIDE DEF total
<1>11. total[A] \in Int /\ \A h : Sums(g, A, h) => h[A] = total[A]
  BY <1>2, <1>4, <1>10, SumIs
<1>12. IsFiniteSet(Apart(plan, views)) /\ Cardinality(Apart(plan, views)) \in Nat
  BY StrongCounts, FS_Subset, FS_CardinalityType DEF Apart
<1>13. \A i \in 1..6 : i \in {1, 2, 3, 4, 5, 6}
  OBVIOUS
<1>14. /\ Score(plan, views)[1] \in Int /\ Score(plan, views)[2] \in Int /\ Score(plan, views)[3] \in Int
       /\ Score(plan, views)[4] \in Int /\ Score(plan, views)[5] \in Int /\ Score(plan, views)[6] \in Int
  <2>1. Score(plan, views)[1] \in Int
    BY ScoreParts, Counts
  <2>2. Score(plan, views)[2] \in Int
    BY ScoreParts
  <2>3. Score(plan, views)[3] \in Int
    BY ScoreParts, StrongCounts
  <2>4. Score(plan, views)[4] \in Int
    BY <1>5, <1>12
  <2>5. Score(plan, views)[5] \in Int
    BY <1>1, <1>2, <1>6, Counts
  <2> QED  BY <1>7, <1>11, <2>1, <2>2, <2>3, <2>4, <2>5
<1> QED  BY <1>1, <1>3, <1>5, <1>6, <1>7, <1>11, <1>13, <1>14

\* Placements that put the radios on the same access points, with the same of them strong
\* and alive, are worth the same.
LEMMA SameScore ==
  ASSUME TypeOK, NEW plan, NEW views, NEW other, NEW others,
         \A r \in Placing(plan) : plan[r].ap \in Aps,
         \A r \in Radios : other[r].ap = plan[r].ap,
         Strongs(other, others) = Strongs(plan, views), Alives(other, others) = Alives(plan, views)
  PROVE  \A i \in 1..6 : Score(other, others)[i] = Score(plan, views)[i]
<1>1. Placing(other) = Placing(plan)
  BY DEF Placing
<1>2. Held(other) = Held(plan)
  BY <1>1 DEF Held, Placing
<1>3. \A r \in Radios : Sharing(other, r) = Sharing(plan, r)
  BY <1>1 DEF Sharing, Placing
<1>4. Apart(other, others) = Apart(plan, views)
  <2>1. Strongs(plan, views) \subseteq Radios
    BY DEF Strongs, Placing
  <2> QED  BY <1>3, <2>1 DEF Apart
<1>5. PICK A : A = Alives(plan, views)
  OBVIOUS
<1>6. A \subseteq Radios /\ IsFiniteSet(A)
  <2>1. A \in SUBSET Placing(plan) /\ Placing(plan) \subseteq Radios
    BY <1>5 DEF Alives, Placing
  <2> QED  BY <2>1, Counts, FS_Subset
<1>7. \A r \in A : Rate(other, r) = Rate(plan, r)
  BY <1>3, <1>6 DEF Rate
<1>8. Rates(other, A) = Rates(plan, A)
  BY <1>7 DEF Rates
<1>9. Rates(plan, A) \in [A -> Int]
  BY <1>5, RateIs DEF Rates, Alives, Placing
<1>10. PICK f : Sums(Rates(plan, A), A, f)
  BY <1>6, <1>9, SumExists
<1>11. \A r \in Placing(other) : other[r].ap \in Aps
  BY <1>1 DEF Placing
<1>12. Score(plan, views)[6] = f[A] /\ Score(other, others)[6] = f[A]
  BY <1>5, <1>8, <1>10, <1>11, ScoreIs
<1>13. Doubled(other) = Doubled(plan)
  BY <1>1, <1>2 DEF Doubled
<1>14. Score(other, others)[1] = Score(plan, views)[1] /\ Score(other, others)[2] = Score(plan, views)[2]
       /\ Score(other, others)[3] = Score(plan, views)[3]
  BY <1>1, <1>13, ScoreParts
<1>15. Score(other, others)[4] = Score(plan, views)[4] /\ Score(other, others)[5] = Score(plan, views)[5]
  BY <1>1, <1>4, <1>11, ScoreIs
<1>16. \A i \in 1..6 : i \in {1, 2, 3, 4, 5, 6}
  OBVIOUS
<1> QED  BY <1>12, <1>14, <1>15, <1>16

(* Clearly better is a strict order. *)

AsGood(s, t) == (\A i \in 1..6 : s[i] = t[i]) \/ Beats(s, t, 5)

LEMMA TiesPass ==
  ASSUME NEW s, NEW t, NEW u
  PROVE  /\ Ties(s, t, 5) /\ Ties(t, u, 5) => Ties(s, u, 5)
         /\ Ties(s, t, 5) /\ Beats(t, u, 5) => Beats(s, u, 5)
         /\ Beats(s, t, 5) /\ Ties(t, u, 5) => Beats(s, u, 5)
<1>1. ASSUME Ties(s, t, 5), Beats(t, u, 5) PROVE Beats(s, u, 5)
  <2>1. PICK i \in 1..5 : t[i] > u[i] /\ \A j \in 1..(i - 1) : t[j] = u[j]
    BY <1>1 DEF Beats
  <2>2. \A j \in 1..5 : s[j] = t[j]
    BY <1>1 DEF Ties
  <2>3. 1..(i - 1) \subseteq 1..5
    OBVIOUS
  <2>4. s[i] > u[i] /\ \A j \in 1..(i - 1) : s[j] = u[j]
    BY <2>1, <2>2, <2>3
  <2> QED  BY <2>4 DEF Beats
<1>2. ASSUME Beats(s, t, 5), Ties(t, u, 5) PROVE Beats(s, u, 5)
  <2>1. PICK i \in 1..5 : s[i] > t[i] /\ \A j \in 1..(i - 1) : s[j] = t[j]
    BY <1>2 DEF Beats
  <2>2. \A j \in 1..5 : t[j] = u[j]
    BY <1>2 DEF Ties
  <2>3. 1..(i - 1) \subseteq 1..5
    OBVIOUS
  <2>4. s[i] > u[i] /\ \A j \in 1..(i - 1) : s[j] = u[j]
    BY <2>1, <2>2, <2>3
  <2> QED  BY <2>4 DEF Beats
<1> QED  BY <1>1, <1>2 DEF Ties

LEMMA BeatsPass ==
  ASSUME NEW s, NEW t, NEW u, \A i \in 1..6 : s[i] \in Int /\ t[i] \in Int /\ u[i] \in Int,
         Beats(s, t, 5), Beats(t, u, 5)
  PROVE  Beats(s, u, 5)
<1>1. PICK i \in 1..5 : s[i] > t[i] /\ \A j \in 1..(i - 1) : s[j] = t[j]
  BY DEF Beats
<1>2. PICK k \in 1..5 : t[k] > u[k] /\ \A j \in 1..(k - 1) : t[j] = u[j]
  BY DEF Beats
<1>3. s[i] \in Int /\ t[i] \in Int /\ u[i] \in Int /\ s[k] \in Int /\ t[k] \in Int /\ u[k] \in Int
  <2>1. i \in 1..6 /\ k \in 1..6
    OBVIOUS
  <2> QED  BY <2>1
<1>4. CASE i < k
  <2>1. i \in 1..(k - 1) /\ 1..(i - 1) \subseteq 1..(k - 1)
    BY <1>4
  <2>2. s[i] > u[i] /\ \A j \in 1..(i - 1) : s[j] = u[j]
    BY <1>1, <1>2, <2>1
  <2> QED  BY <2>2 DEF Beats
<1>5. CASE i >= k
  <2>1. 1..(k - 1) \subseteq 1..(i - 1) /\ (k # i => k \in 1..(i - 1))
    BY <1>5
  <2>2. s[k] > u[k]
    BY <1>1, <1>2, <1>3, <2>1
  <2>3. \A j \in 1..(k - 1) : s[j] = u[j]
    BY <1>1, <1>2, <2>1
  <2> QED  BY <2>2, <2>3 DEF Beats
<1> QED  BY <1>4, <1>5

LEMMA BetterIsStrict ==
  ASSUME NEW s, \A i \in 1..6 : s[i] \in Int
  PROVE  ~Better(s, s)
<1>1. \A i \in 1..5 : ~(s[i] > s[i])
  <2>1. \A i \in 1..5 : s[i] \in Int
    OBVIOUS
  <2> QED  BY <2>1
<1>2. ~Beats(s, s, 5)
  BY <1>1 DEF Beats
<1>3. s[6] \in Int
  OBVIOUS
<1>4. ~(s[6] - s[6] >= 48000)
  BY <1>3
<1> QED  BY <1>2, <1>4 DEF Better

LEMMA BetterPasses ==
  ASSUME NEW s, NEW t, NEW u, \A i \in 1..6 : s[i] \in Int /\ t[i] \in Int /\ u[i] \in Int,
         Better(t, u)
  PROVE  Better(s, t) \/ AsGood(s, t) => Better(s, u)
<1>1. s[6] \in Int /\ t[6] \in Int /\ u[6] \in Int
  OBVIOUS
<1>2. ASSUME Beats(s, t, 5) PROVE Better(s, u)
  <2>1. Beats(s, u, 5)
    BY <1>2, BeatsPass, TiesPass DEF Better
  <2> QED  BY <2>1 DEF Better
<1>3. ASSUME \A i \in 1..6 : s[i] = t[i] PROVE Better(s, u)
  <2>1. s[6] = t[6] /\ Ties(s, t, 5)
    BY <1>3 DEF Ties
  <2> QED  BY <2>1, TiesPass DEF Better
<1>4. ASSUME Ties(s, t, 5), 5 * s[6] >= 6 * t[6], s[6] - t[6] >= 48000 PROVE Better(s, u)
  <2>1. CASE Beats(t, u, 5)
    BY <1>4, <2>1, TiesPass DEF Better
  <2>2. CASE Ties(t, u, 5) /\ 5 * t[6] >= 6 * u[6] /\ t[6] - u[6] >= 48000
    <3>1. Ties(s, u, 5)
      BY <1>4, <2>2, TiesPass
    <3>2. 5 * s[6] >= 6 * u[6] /\ s[6] - u[6] >= 48000
      BY <1>1, <1>4, <2>2
    <3> QED  BY <3>1, <3>2 DEF Better
  <2> QED  BY <2>1, <2>2 DEF Better
<1> QED  BY <1>2, <1>3, <1>4 DEF Better, AsGood

(* What a change leads to. *)

Slots == [Radios -> Aps \union {NoAp}]

\* A placement at rest: each radio holds its access point or idles.
AtRest(p) == [r \in Radios |-> IF p[r] = NoAp THEN Option("scan", NoAp) ELSE Option("stay", p[r])]

\* The radios are described to the planner where they are, with no link dead; which of
\* them are left alone, and what they avoid, is left open.
Shows(views, p) ==
  \A r \in Radios :
    /\ views[r].status = IF p[r] = NoAp THEN "free" ELSE "on"
    /\ views[r].ap = p[r] /\ views[r].dead = FALSE /\ views[r].cands \subseteq Aps

Healthy == [r \in Radios |-> [dead |-> FALSE]]

Worth(p) == Score(AtRest(p), Healthy)

\* The placement when a change has been carried out and its joins have landed.
Lands(c, p) ==
  IF c.kind = "swap" THEN [p EXCEPT ![c.a] = c.aTo, ![c.b] = c.bTo]
  ELSE [p EXCEPT ![c.dev] = c.ap]

\* A plan is worth no more than the placement that it becomes: a slot that a radio goes to
\* must be stronger to count as strong than one that it stays on.
LEMMA LandsAsGood ==
  ASSUME TypeOK, NEW views, \A r \in Radios : views[r].dead = FALSE, NEW p \in Slots, NEW q,
         \A r \in Radios :
           \/ p[r] = NoAp /\ q[r] = Option("scan", NoAp)
           \/ p[r] \in Aps /\ q[r] = Option("stay", p[r])
           \/ p[r] \in Aps /\ q[r] = Option("go", p[r]) /\ survey[r][p[r]] >= MinJoinDbm
  PROVE  /\ \A i \in 1..6 : Score(q, views)[i] \in Int /\ Worth(p)[i] \in Int
         /\ AsGood(Worth(p), Score(q, views))
         /\ (\A r \in Radios : q[r].kind # "go") => \A i \in 1..6 : Score(q, views)[i] = Worth(p)[i]
<1>1. PICK o : o = AtRest(p)
  OBVIOUS
<1>2. \A r \in Radios : o[r] = IF p[r] = NoAp THEN Option("scan", NoAp) ELSE Option("stay", p[r])
  BY <1>1 DEF AtRest
<1>3. \A r \in Radios : o[r].ap = p[r] /\ q[r].ap = p[r]
  <2>1. \A kind, a : Option(kind, a).ap = a
    BY DEF Option
  <2>2. \A r \in Radios : p[r] = NoAp \/ p[r] \in Aps
    BY DEF Slots
  <2> QED  BY <1>2, <2>1
<1>4. Placing(q) = Placing(o) /\ Placing(o) \subseteq Radios /\ \A r \in Placing(o) : p[r] \in Aps
  <2>1. \A r \in Radios : p[r] \in Aps \union {NoAp}
    BY DEF Slots
  <2> QED  BY <1>3, <2>1 DEF Placing
<1>5. ASSUME NEW r \in Placing(o)
      PROVE  /\ Grade(r, q[r], views) = "strong" => Grade(r, o[r], Healthy) = "strong"
             /\ Grade(r, q[r], views) # "dead" <=> Grade(r, o[r], Healthy) # "dead"
             /\ q[r].kind # "go" => Grade(r, q[r], views) = Grade(r, o[r], Healthy)
  <2>1. r \in Radios /\ p[r] \in Aps /\ p[r] # NoAp
    BY <1>3, <1>4 DEF Placing
  <2>2. survey[r][p[r]] \in Int
    BY <2>1, SignalIs
  <2>3. PICK signal \in Int : signal = survey[r][p[r]]
    BY <2>2
  <2>4. o[r] = Option("stay", p[r]) /\ Healthy[r].dead = FALSE /\ views[r].dead = FALSE
    BY <1>2, <2>1 DEF Healthy
  <2>5. \A any : any[r].dead = FALSE =>
          /\ Grade(r, Option("stay", p[r]), any) =
               IF signal < DeadDbm THEN "dead" ELSE IF signal >= KeepDbm THEN "strong" ELSE "usable"
          /\ Grade(r, Option("go", p[r]), any) = IF signal >= StrongDbm THEN "strong" ELSE "usable"
    BY <2>3 DEF Grade, Option
  <2>6. Grade(r, o[r], Healthy) =
          IF signal < DeadDbm THEN "dead" ELSE IF signal >= KeepDbm THEN "strong" ELSE "usable"
    BY <2>4, <2>5
  <2>7. CASE q[r] = Option("stay", p[r])
    <3>1. Grade(r, q[r], views) =
            IF signal < DeadDbm THEN "dead" ELSE IF signal >= KeepDbm THEN "strong" ELSE "usable"
      BY <2>4, <2>7, <2>5
    <3> QED  BY <2>6, <3>1
  <2>8. CASE q[r] = Option("go", p[r]) /\ survey[r][p[r]] >= MinJoinDbm
    <3>1. Grade(r, q[r], views) = IF signal >= StrongDbm THEN "strong" ELSE "usable"
      BY <2>4, <2>8, <2>5
    <3>2. signal >= MinJoinDbm /\ q[r].kind = "go"
      BY <2>3, <2>8 DEF Option
    <3> QED  BY <2>6, <3>1, <3>2 DEF DeadDbm, KeepDbm, StrongDbm, MinJoinDbm
  <2> QED  BY <2>1, <2>7, <2>8
<1>6. Alives(q, views) = Alives(o, Healthy)
  BY <1>4, <1>5 DEF Alives
<1>7. Strongs(q, views) \subseteq Strongs(o, Healthy)
  BY <1>4, <1>5 DEF Strongs
<1>8. \A r \in Placing(o) : o[r].ap \in Aps
  BY <1>3, <1>4
<1>9. \A r \in Placing(q) : q[r].ap \in Aps
  BY <1>3, <1>4
<1>10. \A i \in 1..6 : Score(q, views)[i] \in Int /\ Score(o, Healthy)[i] \in Int
  BY <1>8, <1>9, ScoreIs
<1>11. ASSUME Strongs(q, views) = Strongs(o, Healthy)
       PROVE  \A i \in 1..6 : Score(q, views)[i] = Score(o, Healthy)[i]
  <2>1. \A r \in Radios : q[r].ap = o[r].ap
    BY <1>3
  <2> QED  BY <1>6, <1>8, <1>11, <2>1, SameScore
<1>12. ASSUME Strongs(q, views) # Strongs(o, Healthy)
       PROVE  Beats(Score(o, Healthy), Score(q, views), 5)
  <2>1. Cardinality(Strongs(q, views)) < Cardinality(Strongs(o, Healthy))
    <3>1. PICK less : less = Strongs(q, views)
      OBVIOUS
    <3>2. PICK more : more = Strongs(o, Healthy)
      OBVIOUS
    <3>3. less \in SUBSET more /\ less # more /\ IsFiniteSet(more)
      BY <1>7, <1>12, <3>1, <3>2, StrongCounts
    <3>4. Cardinality(less) \in Nat /\ Cardinality(more) \in Nat
      BY <3>1, <3>2, StrongCounts
    <3>5. Cardinality(less) <= Cardinality(more) /\ Cardinality(less) # Cardinality(more)
      BY <3>3, FS_Subset
    <3> QED  BY <3>1, <3>2, <3>4, <3>5
  <2>2. Held(q) = Held(o)
    BY <1>3, <1>4 DEF Held
  <2>3. Doubled(q) = Doubled(o)
    BY <1>4, <2>2 DEF Doubled
  <2>4. PICK s : s = Score(q, views)
    OBVIOUS
  <2>5. PICK t : t = Score(o, Healthy)
    OBVIOUS
  <2>6. t[1] = s[1] /\ t[2] = s[2] /\ t[3] > s[3]
    <3>1. s[1] = -Doubled(q) /\ s[2] = (IF Placing(q) # {} THEN 1 ELSE 0) /\ s[3] = Cardinality(Strongs(q, views))
      BY <2>4, ScoreParts
    <3>2. t[1] = -Doubled(o) /\ t[2] = (IF Placing(o) # {} THEN 1 ELSE 0) /\ t[3] = Cardinality(Strongs(o, Healthy))
      BY <2>5, ScoreParts
    <3>3. Cardinality(Strongs(q, views)) \in Nat /\ Cardinality(Strongs(o, Healthy)) \in Nat
      BY StrongCounts
    <3> QED  BY <1>4, <2>1, <2>3, <3>1, <3>2, <3>3
  <2>7. 3 \in 1..5 /\ \A j \in 1..(3 - 1) : t[j] = s[j]
    <3>1. \A j \in 1..(3 - 1) : j = 1 \/ j = 2
      OBVIOUS
    <3> QED  BY <2>6, <3>1
  <2> QED  BY <2>4, <2>5, <2>6, <2>7 DEF Beats
<1>13. ASSUME \A r \in Radios : q[r].kind # "go" PROVE Strongs(q, views) = Strongs(o, Healthy)
  BY <1>4, <1>5, <1>13 DEF Strongs
<1>14. Worth(p) = Score(o, Healthy)
  BY <1>1 DEF Worth
<1> QED  BY <1>10, <1>11, <1>12, <1>13, <1>14 DEF AsGood

LEMMA OptionHears ==
  ASSUME NEW r \in Radios, NEW now, NEW views, views[r].cands \subseteq Aps, NEW o \in Options(r, now, views)
  PROVE  \/ o = Option("scan", NoAp)
         \/ \E a \in Aps : o = Option("go", a) /\ survey[r][a] >= MinJoinDbm
<1> DEFINE scans == {Option("scan", NoAp) : x \in {s \in {r} : now[s].kind = "stay" /\
                      (StaysAs("dead", r, now, views) \/ now[s].ap \in Stacked(now))}}
           goes  == {Option("go", a) : a \in
                      {c \in views[r].cands \ {now[r].ap} :
                         /\ survey[r][c] >= MinJoinDbm
                         /\ StaysAs("strong", r, now, views) => c \in proven
                         /\ AnyoneUp(now) => survey[r][c] >= StrongDbm}}
<1>1. o \in scans \/ o \in goes
  BY DEF Options
<1>2. o \in scans => o = Option("scan", NoAp)
  OBVIOUS
<1>3. o \in goes => \E a \in Aps : o = Option("go", a) /\ survey[r][a] >= MinJoinDbm
  OBVIOUS
<1> HIDE DEF scans, goes
<1> QED  BY <1>1, <1>2, <1>3

LEMMA SwapIs ==
  ASSUME NEW now, NEW views, \A r \in Radios : views[r].cands \subseteq Aps, NEW w \in Swaps(now, views)
  PROVE  /\ w.a \in Radios /\ w.b \in Radios /\ w.a # w.b /\ w.aTo \in Aps /\ w.bTo \in Aps
         /\ survey[w.a][w.aTo] >= StrongDbm /\ survey[w.b][w.bTo] >= StrongDbm
         /\ w.score = Score([now EXCEPT ![w.a] = Option("go", w.aTo), ![w.b] = Option("go", w.bTo)], views)
         /\ Better(w.score, Score(now, views))
<1>1. PICK p \in Radios \X Radios :
        /\ p[1] < p[2]
        /\ now[p[2]].ap \in views[p[1]].cands /\ survey[p[1]][now[p[2]].ap] >= StrongDbm
        /\ now[p[1]].ap \in views[p[2]].cands /\ survey[p[2]][now[p[1]].ap] >= StrongDbm
        /\ w = [a |-> p[1], aTo |-> now[p[2]].ap, b |-> p[2], bTo |-> now[p[1]].ap,
                score |-> Score([now EXCEPT ![p[1]] = Option("go", now[p[2]].ap),
                                            ![p[2]] = Option("go", now[p[1]].ap)], views)]
  BY DEF Swaps
<1>2. Better(w.score, Score(now, views))
  BY DEF Swaps
<1>3. p[1] \in Radios /\ p[2] \in Radios /\ p[1] # p[2]
  <2>1. p[1] \in Radios /\ p[2] \in Radios
    OBVIOUS
  <2>2. \A r \in Radios : r \in Nat
    BY RadiosAssumption
  <2> QED  BY <1>1, <2>1, <2>2
<1> QED  BY <1>1, <1>2, <1>3

LEMMA BetterThanSame ==
  ASSUME NEW s, NEW t, NEW u, \A i \in 1..6 : t[i] = u[i], Better(s, t)
  PROVE  Better(s, u)
<1>1. t[6] = u[6] /\ Ties(t, u, 5)
  BY DEF Ties
<1> QED  BY <1>1, TiesPass DEF Better

\* Every change of the planner gains: what it leads to is clearly better than what it saw.
LEMMA ChangeGains ==
  ASSUME TypeOK, NEW views, NEW p \in Slots, Shows(views, p), NEW c \in PlanSlots(views), c # NoChange
  PROVE  Lands(c, p) \in Slots /\ Better(Worth(Lands(c, p)), Worth(p))
<1> DEFINE kind(t) == IF t.opt.kind = "scan" THEN "park"
                      ELSE IF Current(views)[t.dev].kind = "stay" THEN "move" ELSE "join"
<1>1. PICK now : now = Current(views)
  OBVIOUS
<1>2. \/ \E t \in Trials(now, views) : c = Change(kind(t), t.dev, t.opt.ap)
      \/ \E w \in Swaps(now, views) :
           c = [kind |-> "swap", a |-> w.a, aTo |-> w.aTo, b |-> w.b, bTo |-> w.bTo]
  BY <1>1 DEF PlanSlots
<1>3. /\ \A r \in Radios : views[r].dead = FALSE /\ views[r].cands \subseteq Aps
      /\ \A r \in Radios : p[r] = NoAp \/ p[r] \in Aps
  BY DEF Shows, Slots
<1>4. /\ DOMAIN now = Radios
      /\ \A r \in Radios : now[r] = IF p[r] = NoAp THEN Option("scan", NoAp) ELSE Option("stay", p[r])
  <2>1. now = [r \in Radios |-> CASE views[r].status = "on"   -> Option("stay", views[r].ap)
                                  [] views[r].status = "busy" -> Option("busy", views[r].ap)
                                  [] views[r].status = "free" -> Option("scan", NoAp)]
    BY <1>1 DEF Current
  <2> QED  BY <2>1 DEF Shows
<1>5. \A r \in Radios : p[r] # NoAp => now[r] = Option("stay", p[r]) /\ p[r] \in Aps
  BY <1>3, <1>4
<1>6. /\ \A i \in 1..6 : Score(now, views)[i] \in Int /\ Worth(p)[i] \in Int
      /\ \A i \in 1..6 : Score(now, views)[i] = Worth(p)[i]
  <2>1. \A r \in Radios : \/ p[r] = NoAp /\ now[r] = Option("scan", NoAp)
                          \/ p[r] \in Aps /\ now[r] = Option("stay", p[r])
    BY <1>3, <1>4
  <2>2. \A r \in Radios : now[r].kind # "go"
    <3>1. \A a : Option("scan", a).kind # "go" /\ Option("stay", a).kind # "go"
      BY DEF Option
    <3> QED  BY <2>1, <3>1
  <2> QED  BY <1>3, <2>1, <2>2, LandsAsGood
<1>7. ASSUME NEW to \in Slots, NEW q, Better(Score(q, views), Score(now, views)),
             \A r \in Radios :
               \/ to[r] = NoAp /\ q[r] = Option("scan", NoAp)
               \/ to[r] \in Aps /\ q[r] = Option("stay", to[r])
               \/ to[r] \in Aps /\ q[r] = Option("go", to[r]) /\ survey[r][to[r]] >= MinJoinDbm
      PROVE  Better(Worth(to), Worth(p))
  <2>1. /\ \A i \in 1..6 : Score(q, views)[i] \in Int /\ Worth(to)[i] \in Int
        /\ AsGood(Worth(to), Score(q, views))
    BY <1>3, <1>7, LandsAsGood
  <2>2. Better(Score(q, views), Worth(p))
    BY <1>6, <1>7, BetterThanSame
  <2> QED  BY <1>6, <2>1, <2>2, BetterPasses
<1>8. ASSUME NEW t \in Trials(now, views), c = Change(kind(t), t.dev, t.opt.ap)
      PROVE  Lands(c, p) \in Slots /\ Better(Worth(Lands(c, p)), Worth(p))
  <2>1. /\ t.dev \in Radios /\ t.opt \in Options(t.dev, now, views)
        /\ t.score = Score([now EXCEPT ![t.dev] = t.opt], views) /\ Better(t.score, Score(now, views))
    BY TrialIs
  <2>2. PICK r \in Radios : r = t.dev
    BY <2>1
  <2>3. PICK o : o = t.opt
    OBVIOUS
  <2>4. \/ o = Option("scan", NoAp)
        \/ \E a \in Aps : o = Option("go", a) /\ survey[r][a] >= MinJoinDbm
    BY <1>3, <2>1, <2>2, <2>3, OptionHears
  <2>5. c.kind # "swap" /\ c.dev = r /\ c.ap = o.ap
    BY <1>8, <2>2, <2>3 DEF Change
  <2>6. PICK to : to = [p EXCEPT ![r] = o.ap]
    OBVIOUS
  <2>7. Lands(c, p) = to
    BY <2>5, <2>6 DEF Lands
  <2>8. \A k, a : Option(k, a).ap = a
    BY DEF Option
  <2>9. o.ap \in Aps \union {NoAp}
    BY <2>4, <2>8
  <2>10. to \in Slots /\ \A s \in Radios : to[s] = IF s = r THEN o.ap ELSE p[s]
    BY <2>6, <2>9 DEF Slots
  <2>11. PICK q : q = [now EXCEPT ![r] = o]
    OBVIOUS
  <2>12. \A s \in Radios : q[s] = IF s = r THEN o ELSE now[s]
    BY <1>4, <2>11
  <2>13. \A s \in Radios :
           \/ to[s] = NoAp /\ q[s] = Option("scan", NoAp)
           \/ to[s] \in Aps /\ q[s] = Option("stay", to[s])
           \/ to[s] \in Aps /\ q[s] = Option("go", to[s]) /\ survey[s][to[s]] >= MinJoinDbm
    BY <1>3, <1>4, <2>4, <2>8, <2>10, <2>12
  <2>14. Better(Score(q, views), Score(now, views))
    BY <2>1, <2>2, <2>3, <2>11
  <2> QED  BY <1>7, <2>7, <2>10, <2>13, <2>14
<1>9. ASSUME NEW w \in Swaps(now, views),
             c = [kind |-> "swap", a |-> w.a, aTo |-> w.aTo, b |-> w.b, bTo |-> w.bTo]
      PROVE  Lands(c, p) \in Slots /\ Better(Worth(Lands(c, p)), Worth(p))
  <2>1. /\ w.a \in Radios /\ w.b \in Radios /\ w.a # w.b /\ w.aTo \in Aps /\ w.bTo \in Aps
        /\ survey[w.a][w.aTo] >= StrongDbm /\ survey[w.b][w.bTo] >= StrongDbm
        /\ w.score = Score([now EXCEPT ![w.a] = Option("go", w.aTo), ![w.b] = Option("go", w.bTo)], views)
        /\ Better(w.score, Score(now, views))
    BY <1>3, SwapIs
  <2>2. PICK to : to = [p EXCEPT ![w.a] = w.aTo, ![w.b] = w.bTo]
    OBVIOUS
  <2>3. Lands(c, p) = to
    BY <1>9, <2>2 DEF Lands
  <2>4. to \in Slots /\ \A s \in Radios : to[s] = IF s = w.b THEN w.bTo ELSE IF s = w.a THEN w.aTo ELSE p[s]
    BY <2>1, <2>2 DEF Slots
  <2>5. PICK q : q = [now EXCEPT ![w.a] = Option("go", w.aTo), ![w.b] = Option("go", w.bTo)]
    OBVIOUS
  <2>6. \A s \in Radios : q[s] = IF s = w.b THEN Option("go", w.bTo)
                                 ELSE IF s = w.a THEN Option("go", w.aTo) ELSE now[s]
    BY <1>4, <2>1, <2>5
  <2>7. survey[w.a][w.aTo] >= MinJoinDbm /\ survey[w.b][w.bTo] >= MinJoinDbm
    <3>1. survey[w.a][w.aTo] \in Int /\ survey[w.b][w.bTo] \in Int
      BY <2>1, SignalIs
    <3> QED  BY <2>1, <3>1 DEF StrongDbm, MinJoinDbm
  <2>8. \A s \in Radios :
           \/ to[s] = NoAp /\ q[s] = Option("scan", NoAp)
           \/ to[s] \in Aps /\ q[s] = Option("stay", to[s])
           \/ to[s] \in Aps /\ q[s] = Option("go", to[s]) /\ survey[s][to[s]] >= MinJoinDbm
    BY <1>3, <1>4, <2>1, <2>4, <2>6, <2>7
  <2>9. Better(Score(q, views), Score(now, views))
    BY <2>1, <2>5
  <2> QED  BY <1>7, <2>3, <2>4, <2>8, <2>9
<1> QED  BY <1>2, <1>8, <1>9

LEMMA SlotsFinite == IsFiniteSet(Slots)
<1>1. PICK A : A = Aps \union {NoAp}
  OBVIOUS
<1>2. IsFiniteSet(A)
  BY <1>1, ApsAssumption, FS_AddElement
<1>3. PICK T : T = SUBSET (Radios \X A)
  OBVIOUS
<1>4. IsFiniteSet(T)
  BY <1>2, <1>3, RadiosAssumption, FS_Product, FS_SUBSET
<1>5. PICK graph : graph = [p \in Slots |-> {x \in Radios \X A : p[x[1]] = x[2]}]
  OBVIOUS
<1>6. graph \in [Slots -> T]
  BY <1>3, <1>5
<1>7. ASSUME NEW p \in Slots, NEW q \in Slots, graph[p] = graph[q] PROVE p = q
  <2>1. ASSUME NEW r \in Radios PROVE p[r] = q[r]
    <3>1. p[r] \in A
      BY <1>1 DEF Slots
    <3>2. PICK x : x = <<r, p[r]>>
      OBVIOUS
    <3>3. x \in Radios \X A /\ x[1] = r /\ x[2] = p[r]
      BY <3>1, <3>2
    <3>4. x \in graph[p]
      BY <1>5, <3>3
    <3>5. x \in graph[q]
      BY <1>7, <3>4
    <3>6. q[x[1]] = x[2]
      BY <1>5, <3>5
    <3> QED  BY <3>3, <3>6
  <2> QED  BY <2>1 DEF Slots
<1>8. graph \in Injection(Slots, T)
  BY <1>6, <1>7 DEF Injection, IsInjective
<1> QED  BY <1>4, <1>8, FS_Injection

LEMMA WorthIs ==
  ASSUME TypeOK, NEW p \in Slots
  PROVE  \A i \in 1..6 : Worth(p)[i] \in Int
<1>1. PICK o : o = AtRest(p)
  OBVIOUS
<1>2. \A r \in Radios : o[r] = IF p[r] = NoAp THEN Option("scan", NoAp) ELSE Option("stay", p[r])
  BY <1>1 DEF AtRest
<1>3. \A kind, a : Option(kind, a).ap = a
  BY DEF Option
<1>4. \A r \in Radios : o[r].ap = p[r] /\ p[r] \in Aps \union {NoAp}
  BY <1>2, <1>3 DEF Slots
<1>5. \A r \in Placing(o) : o[r].ap \in Aps
  BY <1>4 DEF Placing
<1> QED  BY <1>1, <1>5, ScoreIs DEF Worth

\* The planner never goes round in a circle: while signals stay as they are and every link
\* carries traffic, the radios are moved, joined, parked and swapped only so many times,
\* however the access points that they avoid and the radios that are left alone vary from
\* poll to poll (plan_slots, "need a clear gain over the current placement").
THEOREM PlannerRests ==
  ASSUME TypeOK, NEW p \in [Nat -> Slots], NEW views,
         \A i \in Nat : /\ Shows(views[i], p[i])
                        /\ \E c \in PlanSlots(views[i]) :
                             p[i + 1] = IF c = NoChange THEN p[i] ELSE Lands(c, p[i])
  PROVE  \E n \in Nat : \A i \in Nat : i >= n => p[i + 1] = p[i]
<1>1. \A i \in Nat : p[i] \in Slots /\ i + 1 \in Nat
  OBVIOUS
<1>2. \A i \in Nat : \A k \in 1..6 : Worth(p[i])[k] \in Int
  BY <1>1, WorthIs
<1>3. ASSUME NEW i \in Nat
      PROVE  p[i + 1] = p[i] \/ Better(Worth(p[i + 1]), Worth(p[i]))
  <2>1. PICK c \in PlanSlots(views[i]) : p[i + 1] = IF c = NoChange THEN p[i] ELSE Lands(c, p[i])
    OBVIOUS
  <2> QED  BY <1>1, <2>1, ChangeGains
\* Later placements are better, unless nothing has changed.
<1> DEFINE Climbs(i, j) == (\A k \in i..j : p[k] = p[i]) \/ Better(Worth(p[j]), Worth(p[i]))
<1>4. ASSUME NEW i \in Nat, NEW j \in Nat, i <= j, Climbs(i, j)
      PROVE  Climbs(i, j + 1)
  <2>1. j + 1 \in Nat /\ j \in i..j
    BY <1>4
  <2>2. CASE p[j + 1] = p[j] /\ \A k \in i..j : p[k] = p[i]
    <3>1. \A k \in i..(j + 1) : k \in i..j \/ k = j + 1
      BY <1>4
    <3>2. p[j + 1] = p[i]
      BY <2>1, <2>2
    <3> QED  BY <2>2, <3>1, <3>2
  <2>3. CASE p[j + 1] = p[j] /\ Better(Worth(p[j]), Worth(p[i]))
    BY <2>3
  <2>4. CASE Better(Worth(p[j + 1]), Worth(p[j])) /\ \A k \in i..j : p[k] = p[i]
    BY <2>1, <2>4
  <2>5. CASE Better(Worth(p[j + 1]), Worth(p[j])) /\ Better(Worth(p[j]), Worth(p[i]))
    BY <1>2, <2>1, <2>5, BetterPasses
  <2> QED  BY <1>3, <1>4, <2>2, <2>3, <2>4, <2>5
<1>5. ASSUME NEW i \in Nat, NEW j \in Nat, i <= j PROVE Climbs(i, j)
  <2> DEFINE fails == {d \in Nat : ~Climbs(i, i + d)}
  <2>1. Climbs(i, i + 0)
    BY SMT
  <2>2. \A d \in Nat : Climbs(i, i + d) => Climbs(i, i + (d + 1))
    <3> SUFFICES ASSUME NEW d \in Nat, Climbs(i, i + d) PROVE Climbs(i, i + (d + 1))
      OBVIOUS
    <3> HIDE DEF Climbs
    <3>1. PICK k \in Nat : k = i + d /\ i <= k /\ i + (d + 1) = k + 1
      OBVIOUS
    <3> QED  BY <1>4, <3>1
  <2> HIDE DEF Climbs
  <2>3. fails = {}
    <3> SUFFICES ASSUME fails # {} PROVE FALSE
      OBVIOUS
    <3>1. PICK d \in fails : \A m \in fails : d <= m
      BY Lowest
    <3>2. d \in Nat /\ ~Climbs(i, i + d) /\ d # 0
      BY <2>1, <3>1
    <3>3. d - 1 \in Nat /\ d - 1 \notin fails /\ (d - 1) + 1 = d
      BY <3>1, <3>2
    <3> QED  BY <2>2, <3>2, <3>3
  <2>4. j - i \in Nat /\ i + (j - i) = j
    BY <1>5
  <2>5. Climbs(i, i + (j - i))
    BY <2>3, <2>4
  <2> QED  BY <2>4, <2>5
\* Hence no placement comes back after another one.
<1>6. ASSUME NEW i \in Nat, NEW j \in Nat, i <= j, p[j] = p[i], NEW k \in i..j
      PROVE  p[k] = p[i]
  <2>1. ~Better(Worth(p[j]), Worth(p[i]))
    BY <1>2, <1>6, BetterIsStrict
  <2> QED  BY <1>5, <1>6, <2>1
<1> HIDE DEF Climbs
\* There are finitely many: some poll has seen as many as any later one will.
<1> DEFINE Seen0(n) == {s \in Slots : \E k \in 0..n : s = p[k]}
<1>7. PICK N \in Nat : N = Cardinality(Slots)
  BY SlotsFinite, FS_CardinalityType
<1>8. ASSUME NEW n \in Nat
      PROVE  IsFiniteSet(Seen0(n)) /\ Cardinality(Seen0(n)) \in Nat /\ Cardinality(Seen0(n)) <= N
  <2>1. Seen0(n) \in SUBSET Slots
    OBVIOUS
  <2> HIDE DEF Seen0
  <2> QED  BY <1>7, <2>1, SlotsFinite, FS_Subset, FS_CardinalityType
<1>9. PICK n \in Nat : \A m \in Nat : Cardinality(Seen0(m)) <= Cardinality(Seen0(n))
  <2> DEFINE gaps == {g \in Nat : \E m \in Nat : g = N - Cardinality(Seen0(m))}
  <2> HIDE DEF Seen0
  <2>1. \A m \in Nat : N - Cardinality(Seen0(m)) \in gaps
    BY <1>8
  <2>2. gaps # {}
    BY <2>1
  <2>3. PICK g \in gaps : \A h \in gaps : g <= h
    BY <2>2, Lowest
  <2>4. PICK n \in Nat : g = N - Cardinality(Seen0(n))
    BY <2>3
  <2>5. ASSUME NEW m \in Nat PROVE Cardinality(Seen0(m)) <= Cardinality(Seen0(n))
    <3>1. g <= N - Cardinality(Seen0(m))
      BY <2>1, <2>3
    <3> QED  BY <1>8, <2>4, <3>1
  <2> QED  BY <2>5
<1>10. ASSUME NEW i \in Nat, i >= n PROVE p[i + 1] = p[i]
  <2>1. Seen0(n) \subseteq Seen0(i + 1)
    <3>1. 0..n \subseteq 0..(i + 1)
      BY <1>10
    <3> QED  BY <3>1
  <2>2. p[i + 1] \in Seen0(i + 1)
    <3>1. i + 1 \in 0..(i + 1)
      OBVIOUS
    <3> QED  BY <1>1, <3>1
  <2>3. Seen0(n) = Seen0(i + 1)
    <3> HIDE DEF Seen0
    <3>1. PICK less : less = Seen0(n)
      OBVIOUS
    <3>2. PICK more : more = Seen0(i + 1)
      OBVIOUS
    <3>3. less \in SUBSET more /\ IsFiniteSet(more) /\ Cardinality(more) \in Nat /\ Cardinality(less) \in Nat
      BY <1>1, <1>8, <2>1, <3>1, <3>2
    <3>4. Cardinality(more) <= Cardinality(less)
      BY <1>1, <1>9, <3>1, <3>2
    <3>5. Cardinality(less) <= Cardinality(more)
      BY <3>3, FS_Subset
    <3>6. Cardinality(more) = Cardinality(less)
      BY <3>3, <3>4, <3>5
    <3>7. more = less
      BY <3>3, <3>6, FS_Subset
    <3> QED  BY <3>1, <3>2, <3>7
  <2>4. PICK k \in 0..n : p[i + 1] = p[k]
    BY <2>2, <2>3
  <2>5. k \in Nat /\ k <= i + 1 /\ i \in k..(i + 1) /\ i + 1 \in Nat
    BY <1>10, <2>4
  <2> QED  BY <1>6, <2>4, <2>5
<1> QED  BY <1>10

=============================================================================
