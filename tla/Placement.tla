----------------------------- MODULE Placement -----------------------------
(***************************************************************************)
(* Which access point each radio sits on: the slot planner                 *)
(* (src/wifimimo_roam.py, plan_slots) and the part of the follower that    *)
(* judges joins, describes the radios to the planner, carries its one      *)
(* change per poll out and steps through two-radio swaps                   *)
(* (src/wifimimo_nm.py, plan_follow, swap_step).                           *)
(*                                                                         *)
(* Between two polls joins land or fail, links drop or fall silent, signals *)
(* change and NetworkManager connects a radio by itself.                   *)
(*                                                                         *)
(* Abstractions.  All radios are on the followed network or disconnected.  *)
(* A radio's level and its projected level are one reading, the same for a *)
(* held slot and a candidate, and never stale.  The avoid lists expire, and *)
(* joins time out, at any moment; a radio is either recently moved or not. *)
(***************************************************************************)
EXTENDS Integers, FiniteSets, FiniteSetsExt

CONSTANTS
  Radios,      \* wifi radios, numbered in the order of their names
  Aps,         \* access points (BSSIDs) of the followed network
  Span,        \* the MHz <<lo, hi>> each access point occupies
  Width,       \* its channel width
  Signals,     \* dBm readings that occur
  Surveys,     \* what the radios may hear: functions [Radios -> [Aps -> Signals]]
  Poor,        \* access points that never give full connectivity
  MaxTrouble   \* bound on what goes wrong

ASSUME RadiosAssumption  == Radios \subseteq Nat /\ IsFiniteSet(Radios)
ASSUME ApsAssumption     == Aps \subseteq Nat \ {0} /\ IsFiniteSet(Aps)
ASSUME SpanAssumption    == \A a \in Aps : Span[a][1] < Span[a][2]
ASSUME WidthAssumption   == Width \in [Aps -> {20, 40, 80, 160}]
ASSUME SignalsAssumption == Signals \subseteq -100..-1
ASSUME SurveysAssumption == Surveys \subseteq [Radios -> [Aps -> Signals]]
ASSUME PoorAssumption    == Poor \subseteq Aps
ASSUME TroubleAssumption == MaxTrouble \in Nat

VARIABLES
  survey,   \* the signal of each access point at each radio
  place,    \* NetworkManager's state of each radio
  mute,     \* the radios whose link passes no traffic
  move,     \* the access point the follower last sent a radio to
  open,     \* the radios whose last join has neither landed nor been judged
  recent,   \* the radios moved or parked less than DWELL_S ago
  parked,   \* the radios the planner parked (they scout)
  held,     \* the access point a radio was last seen up on
  avoid,    \* the access points a radio avoids
  proven,   \* the access points that carried traffic
  swap,     \* the swap under way
  beat,     \* flips at every poll
  left      \* how much trouble is still to come

memory == <<move, open, recent, parked, held, avoid, proven, swap>>
vars   == <<survey, place, mute, move, open, recent, parked, held, avoid, proven, swap, beat, left>>

NoAp    == 0
Down    == [phase |-> "down", ap |-> NoAp]
Up(a)   == [phase |-> "up", ap |-> a]
Going(a) == [phase |-> "joining", ap |-> a]

SwapOf(c) == [a |-> c.a, aTo |-> c.aTo, b |-> c.b, bTo |-> c.bTo, step |-> 0]
NoSwap  == [a |-> 0, aTo |-> NoAp, b |-> 0, bTo |-> NoAp, step |-> 3]
SwapRec == [a : Radios, aTo : Aps, b : Radios, bTo : Aps, step : 0..2]

TypeOK ==
  /\ survey \in [Radios -> [Aps -> Signals]]
  /\ place \in [Radios -> {Down} \union {Up(a) : a \in Aps} \union {Going(a) : a \in Aps}]
  /\ mute \subseteq Radios
  /\ move \in [Radios -> Aps \union {NoAp}]
  /\ open \subseteq Radios
  /\ recent \subseteq Radios
  /\ parked \subseteq Radios
  /\ held \in [Radios -> Aps \union {NoAp}]
  /\ avoid \in [Radios -> SUBSET Aps]
  /\ proven \subseteq Aps
  /\ swap \in SwapRec \union {NoSwap}
  /\ beat \in BOOLEAN
  /\ left \in 0..MaxTrouble

\* Multipath is switched on while NetworkManager has the radios anywhere.
Init ==
  /\ survey \in Surveys
  /\ place \in [Radios -> {Down} \union {Up(a) : a \in Aps}]
  /\ mute = {}
  /\ move = [r \in Radios |-> NoAp]
  /\ open = {}
  /\ recent = {}
  /\ parked = {}
  /\ held = [r \in Radios |-> NoAp]
  /\ avoid = [r \in Radios |-> {}]
  /\ proven \in {{}, Aps}
  /\ swap = NoSwap
  /\ beat = FALSE
  /\ left = MaxTrouble

Calm    == left = 0
Trouble == left > 0 /\ left' = left - 1
Peace   == UNCHANGED left

-----------------------------------------------------------------------------
(* Signal and capacity.                                                    *)

StrongDbm  == -70
MinJoinDbm == -72
KeepDbm    == -75
DeadDbm    == -82
UpgradeDb  == 6
SureDbm    == -50

Overlap(a, b) == Span[a][1] < Span[b][2] /\ Span[b][1] < Span[a][2]

McsSnr  == <<2, 5, 9, 11, 15, 18, 20, 25, 29, 31, 34, 37>>
McsRate == <<86, 172, 258, 344, 516, 688, 774, 860, 1032, 1147, 1290, 1434>>

\* Two streams, in 1/100 Mb/s.  The noise floor is rounded down: signals are integers.
EstRate(signal, width) ==
  LET noise  == CASE width = 20 -> 95 [] width = 40 -> 91 [] width = 80 -> 88 [] width = 160 -> 85
      factor == CASE width = 20 -> 10 [] width = 40 -> 20 [] width = 80 -> 41 [] width = 160 -> 82
      mcs    == {i \in DOMAIN McsSnr : signal + noise >= McsSnr[i]}
  IN IF mcs = {} THEN 0 ELSE 2 * factor * McsRate[Max(mcs)]

-----------------------------------------------------------------------------
(* plan_slots.  A view describes a radio to the planner: its status, the   *)
(* access point it holds or goes to, whether the slot is dead, whether the *)
(* radio is left alone this poll, and the access points it may join.       *)

Option(kind, a) == [kind |-> kind, ap |-> a]

Current(views) ==
  [r \in Radios |-> CASE views[r].status = "on"   -> Option("stay", views[r].ap)
                      [] views[r].status = "busy" -> Option("busy", views[r].ap)
                      [] views[r].status = "free" -> Option("scan", NoAp)]

Grade(r, opt, views) ==
  LET signal == survey[r][opt.ap]
  IN CASE opt.kind = "stay" -> IF views[r].dead \/ signal < DeadDbm THEN "dead"
                               ELSE IF signal >= KeepDbm THEN "strong" ELSE "usable"
       [] opt.kind = "go"   -> IF signal >= StrongDbm THEN "strong" ELSE "usable"
       [] opt.kind = "busy" -> "usable"
       [] opt.kind = "scan" -> "none"

\* Radios doubled up on another's access point.
NotShared(plan, placed) == 0   \* mutant
Shared(plan, placed) == Cardinality(placed) - Cardinality({plan[r].ap : r \in placed})

\* What an assignment is worth, most important first.  Capacity is in 1/1200 Mb/s.
Score(plan, views) ==
  LET placed     == {r \in Radios : plan[r].ap # NoAp}
      grade      == [r \in Radios |-> Grade(r, plan[r], views)]
      sharing(r) == {q \in placed \ {r} : Overlap(plan[r].ap, plan[q].ap)}
      strong     == {r \in placed : grade[r] = "strong"}
      alive      == {r \in placed : grade[r] # "dead"}
      rate(r)    == (12 * EstRate(survey[r][plan[r].ap], Width[plan[r].ap]))
                      \div (1 + Cardinality(sharing(r)))
      room(r)    == survey[r][plan[r].ap] - DeadDbm
  IN << -Shared(plan, placed),
        IF placed # {} THEN 1 ELSE 0,
        Cardinality(strong),
        Cardinality({r \in strong : sharing(r) = {}}),
        Cardinality(alive) - Cardinality(placed),
        MapThenSumSet(rate, alive),
        MapThenSumSet(room, alive) >>

Beats(s, t, n) == \E i \in 1..n : s[i] > t[i] /\ \A j \in 1..(i - 1) : s[j] = t[j]
Ties(s, t, n)  == \A i \in 1..n : s[i] = t[i]

\* Mutant: a gain in any part counts, whatever it costs in a part above it.
AnyGain(s, t) == \E i \in 1..7 : s[i] > t[i]

\* A clear gain: in the first five, or 20 % and 40 Mb/s more capacity.
Better(s, t) ==
  \/ Beats(s, t, 5)
  \/ Ties(s, t, 5) /\ 5 * s[6] >= 6 * t[6] /\ s[6] - t[6] >= 48000

NoneStacked(now) == {}   \* mutant
Stacked(now) ==
  {a \in Aps : Cardinality({r \in Radios : now[r] = Option("stay", a)}) > 1}

NoWait(now)   == FALSE   \* mutant
Settling(now) == \E r \in Radios : now[r].kind = "busy"
AnyoneUp(now) == \E r \in Radios : now[r].kind \in {"stay", "busy"}

Working(r, now, views) ==
  now[r].kind = "stay" /\ Grade(r, now[r], views) \in {"strong", "usable"}

StaysAs(grade, r, now, views) == now[r].kind = "stay" /\ Grade(r, now[r], views) = grade

Restless(r, now, views) == FALSE   \* mutant
SoleAndFine(r, now, views) ==
  StaysAs("strong", r, now, views) /\ ~ \E q \in Radios \ {r} : Working(q, now, views)

\* What a radio may do: look around instead, or go to an access point.
Options(r, now, views) ==
  LET dead    == StaysAs("dead", r, now, views)
      strong  == StaysAs("strong", r, now, views)
      scans   == {Option("scan", NoAp) : x \in {s \in {r} : now[s].kind = "stay" /\
                    (dead \/ now[s].ap \in Stacked(now))}}
      goes    == {Option("go", a) : a \in
                    {c \in views[r].cands \ {now[r].ap} :
                       /\ survey[r][c] >= MinJoinDbm
                       /\ strong => c \in proven
                       /\ AnyoneUp(now) => survey[r][c] >= StrongDbm}}
  IN IF now[r].kind = "busy" \/ (views[r].locked /\ ~dead) THEN {}
     ELSE IF Settling(now) \/ SoleAndFine(r, now, views) THEN scans
     ELSE scans \union goes

\* Capacity alone moves a held radio only to a clearly stronger slot.
TooLittle(r, opt, s, base, now) ==
  /\ now[r].kind = "stay" /\ opt.kind = "go" /\ Ties(s, base, 5)
  /\ survey[r][opt.ap] - survey[r][now[r].ap] < UpgradeDb

Trials(now, views) ==
  LET base  == Score(now, views)
      all   == UNION {{[dev |-> r, opt |-> o, score |-> Score([now EXCEPT ![r] = o], views)] :
                          o \in Options(r, now, views)} : r \in Radios}
  IN {t \in all : Better(t.score, base) /\ ~TooLittle(t.dev, t.opt, t.score, base, now)}

\* Two working radios trade access points, while a third carries traffic.
Swaps(now, views) ==
  LET able(r)   == StaysAs("strong", r, now, views) /\ ~views[r].locked
      takes(r, a) == a \in views[r].cands /\ survey[r][a] >= StrongDbm
      pairs     == {p \in Radios \X Radios :
                      /\ p[1] < p[2] /\ able(p[1]) /\ able(p[2])
                      /\ \E q \in Radios \ {p[1], p[2]} : Working(q, now, views)
                      /\ takes(p[1], now[p[2]].ap) /\ takes(p[2], now[p[1]].ap)}
      all       == {[a |-> p[1], aTo |-> now[p[2]].ap, b |-> p[2], bTo |-> now[p[1]].ap,
                     score |-> Score([now EXCEPT ![p[1]] = Option("go", now[p[2]].ap),
                                                 ![p[2]] = Option("go", now[p[1]].ap)], views)]
                      : p \in pairs}
  IN {w \in all : Better(w.score, Score(now, views))}

Change(kind, r, a) == [kind |-> kind, dev |-> r, ap |-> a]
NoChange           == Change("none", 0, NoAp)

\* The best single change, of equals the radio last in name; else the best swap.
PlanSlots(views) ==
  LET now    == Current(views)
      trials == Trials(now, views)
      swaps  == Swaps(now, views)
      best   == {t \in trials : ~ \E u \in trials :
                   Beats(u.score, t.score, 7) \/ (Ties(u.score, t.score, 7) /\ u.dev > t.dev)}
      kind(t) == IF t.opt.kind = "scan" THEN "park"
                 ELSE IF now[t.dev].kind = "stay" THEN "move" ELSE "join"
  IN IF trials # {} THEN {Change(kind(t), t.dev, t.opt.ap) : t \in best}
     ELSE IF Settling(now) \/ swaps = {} THEN {NoChange}
     ELSE {[kind |-> "swap", a |-> w.a, aTo |-> w.aTo, b |-> w.b, bTo |-> w.bTo] :
             w \in {x \in swaps : ~ \E y \in swaps : Beats(y.score, x.score, 7)}}

-----------------------------------------------------------------------------
(* The poll: joins and held links are judged, every radio is described to  *)
(* the planner, and at most one change is carried out.  "dropped" are the  *)
(* joins seen failed by now, "stalled" those past their time-out.          *)

IsUp(r)    == place[r].phase = "up"
IsGoing(r) == place[r].phase = "joining"
IsDown(r)  == place[r].phase = "down"

Unfit == {r \in open : IsUp(r) /\ (r \in mute \/ (place[r].ap \in Poor /\ r \notin recent))}

Struck(dropped, stalled) == dropped \union stalled \union Unfit

\* Links in use that fell silent, and links lost since the last poll.
HeldMute == {r \in mute : IsUp(r) /\ held[r] # NoAp}
NotHeld  == {r \in Radios \ (parked \union recent) : IsDown(r)}   \* mutant
Lost     == {r \in Radios \ (parked \union recent) : IsDown(r) /\ held[r] # NoAp}

\* A strong access point that fails a join is avoided by every radio.
Avoided(r, struck) ==
  avoid[r] \union {move[q] : q \in {s \in struck : s = r \/ survey[s][move[s]] >= SureDbm}}
           \union {held[q] : q \in (HeldMute \union Lost) \intersect {r}}

Unsettled(struck) == {r \in open \ struck : ~IsUp(r)}

View(status, a, dead, locked, cands) ==
  [status |-> status, ap |-> a, dead |-> dead, locked |-> locked, cands |-> cands]

Describe(r, struck, stalled) ==
  LET cands == Aps \ Avoided(r, struck)
      goal  == IF move[r] \in cands /\ r \notin struck THEN move[r] ELSE NoAp
  IN CASE r \in stalled           -> View("free", NoAp, FALSE, TRUE, cands)
       [] r \in Unsettled(struck) -> View("busy", goal, FALSE, TRUE, cands)
       [] r \notin stalled /\ IsUp(r) ->
            View("on", place[r].ap, r \in Unfit \union HeldMute, r \in recent, cands)
       [] r \notin stalled \union Unsettled(struck) /\ IsGoing(r) ->
            View("busy", goal, FALSE, TRUE, cands)
       [] r \notin stalled \union Unsettled(struck) /\ IsDown(r) ->
            View("free", NoAp, FALSE, FALSE, cands)

\* The next step of the swap under way, or "over": it is done, or given up.
SwapStep(dropped, stalled) ==
  LET late(r) == r \notin recent \/ r \in stalled
      gone(r) == IsDown(r) /\ (r \in dropped \/ r \notin open)
      works   == IsUp(swap.a) /\ swap.a \notin mute
      wait    == Change("wait", swap.a, NoAp)
      over    == Change("over", swap.a, NoAp)
  IN CASE swap.step = 0 ->
            IF IsDown(swap.b) THEN Change("move", swap.a, swap.aTo)
            ELSE IF late(swap.b) THEN over ELSE wait
       [] swap.step = 1 ->
            IF works THEN Change("join", swap.b, swap.bTo)
            ELSE IF gone(swap.a) \/ late(swap.a) THEN over ELSE wait
       [] swap.step = 2 -> IF IsUp(swap.b) \/ late(swap.b) THEN over ELSE wait

\* A join that timed out is cancelled, and an idle radio that is not joining parked.
Finish(views, joining, stalled) ==
  (stalled \ parked) \union
  {r \in Radios \ (parked \union joining) : views[r].status = "free" /\ IsDown(r)}

\* The memory and the radios once change c is carried out; its command may fail.
Carry(c, views, struck, stalled, fails) ==
  LET joining == IF c.kind \in {"join", "move"} THEN {c.dev} ELSE {}
      parking == IF c.kind = "park" THEN {c.dev} ELSE IF c.kind = "swap" THEN {c.b} ELSE {}
      parks   == parking \union Finish(views, joining, stalled)
      stays   == IF fails THEN parking ELSE {}
  IN /\ place' = [r \in Radios |-> IF r \in joining THEN IF fails THEN Down ELSE Going(c.ap)
                                 ELSE IF r \in parks \ stays THEN Down ELSE place[r]]
     /\ move' = [r \in Radios |-> IF r \in joining THEN c.ap
                                ELSE IF r \in parks \union struck THEN NoAp ELSE move[r]]
     /\ open' = (Unsettled(struck) \ parks) \union joining
     /\ recent' = recent \union joining \union parks
     /\ parked' = (parked \union parks) \ joining
     /\ mute' = mute \ (joining \union (parks \ stays))

Poll(dropped, stalled, fails) ==
  LET struck == Struck(dropped, stalled)
      step   == IF swap = NoSwap THEN Change("over", 0, NoAp) ELSE SwapStep(dropped, stalled)
  IN /\ {r \in open \ recent : IsDown(r)} \subseteq dropped
     /\ \E views \in {[r \in Radios |-> Describe(r, struck, stalled)]} :
        \E c \in IF step.kind = "over" THEN PlanSlots(views) ELSE {step} :
          /\ Carry(c, views, struck, stalled, fails)
          /\ swap' = IF c.kind = "swap" THEN SwapOf(c)
                     ELSE IF step.kind = "over" THEN NoSwap
                     ELSE IF step.kind = "wait" THEN swap ELSE [swap EXCEPT !.step = @ + 1]
          /\ fails => c.kind \notin {"none", "wait"}
     /\ avoid' = [r \in Radios |-> Avoided(r, struck)]
     /\ held' = [r \in Radios |-> IF IsUp(r) THEN place[r].ap ELSE NoAp]
     /\ proven' = proven \union {place[r].ap : r \in {q \in Radios \ mute : IsUp(q)}}
     /\ beat' = ~beat
     /\ UNCHANGED survey

PollAll ==
  \E dropped \in SUBSET {r \in open : IsDown(r)}, stalled \in SUBSET {r \in open : IsGoing(r)},
     fails \in BOOLEAN :
       /\ Poll(dropped, stalled, fails)
       /\ ~(fails /\ stalled # {})
       /\ IF fails \/ stalled # {} THEN Trouble ELSE Peace

-----------------------------------------------------------------------------
(* NetworkManager, the access points, the people carrying the computer, and *)
(* time.                                                                    *)

Becomes(r, state) == place' = [place EXCEPT ![r] = state]

Land(r) ==
  /\ IsGoing(r)
  /\ Becomes(r, Up(place[r].ap))
  /\ Peace /\ UNCHANGED <<beat, survey, mute, memory>>

\* A join fails, or a link drops.
GoesDown(r) ==
  /\ ~IsDown(r)
  /\ Becomes(r, Down) /\ mute' = mute \ {r}
  /\ Trouble /\ UNCHANGED <<beat, survey, memory>>

\* A ping has to go unanswered for seconds: a poll has seen the link up by then.
GoesMute(r) ==
  /\ IsUp(r) /\ r \notin mute /\ (held[r] # NoAp \/ r \in open)
  /\ mute' = mute \union {r}
  /\ Trouble /\ UNCHANGED <<beat, survey, place, memory>>

Recovers(r) ==
  /\ r \in mute
  /\ mute' = mute \ {r}
  /\ Peace /\ UNCHANGED <<beat, survey, place, memory>>

\* The user, or an autoconnect not yet held, connects an idle radio.
NmConnects(r, a) ==
  /\ IsDown(r)
  /\ Becomes(r, Going(a))
  /\ Trouble /\ UNCHANGED <<beat, survey, mute, memory>>

SignalsChange ==
  /\ survey' \in Surveys \ {survey}
  /\ Trouble /\ UNCHANGED <<beat, place, mute, memory>>

\* The dwell time after a change is over.  A join has landed or stalled before.
Rest(r) ==
  /\ r \in recent /\ ~IsGoing(r)
  /\ recent' = recent \ {r}
  /\ Peace /\ UNCHANGED <<beat, survey, place, mute, move, open, parked, held, avoid, proven, swap>>

\* The time a radio avoids an access point is over.
Forgets(r, a) ==
  /\ a \in avoid[r]
  /\ avoid' = [avoid EXCEPT ![r] = @ \ {a}]
  /\ Peace /\ UNCHANGED <<beat, survey, place, mute, move, open, recent, parked, held, proven, swap>>

World ==
  \/ \E r \in Radios : Land(r) \/ GoesDown(r) \/ GoesMute(r) \/ Recovers(r) \/ Rest(r)
  \/ \E r \in Radios, a \in Aps : NmConnects(r, a) \/ Forgets(r, a)
  \/ SignalsChange

Next == PollAll \/ World
Spec == Init /\ [][Next]_vars

\* The daemon polls every one to five seconds; joins land; time passes.
FairSpec ==
  /\ Spec
  /\ []<><<beat' # beat>>_vars
  /\ \A r \in Radios : WF_vars(Land(r)) /\ WF_vars(Rest(r))

-----------------------------------------------------------------------------
(* Properties.                                                             *)

\* At most one of the follower's joins is in flight: a switch that has not
\* landed and has not been judged holds back the next (nm.py, plan_follow, "A
\* switch in flight is busy"), through stalls, swaps, parks and lost links.
OneAtATime == Cardinality(open) <= 1

Carrying(r) == IsUp(r) /\ r \notin mute

\* The planner never takes the last working link for an upgrade: if a radio
\* carries traffic on a strong slot of an access point that gives full connectivity,
\* before a poll that no swap is part of, some radio carries traffic on a live slot
\* after it (plan_slots, "The only working link is never dropped for an upgrade";
\* _best_swap, "Needs a third working radio").
Strong(r) == Carrying(r) /\ place[r].ap \notin Poor /\ survey[r][place[r].ap] >= KeepDbm
Alive(r)  == Carrying(r) /\ survey[r][place[r].ap] >= DeadDbm

LastLinkCut == (\E r \in Radios : Strong(r)) /\ ~ \E r \in Radios : Alive(r)'

LinkKept ==
  [][swap = NoSwap /\ LastLinkCut => ~PollAll]_vars

\* The same of every poll: "Two working radios may trade APs, but only while a
\* third carries traffic" (README.md), and so a swap never takes the last link.
SpareKept ==
  [][LastLinkCut => ~PollAll]_vars

\* No poll outside a swap sends a radio to an access point that another radio
\* holds or is on its way to (score, "shared": "never a choice").
Sent(r) == place[r] # place'[r] /\ place'[r].phase = "joining"

NeverDoubled ==
  [][swap = NoSwap /\ (\E r \in Radios : Sent(r) /\ \E q \in Radios \ {r} : place'[q].ap = place'[r].ap)
       => ~PollAll]_vars

\* Placement comes to rest: once nothing goes wrong any more, no radio is moved,
\* joined or parked again, whatever the follower remembers (plan_slots, "need a
\* clear gain over the current placement"; plan_follow, "so nothing flaps").
Settles == <>[][UNCHANGED place]_vars

\* And it rests in the right place: no two radios share an access point, and no
\* radio idles or sits on a dead link while a strong access point that it does not avoid is free
\* (score, strong slots; finish, "It joins as soon as one is").
Placed ==
  <>[](\A r \in Radios :
         /\ \A q \in Radios \ {r} : place[q].ap = place[r].ap => IsDown(r)
         /\ IsDown(r) => \A a \in Aps \ avoid[r] :
              survey[r][a] >= StrongDbm => \E q \in Radios : place[q].ap = a)

=============================================================================
