---- MODULE Signals ----
(***************************************************************************)
(* What the planner knows of the air.  Every poll feeds each radio's level *)
(* into its trend, reads each card's scan table, learns how much stronger  *)
(* one card hears than another, and asks some radio to scan.               *)
(*                                                                         *)
(* A radio is an interface name.  A level is 0 without a reading, else     *)
(* 1 (below STRONG_DBM) .. Top; two readings Spread apart are a move.      *)
(* Every access point is in range of every card, so a scan table is as     *)
(* old as its last scan.  Ages stand for timestamps.  Which dB an offset   *)
(* holds is left out: known is the set of pairs that have one.             *)
(*                                                                         *)
(* calm is history: for how long nothing happened to the radio.            *)
(***************************************************************************)
EXTENDS Integers, FiniteSets, Sequences, SequencesExt

CONSTANTS
  Radios, APs,
  Top, Spread,              \* levels; MOBILE_SPREAD_DB
  Window, Long,             \* TREND_WINDOW_S, and the 30 s that readings are kept
  Pair,                     \* learn_offsets' window_s
  ScoutMobile, ScoutStill,  \* SCOUT_SCAN_MOBILE_S, SCOUT_SCAN_STILL_S
  FadeScan, IdleScan,       \* FADE_SCAN_S, IDLE_SCAN_S
  PollFast, PollEvery,      \* a poll comes at least this often: POLL_FAST_S, POLL_SLOW_S
  Events,                   \* changes of the world in a behaviour
  None

ASSUME SignalsAssumption ==
  /\ {Top, Spread, Window, Long, ScoutMobile, ScoutStill, FadeScan, IdleScan, PollFast, PollEvery}
       \subseteq Nat \ {0}
  /\ {Pair, Events} \subseteq Nat
  /\ Window <= Long /\ ScoutMobile <= ScoutStill /\ PollFast <= PollEvery
  /\ None \notin APs /\ None \notin Nat /\ IsFiniteSet(Radios)

VARIABLES
  seat,      \* the radio: plugged in, its access point, the level it reads there
  series,    \* Trend._series: readings of one access point, oldest first
  bssid,     \* Trend._bssid: of which
  long,      \* Trend._long: every reading of the last 30 s
  table,     \* age of the card's scan table
  known,     \* pairs of radios with an offset
  lastScan,  \* ctx.last_scan, as an age
  scanning,  \* radios asked to scan by the last poll
  quick,     \* Follower.wants_fast, as far as the levels ask for it
  left,
  calm

trend == <<series, bssid, long>>
scans == <<table, lastScan, scanning>>
vars  == <<seat, trend, known, scans, quick, left, calm>>

Seats    == [in : BOOLEAN, ap : APs \cup {None}, level : 0 .. Top]
Readings == [age : 0 .. Long + 1, ap : APs, level : 1 .. Top]
AgeCap   == IdleScan + PollEvery * (Cardinality(Radios) + 1)
Ages     == 0 .. AgeCap \cup {None}

Older(age, by) == IF age = None THEN None ELSE IF age + by > AgeCap THEN AgeCap ELSE age + by

Pairs == Radios \X Radios

\* Mutant: an offset is learned one way only.
OneWay(S) == S

\* observe: what a hears more than b, b hears less than a.
Both(S) == S \cup {<<p[2], p[1]>> : p \in S}

TypeOK ==
  /\ seat \in [Radios -> Seats]
  /\ \A r \in Radios : /\ \A i \in DOMAIN series[r] : series[r][i] \in Readings
                       /\ \A i \in DOMAIN long[r] : long[r][i] \in Readings
  /\ bssid \in [Radios -> APs \cup {None}]
  /\ table \in [Radios -> Ages] /\ lastScan \in [Radios -> Ages]
  /\ known \subseteq Pairs /\ (\A p \in known : <<p[2], p[1]>> \in known)
  /\ scanning \subseteq Radios /\ quick \in BOOLEAN /\ left \in 0 .. Events
  /\ calm \in [Radios -> 0 .. AgeCap]

Gone == [in |-> FALSE, ap |-> None, level |-> 0]

\* A daemon that has just started: every radio is in, nothing is known yet.
Init ==
  /\ seat \in [Radios -> {s \in Seats : s.in /\ (s.ap = None <=> s.level = 0)}]
  /\ series = [r \in Radios |-> <<>>] /\ long = [r \in Radios |-> <<>>]
  /\ bssid = [r \in Radios |-> None]
  /\ table = [r \in Radios |-> None] /\ lastScan = [r \in Radios |-> None]
  /\ known = {} /\ scanning = {} /\ quick = FALSE /\ left = Events
  /\ calm = [r \in Radios |-> 0]

-----------------------------------------------------------------------------
(* Trend: the readings. *)

In == {r \in Radios : seat[r].in}
On == {r \in In : seat[r].ap # None}

\* Readings age; when one is added, those too old go from the left, up to the first that
\* is not.
Aged(readings, by) == [i \in DOMAIN readings |-> [readings[i] EXCEPT !.age =
                        IF @ + by > Long THEN Long + 1 ELSE @ + by]]
Recent(readings, by, bound) ==
  LET aged == Aged(readings, by)
      kept == {i \in DOMAIN aged : aged[i].age <= bound}
  IN IF kept = {} THEN <<>> ELSE SubSeq(aged, Min(kept), Len(aged))

\* add returns early without a reading: not even a new access point is noticed.
Reads(r) == r \in On /\ seat[r].level > 0
Reading(r) == [age |-> 0, ap |-> seat[r].ap, level |-> seat[r].level]

\* feed_context: a radio that is in and not connected is forgotten; one that was
\* pulled out is neither fed nor forgotten.
Added(r, readings, by, bound) ==
  IF Reads(r) THEN Append(Recent(readings, by, bound), Reading(r))
  ELSE IF r \in In \ On THEN <<>> ELSE Aged(readings, by)

\* Mutant: a new access point goes on with the series of the one before.
SeriesGoesOn(by) == [r \in Radios |-> Added(r, series[r], by, Window)]

Series(by) == [r \in Radios |->
  Added(r, IF Reads(r) /\ bssid[r] # seat[r].ap THEN <<>> ELSE series[r], by, Window)]
Longs(by)  == [r \in Radios |-> Added(r, long[r], by, Long)]
Bssids     == [r \in Radios |-> IF Reads(r) THEN seat[r].ap
                               ELSE IF r \in In \ On THEN None ELSE bssid[r]]

Levels(readings) == {readings[i].level : i \in DOMAIN readings}
Apart(levels, by) == \E x, y \in levels : x - y >= by

\* slope and declining: the level fell over the series.
Declining(readings) ==
  Len(readings) > 1 /\ Head(readings).level > Last(readings).level

\* mobile: some radio's readings of the last 30 s are far apart.
Mobile(longs) == \E r \in Radios : Apart(Levels(longs[r]), Spread)

-----------------------------------------------------------------------------
(* Offsets: two readings of one access point, close in time. *)

\* Two scan rows of an access point that neither radio is on.
InTables(a, b, tables) ==
  /\ a # b /\ tables[a] # None /\ tables[b] # None
  /\ tables[a] - tables[b] \in -Pair .. Pair
  /\ tables[a] <= Long \/ tables[b] <= Long
  /\ APs \ {seat[a].ap, seat[b].ap} # {}

\* at: b's reading at the time of a's row, of the access point b is on now.
Live(a, b, tables, longs) ==
  {longs[b][i] : i \in {j \in DOMAIN longs[b] : longs[b][j].age = tables[a] /\ tables[a] <= Long}}

InLive(a, b, tables, longs) ==
  /\ a \in In /\ b \in On /\ a # b /\ seat[a].ap # seat[b].ap
  /\ tables[a] # None /\ Live(a, b, tables, longs) # {}

Learned(tables, longs) ==
  Both({p \in Pairs : p[1] \in In /\ p[2] \in In /\ InTables(p[1], p[2], tables)}
       \cup {p \in Pairs : InLive(p[1], p[2], tables, longs)})

-----------------------------------------------------------------------------
(* candidates: how old the reading is by which radio r judges an access point. *)

\* Mutant: another radio's reading only fills in for a missing one.
BestOwn(r, tables, order) ==
  IF tables[r] # None THEN tables[r]
  ELSE FoldLeft(LAMBDA best, o : IF <<r, o>> \in known /\ tables[o] # None THEN tables[o] ELSE best,
                None, order)

\* Its own, unless another radio it can be corrected by has one fresher by more than 1 s;
\* the others are taken in the order of their names.
Best(r, tables, order) ==
  LET best[i \in 0 .. Len(order)] ==
        IF i = 0 THEN tables[r]
        ELSE LET o == order[i]
                 before == best[i - 1]
             IN IF o = r \/ tables[o] = None \/ <<r, o>> \notin known THEN before
                ELSE IF before = None \/ tables[o] < before - 1 THEN tables[o] ELSE before
  IN best[Len(order)]

-----------------------------------------------------------------------------
(* plan_scans. *)

Due(r, last, interval) == last[r] = None \/ last[r] >= interval

Scouts == In \ On

\* Mutant: only a decline counts.
NeedyFalling(serieses) == {r \in On : Declining(serieses[r])}

Needy(serieses) == {r \in On : seat[r].level = 1 \/ Declining(serieses[r])}

\* Mutant: the one scanned last is asked again.
Newest(last) == {r \in On : \A o \in On :
                   last[o] = None \/ (last[r] # None /\ last[r] <= last[o])}

\* Oldest scan first; the name breaks a tie.
Oldest(last) == {r \in On : \A o \in On :
                   last[r] = None \/ (last[o] # None /\ last[o] <= last[r])}

Plan(last, serieses, longs) ==
  IF Scouts # {}
  THEN {{r \in Scouts : Due(r, last, IF Mobile(longs) THEN ScoutMobile ELSE ScoutStill)}}
  ELSE LET needy == {r \in Needy(serieses) : Due(r, last, FadeScan)}
       IN IF needy # {} \/ On = {} THEN {needy}
          ELSE {IF Due(r, last, IdleScan) THEN {r} ELSE {} : r \in Oldest(last)}

-----------------------------------------------------------------------------
(* A poll, by ticks after the last one. *)

\* 1 s polls while anything is moving, weak or falling.
WantsFast(serieses, longs) == Mobile(longs) \/ Needy(serieses) # {}

Pace == IF quick THEN PollFast ELSE PollEvery

Poll ==
  \E by \in 1 .. Pace, refused \in SUBSET scanning, joining \in SUBSET Scouts :
    LET tables == [r \in Radios |-> IF ~seat[r].in THEN None
                                    ELSE IF r \in scanning \ refused THEN by - 1
                                    ELSE Older(table[r], by)]
        last   == [r \in Radios |-> IF seat[r].in THEN Older(lastScan[r], by) ELSE None]
    IN /\ Cardinality(joining) <= 1
       /\ left' = left - Cardinality(refused) - Cardinality(joining) /\ left' >= 0
       /\ series' = Series(by) /\ long' = Longs(by) /\ bssid' = Bssids
       /\ table' = tables
       /\ known' = known \cup Learned(tables, long')
       /\ quick' = WantsFast(series', long')
       /\ \E chosen \in Plan(last, series', long') :
            /\ scanning' = chosen \ joining
            /\ lastScan' = [r \in Radios |-> IF r \in scanning' THEN 0 ELSE last[r]]
       /\ calm' = [r \in Radios |-> IF r \in refused \cup joining THEN 0 ELSE Older(calm[r], by)]
       /\ UNCHANGED seat

-----------------------------------------------------------------------------
(* The world, between two polls. *)

Moves(r) ==
  /\ r \in In
  /\ \E a \in APs \cup {None}, l \in 0 .. Top :
       /\ (a = None) => l = 0
       /\ seat' = [seat EXCEPT ![r] = [in |-> TRUE, ap |-> a, level |-> l]]
  /\ seat' # seat
  /\ UNCHANGED <<table, scanning>>

\* Pulled out; it may come back at once, with nothing heard yet.
Unplug(r) ==
  /\ r \in In
  /\ \E back \in BOOLEAN : seat' = [seat EXCEPT ![r] = [Gone EXCEPT !.in = back]]
  /\ table' = [table EXCEPT ![r] = None] /\ scanning' = scanning \ {r}

Plug(r) ==
  /\ r \notin In
  /\ seat' = [seat EXCEPT ![r] = [Gone EXCEPT !.in = TRUE]]
  /\ UNCHANGED <<table, scanning>>

World ==
  /\ left > 0 /\ left' = left - 1
  /\ \E r \in Radios : (Moves(r) \/ Unplug(r) \/ Plug(r)) /\ calm' = [calm EXCEPT ![r] = 0]
  /\ UNCHANGED <<trend, known, lastScan, quick>>

Next == Poll \/ World

Spec == Init /\ [][Next]_vars

-----------------------------------------------------------------------------
(* Properties. *)

\* The trend by which a radio is moved early is of the access point it is on: a poll that
\* reads a level leaves no reading of another one, nor of more than 8 s ago.
SlopeOfOneAP ==
  [][left' = left => \A r \in Radios : Reads(r) =>
       \A i \in DOMAIN series'[r] : series'[r][i].ap = seat[r].ap /\ series'[r][i].age <= Window]_vars

\* No radio stops looking around: without a scout, and while nothing changes, each radio
\* scans in bounded time, even beside weak radios that scan more often.
LookBound == IdleScan + PollEvery * Cardinality(Radios)
NoneForgotten ==
  Scouts = {} /\ (\A r \in Radios : calm[r] = AgeCap)
    => \A r \in On : lastScan[r] # None /\ lastScan[r] <= LookBound

\* Nor does a weak radio wait for longer than its own, shorter interval.
WeakLooks ==
  Scouts = {} /\ (\A r \in Radios : calm[r] > FadeScan + PollEvery)
    => \A r \in On : seat[r].level = 1 => lastScan[r] # None /\ lastScan[r] < FadeScan + PollEvery

\* What a scout hears reaches the others: once it has been scouting for an interval, no
\* radio that was compared with it judges an access point by an older reading.
Orders == SetToSeqs(Radios)
ScoutFeedsAll ==
  \A s \in Scouts : calm[s] > ScoutStill + 2 * PollEvery =>
    \A r \in In : <<r, s>> \in known =>
      \A order \in Orders :
        Best(r, table, order) <= ScoutStill + 2 * PollEvery
====
