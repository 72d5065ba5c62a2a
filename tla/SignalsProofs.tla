---- MODULE SignalsProofs ----
(***************************************************************************)
(* What the planner knows of the air, for every number of radios and       *)
(* access points and every window and interval.  A radio's series holds    *)
(* readings of one access point (OfOneAP), the older ones first (Ageing),  *)
(* so that dropping the oldest ones drops all that are too old; and a weak *)
(* radio that no poll scans has been scanned a short while ago (Looked).   *)
(* A scout keeps a fresh table (Scouted), and the best reading is at most  *)
(* a second older than any that it was chosen from (BestIs).  A radio that *)
(* is due scans after at most all the others have (Patient).               *)
(***************************************************************************)
EXTENDS Signals, FiniteSetTheorems, SequenceTheorems, WellFoundedInduction, TLAPS

LEMMA Numbers ==
  /\ Top \in Nat \ {0} /\ Spread \in Nat /\ Window \in Nat \ {0} /\ Long \in Nat \ {0} /\ Window <= Long
  /\ ScoutMobile \in Nat \ {0} /\ ScoutStill \in Nat \ {0} /\ FadeScan \in Nat \ {0} /\ IdleScan \in Nat \ {0}
  /\ PollFast \in Nat \ {0} /\ PollEvery \in Nat \ {0} /\ PollFast <= PollEvery
  /\ Pair \in Nat /\ Events \in Nat
  /\ AgeCap \in Nat /\ PollEvery <= AgeCap
  /\ None \notin APs /\ None \notin Nat
<1>1. /\ Top \in Nat \ {0} /\ Spread \in Nat /\ Window \in Nat \ {0} /\ Long \in Nat \ {0} /\ Window <= Long
      /\ ScoutMobile \in Nat \ {0} /\ ScoutStill \in Nat \ {0} /\ FadeScan \in Nat \ {0}
      /\ IdleScan \in Nat \ {0} /\ PollFast \in Nat \ {0} /\ PollEvery \in Nat \ {0}
      /\ PollFast <= PollEvery /\ Pair \in Nat /\ Events \in Nat
      /\ None \notin APs /\ None \notin Nat
  BY SignalsAssumption
<1>2. Cardinality(Radios) \in Nat
  BY SignalsAssumption, FS_CardinalityType
<1>3. \A p, n \in Nat : p * (n + 1) \in Nat /\ p <= p * (n + 1)
  OBVIOUS
<1>4. PollEvery * (Cardinality(Radios) + 1) \in Nat /\ PollEvery <= PollEvery * (Cardinality(Radios) + 1)
  BY <1>1, <1>2, <1>3
<1> QED  BY <1>1, <1>4 DEF AgeCap

LEMMA PaceIs == \A by \in 1 .. Pace : by \in 1 .. PollEvery /\ (quick => by \in 1 .. PollFast)
BY Numbers DEF Pace

LEMMA OlderIs ==
  ASSUME NEW by \in Nat
  PROVE  /\ \A age \in Ages : Older(age, by) \in Ages
         /\ \A age \in 0 .. AgeCap : Older(age, by) \in 0 .. AgeCap
         /\ \A age \in Ages : Older(age, by) = None <=> age = None
BY Numbers DEF Older, Ages

LEMMA OlderOrdered ==
  ASSUME NEW by \in 1 .. PollEvery, NEW a \in 0 .. AgeCap, NEW b \in 0 .. AgeCap, a <= b
  PROVE  /\ Older(a, by) <= Older(b, by) /\ Older(a, by) <= a + by /\ by <= Older(a, by)
         /\ Older(a, by) \in 0 .. AgeCap /\ Older(0, by) = by
BY Numbers DEF Older

-----------------------------------------------------------------------------
(* Readings: those too old go from the left. *)

\* The older readings come first.
Ageing(s) == \A i, j \in 1 .. Len(s) : i <= j => s[j].age <= s[i].age

LEMMA Least ==
  ASSUME NEW S \in SUBSET Nat, S # {}
  PROVE  Min(S) \in S /\ \A m \in S : Min(S) <= m
<1>1. \E n \in S : \A m \in S : ~(<<m, n>> \in OpToRel(<, Nat))
  BY NatLessThanWellFounded, WFMin
<1>2. PICK n \in S : \A m \in S : ~(<<m, n>> \in OpToRel(<, Nat))
  BY <1>1
<1>3. \A m \in S : ~(m < n)
  BY <1>2 DEF OpToRel
<1>4. \A m \in S : n <= m
  BY <1>3
<1> QED  BY <1>4 DEF Min

\* A function on 1 .. n is a sequence.
LEMMA AsSeq ==
  ASSUME NEW S, NEW n \in Nat, NEW f \in [1 .. n -> S]
  PROVE  f \in Seq(S) /\ Len(f) = n /\ \A i \in 1 .. n : f[i] \in S
OBVIOUS

\* x is the reading y, later.
Later(x, y, by) == x.ap = y.ap /\ x.level = y.level /\ (x.age <= Long => x.age = y.age + by)

\* Time passes for a series of readings.
LEMMA AgedIs ==
  ASSUME NEW s \in Seq(Readings), NEW by \in Nat
  PROVE  /\ Aged(s, by) \in Seq(Readings) /\ Len(Aged(s, by)) = Len(s)
         /\ \A i \in 1 .. Len(s) : Later(Aged(s, by)[i], s[i], by)
         /\ Ageing(s) => Ageing(Aged(s, by))
<1> DEFINE older(age) == IF age + by > Long THEN Long + 1 ELSE age + by
           t == [i \in 1 .. Len(s) |-> [s[i] EXCEPT !.age = older(@)]]
<1>1. DOMAIN s = 1 .. Len(s) /\ Len(s) \in Nat /\ \A i \in 1 .. Len(s) : s[i] \in Readings
  BY LenProperties, ElementOfSeq
<1>2. t = Aged(s, by)
  BY <1>1 DEF Aged
<1>3. \A age \in 0 .. Long + 1 : older(age) \in 0 .. Long + 1
  BY Numbers
<1>4. ASSUME NEW x \in Readings
      PROVE  LET y == [x EXCEPT !.age = older(@)]
             IN y \in Readings /\ y.ap = x.ap /\ y.level = x.level /\ y.age = older(x.age)
  <2>1. x.age \in 0 .. Long + 1 /\ x.ap \in APs /\ x.level \in 1 .. Top
    BY DEF Readings
  <2>2. PICK a : a = older(x.age)
    OBVIOUS
  <2>3. a \in 0 .. Long + 1
    BY <1>3, <2>1, <2>2
  <2>4. PICK y : y = [x EXCEPT !.age = a]
    OBVIOUS
  <2>5. y = [age |-> a, ap |-> x.ap, level |-> x.level]
    BY <2>4 DEF Readings
  <2>6. y \in Readings /\ y.ap = x.ap /\ y.level = x.level /\ y.age = a
    BY <2>1, <2>3, <2>5 DEF Readings
  <2>7. [x EXCEPT !.age = older(@)] = y
    BY <2>2, <2>4
  <2> QED  BY <2>2, <2>6, <2>7
<1>5. \A i \in 1 .. Len(s) : /\ t[i] \in Readings /\ t[i].ap = s[i].ap
                             /\ t[i].level = s[i].level /\ t[i].age = older(s[i].age)
  BY <1>1, <1>4
<1>6. t \in [1 .. Len(s) -> Readings]
  BY <1>5
<1>7. t \in Seq(Readings) /\ Len(t) = Len(s)
  BY <1>1, <1>6, AsSeq
<1>8. ASSUME Ageing(s) PROVE Ageing(t)
  <2>1. \A x, y \in Nat : x <= y => older(x) <= older(y)
    BY Numbers
  <2>2. \A i \in 1 .. Len(s) : s[i].age \in Nat
    BY <1>1, Numbers DEF Readings
  <2> HIDE DEF t, older
  <2> QED  BY <1>5, <1>7, <1>8, <2>1, <2>2 DEF Ageing
<1>9. \A i \in 1 .. Len(s) : Later(t[i], s[i], by)
  <2>1. \A age \in 0 .. Long + 1 : older(age) <= Long => older(age) = age + by
    BY Numbers
  <2>2. \A i \in 1 .. Len(s) : s[i].age \in 0 .. Long + 1
    BY <1>1 DEF Readings
  <2> HIDE DEF t, older
  <2> QED  BY <1>5, <2>1, <2>2 DEF Later
<1> HIDE DEF t
<1> QED  BY <1>2, <1>7, <1>8, <1>9

\* What is left of a series is part of it; of one that is in order, nothing too old.
LEMMA RecentIs ==
  ASSUME NEW s \in Seq(Readings), NEW by \in Nat, NEW bound \in Nat
  PROVE  /\ Recent(s, by, bound) \in Seq(Readings)
         /\ \A i \in 1 .. Len(Recent(s, by, bound)) :
              \E j \in 1 .. Len(s) : Later(Recent(s, by, bound)[i], s[j], by)
         /\ Ageing(s) => /\ Ageing(Recent(s, by, bound))
                         /\ \A i \in 1 .. Len(Recent(s, by, bound)) : Recent(s, by, bound)[i].age <= bound
<1>1. PICK t : t = Aged(s, by)
  OBVIOUS
<1>2. /\ t \in Seq(Readings) /\ Len(t) = Len(s)
      /\ \A i \in 1 .. Len(s) : Later(t[i], s[i], by)
      /\ Ageing(s) => Ageing(t)
  BY <1>1, AgedIs
<1>3. PICK kept : kept = {i \in DOMAIN t : t[i].age <= bound}
  OBVIOUS
<1>4. PICK u : u = Recent(s, by, bound)
  OBVIOUS
<1>5. u = IF kept = {} THEN <<>> ELSE SubSeq(t, Min(kept), Len(t))
  BY <1>1, <1>3, <1>4 DEF Recent
<1>6. CASE kept = {}
  <2>1. u = <<>> /\ Len(u) = 0 /\ u \in Seq(Readings)
    BY <1>5, <1>6, EmptySeq
  <2> QED  BY <1>4, <2>1 DEF Ageing
<1>7. CASE kept # {}
  <2>1. /\ kept \subseteq 1 .. Len(t) /\ kept \in SUBSET Nat /\ Len(t) \in Nat
        /\ \A i \in 1 .. Len(t) : t[i] \in Readings
    BY <1>2, <1>3, LenProperties, ElementOfSeq
  <2>2. PICK k \in kept : k = Min(kept)
    BY <1>7, <2>1, Least
  <2>3. k \in 1 .. Len(t) /\ t[k].age <= bound
    BY <1>3, <2>1, <2>2
  <2>4. u = SubSeq(t, k, Len(t))
    BY <1>5, <1>7, <2>2
  <2>5. PICK n \in Nat : n = Len(t)
    BY <2>1
  <2>6. k \in Int /\ n \in Int /\ k <= n /\ \A i \in k .. n : t[i] \in Readings
    BY <2>1, <2>3, <2>5
  <2>7. /\ u \in Seq(Readings) /\ Len(u) = n - k + 1
        /\ \A i \in 1 .. n - k + 1 : u[i] = t[k + i - 1]
    BY <2>4, <2>5, <2>6, SubSeqProperties
  <2>8. \A i \in 1 .. Len(u) : u[i] = t[k + i - 1] /\ k + i - 1 \in 1 .. n /\ k <= k + i - 1
    BY <2>3, <2>5, <2>7
  <2>9. \A i \in 1 .. Len(u) : \E j \in 1 .. Len(s) : Later(u[i], s[j], by)
    BY <1>2, <2>5, <2>8
  <2>10. ASSUME Ageing(s)
         PROVE  Ageing(u) /\ \A i \in 1 .. Len(u) : u[i].age <= bound
    <3>1. \A i, j \in 1 .. n : i <= j => t[j].age <= t[i].age
      BY <1>2, <2>5, <2>10 DEF Ageing
    <3>2. \A i \in 1 .. n : t[i].age \in Nat
      BY <2>1, <2>5, Numbers DEF Readings
    <3>3. ASSUME NEW i \in 1 .. Len(u), NEW j \in 1 .. Len(u), i <= j
          PROVE  u[j].age <= u[i].age
      <4>1. i \in Nat /\ j \in Nat /\ k \in Nat /\ k + i - 1 <= k + j - 1
        BY <2>3, <2>7, <3>3
      <4> QED  BY <2>8, <3>1, <4>1
    <3>4. ASSUME NEW i \in 1 .. Len(u) PROVE u[i].age <= bound
      <4>1. t[k + i - 1].age <= t[k].age /\ t[k + i - 1].age \in Nat /\ t[k].age \in Nat
        BY <2>3, <2>5, <2>8, <3>1, <3>2
      <4>2. u[i].age = t[k + i - 1].age
        BY <2>8
      <4> QED  BY <2>3, <4>1, <4>2
    <3> QED  BY <3>3, <3>4 DEF Ageing
  <2> QED  BY <1>4, <2>7, <2>9, <2>10
<1> QED  BY <1>6, <1>7

\* A poll adds to a series of one access point, in order, and keeps it so.
AllOf(s, a) == \A i \in 1 .. Len(s) : s[i].ap = a

LEMMA AppendIs ==
  ASSUME NEW s \in Seq(Readings), Ageing(s), NEW x \in Readings, x.age = 0
  PROVE  /\ Append(s, x) \in Seq(Readings) /\ Ageing(Append(s, x))
         /\ Len(Append(s, x)) = Len(s) + 1 /\ Append(s, x)[Len(s) + 1] = x
         /\ \A i \in 1 .. Len(s) : Append(s, x)[i] = s[i]
<1>1. PICK n \in Nat : n = Len(s)
  BY LenProperties
<1>2. PICK t : t = Append(s, x)
  OBVIOUS
<1>3. t \in Seq(Readings) /\ Len(t) = n + 1 /\ t[n + 1] = x /\ \A i \in 1 .. n : t[i] = s[i]
  BY <1>1, <1>2
<1>4. \A i \in 1 .. n + 1 : t[i] \in Readings
  BY <1>3, ElementOfSeq
<1>5. \A i \in 1 .. n + 1 : t[i].age \in Nat
  BY <1>4, Numbers DEF Readings
<1>6. ASSUME NEW i \in 1 .. n + 1, NEW j \in 1 .. n + 1, i <= j
      PROVE  t[j].age <= t[i].age
  <2>1. CASE j = n + 1
    BY <1>3, <1>5, <2>1
  <2>2. CASE j # n + 1
    <3>1. i \in 1 .. n /\ j \in 1 .. n
      BY <1>6, <2>2
    <3>2. s[j].age <= s[i].age
      BY <1>1, <1>6, <3>1 DEF Ageing
    <3> QED  BY <1>3, <3>1, <3>2
  <2> QED  BY <2>1, <2>2
<1>7. Ageing(t)
  BY <1>3, <1>6 DEF Ageing
<1> QED  BY <1>1, <1>2, <1>3, <1>7

LEMMA AddedIs ==
  ASSUME NEW r \in Radios, seat[r] \in Seats, NEW by \in Nat, NEW bound \in Nat,
         NEW s \in Seq(Readings), Ageing(s)
  PROVE  /\ Added(r, s, by, bound) \in Seq(Readings) /\ Ageing(Added(r, s, by, bound))
         /\ \A a : AllOf(s, a) /\ (Reads(r) => seat[r].ap = a) => AllOf(Added(r, s, by, bound), a)
         /\ r \in In \ On => Added(r, s, by, bound) = <<>>
         /\ Reads(r) => \A i \in 1 .. Len(Added(r, s, by, bound)) :
              /\ Added(r, s, by, bound)[i].age <= bound
              /\ \/ Added(r, s, by, bound)[i] = Reading(r)
                 \/ \E j \in 1 .. Len(s) : Later(Added(r, s, by, bound)[i], s[j], by)
         /\ ~Reads(r) /\ r \in On =>
              /\ Len(Added(r, s, by, bound)) = Len(s)
              /\ \A i \in 1 .. Len(s) : Later(Added(r, s, by, bound)[i], s[i], by)
<1>1. CASE Reads(r)
  <2>1. PICK x : x = Reading(r)
    OBVIOUS
  <2>2. x \in Readings /\ x.age = 0 /\ x.ap = seat[r].ap
    BY <1>1, <2>1, Numbers DEF Reads, On, In, Reading, Readings, Seats
  <2>3. PICK u : u = Recent(s, by, bound)
    OBVIOUS
  <2>4. /\ u \in Seq(Readings) /\ Ageing(u)
        /\ \A i \in 1 .. Len(u) : u[i].age <= bound
        /\ \A i \in 1 .. Len(u) : \E j \in 1 .. Len(s) : Later(u[i], s[j], by)
    <3>1. Ageing(s)
      OBVIOUS
    <3>2. Recent(s, by, bound) \in Seq(Readings) /\ Ageing(Recent(s, by, bound))
      BY <3>1, RecentIs
    <3>3. \A i \in 1 .. Len(Recent(s, by, bound)) : Recent(s, by, bound)[i].age <= bound
      BY <3>1, RecentIs
    <3>4. \A i \in 1 .. Len(Recent(s, by, bound)) :
            \E j \in 1 .. Len(s) : Later(Recent(s, by, bound)[i], s[j], by)
      BY RecentIs
    <3> QED  BY <2>3, <3>2, <3>3, <3>4
  <2>5. PICK t : t = Append(u, x)
    OBVIOUS
  <2>6. t = Added(r, s, by, bound)
    BY <1>1, <2>1, <2>3, <2>5 DEF Added
  <2>7. PICK n \in Nat : n = Len(u)
    BY <2>4, LenProperties
  <2>8. /\ t \in Seq(Readings) /\ Ageing(t) /\ Len(t) = n + 1 /\ t[n + 1] = x
        /\ \A i \in 1 .. n : t[i] = u[i]
    BY <2>2, <2>4, <2>5, <2>7, AppendIs
  <2>9. \A i \in 1 .. n + 1 : i \in 1 .. n \/ i = n + 1
    OBVIOUS
  <2>10. \A i \in 1 .. Len(t) :
           t[i].age <= bound /\ (t[i] = Reading(r) \/ \E j \in 1 .. Len(s) : Later(t[i], s[j], by))
    BY <2>1, <2>2, <2>4, <2>7, <2>8, <2>9
  <2>11. ASSUME NEW a, AllOf(s, a), seat[r].ap = a PROVE AllOf(t, a)
    <3>1. \A i \in 1 .. n : u[i].ap = a
      BY <2>4, <2>7, <2>11 DEF AllOf, Later
    <3> QED  BY <2>2, <2>8, <2>9, <2>11, <3>1 DEF AllOf
  <2>12. r \notin In \ On
    BY <1>1 DEF Reads
  <2> QED  BY <1>1, <2>6, <2>8, <2>10, <2>11, <2>12
<1>2. CASE ~Reads(r) /\ r \in In \ On
  <2>1. Added(r, s, by, bound) = <<>>
    BY <1>2 DEF Added
  <2>2. <<>> \in Seq(Readings) /\ Len(<<>>) = 0
    BY EmptySeq
  <2> QED  BY <1>2, <2>1, <2>2 DEF Ageing, AllOf
<1>3. CASE ~Reads(r) /\ r \notin In \ On
  <2>1. PICK t : t = Aged(s, by)
    OBVIOUS
  <2>2. t = Added(r, s, by, bound)
    BY <1>3, <2>1 DEF Added
  <2>3. /\ t \in Seq(Readings) /\ Ageing(t) /\ Len(t) = Len(s)
        /\ \A i \in 1 .. Len(s) : Later(t[i], s[i], by)
    BY <2>1, AgedIs
  <2>4. \A a : AllOf(s, a) => AllOf(t, a)
    BY <2>3 DEF AllOf, Later
  <2> QED  BY <1>3, <2>2, <2>3, <2>4
<1> QED  BY <1>1, <1>2, <1>3

-----------------------------------------------------------------------------
(* The type invariant, and what a series holds. *)

OfOneAP == \A r \in Radios : AllOf(series[r], bssid[r])

Typed ==
  /\ TypeOK
  /\ series \in [Radios -> Seq(Readings)] /\ long \in [Radios -> Seq(Readings)]
  /\ \A r \in Radios : Ageing(series[r]) /\ Ageing(long[r])
  /\ OfOneAP

LEMMA SeatIs == ASSUME TypeOK PROVE \A r \in Radios : seat[r] \in Seats
BY DEF TypeOK

\* A series goes on: with a new reading if there is one, else as it is.
Goes(r, by) ==
  /\ Reads(r) => \A i \in 1 .. Len(series'[r]) :
       \/ series'[r][i] = Reading(r)
       \/ \E j \in 1 .. Len(series[r]) : Later(series'[r][i], series[r][j], by)
  /\ ~Reads(r) /\ r \in On =>
       /\ Len(series'[r]) = Len(series[r])
       /\ \A i \in 1 .. Len(series[r]) : Later(series'[r][i], series[r][i], by)

\* What a poll makes of the trend.
LEMMA TrendIs ==
  ASSUME Typed, NEW by \in Nat, series' = Series(by), long' = Longs(by), bssid' = Bssids
  PROVE  /\ series' \in [Radios -> Seq(Readings)] /\ long' \in [Radios -> Seq(Readings)]
         /\ bssid' \in [Radios -> APs \cup {None}]
         /\ \A r \in Radios : Ageing(series'[r]) /\ Ageing(long'[r])
         /\ \A r \in Radios : AllOf(series'[r], bssid'[r])
         /\ \A r \in Radios : Reads(r) =>
              bssid'[r] = seat[r].ap /\ \A i \in 1 .. Len(series'[r]) : series'[r][i].age <= Window
         /\ \A r \in Radios : Goes(r, by)
<1>1. ASSUME NEW r \in Radios
      PROVE  /\ long'[r] \in Seq(Readings) /\ Ageing(long'[r])
             /\ series'[r] \in Seq(Readings) /\ Ageing(series'[r])
             /\ bssid'[r] \in APs \cup {None} /\ AllOf(series'[r], bssid'[r])
             /\ Reads(r) =>
                  bssid'[r] = seat[r].ap /\ \A i \in 1 .. Len(series'[r]) : series'[r][i].age <= Window
             /\ Goes(r, by)
  <2>1. /\ seat[r] \in Seats /\ series[r] \in Seq(Readings) /\ long[r] \in Seq(Readings)
        /\ Ageing(series[r]) /\ Ageing(long[r]) /\ AllOf(series[r], bssid[r])
        /\ bssid[r] \in APs \cup {None}
    BY DEF Typed, TypeOK, OfOneAP
  <2>2. Window \in Nat /\ Long \in Nat
    BY Numbers
  <2>3. long'[r] = Added(r, long[r], by, Long)
    BY DEF Longs
  <2>4. long'[r] \in Seq(Readings) /\ Ageing(long'[r])
    BY <2>1, <2>2, <2>3, AddedIs
  <2>5. PICK s : s = IF Reads(r) /\ bssid[r] # seat[r].ap THEN <<>> ELSE series[r]
    OBVIOUS
  <2>6. <<>> \in Seq(Readings) /\ Ageing(<<>>) /\ \A a : AllOf(<<>>, a)
    BY EmptySeq DEF Ageing, AllOf
  <2>7. s \in Seq(Readings) /\ Ageing(s)
    BY <2>1, <2>5, <2>6
  <2>8. series'[r] = Added(r, s, by, Window)
    BY <2>5 DEF Series
  <2>9. /\ series'[r] \in Seq(Readings) /\ Ageing(series'[r])
        /\ \A a : AllOf(s, a) /\ (Reads(r) => seat[r].ap = a) => AllOf(series'[r], a)
        /\ r \in In \ On => series'[r] = <<>>
        /\ Reads(r) => \A i \in 1 .. Len(series'[r]) :
             /\ series'[r][i].age <= Window
             /\ series'[r][i] = Reading(r) \/ \E j \in 1 .. Len(s) : Later(series'[r][i], s[j], by)
        /\ ~Reads(r) /\ r \in On =>
             /\ Len(series'[r]) = Len(s)
             /\ \A i \in 1 .. Len(s) : Later(series'[r][i], s[i], by)
    BY <2>1, <2>2, <2>7, <2>8, AddedIs
  <2>10. bssid'[r] = IF Reads(r) THEN seat[r].ap ELSE IF r \in In \ On THEN None ELSE bssid[r]
    BY DEF Bssids
  <2>11. bssid'[r] \in APs \cup {None}
    BY <2>1, <2>10 DEF Seats
  <2>12. Goes(r, by)
    <3>1. s = <<>> \/ s = series[r]
      BY <2>5
    <3>2. ~(\E j \in 1 .. Len(<<>>) : TRUE)
      BY EmptySeq
    <3>3. ~Reads(r) => s = series[r]
      BY <2>5
    <3> QED  BY <2>9, <3>1, <3>2, <3>3 DEF Goes
  <2>13. CASE Reads(r)
    <3>1. AllOf(s, seat[r].ap)
      BY <2>1, <2>5, <2>6, <2>13
    <3> QED  BY <2>4, <2>9, <2>10, <2>11, <2>13, <2>12, <3>1
  <2>14. CASE ~Reads(r) /\ r \in In \ On
    BY <2>4, <2>6, <2>9, <2>11, <2>14, <2>12
  <2>15. CASE ~Reads(r) /\ r \notin In \ On
    BY <2>1, <2>4, <2>5, <2>9, <2>10, <2>11, <2>15, <2>12
  <2> QED  BY <2>13, <2>14, <2>15
<1>2. series' = [r \in Radios |-> series'[r]] /\ long' = [r \in Radios |-> long'[r]] /\ bssid' = [r \in Radios |-> bssid'[r]]
  BY DEF Series, Longs, Bssids
<1> QED  BY <1>1, <1>2

\* Whom a poll asks to scan.
LEMMA PlanIs ==
  ASSUME NEW last, NEW serieses, NEW longs, NEW chosen \in Plan(last, serieses, longs)
  PROVE  /\ chosen \subseteq Radios
         /\ Scouts = {} => \A r \in On : seat[r].level = 1 /\ Due(r, last, FadeScan) => r \in chosen
<1>1. Scouts \subseteq Radios /\ On \subseteq Radios
  BY DEF Scouts, On, In
<1>2. CASE Scouts # {}
  BY <1>1, <1>2 DEF Plan
<1>3. CASE Scouts = {}
  <2>1. PICK needy : needy = {r \in Needy(serieses) : Due(r, last, FadeScan)}
    OBVIOUS
  <2>2. needy \subseteq On /\ \A r \in On : seat[r].level = 1 /\ Due(r, last, FadeScan) => r \in needy
    BY <2>1 DEF Needy
  <2>3. Plan(last, serieses, longs) =
          IF needy # {} \/ On = {} THEN {needy}
          ELSE {IF Due(r, last, IdleScan) THEN {r} ELSE {} : r \in Oldest(last)}
    BY <1>3, <2>1 DEF Plan
  <2>4. CASE needy # {} \/ On = {}
    BY <1>1, <2>2, <2>3, <2>4
  <2>5. CASE ~(needy # {} \/ On = {})
    <3>1. Oldest(last) \subseteq On
      BY DEF Oldest
    <3> QED  BY <1>1, <2>2, <2>3, <2>5, <3>1
  <2> QED  BY <2>4, <2>5
<1> QED  BY <1>2, <1>3

LEMMA LearnedIs ==
  ASSUME NEW tables, NEW longs
  PROVE  /\ Learned(tables, longs) \subseteq Pairs
         /\ \A p \in Learned(tables, longs) : <<p[2], p[1]>> \in Learned(tables, longs)
<1>1. ASSUME NEW S \in SUBSET Pairs
      PROVE  Both(S) \subseteq Pairs /\ \A p \in Both(S) : <<p[2], p[1]>> \in Both(S)
  BY DEF Both, Pairs
<1> QED  BY <1>1 DEF Learned

LEMMA TypedAtFirst == Init => Typed
<1> SUFFICES ASSUME Init PROVE Typed
  OBVIOUS
<1>1. <<>> \in Seq(Readings) /\ Len(<<>>) = 0 /\ DOMAIN <<>> = {}
  BY EmptySeq
<1>2. seat \in [Radios -> Seats]
  BY DEF Init
<1>3. quick \in BOOLEAN
  BY DEF Init
<1>4. series \in [Radios -> Seq(Readings)] /\ long \in [Radios -> Seq(Readings)]
  BY <1>1 DEF Init
<1>5. \A r \in Radios : series[r] = <<>> /\ long[r] = <<>>
  BY DEF Init
<1>6. \A r \in Radios : Ageing(series[r]) /\ Ageing(long[r]) /\ AllOf(series[r], bssid[r])
  BY <1>1, <1>5 DEF Ageing, AllOf
<1>7. /\ bssid \in [Radios -> APs \cup {None}]
      /\ table \in [Radios -> Ages] /\ lastScan \in [Radios -> Ages]
      /\ known \subseteq Pairs /\ (\A p \in known : <<p[2], p[1]>> \in known)
      /\ scanning \subseteq Radios
  BY DEF Init, Ages
<1>8. left \in 0 .. Events /\ calm \in [Radios -> 0 .. AgeCap]
  BY Numbers DEF Init
<1>9. TypeOK
  BY <1>1, <1>2, <1>3, <1>5, <1>7, <1>8 DEF TypeOK
<1> QED  BY <1>4, <1>6, <1>9 DEF Typed, OfOneAP

LEMMA PollTyped == ASSUME Typed, Poll PROVE Typed'
<1> DEFINE tables(by, refused) == [r \in Radios |-> IF ~seat[r].in THEN None
                                    ELSE IF r \in scanning \ refused THEN by - 1
                                    ELSE Older(table[r], by)]
           last(by) == [r \in Radios |-> IF seat[r].in THEN Older(lastScan[r], by) ELSE None]
<1>1. PICK by \in 1 .. PollEvery, refused \in SUBSET scanning, joining \in SUBSET Scouts :
       /\ left' = left - Cardinality(refused) - Cardinality(joining) /\ left' >= 0
       /\ series' = Series(by) /\ long' = Longs(by) /\ bssid' = Bssids
       /\ table' = tables(by, refused)
       /\ known' = known \cup Learned(tables(by, refused), long')
       /\ \E chosen \in Plan(last(by), series', long') :
            /\ scanning' = chosen \ joining
            /\ lastScan' = [r \in Radios |-> IF r \in scanning' THEN 0 ELSE last(by)[r]]
       /\ calm' = [r \in Radios |-> IF r \in refused \cup joining THEN 0 ELSE Older(calm[r], by)]
       /\ UNCHANGED seat
  BY PaceIs DEF Poll
<1>2. by \in Nat /\ by - 1 \in 0 .. AgeCap
  BY Numbers
<1>3. /\ \A age \in Ages : Older(age, by) \in Ages
      /\ \A age \in 0 .. AgeCap : Older(age, by) \in 0 .. AgeCap
  BY <1>2, OlderIs
<1>4. None \in Ages /\ 0 \in Ages /\ by - 1 \in Ages /\ 0 \in 0 .. AgeCap
  BY <1>2, Numbers DEF Ages
<1>5. /\ seat \in [Radios -> Seats] /\ table \in [Radios -> Ages] /\ lastScan \in [Radios -> Ages]
      /\ known \subseteq Pairs /\ (\A p \in known : <<p[2], p[1]>> \in known)
      /\ scanning \subseteq Radios /\ left \in 0 .. Events /\ calm \in [Radios -> 0 .. AgeCap]
  BY DEF Typed, TypeOK
<1>6. table' \in [Radios -> Ages]
  BY <1>1, <1>3, <1>4, <1>5
<1>7. PICK chosen \in Plan(last(by), series', long') :
        /\ scanning' = chosen \ joining
        /\ lastScan' = [r \in Radios |-> IF r \in scanning' THEN 0 ELSE last(by)[r]]
  BY <1>1
<1>8. scanning' \subseteq Radios
  <2> HIDE DEF last
  <2> QED  BY <1>7, PlanIs
<1>9. lastScan' \in [Radios -> Ages]
  BY <1>3, <1>4, <1>5, <1>7
<1>10. calm' \in [Radios -> 0 .. AgeCap]
  BY <1>1, <1>3, <1>4, <1>5
<1>11. known' \subseteq Pairs /\ \A p \in known' : <<p[2], p[1]>> \in known'
  <2> HIDE DEF tables
  <2> QED  BY <1>1, <1>5, LearnedIs
<1>12. left' \in 0 .. Events
  <2>1. IsFiniteSet(refused) /\ IsFiniteSet(joining)
    BY <1>5, SignalsAssumption, FS_Subset DEF Scouts, In
  <2>2. Cardinality(refused) \in Nat /\ Cardinality(joining) \in Nat
    BY <2>1, FS_CardinalityType
  <2> QED  BY <1>1, <1>5, <2>2, Numbers
<1>13. seat' \in [Radios -> Seats]
  BY <1>1, <1>5
<1>14. /\ series' \in [Radios -> Seq(Readings)] /\ long' \in [Radios -> Seq(Readings)]
       /\ bssid' \in [Radios -> APs \cup {None}]
       /\ \A r \in Radios : Ageing(series'[r]) /\ Ageing(long'[r])
       /\ \A r \in Radios : AllOf(series'[r], bssid'[r])
  BY <1>1, <1>2, TrendIs
<1>15. \A r \in Radios : /\ \A i \in DOMAIN series'[r] : series'[r][i] \in Readings
                         /\ \A i \in DOMAIN long'[r] : long'[r][i] \in Readings
  BY <1>14, LenProperties, ElementOfSeq
<1>16. quick' \in BOOLEAN
  BY DEF Poll, WantsFast, Mobile
<1>17. TypeOK'
  BY <1>16, <1>6, <1>8, <1>9, <1>10, <1>11, <1>12, <1>13, <1>14, <1>15 DEF TypeOK
<1> QED  BY <1>14, <1>17 DEF Typed, OfOneAP

LEMMA WorldTyped == ASSUME Typed, World PROVE Typed' /\ left' # left
<1>1. PICK r \in Radios : (Moves(r) \/ Unplug(r) \/ Plug(r)) /\ calm' = [calm EXCEPT ![r] = 0]
  BY DEF World
<1>2. /\ seat \in [Radios -> Seats] /\ table \in [Radios -> Ages] /\ lastScan \in [Radios -> Ages]
      /\ scanning \subseteq Radios /\ left \in 0 .. Events /\ calm \in [Radios -> 0 .. AgeCap]
  BY DEF Typed, TypeOK
<1>3. left > 0 /\ left' = left - 1 /\ series' = series /\ bssid' = bssid /\ long' = long
      /\ known' = known /\ lastScan' = lastScan /\ quick' = quick
  BY DEF World, trend
<1>4. left' \in 0 .. Events /\ left' # left
  BY <1>2, <1>3, Numbers
<1>5. calm' \in [Radios -> 0 .. AgeCap]
  BY <1>1, <1>2, Numbers
<1>6. None \in Ages
  BY DEF Ages
<1>7. \A b \in BOOLEAN : [Gone EXCEPT !.in = b] \in Seats
  BY Numbers DEF Gone, Seats
<1>8. seat' \in [Radios -> Seats] /\ table' \in [Radios -> Ages] /\ scanning' \subseteq Radios
  <2>1. CASE Moves(r)
    <3>1. \A a \in APs \cup {None}, l \in 0 .. Top : [in |-> TRUE, ap |-> a, level |-> l] \in Seats
      BY DEF Seats
    <3> QED  BY <1>2, <2>1, <3>1 DEF Moves
  <2>2. CASE Unplug(r)
    BY <1>2, <1>6, <1>7, <2>2 DEF Unplug
  <2>3. CASE Plug(r)
    BY <1>2, <1>7, <2>3 DEF Plug
  <2> QED  BY <1>1, <2>1, <2>2, <2>3
<1>9. TypeOK'
  BY <1>3, <1>4, <1>5, <1>8 DEF Typed, TypeOK
<1> QED  BY <1>3, <1>4, <1>9 DEF Typed, OfOneAP

LEMMA TypedStays == Spec => []Typed
<1>1. Typed /\ [Next]_vars => Typed'
  <2> SUFFICES ASSUME Typed, [Next]_vars PROVE Typed'
    OBVIOUS
  <2>1. CASE Poll
    BY <2>1, PollTyped
  <2>2. CASE World
    BY <2>2, WorldTyped
  <2>3. CASE UNCHANGED vars
    BY <2>3 DEF vars, trend, scans, Typed, TypeOK, OfOneAP
  <2> QED  BY <2>1, <2>2, <2>3 DEF Next
<1> QED  BY <1>1, TypedAtFirst, PTL DEF Spec

\* Whatever the radios do, the state of the planner is of its type: no age passes its cap,
\* offsets are learned both ways, and only radios that are there are asked to scan.
THEOREM TypeCorrect == Spec => []TypeOK
<1>1. Typed => TypeOK
  BY DEF Typed
<1> QED  BY <1>1, TypedStays, PTL

-----------------------------------------------------------------------------
(* The trend, and the radios that look around. *)

\* The trend that moves a radio early never mixes two access points, nor reaches back
\* further than its window: feed_context's change of series and Trend.add's expiry, for any
\* order of moves, replugging and missed readings.
THEOREM SlopeIsOfOneAP == Spec => SlopeOfOneAP
<1> DEFINE Slope == left' = left => \A r \in Radios : Reads(r) =>
              \A i \in DOMAIN series'[r] : series'[r][i].ap = seat[r].ap /\ series'[r][i].age <= Window
<1>1. Typed /\ [Next]_vars => [Slope]_vars
  <2> SUFFICES ASSUME Typed, [Next]_vars PROVE Slope \/ UNCHANGED vars
    OBVIOUS
  <2>1. CASE Poll
    <3>1. PICK by \in 1 .. PollEvery : series' = Series(by) /\ long' = Longs(by) /\ bssid' = Bssids
      BY <2>1, PaceIs DEF Poll
    <3>2. by \in Nat
      OBVIOUS
    <3>3. /\ series' \in [Radios -> Seq(Readings)]
          /\ \A r \in Radios : AllOf(series'[r], bssid'[r])
          /\ \A r \in Radios : Reads(r) =>
               bssid'[r] = seat[r].ap /\ \A i \in 1 .. Len(series'[r]) : series'[r][i].age <= Window
      BY <3>1, <3>2, TrendIs
    <3>4. \A r \in Radios : DOMAIN series'[r] = 1 .. Len(series'[r])
      BY <3>3, LenProperties
    <3> QED  BY <3>3, <3>4 DEF AllOf
  <2>2. CASE World
    BY <2>2, WorldTyped
  <2> QED  BY <2>1, <2>2 DEF Next
<1> QED  BY <1>1, TypedStays, PTL DEF Spec, SlopeOfOneAP

\* While nothing changes and nobody scouts, a weak radio was scanned less than its interval
\* ago when a poll has ended: the others that are weak do not hold it back.
Looked ==
  Scouts = {} /\ (\A r \in Radios : calm[r] > 0)
    => \A r \in On : seat[r].level = 1 => lastScan[r] # None /\ lastScan[r] < FadeScan

LEMMA PollLooks == ASSUME Typed, Poll PROVE Looked'
<1> DEFINE last(by) == [r \in Radios |-> IF seat[r].in THEN Older(lastScan[r], by) ELSE None]
<1> SUFFICES ASSUME Scouts' = {}, NEW r \in On', seat'[r].level = 1
             PROVE  lastScan'[r] # None /\ lastScan'[r] < FadeScan
  BY DEF Looked
<1>1. PICK by \in 1 .. PollEvery, joining \in SUBSET Scouts :
        /\ \E chosen \in Plan(last(by), series', long') :
             /\ scanning' = chosen \ joining
             /\ lastScan' = [q \in Radios |-> IF q \in scanning' THEN 0 ELSE last(by)[q]]
        /\ UNCHANGED seat
  BY PaceIs DEF Poll
<1>2. PICK chosen \in Plan(last(by), series', long') :
        /\ scanning' = chosen \ joining
        /\ lastScan' = [q \in Radios |-> IF q \in scanning' THEN 0 ELSE last(by)[q]]
  BY <1>1
<1>3. Scouts = {} /\ r \in On /\ seat[r].level = 1 /\ r \in Radios
  BY <1>1 DEF Scouts, On, In
<1>4. scanning' = chosen
  BY <1>1, <1>2, <1>3
<1>5. lastScan'[r] = IF r \in chosen THEN 0 ELSE last(by)[r]
  BY <1>2, <1>3, <1>4
<1>6. PICK before : before = last(by)
  OBVIOUS
<1>7. Due(r, before, FadeScan) => r \in chosen
  BY <1>2, <1>3, <1>6, PlanIs
<1>8. before[r] \in Ages
  <2>1. by \in Nat /\ lastScan[r] \in Ages /\ None \in Ages
    BY <1>3 DEF Typed, TypeOK, Ages
  <2>2. Older(lastScan[r], by) \in Ages
    BY <2>1, OlderIs
  <2> QED  BY <1>3, <1>6, <2>1, <2>2
<1>9. CASE r \in chosen
  BY <1>5, <1>9, Numbers
<1>10. CASE r \notin chosen
  <2>1. before[r] # None /\ ~(before[r] >= FadeScan)
    BY <1>7, <1>10 DEF Due
  <2>2. before[r] \in Nat
    BY <1>8, <2>1, Numbers DEF Ages
  <2>3. before[r] < FadeScan
    BY <2>1, <2>2, Numbers
  <2> QED  BY <1>5, <1>6, <1>10, <2>1, <2>3
<1> QED  BY <1>9, <1>10

\* No weak radio waits for longer than its interval: plan_scans takes every needy radio that
\* is due, so however many are weak, none is kept from looking for a way out.
THEOREM WeakLookAgain == Spec => []WeakLooks
<1>1. Init => Looked
  <2> SUFFICES ASSUME Init, NEW r \in On, calm[r] > 0 PROVE FALSE
    BY DEF Looked, On, In
  <2>1. r \in Radios /\ calm[r] = 0
    BY DEF Init, On, In
  <2> QED  BY <2>1
<1>2. Looked /\ Typed /\ [Next]_vars => Looked'
  <2> SUFFICES ASSUME Looked, Typed, [Next]_vars PROVE Looked'
    OBVIOUS
  <2>1. CASE Poll
    BY <2>1, PollLooks
  <2>2. CASE World
    <3>1. PICK r \in Radios : calm' = [calm EXCEPT ![r] = 0]
      BY <2>2 DEF World
    <3>2. calm'[r] = 0
      BY <3>1 DEF Typed, TypeOK
    <3>3. ~(calm'[r] > 0)
      BY <3>2
    <3> QED  BY <3>3 DEF Looked
  <2>3. CASE UNCHANGED vars
    BY <2>3 DEF vars, trend, scans, Looked, Scouts, On, In
  <2> QED  BY <2>1, <2>2, <2>3 DEF Next
<1>3. Looked /\ Typed => WeakLooks
  <2> SUFFICES ASSUME Looked, Typed, Scouts = {}, \A r \in Radios : calm[r] > FadeScan + PollEvery,
                      NEW r \in On, seat[r].level = 1
               PROVE  lastScan[r] # None /\ lastScan[r] < FadeScan + PollEvery
    BY DEF WeakLooks
  <2>1. calm \in [Radios -> 0 .. AgeCap] /\ r \in Radios /\ lastScan[r] \in Ages
    BY DEF Typed, TypeOK, On, In
  <2>2. \A q \in Radios : calm[q] > 0
    BY <2>1, Numbers
  <2>3. lastScan[r] # None /\ lastScan[r] < FadeScan
    BY <2>2 DEF Looked
  <2> QED  BY <2>1, <2>3, Numbers DEF Ages
<1> QED  BY <1>1, <1>2, <1>3, TypedStays, PTL DEF Spec

-----------------------------------------------------------------------------
(* Nobody is forgotten.  A weak radio is scanned before one whose turn it is, so two weak   *)
(* radios could keep a third from ever scanning: what prevents it is that polls are quick   *)
(* while some radio is weak, so that all the others have their turn within one interval.    *)

Slow(k) == PollEvery * k
Fast(k) == PollFast * k

\* The other radios scan in less than an interval, one by each poll: at the quick pace when
\* some are weak, else at the slow one.
FewRadios ==
  /\ Fast(Cardinality(Radios) - 1) < FadeScan
  /\ Slow(Cardinality(Radios) - 1) < IdleScan
  /\ Window + PollEvery <= IdleScan

\* From then on a radio's trend shows no change that came before.
Settle == Window + PollEvery

\* The readings taken since something happened to the radio are of the level it has now.
Kept ==
  \A r \in Radios : Reads(r) /\ calm[r] > 0 =>
    \A i \in 1 .. Len(series[r]) :
      /\ series[r][i].age <= Window
      /\ series[r][i].age < calm[r] => series[r][i].level = seat[r].level

Hurried == (\A r \in Radios : calm[r] > 0) => (Needy(series) # {} => quick)

\* The radios of S scanned one after the other, by the last polls.
Fresh(S, k) ==
  /\ Cardinality(S) = k + 1
  /\ \A q \in S : /\ lastScan[q] # None /\ lastScan[q] <= Slow(k)
                  /\ Needy(series) # {} => lastScan[q] <= Fast(k)

Served(x) == lastScan[x] # None /\ lastScan[x] < IdleScan

\* x is due, and since then every poll has asked another radio than before.
Awaited(x) ==
  \E S \in SUBSET (On \ {x}), k \in Nat :
    /\ Fresh(S, k)
    /\ \/ lastScan[x] # None /\ lastScan[x] < IdleScan + Slow(k + 1)
       \/ \E r \in Radios : calm[r] <= Settle + Slow(k + 1)

Patient ==
  Scouts = {} /\ (\A r \in Radios : calm[r] > 0)
    => \A x \in On : Served(x) \/ Awaited(x) \/ \E r \in Radios : calm[r] <= Settle

LEMMA Turns ==
  /\ \A k \in Nat : /\ Slow(k) \in Nat /\ Slow(k + 1) = Slow(k) + PollEvery
                    /\ Fast(k) \in Nat /\ Fast(k + 1) = Fast(k) + PollFast
  /\ \A j, k \in Nat : j <= k => Slow(j) <= Slow(k) /\ Fast(j) <= Fast(k)
  /\ Slow(0) = 0 /\ Fast(0) = 0 /\ Slow(1) = PollEvery
<1>1. \A p, k \in Nat : p * k \in Nat /\ p * (k + 1) = p * k + p
  OBVIOUS
<1>2. ASSUME NEW p \in Nat, NEW j \in Nat, NEW k \in Nat, j <= k PROVE p * j <= p * k
  <2>1. PICK d \in Nat : k = j + d
    <3>1. k - j \in Nat /\ k = j + (k - j)
      BY <1>2
    <3> QED  BY <3>1
  <2>2. p * k = p * j + p * d /\ p * d \in Nat /\ p * j \in Nat
    BY <2>1
  <2> QED  BY <2>2
<1>3. \A p \in Nat : p * 0 = 0 /\ p * 1 = p
  OBVIOUS
<1> QED  BY <1>1, <1>2, <1>3, Numbers DEF Slow, Fast

\* The radios that scan while x waits are fewer than there are.
LEMMA Others ==
  ASSUME NEW x \in Radios, NEW S \in SUBSET (Radios \ {x}), NEW k \in Nat, Cardinality(S) = k + 1
  PROVE  /\ IsFiniteSet(S) /\ Cardinality(Radios) \in Nat /\ k + 1 <= Cardinality(Radios) - 1
         /\ FewRadios => Slow(k + 1) < IdleScan /\ Fast(k + 1) < FadeScan
<1>1. PICK R : R = Radios \ {x}
  OBVIOUS
<1>2. IsFiniteSet(R) /\ Cardinality(R) = Cardinality(Radios) - 1
  BY <1>1, SignalsAssumption, FS_RemoveElement
<1>3. IsFiniteSet(S) /\ Cardinality(S) <= Cardinality(R)
  BY <1>1, <1>2, FS_Subset
<1>4. Cardinality(R) \in Nat /\ Cardinality(Radios) \in Nat
  BY <1>2, SignalsAssumption, FS_CardinalityType
<1>5. PICK m \in Nat : m = Cardinality(R)
  BY <1>4
<1>6. Slow(k + 1) <= Slow(m) /\ Fast(k + 1) <= Fast(m) /\ {Slow(k + 1), Slow(m), Fast(k + 1), Fast(m)} \subseteq Nat
  BY <1>3, <1>5, Turns
<1>7. FewRadios => Fast(m) < FadeScan /\ Slow(m) < IdleScan
  BY <1>2, <1>5 DEF FewRadios
<1> QED  BY <1>2, <1>3, <1>4, <1>6, <1>7, Numbers

\* When a radio that is due is passed over, another one that is due scans.
LEMMA PlanTakes ==
  ASSUME NEW last \in [Radios -> Ages], NEW serieses, NEW longs, NEW chosen \in Plan(last, serieses, longs),
         Scouts = {}, NEW x \in On
  PROVE  /\ chosen \subseteq On
         /\ x \notin chosen /\ Due(x, last, IdleScan) =>
              \E c \in chosen : \/ c \in Needy(serieses) /\ Due(c, last, FadeScan)
                                \/ Due(c, last, IdleScan)
<1>1. PICK needy : needy = {r \in Needy(serieses) : Due(r, last, FadeScan)}
  OBVIOUS
<1>2. Needy(serieses) \subseteq On /\ On \subseteq Radios
  BY DEF Needy, On, In
<1>3. Plan(last, serieses, longs) =
        IF needy # {} \/ On = {} THEN {needy}
        ELSE {IF Due(r, last, IdleScan) THEN {r} ELSE {} : r \in Oldest(last)}
  BY <1>1 DEF Plan
<1>4. CASE needy # {}
  BY <1>1, <1>2, <1>3, <1>4
<1>5. CASE needy = {}
  <2>1. PICK r \in Oldest(last) : chosen = IF Due(r, last, IdleScan) THEN {r} ELSE {}
    BY <1>3, <1>5
  <2>2. r \in On /\ (last[r] = None \/ (last[x] # None /\ last[x] <= last[r]))
    BY <2>1 DEF Oldest
  <2>3. last[x] \in Ages /\ last[r] \in Ages
    BY <1>2, <2>2
  <2>4. Due(x, last, IdleScan) => Due(r, last, IdleScan)
    BY <2>2, <2>3, Numbers DEF Due, Ages
  <2> QED  BY <2>1, <2>2, <2>4
<1> QED  BY <1>4, <1>5

LEMMA PollKeeps == ASSUME Typed, Kept, Poll PROVE Kept'
<1>1. PICK by \in 1 .. Pace, refused \in SUBSET scanning, joining \in SUBSET Scouts :
        /\ series' = Series(by) /\ long' = Longs(by) /\ bssid' = Bssids
        /\ calm' = [r \in Radios |-> IF r \in refused \cup joining THEN 0 ELSE Older(calm[r], by)]
        /\ UNCHANGED seat
  BY DEF Poll
<1>2. by \in Nat /\ by \in 1 .. PollEvery
  BY <1>1, PaceIs, Numbers
<1> SUFFICES ASSUME NEW r \in Radios, Reads(r)', calm'[r] > 0, NEW i \in 1 .. Len(series'[r])
             PROVE  /\ series'[r][i].age <= Window
                    /\ series'[r][i].age < calm'[r] => series'[r][i].level = seat'[r].level
  BY DEF Kept
<1>3. Reads(r) /\ seat'[r] = seat[r]
  BY <1>1 DEF Reads, On, In
<1>4. /\ series'[r] \in Seq(Readings) /\ Goes(r, by)
      /\ \A n \in 1 .. Len(series'[r]) : series'[r][n].age <= Window
  BY <1>1, <1>2, <1>3, TrendIs
<1>5. PICK age : age = series'[r][i].age
  OBVIOUS
<1>6. age <= Window /\ age \in Nat /\ age <= Long
  <2>1. series'[r][i] \in Readings
    BY <1>4, ElementOfSeq
  <2> QED  BY <1>4, <1>5, <2>1, Numbers DEF Readings
<1>7. PICK for \in 0 .. AgeCap : for = calm[r]
  BY DEF Typed, TypeOK
<1>8. calm'[r] <= for + by /\ calm'[r] \in Nat
  <2>1. Older(for, by) <= for + by /\ Older(for, by) \in 0 .. AgeCap
    BY <1>2, <1>7, OlderOrdered
  <2> QED  BY <1>1, <1>2, <1>7, <2>1, Numbers
<1>9. CASE series'[r][i] = Reading(r)
  BY <1>3, <1>4, <1>9 DEF Reading
<1>10. CASE \E j \in 1 .. Len(series[r]) : Later(series'[r][i], series[r][j], by)
  <2>1. PICK j \in 1 .. Len(series[r]) : Later(series'[r][i], series[r][j], by)
    BY <1>10
  <2>2. series'[r][i].level = series[r][j].level /\ age = series[r][j].age + by
    BY <1>5, <1>6, <2>1 DEF Later
  <2>3. PICK old : old = series[r][j].age
    OBVIOUS
  <2>4. old \in Nat
    <3>1. series[r] \in Seq(Readings)
      BY DEF Typed
    <3>2. series[r][j] \in Readings
      BY <3>1, ElementOfSeq
    <3> QED  BY <2>3, <3>2, Numbers DEF Readings
  <2>5. ASSUME age < calm'[r] PROVE series[r][j].level = seat[r].level
    <3>1. PICK now \in Nat : now = calm'[r] /\ now <= for + by
      BY <1>8
    <3>2. age < now /\ age = old + by
      BY <2>2, <2>3, <2>5, <3>1
    <3>3. old < for /\ for > 0
      BY <1>2, <2>4, <3>1, <3>2, Numbers
    <3> QED  BY <1>3, <1>7, <2>3, <3>3 DEF Kept
  <2> QED  BY <1>3, <1>5, <1>6, <2>2, <2>5
<1> QED  BY <1>3, <1>4, <1>9, <1>10 DEF Goes

LEMMA DecliningIs ==
  ASSUME NEW s \in Seq(Readings)
  PROVE  Declining(s) <=> Len(s) > 1 /\ s[1].level > s[Len(s)].level
<1>1. Len(s) > 1 => Head(s) = s[1]
  OBVIOUS
<1>2. Last(s) = s[Len(s)]
  BY DEF Last
<1> QED  BY <1>1, <1>2 DEF Declining

\* When the radios have been left alone for long enough, a poll finds no radio weak or falling
\* that was not so before.
LEMMA NeedyStay ==
  ASSUME Typed, Typed', Kept', UNCHANGED seat, NEW by \in Nat, \A r \in Radios : Goes(r, by),
         \A r \in Radios : calm'[r] > Window
  PROVE  Needy(series') \subseteq Needy(series)
<1> SUFFICES ASSUME NEW r \in On, seat[r].level = 1 \/ Declining(series'[r])
             PROVE  seat[r].level = 1 \/ Declining(series[r])
  BY DEF Needy
<1>1. r \in Radios /\ seat'[r] = seat[r] /\ (Reads(r)' <=> Reads(r))
  BY DEF On, In, Reads
<1> SUFFICES ASSUME Declining(series'[r]) PROVE Declining(series[r])
  OBVIOUS
<1>2. PICK s \in Seq(Readings) : s = series'[r]
  BY <1>1 DEF Typed
<1>3. PICK n \in Nat : n = Len(s)
  BY LenProperties
<1>4. n > 1 /\ s[1].level > s[n].level
  BY <1>2, <1>3, DecliningIs
<1>5. 1 \in 1 .. n /\ n \in 1 .. n
  BY <1>4
<1>6. CASE Reads(r)
  <2>1. PICK since \in Nat : since = calm'[r] /\ since > Window
    BY <1>1, Numbers DEF Typed, TypeOK
  <2>2. \A i \in 1 .. n : s[i].age <= Window /\ (s[i].age < since => s[i].level = seat[r].level)
    BY <1>1, <1>2, <1>3, <1>6, <2>1, Numbers DEF Kept
  <2>3. \A i \in 1 .. n : s[i].age \in Nat /\ s[i].level \in Nat
    <3>1. \A i \in 1 .. n : s[i] \in Readings
      BY <1>2, <1>3, ElementOfSeq
    <3>2. \A x \in Readings : x.age \in Nat /\ x.level \in Nat
      BY Numbers DEF Readings
    <3> QED  BY <3>1, <3>2
  <2>4. ASSUME NEW i \in 1 .. n PROVE s[i].level = seat[r].level
    <3>1. PICK age \in Nat : age = s[i].age
      BY <2>3
    <3>2. age < since
      BY <2>1, <2>2, <3>1, Numbers
    <3> QED  BY <2>2, <3>1, <3>2
  <2>5. s[1].level = s[n].level /\ s[1].level \in Nat
    BY <1>5, <2>3, <2>4
  <2> QED  BY <1>4, <2>5
<1>7. CASE ~Reads(r)
  <2>1. Len(series[r]) = n /\ \A i \in 1 .. n : s[i].level = series[r][i].level
    BY <1>1, <1>2, <1>3, <1>7 DEF Goes, Later
  <2>2. n > 1 /\ series[r][1].level > series[r][n].level
    BY <1>4, <1>5, <2>1
  <2>3. series[r] \in Seq(Readings)
    BY <1>1 DEF Typed
  <2> QED  BY <2>1, <2>2, <2>3, DecliningIs
<1> QED  BY <1>6, <1>7

\* One more radio has scanned.
LEMMA Grown ==
  ASSUME NEW S, IsFiniteSet(S), NEW k \in Nat, Cardinality(S) = k + 1, NEW c, c \notin S
  PROVE  Cardinality(S \cup {c}) = (k + 1) + 1
BY FS_AddElement

\* Ages after a poll, which comes by ticks after the one before.
LEMMA OlderBy ==
  ASSUME NEW by \in 1 .. PollEvery, NEW age \in Ages
  PROVE  /\ Older(age, by) \in Ages
         /\ age = None <=> Older(age, by) = None
         /\ age # None => Older(age, by) \in Nat /\ age \in Nat /\ Older(age, by) <= age + by
<1>1. by \in Nat
  BY Numbers
<1>2. CASE age = None
  BY <1>1, <1>2, OlderIs
<1>3. CASE age # None
  <2>1. PICK a \in 0 .. AgeCap : a = age
    BY <1>3 DEF Ages
  <2>2. a \in Nat /\ a <= a
    BY Numbers
  <2>3. Older(a, by) <= a + by /\ Older(a, by) \in 0 .. AgeCap
    BY <2>2, OlderOrdered
  <2>4. Older(a, by) \in Nat /\ Older(a, by) # None /\ Older(a, by) \in Ages
    BY <2>3, Numbers DEF Ages
  <2> QED  BY <1>3, <2>1, <2>2, <2>3, <2>4
<1> QED  BY <1>2, <1>3

LEMMA PollPatient == ASSUME FewRadios, Typed, Kept, Hurried, Patient, Poll PROVE Patient'
<1> DEFINE last(by) == [r \in Radios |-> IF seat[r].in THEN Older(lastScan[r], by) ELSE None]
<1>1. PICK by \in 1 .. Pace, refused \in SUBSET scanning, joining \in SUBSET Scouts :
        /\ series' = Series(by) /\ long' = Longs(by) /\ bssid' = Bssids
        /\ \E chosen \in Plan(last(by), series', long') :
             /\ scanning' = chosen \ joining
             /\ lastScan' = [q \in Radios |-> IF q \in scanning' THEN 0 ELSE last(by)[q]]
        /\ calm' = [r \in Radios |-> IF r \in refused \cup joining THEN 0 ELSE Older(calm[r], by)]
        /\ UNCHANGED seat
  BY DEF Poll
<1>2. by \in 1 .. PollEvery /\ by \in Nat /\ by <= PollEvery /\ (quick => by <= PollFast)
  BY PaceIs, Numbers
<1>3. Typed' /\ Kept'
  BY PollTyped, PollKeeps
<1> SUFFICES ASSUME Scouts' = {}, NEW x \in On', \A r \in Radios : ~(calm'[r] <= Settle)
             PROVE  Served(x)' \/ Awaited(x)'
  BY DEF Patient
<1>4. seat' = seat /\ Scouts = {} /\ On' = On /\ x \in On /\ On \subseteq Radios
  BY <1>1 DEF Scouts, On, In
\* What happened to the radios.
<1>5. ASSUME NEW r \in Radios
      PROVE  calm'[r] > Window /\ calm[r] > 0 /\ calm'[r] \in Nat /\ calm[r] \in Nat /\ calm'[r] <= calm[r] + by
  <2>1. PICK now \in Nat : now = calm'[r]
    BY <1>3, Numbers DEF Typed, TypeOK
  <2>2. PICK before \in 0 .. AgeCap : before = calm[r]
    BY DEF Typed, TypeOK
  <2>3. now > Window + PollEvery
    BY <2>1, Numbers DEF Settle
  <2>4. now = 0 \/ now = Older(before, by)
    BY <1>1, <2>1, <2>2
  <2>5. Older(before, by) <= before + by
    BY <1>2, <2>2, OlderOrdered
  <2>6. now <= before + by /\ before > 0 /\ now > Window /\ before \in Nat
    BY <1>2, <2>2, <2>3, <2>4, <2>5, Numbers
  <2> QED  BY <2>1, <2>2, <2>6
<1>6. PICK before : before = last(by)
  OBVIOUS
<1>7. before \in [Radios -> Ages]
  <2>1. \A r \in Radios : Older(lastScan[r], by) \in Ages
    BY <1>2, OlderBy DEF Typed, TypeOK
  <2>2. None \in Ages
    BY DEF Ages
  <2> QED  BY <1>6, <2>1, <2>2
<1>8. PICK chosen \in Plan(before, series', long') :
        lastScan' = [q \in Radios |-> IF q \in chosen THEN 0 ELSE before[q]]
  BY <1>1, <1>4, <1>6
<1>9. ASSUME NEW q \in On
      PROVE  /\ lastScan'[q] = IF q \in chosen THEN 0 ELSE before[q]
             /\ before[q] = None <=> lastScan[q] = None
             /\ lastScan[q] # None => before[q] \in Nat /\ lastScan[q] \in Nat /\ before[q] <= lastScan[q] + by
  <2>1. q \in Radios /\ seat[q].in /\ lastScan[q] \in Ages
    BY DEF On, In, Typed, TypeOK
  <2>2. before[q] = Older(lastScan[q], by)
    BY <1>6, <2>1
  <2> QED  BY <1>2, <1>8, <2>1, <2>2, OlderBy
\* Who is weak now was weak before, so that this poll came soon.
<1>10. Needy(series') \subseteq Needy(series) /\ Needy(series)' = Needy(series')
  <2>1. \A r \in Radios : Goes(r, by)
    BY <1>1, <1>2, TrendIs
  <2>2. \A r \in Radios : calm'[r] > Window
    BY <1>5
  <2> QED  BY <1>2, <1>3, <1>4, <2>1, <2>2, NeedyStay DEF Needy
<1>11. Needy(series') # {} => Needy(series) # {} /\ by <= PollFast
  BY <1>2, <1>5, <1>10 DEF Hurried
<1>12. CASE x \in chosen
  BY <1>4, <1>9, <1>12, Numbers DEF Served
<1>13. CASE x \notin chosen /\ ~Due(x, before, IdleScan)
  <2>1. before[x] # None /\ before[x] \in Nat /\ ~(before[x] >= IdleScan)
    BY <1>4, <1>9, <1>13 DEF Due
  <2> QED  BY <1>4, <1>9, <1>13, <2>1, Numbers DEF Served
<1>14. CASE x \notin chosen /\ Due(x, before, IdleScan)
  <2>1. /\ chosen \subseteq On
        /\ \E c \in chosen : \/ c \in Needy(series') /\ Due(c, before, FadeScan)
                             \/ Due(c, before, IdleScan)
    BY <1>4, <1>7, <1>8, <1>14, PlanTakes
  <2>2. PICK c \in chosen : \/ c \in Needy(series') /\ Due(c, before, FadeScan)
                           \/ Due(c, before, IdleScan)
    BY <2>1
  <2>3. c \in On \ {x} /\ lastScan'[c] = 0 /\ x \in Radios
    BY <1>4, <1>9, <1>14, <2>1, <2>2
  <2>4. Served(x) \/ Awaited(x) \/ \E r \in Radios : calm[r] <= Settle
    BY <1>4, <1>5 DEF Patient
  <2>5. lastScan'[x] = before[x]
    BY <1>4, <1>9, <1>14
  <2>6. CASE Served(x) \/ \E r \in Radios : calm[r] <= Settle
    <3>1. {c} \in SUBSET (On' \ {x}) /\ 0 \in Nat
      BY <1>4, <2>3
    <3>2. Cardinality({c}) = 0 + 1 /\ Slow(0) = 0 /\ Fast(0) = 0 /\ Slow(0 + 1) = PollEvery
      <4>1. Cardinality({c}) = 1
        BY FS_Singleton
      <4> QED  BY <4>1, Turns
    <3>3. Fresh({c}, 0)'
      <4>1. 0 # None /\ 0 <= Slow(0) /\ 0 <= Fast(0)
        BY <3>2, Numbers
      <4> QED  BY <2>3, <3>2, <4>1 DEF Fresh
    <3>4. CASE Served(x)
      <4>1. lastScan'[x] # None /\ lastScan'[x] < IdleScan + Slow(0 + 1)
        BY <1>2, <1>4, <1>9, <2>5, <3>2, <3>4, Numbers DEF Served
      <4> QED  BY <3>1, <3>3, <4>1 DEF Awaited
    <3>5. CASE \E r \in Radios : calm[r] <= Settle
      <4>1. PICK r \in Radios : calm[r] <= Settle
        BY <3>5
      <4>2. calm'[r] <= Settle + Slow(0 + 1)
        BY <1>2, <1>5, <3>2, <4>1, Numbers DEF Settle
      <4> QED  BY <3>1, <3>3, <4>2 DEF Awaited
    <3> QED  BY <2>6, <3>4, <3>5
  <2>7. CASE Awaited(x)
    <3>1. PICK S \in SUBSET (On \ {x}), k \in Nat :
            /\ Fresh(S, k)
            /\ \/ lastScan[x] # None /\ lastScan[x] < IdleScan + Slow(k + 1)
               \/ \E r \in Radios : calm[r] <= Settle + Slow(k + 1)
      BY <2>7 DEF Awaited
    <3>2. IsFiniteSet(S) /\ Cardinality(S) = k + 1 /\ Slow(k + 1) < IdleScan /\ Fast(k + 1) < FadeScan
      BY <1>4, <2>3, <3>1, Others DEF Fresh
    <3>3. /\ Slow(k) \in Nat /\ Slow(k + 1) = Slow(k) + PollEvery
          /\ Slow(k + 1) \in Nat /\ Slow((k + 1) + 1) = Slow(k + 1) + PollEvery
          /\ Fast(k) \in Nat /\ Fast(k + 1) = Fast(k) + PollFast
          /\ Fast(k + 1) \in Nat /\ k + 1 \in Nat
      <4>1. PICK n \in Nat : n = k + 1
        OBVIOUS
      <4> QED  BY <4>1, Turns
    \* Those that have scanned are not due again.
    <3>4. ASSUME NEW q \in S
          PROVE  /\ q \in On /\ before[q] # None /\ before[q] \in Nat /\ before[q] <= Slow(k + 1)
                 /\ Needy(series') # {} => before[q] <= Fast(k + 1)
      <4>1. /\ q \in On /\ lastScan[q] # None /\ lastScan[q] <= Slow(k)
            /\ Needy(series) # {} => lastScan[q] <= Fast(k)
        BY <3>1 DEF Fresh
      <4>2. before[q] # None /\ before[q] \in Nat /\ lastScan[q] \in Nat /\ before[q] <= lastScan[q] + by
        BY <1>9, <4>1
      <4>3. before[q] <= Slow(k + 1)
        BY <1>2, <3>3, <4>1, <4>2, Numbers
      <4>4. ASSUME Needy(series') # {} PROVE before[q] <= Fast(k + 1)
        BY <1>2, <1>11, <3>3, <4>1, <4>2, <4>4, Numbers
      <4> QED  BY <4>1, <4>2, <4>3, <4>4
    <3>5. c \notin S
      <4> SUFFICES ASSUME c \in S PROVE FALSE
        OBVIOUS
      <4>1. before[c] # None /\ before[c] \in Nat /\ before[c] < IdleScan
        BY <3>2, <3>3, <3>4, Numbers
      <4>2. c \in Needy(series') => before[c] < FadeScan
        BY <3>2, <3>3, <3>4, Numbers
      <4> QED  BY <2>2, <4>1, <4>2, Numbers DEF Due
    <3>6. S \cup {c} \in SUBSET (On' \ {x}) /\ Cardinality(S \cup {c}) = (k + 1) + 1
      BY <1>4, <2>3, <3>1, <3>2, <3>5, Grown
    <3>7. ASSUME NEW q \in S \cup {c}
          PROVE  /\ lastScan'[q] # None /\ lastScan'[q] <= Slow(k + 1)
                 /\ Needy(series') # {} => lastScan'[q] <= Fast(k + 1)
      <4>1. CASE lastScan'[q] = 0
        BY <3>3, <4>1, Turns, Numbers
      <4>2. CASE lastScan'[q] # 0
        <5>1. q \in S /\ q \in On /\ q \notin chosen
          BY <1>9, <2>3, <3>4, <4>2
        <5> QED  BY <1>9, <3>4, <5>1
      <4> QED  BY <4>1, <4>2
    <3>8. Fresh(S \cup {c}, k + 1)'
      BY <1>10, <3>6, <3>7 DEF Fresh
    <3>9. CASE lastScan[x] # None /\ lastScan[x] < IdleScan + Slow(k + 1)
      <4>1. lastScan'[x] # None /\ lastScan'[x] < IdleScan + Slow((k + 1) + 1)
        BY <1>2, <1>4, <1>9, <2>5, <3>3, <3>9, Numbers
      <4> QED  BY <3>3, <3>6, <3>8, <4>1 DEF Awaited
    <3>10. CASE \E r \in Radios : calm[r] <= Settle + Slow(k + 1)
      <4>1. PICK r \in Radios : calm[r] <= Settle + Slow(k + 1)
        BY <3>10
      <4>2. calm'[r] <= Settle + Slow((k + 1) + 1)
        BY <1>2, <1>5, <3>3, <4>1, Numbers DEF Settle
      <4> QED  BY <3>3, <3>6, <3>8, <4>2 DEF Awaited
    <3> QED  BY <3>1, <3>9, <3>10
  <2> QED  BY <2>4, <2>6, <2>7
<1> QED  BY <1>12, <1>13, <1>14

\* No radio stops looking around, if there are few enough of them for the pace of the polls:
\* plan_scans serves the weak radios first and else the one that scanned longest ago, and
\* wants_fast asks for quick polls while some radio is weak, so that a radio that is due
\* waits for the others once each, however the weak ones alternate.
THEOREM NobodyForgotten == ASSUME FewRadios PROVE Spec => []NoneForgotten
<1>1. Init => Kept /\ Hurried /\ Patient
  <2> SUFFICES ASSUME Init PROVE Kept /\ Hurried /\ Patient
    OBVIOUS
  <2>1. \A r \in Radios : calm[r] = 0 /\ ~(calm[r] > 0)
    BY DEF Init
  <2>2. On \subseteq Radios
    BY DEF On, In
  <2>3. Needy(series) = {} \/ \E r \in Radios : TRUE
    BY <2>2 DEF Needy
  <2>4. Patient
    BY <2>1, <2>2 DEF Patient
  <2>5. Hurried
    BY <2>1, <2>3 DEF Hurried
  <2> QED  BY <2>1, <2>4, <2>5 DEF Kept
<1>2. Kept /\ Hurried /\ Patient /\ Typed /\ [Next]_vars => Kept' /\ Hurried' /\ Patient'
  <2> SUFFICES ASSUME Kept, Hurried, Patient, Typed, [Next]_vars PROVE Kept' /\ Hurried' /\ Patient'
    OBVIOUS
  <2>1. CASE Poll
    <3>1. quick' = WantsFast(series', long') /\ seat' = seat
      BY <2>1 DEF Poll
    <3>2. Needy(series)' = Needy(series')
      BY <3>1 DEF Needy, On, In
    <3>3. Hurried'
      BY <3>1, <3>2 DEF Hurried, WantsFast
    <3> QED  BY <2>1, <3>3, PollKeeps, PollPatient
  <2>2. CASE World
    <3>1. PICK r \in Radios : (Moves(r) \/ Unplug(r) \/ Plug(r)) /\ calm' = [calm EXCEPT ![r] = 0]
      BY <2>2 DEF World
    <3>2. calm'[r] = 0 /\ ~(calm'[r] > 0) /\ \A q \in Radios \ {r} : calm'[q] = calm[q] /\ seat'[q] = seat[q]
      BY <3>1 DEF Typed, TypeOK, Moves, Unplug, Plug
    <3>3. series' = series
      BY <2>2 DEF World, trend
    <3>4. \A q \in Radios \ {r} : Reads(q)' <=> Reads(q)
      BY <3>2 DEF Reads, On, In
    <3>5. Kept'
      BY <3>2, <3>3, <3>4 DEF Kept
    <3> QED  BY <3>2, <3>5 DEF Hurried, Patient
  <2>3. CASE UNCHANGED vars
    <3>1. UNCHANGED <<seat, series, quick, calm, lastScan>>
      BY <2>3 DEF vars, trend, scans
    <3>2. Scouts' = Scouts /\ On' = On /\ Needy(series)' = Needy(series) /\ \A r : Reads(r)' <=> Reads(r)
      BY <3>1 DEF Scouts, Needy, Reads, On, In
    <3>3. Kept' /\ Hurried'
      BY <3>1, <3>2 DEF Kept, Hurried
    <3>4. \A S, k : Fresh(S, k)' <=> Fresh(S, k)
      BY <3>1, <3>2 DEF Fresh
    <3>5. \A x : (Served(x)' <=> Served(x)) /\ (Awaited(x)' <=> Awaited(x))
      BY <3>1, <3>2, <3>4 DEF Served, Awaited
    <3> QED  BY <3>1, <3>2, <3>3, <3>5 DEF Patient
  <2> QED  BY <2>1, <2>2, <2>3 DEF Next
<1>3. Patient /\ Typed => NoneForgotten
  <2> SUFFICES ASSUME Patient, Typed, Scouts = {}, \A r \in Radios : calm[r] = AgeCap, NEW x \in On
               PROVE  lastScan[x] # None /\ lastScan[x] <= LookBound
    BY DEF NoneForgotten
  <2>1. x \in Radios /\ lastScan[x] \in Ages
    BY DEF Typed, TypeOK, On, In
  <2>2. PICK n \in Nat : n = Cardinality(Radios)
    BY SignalsAssumption, FS_CardinalityType
  <2>3. /\ Slow(n) \in Nat /\ AgeCap = IdleScan + Slow(n) + PollEvery /\ LookBound = IdleScan + Slow(n)
    <3>1. PollEvery * n + PollEvery = PollEvery * (n + 1)
      BY Numbers
    <3>2. Slow(n) \in Nat /\ PollEvery * n = Slow(n)
      BY Turns DEF Slow
    <3>3. AgeCap = IdleScan + PollEvery * (n + 1) /\ LookBound = IdleScan + PollEvery * n
      BY <2>2 DEF AgeCap, LookBound
    <3> QED  BY <3>1, <3>2, <3>3, Numbers
  <2>4. Settle \in Nat /\ Settle <= IdleScan
    BY Numbers DEF Settle, FewRadios
  <2>5. \A r \in Radios : calm[r] > 0 /\ ~(calm[r] <= Settle) /\ ~(calm[r] <= Settle + Slow(n))
    BY <2>3, <2>4, Numbers
  <2>6. Served(x) \/ Awaited(x)
    BY <2>5 DEF Patient
  <2>7. CASE Served(x)
    BY <2>1, <2>3, <2>7, Numbers DEF Served, Ages
  <2>8. CASE Awaited(x)
    <3>1. PICK S \in SUBSET (On \ {x}), k \in Nat :
            /\ Fresh(S, k)
            /\ \/ lastScan[x] # None /\ lastScan[x] < IdleScan + Slow(k + 1)
               \/ \E r \in Radios : calm[r] <= Settle + Slow(k + 1)
      BY <2>8 DEF Awaited
    <3>2. On \subseteq Radios
      BY DEF On, In
    <3>3. k + 1 \in Nat /\ k + 1 <= n - 1 /\ k + 1 <= n
      BY <2>1, <2>2, <3>1, <3>2, Others DEF Fresh
    <3>4. Slow(k + 1) \in Nat /\ Slow(k + 1) <= Slow(n)
      BY <3>3, Turns
    <3>5. ASSUME NEW r \in Radios PROVE ~(calm[r] <= Settle + Slow(k + 1))
      BY <2>3, <2>4, <3>4, Numbers
    <3>6. lastScan[x] # None /\ lastScan[x] < IdleScan + Slow(k + 1)
      BY <3>1, <3>5
    <3> QED  BY <2>1, <2>3, <3>4, <3>6, Numbers DEF Ages
  <2> QED  BY <2>6, <2>7, <2>8
<1> QED  BY <1>1, <1>2, <1>3, TypedStays, PTL DEF Spec

-----------------------------------------------------------------------------
(* The age of the reading by which a radio judges an access point. *)

\* What one more radio makes of the best reading so far.
Judged(r, tables, o, before) ==
  IF o = r \/ tables[o] = None \/ <<r, o>> \notin known THEN before
  ELSE IF before = None \/ tables[o] < before - 1 THEN tables[o] ELSE before

\* The best reading after each of the first n radios.
Judges(r, tables, order, n, f) ==
  f = [i \in 0 .. n |-> IF i = 0 THEN tables[r] ELSE Judged(r, tables, order[i], f[i - 1])]

LEMMA JudgedIs ==
  ASSUME NEW r, NEW o \in Radios, NEW tables \in [Radios -> Ages], NEW before \in Ages
  PROVE  /\ Judged(r, tables, o, before) \in Ages
         /\ before # None => Judged(r, tables, o, before) # None /\ Judged(r, tables, o, before) <= before
         /\ o # r /\ <<r, o>> \in known /\ tables[o] # None =>
              Judged(r, tables, o, before) # None /\ Judged(r, tables, o, before) <= tables[o] + 1
<1>1. tables[o] \in Ages /\ (tables[o] # None => tables[o] \in Nat) /\ (before # None => before \in Nat)
  BY Numbers DEF Ages
<1> QED  BY <1>1, Numbers DEF Judged

\* The recursion is well founded: however many radios there are, the readings exist.
LEMMA JudgesExist ==
  ASSUME NEW r \in Radios, NEW tables \in [Radios -> Ages], NEW n \in Nat, NEW order \in [1 .. n -> Radios]
  PROVE  \E f \in [0 .. n -> Ages] : Judges(r, tables, order, n, f)
<1> DEFINE Has(k) == \E f \in [0 .. k -> Ages] : Judges(r, tables, order, k, f)
           lacks == {k \in 0 .. n : ~Has(k)}
<1>1. Has(0)
  <2>1. PICK f : f = [i \in 0 .. 0 |-> tables[r]]
    OBVIOUS
  <2>2. f \in [0 .. 0 -> Ages]
    BY <2>1
  <2>3. Judges(r, tables, order, 0, f)
    BY <2>1 DEF Judges
  <2> QED  BY <2>2, <2>3
<1>2. ASSUME NEW k \in 1 .. n, Has(k - 1) PROVE Has(k)
  <2>1. PICK f \in [0 .. k - 1 -> Ages] : Judges(r, tables, order, k - 1, f)
    BY <1>2
  <2>2. k - 1 \in 0 .. k - 1 /\ f[k - 1] \in Ages /\ order[k] \in Radios
    BY <2>1
  <2>3. PICK last \in Ages : last = Judged(r, tables, order[k], f[k - 1])
    BY <2>2, JudgedIs
  <2>4. PICK g : g = [i \in 0 .. k |-> IF i = k THEN last ELSE f[i]]
    OBVIOUS
  <2>5. g \in [0 .. k -> Ages]
    BY <2>4
  <2>6. \A i \in 0 .. k - 1 :
          f[i] = IF i = 0 THEN tables[r] ELSE Judged(r, tables, order[i], f[i - 1])
    BY <2>1 DEF Judges
  <2>7. \A i \in 0 .. k - 1 : g[i] = f[i]
    BY <2>4
  <2>8. ASSUME NEW i \in 0 .. k
        PROVE  g[i] = IF i = 0 THEN tables[r] ELSE Judged(r, tables, order[i], g[i - 1])
    <3>1. CASE i = k
      <4>1. g[i] = last /\ i # 0 /\ g[i - 1] = f[k - 1]
        BY <2>2, <2>4, <2>7, <3>1
      <4> QED  BY <2>3, <3>1, <4>1
    <3>2. CASE i # k
      <4>1. i \in 0 .. k - 1 /\ (i # 0 => i - 1 \in 0 .. k - 1)
        BY <3>2
      <4> QED  BY <2>6, <2>7, <4>1
    <3> QED  BY <3>1, <3>2
  <2>9. Judges(r, tables, order, k, g)
    BY <2>5, <2>8 DEF Judges
  <2> QED  BY <2>5, <2>9
<1>3. lacks = {}
  <2> SUFFICES ASSUME lacks # {} PROVE FALSE
    OBVIOUS
  <2>1. lacks \in SUBSET Nat
    OBVIOUS
  <2> HIDE DEF lacks
  <2>2. PICK k \in lacks : \A m \in lacks : k <= m
    BY <2>1, Least
  <2> USE DEF lacks
  <2> HIDE DEF Has
  <2>3. k \in 0 .. n /\ ~Has(k) /\ k # 0
    BY <1>1, <2>2
  <2>4. k \in 1 .. n /\ k - 1 \in 0 .. n /\ k - 1 \notin lacks
    BY <2>2, <2>3
  <2> QED  BY <1>2, <2>3, <2>4
<1> HIDE DEF Has
<1>4. Has(n)
  BY <1>3
<1> QED  BY <1>4 DEF Has

\* The one that candidates ends up with is the last of them.
LEMMA JudgesBest ==
  ASSUME NEW r \in Radios, NEW tables \in [Radios -> Ages], NEW n \in Nat, NEW order \in [1 .. n -> Radios]
  PROVE  \E f \in [0 .. n -> Ages] : Judges(r, tables, order, n, f) /\ Best(r, tables, order) = f[n]
<1> DEFINE chosen == CHOOSE f : Judges(r, tables, order, n, f)
<1>1. Best(r, tables, order) = chosen[n]
  <2>1. Len(order) = n
    OBVIOUS
  <2> QED  BY <2>1 DEF Best, Judges, Judged
<1>2. Judges(r, tables, order, n, chosen)
  BY JudgesExist
<1> HIDE DEF chosen
<1>3. PICK f : f = chosen
  OBVIOUS
<1>4. Judges(r, tables, order, n, f)
  BY <1>2, <1>3
<1>5. f = [i \in 0 .. n |-> IF i = 0 THEN tables[r] ELSE Judged(r, tables, order[i], f[i - 1])]
  BY <1>4 DEF Judges
<1>6. \A i \in 0 .. n : f[i] \in Ages
  <2> DEFINE bad == {i \in 0 .. n : f[i] \notin Ages}
  <2> SUFFICES ASSUME bad # {} PROVE FALSE
    OBVIOUS
  <2>1. bad \in SUBSET Nat
    OBVIOUS
  <2> HIDE DEF bad
  <2>2. PICK k \in bad : \A m \in bad : k <= m
    BY <2>1, Least
  <2> USE DEF bad
  <2>3. k \in 0 .. n /\ f[k] \notin Ages
    BY <2>2
  <2>4. f[0] = tables[r]
    BY <1>5
  <2>5. k # 0
    BY <2>3, <2>4
  <2>6. k \in 1 .. n /\ k - 1 \in 0 .. n /\ k - 1 \notin bad
    BY <2>2, <2>3, <2>5
  <2>7. f[k - 1] \in Ages
    BY <2>6
  <2>8. f[k] = Judged(r, tables, order[k], f[k - 1]) /\ order[k] \in Radios
    BY <1>5, <2>3, <2>6
  <2>9. f[k] \in Ages
    BY <2>7, <2>8, JudgedIs
  <2> QED  BY <2>3, <2>9
<1>7. f \in [0 .. n -> Ages]
  BY <1>5, <1>6
<1> QED  BY <1>1, <1>3, <1>4, <1>7

\* No further radio makes the reading older.
LEMMA JudgesFall ==
  ASSUME NEW r \in Radios, NEW tables \in [Radios -> Ages], NEW n \in Nat, NEW order \in [1 .. n -> Radios],
         NEW f \in [0 .. n -> Ages], Judges(r, tables, order, n, f),
         NEW j \in 0 .. n, NEW bound \in Nat, f[j] # None, f[j] <= bound
  PROVE  f[n] \in Nat /\ f[n] <= bound
<1> DEFINE bad == {i \in j .. n : ~(f[i] # None /\ f[i] <= bound)}
<1>1. bad = {}
  <2> SUFFICES ASSUME bad # {} PROVE FALSE
    OBVIOUS
  <2>1. bad \in SUBSET Nat
    OBVIOUS
  <2> HIDE DEF bad
  <2>2. PICK k \in bad : \A m \in bad : k <= m
    BY <2>1, Least
  <2> USE DEF bad
  <2>3. k \in j .. n /\ ~(f[k] # None /\ f[k] <= bound)
    BY <2>2
  <2>4. k # j
    BY <2>3
  <2>5. k \in 1 .. n /\ k - 1 \in j .. n /\ k - 1 \in 0 .. n
    BY <2>3, <2>4
  <2>6. k - 1 \notin bad
    BY <2>2, <2>3, <2>5
  <2>7. PICK before \in Ages : before = f[k - 1]
    BY <2>5
  <2>8. before # None /\ before <= bound
    BY <2>5, <2>6, <2>7
  <2>9. f[k] = Judged(r, tables, order[k], before) /\ order[k] \in Radios
    BY <2>3, <2>5, <2>7 DEF Judges
  <2>10. f[k] # None /\ f[k] <= before /\ f[k] \in Ages
    BY <2>8, <2>9, JudgedIs
  <2>11. f[k] \in Nat /\ before \in Nat
    BY <2>8, <2>10, Numbers DEF Ages
  <2> QED  BY <2>3, <2>8, <2>10, <2>11
<1>2. n \in j .. n /\ n \in 0 .. n
  OBVIOUS
<1>3. f[n] # None /\ f[n] <= bound
  BY <1>1, <1>2
<1> QED  BY <1>2, <1>3, Numbers DEF Ages

\* A radio judges by a reading at most a second older than that of any radio it was compared with,
\* nor than its own.
LEMMA BestIs ==
  ASSUME NEW r \in Radios, NEW tables \in [Radios -> Ages], NEW n \in Nat, NEW order \in [1 .. n -> Radios],
         NEW j \in 1 .. n, tables[order[j]] # None, order[j] = r \/ <<r, order[j]>> \in known
  PROVE  Best(r, tables, order) \in Nat /\ Best(r, tables, order) <= tables[order[j]] + 1
<1>1. PICK f \in [0 .. n -> Ages] : Judges(r, tables, order, n, f) /\ Best(r, tables, order) = f[n]
  BY JudgesBest
<1>2. PICK s \in Radios : s = order[j]
  OBVIOUS
<1>3. tables[s] \in Nat /\ tables[s] + 1 \in Nat
  BY <1>2, Numbers DEF Ages
<1>4. PICK bound \in Nat : bound = tables[s] + 1
  BY <1>3
<1>5. CASE s = r
  <2>1. f[0] = tables[r] /\ 0 \in 0 .. n
    BY <1>1 DEF Judges
  <2>2. f[0] # None /\ f[0] <= bound
    BY <1>2, <1>3, <1>4, <1>5, <2>1
  <2>3. f[n] \in Nat /\ f[n] <= bound
    BY <1>1, <2>1, <2>2, JudgesFall
  <2> QED  BY <1>1, <1>2, <1>4, <2>3
<1>6. CASE s # r
  <2>1. j - 1 \in 0 .. n /\ j \in 0 .. n /\ j # 0
    OBVIOUS
  <2>2. PICK before \in Ages : before = f[j - 1]
    BY <2>1
  <2>3. f[j] = Judged(r, tables, s, before)
    BY <1>1, <1>2, <2>1, <2>2 DEF Judges
  <2>4. f[j] # None /\ f[j] <= bound
    BY <1>2, <1>4, <1>6, <2>3, JudgedIs
  <2>5. f[n] \in Nat /\ f[n] <= bound
    BY <1>1, <2>1, <2>4, JudgesFall
  <2> QED  BY <1>1, <1>2, <1>4, <2>5
<1> QED  BY <1>5, <1>6

\* Every radio has its place in every order.
LEMMA OrderIs ==
  ASSUME NEW order \in Orders, NEW s \in Radios
  PROVE  \E n \in Nat : order \in [1 .. n -> Radios] /\ \E j \in 1 .. n : order[j] = s
<1>1. PICK n \in Nat : n = Cardinality(Radios)
  BY SignalsAssumption, FS_CardinalityType
<1>2. order \in [1 .. n -> Radios] /\ \A i, j \in 1 .. n : i # j => order[i] # order[j]
  BY <1>1 DEF Orders, SetToSeqs
<1>3. order \in Injection(1 .. n, Radios)
  BY <1>2 DEF Injection, IsInjective
<1>4. Cardinality(1 .. n) = n
  BY FS_Interval
<1>5. order \in Surjection(1 .. n, Radios)
  BY <1>1, <1>3, <1>4, SignalsAssumption, FS_Injection
<1> QED  BY <1>2, <1>5 DEF Surjection

-----------------------------------------------------------------------------
(* The scouts. *)

\* Its scan table is fresh, or a scan for it is under way.
Soon(s) ==
  /\ table[s] # None
  /\ IF s \in scanning THEN table[s] <= ScoutStill + PollEvery ELSE table[s] <= lastScan[s]

\* It has not been left alone for long enough to have scanned.
Asked(s) == IF s \in scanning THEN calm[s] <= ScoutStill + PollEvery ELSE calm[s] <= lastScan[s]

Scouted ==
  \A s \in Scouts : calm[s] > 0 =>
    /\ lastScan[s] # None /\ lastScan[s] < ScoutStill
    /\ s \in scanning => lastScan[s] = 0
    /\ Soon(s) \/ Asked(s)

\* A scout that a poll leaves out was asked a short while ago.
LEMMA ScoutsDue ==
  ASSUME NEW last, NEW serieses, NEW longs, NEW chosen \in Plan(last, serieses, longs),
         NEW s \in Scouts, s \notin chosen, last[s] \in Ages
  PROVE  last[s] # None /\ last[s] < ScoutStill
<1>1. PICK interval \in {ScoutMobile, ScoutStill} :
        chosen = {r \in Scouts : Due(r, last, interval)}
  BY DEF Plan
<1>2. last[s] # None /\ ~(last[s] >= interval)
  BY <1>1 DEF Due
<1>3. last[s] \in Nat /\ interval \in Nat /\ interval <= ScoutStill
  BY <1>2, Numbers, SignalsAssumption DEF Ages
<1> QED  BY <1>2, <1>3, Numbers

LEMMA PollScouts == ASSUME Typed, Scouted, Poll PROVE Scouted'
<1> DEFINE last(by) == [r \in Radios |-> IF seat[r].in THEN Older(lastScan[r], by) ELSE None]
<1>0. PICK by \in 1 .. Pace, refused \in SUBSET scanning, joining \in SUBSET Scouts :
        /\ table' = [r \in Radios |-> IF ~seat[r].in THEN None
                                      ELSE IF r \in scanning \ refused THEN by - 1
                                      ELSE Older(table[r], by)]
        /\ \E chosen \in Plan(last(by), series', long') :
             /\ scanning' = chosen \ joining
             /\ lastScan' = [q \in Radios |-> IF q \in scanning' THEN 0 ELSE last(by)[q]]
        /\ calm' = [r \in Radios |-> IF r \in refused \cup joining THEN 0 ELSE Older(calm[r], by)]
        /\ UNCHANGED seat
  BY DEF Poll
<1>1. by \in 1 .. PollEvery
  BY PaceIs
<1>2. PICK chosen \in Plan(last(by), series', long') :
        /\ scanning' = chosen \ joining
        /\ lastScan' = [q \in Radios |-> IF q \in scanning' THEN 0 ELSE last(by)[q]]
  BY <1>0
<1> SUFFICES ASSUME NEW s \in Scouts', calm'[s] > 0
             PROVE  /\ lastScan'[s] # None /\ lastScan'[s] < ScoutStill
                    /\ s \in scanning' => lastScan'[s] = 0
                    /\ Soon(s)' \/ Asked(s)'
  BY DEF Scouted
<1>3. s \in Scouts /\ s \in Radios /\ seat[s].in
  BY <1>0 DEF Scouts, On, In
<1>4. s \notin refused /\ s \notin joining /\ calm'[s] = Older(calm[s], by)
  BY <1>0, <1>3
<1>5. table[s] \in Ages /\ lastScan[s] \in Ages /\ calm[s] \in 0 .. AgeCap /\ by \in Nat /\ by >= 1 /\ by <= PollEvery
  BY <1>1, <1>3, Numbers DEF Typed, TypeOK
<1>6. table'[s] = IF s \in scanning THEN by - 1 ELSE Older(table[s], by)
  BY <1>0, <1>3, <1>4
<1>7. PICK before : before = last(by)
  OBVIOUS
<1>8. before[s] = Older(lastScan[s], by) /\ before[s] \in Ages
  BY <1>3, <1>5, <1>7, OlderIs
<1>9. s \in scanning' <=> s \in chosen
  BY <1>2, <1>4
<1>10. lastScan'[s] = IF s \in chosen THEN 0 ELSE before[s]
  BY <1>2, <1>3, <1>7, <1>9
<1>11. s \notin chosen => before[s] # None /\ before[s] < ScoutStill
  BY <1>2, <1>3, <1>7, <1>8, ScoutsDue
<1>12. s \notin chosen => lastScan[s] # None /\ lastScan[s] \in 0 .. AgeCap
  BY <1>5, <1>8, <1>11, OlderIs DEF Ages
<1>13. PICK age \in 0 .. AgeCap : age = calm[s]
  BY <1>5
<1>14. /\ Older(age, by) <= age + by /\ by <= Older(age, by) /\ Older(age, by) \in 0 .. AgeCap
       /\ Older(0, by) = by /\ 0 \in 0 .. AgeCap
  BY <1>1, Numbers, OlderOrdered
<1>15. lastScan'[s] # None /\ lastScan'[s] < ScoutStill /\ (s \in scanning' => lastScan'[s] = 0)
  BY <1>9, <1>10, <1>11, Numbers
\* Nothing is known of a radio that was busy: it is asked, or was asked before it was busy.
<1>16. CASE age = 0
  <2>1. CASE s \in chosen
    <3>1. calm'[s] <= ScoutStill + PollEvery
      BY <1>4, <1>5, <1>13, <1>14, <1>16, Numbers
    <3> QED  BY <1>9, <1>15, <2>1, <3>1 DEF Asked
  <2>2. CASE s \notin chosen
    <3>1. by <= before[s]
      BY <1>8, <1>12, <2>2, <1>1, OlderOrdered
    <3>2. calm'[s] <= lastScan'[s]
      BY <1>4, <1>10, <1>13, <1>14, <1>16, <2>2, <3>1
    <3> QED  BY <1>9, <1>15, <2>2, <3>2 DEF Asked
  <2> QED  BY <2>1, <2>2
<1>17. CASE age # 0
  <2>1. /\ lastScan[s] # None /\ lastScan[s] < ScoutStill
        /\ s \in scanning => lastScan[s] = 0
        /\ Soon(s) \/ Asked(s)
    BY <1>3, <1>13, <1>17 DEF Scouted
  <2>2. PICK since \in 0 .. AgeCap : since = lastScan[s]
    BY <1>5, <2>1 DEF Ages
  <2>3. CASE s \in scanning
    <3>1. table'[s] = by - 1 /\ before[s] = by /\ table'[s] # None
      BY <1>5, <1>6, <1>8, <1>14, <2>1, <2>3, Numbers
    <3>2. CASE s \in chosen
      BY <1>5, <1>9, <1>15, <3>1, <3>2, Numbers DEF Soon
    <3>3. CASE s \notin chosen
      BY <1>5, <1>9, <1>10, <1>15, <3>1, <3>3, Numbers DEF Soon
    <3> QED  BY <3>2, <3>3
  <2>4. CASE s \notin scanning /\ Soon(s)
    <3>1. PICK old \in 0 .. AgeCap : old = table[s] /\ old <= since
      BY <1>5, <2>2, <2>4 DEF Soon, Ages
    <3>2. Older(old, by) <= Older(since, by) /\ Older(old, by) <= old + by /\ Older(old, by) \in 0 .. AgeCap
      BY <3>1, <1>1, OlderOrdered
    <3>3. table'[s] = Older(old, by) /\ table'[s] # None
      BY <1>6, <2>4, <3>1, <3>2, Numbers
    <3>4. CASE s \in chosen
      <4>1. table'[s] <= ScoutStill + PollEvery
        BY <1>5, <2>1, <2>2, <3>1, <3>2, <3>3, Numbers
      <4> QED  BY <1>9, <1>15, <3>3, <3>4, <4>1 DEF Soon
    <3>5. CASE s \notin chosen
      <4>1. table'[s] <= lastScan'[s]
        BY <1>8, <1>10, <2>2, <3>2, <3>3, <3>5
      <4> QED  BY <1>9, <1>15, <3>3, <3>5, <4>1 DEF Soon
    <3> QED  BY <3>4, <3>5
  <2>5. CASE s \notin scanning /\ Asked(s)
    <3>1. age <= since
      BY <1>13, <2>2, <2>5 DEF Asked
    <3>2. Older(age, by) <= Older(since, by)
      BY <3>1, <1>1, OlderOrdered
    <3>3. CASE s \in chosen
      <4>1. calm'[s] <= ScoutStill + PollEvery
        BY <1>4, <1>5, <1>13, <1>14, <2>1, <2>2, <3>1, Numbers
      <4> QED  BY <1>9, <1>15, <3>3, <4>1 DEF Asked
    <3>4. CASE s \notin chosen
      <4>1. calm'[s] <= lastScan'[s]
        BY <1>4, <1>8, <1>10, <1>13, <2>2, <3>2, <3>4
      <4> QED  BY <1>9, <1>15, <3>4, <4>1 DEF Asked
    <3> QED  BY <3>3, <3>4
  <2> QED  BY <2>1, <2>3, <2>4, <2>5
<1> QED  BY <1>16, <1>17

LEMMA WorldScouts == ASSUME Typed, Scouted, World PROVE Scouted'
<1>1. PICK r \in Radios : (Moves(r) \/ Unplug(r) \/ Plug(r)) /\ calm' = [calm EXCEPT ![r] = 0]
  BY DEF World
<1>2. lastScan' = lastScan
  BY DEF World
<1> SUFFICES ASSUME NEW s \in Scouts', calm'[s] > 0
             PROVE  /\ lastScan'[s] # None /\ lastScan'[s] < ScoutStill
                    /\ s \in scanning' => lastScan'[s] = 0
                    /\ Soon(s)' \/ Asked(s)'
  BY DEF Scouted
<1>3. s \in Radios
  BY DEF Scouts, In
<1>4. s # r /\ calm'[s] = calm[s]
  BY <1>1, <1>3 DEF Typed, TypeOK
<1>5. seat'[s] = seat[s] /\ table'[s] = table[s] /\ (s \in scanning' <=> s \in scanning)
  BY <1>1, <1>3, <1>4 DEF Typed, TypeOK, Moves, Unplug, Plug
<1>6. s \in Scouts /\ calm[s] > 0
  BY <1>3, <1>4, <1>5 DEF Scouts, On, In
<1> QED  BY <1>2, <1>4, <1>5, <1>6 DEF Scouted, Soon, Asked

\* What a scout hears reaches the others: plan_scans asks a scout again when its interval is
\* over, whatever else happens, and candidates takes no reading much older than the scout's,
\* in whatever order it goes through the radios.
THEOREM ScoutsFeedAll == Spec => []ScoutFeedsAll
<1>1. Init => Scouted
  <2> SUFFICES ASSUME Init, NEW s \in Scouts, calm[s] > 0 PROVE FALSE
    BY DEF Scouted
  <2>1. s \in Radios /\ calm[s] = 0
    BY DEF Init, Scouts, In
  <2> QED  BY <2>1
<1>2. Scouted /\ Typed /\ [Next]_vars => Scouted'
  <2> SUFFICES ASSUME Scouted, Typed, [Next]_vars PROVE Scouted'
    OBVIOUS
  <2>1. CASE UNCHANGED vars
    BY <2>1 DEF vars, trend, scans, Scouted, Soon, Asked, Scouts, On, In
  <2> QED  BY <2>1, PollScouts, WorldScouts DEF Next
<1>3. Scouted /\ Typed => ScoutFeedsAll
  <2> SUFFICES ASSUME Scouted, Typed, NEW s \in Scouts, calm[s] > ScoutStill + 2 * PollEvery,
                      NEW r \in In, <<r, s>> \in known, NEW order \in Orders
               PROVE  Best(r, table, order) <= ScoutStill + 2 * PollEvery
    BY DEF ScoutFeedsAll
  <2>1. r \in Radios /\ s \in Radios
    BY DEF Scouts, In
  <2>2. /\ table \in [Radios -> Ages] /\ calm[s] \in Nat /\ lastScan[s] \in Ages
    BY <2>1, Numbers DEF Typed, TypeOK
  <2>3. /\ lastScan[s] # None /\ lastScan[s] < ScoutStill /\ (Soon(s) \/ Asked(s))
    BY <2>2, Numbers DEF Scouted
  <2>4. lastScan[s] \in Nat
    BY <2>2, <2>3 DEF Ages
  <2>5. ~Asked(s)
    BY <2>2, <2>3, <2>4, Numbers DEF Asked
  <2>6. table[s] # None /\ table[s] \in Nat
    BY <2>1, <2>2, <2>3, <2>5 DEF Soon, Ages
  <2>7. table[s] <= ScoutStill + PollEvery
    BY <2>3, <2>4, <2>5, <2>6, Numbers DEF Soon
  <2>8. PICK n \in Nat : order \in [1 .. n -> Radios] /\ \E j \in 1 .. n : order[j] = s
    BY <2>1, OrderIs
  <2>9. PICK j \in 1 .. n : order[j] = s
    BY <2>8
  <2>10. Best(r, table, order) \in Nat /\ Best(r, table, order) <= table[s] + 1
    BY <2>1, <2>2, <2>6, <2>8, <2>9, BestIs
  <2> QED  BY <2>6, <2>7, <2>10, Numbers
<1> QED  BY <1>1, <1>2, <1>3, TypedStays, PTL DEF Spec
====
