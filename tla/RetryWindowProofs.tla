---- MODULE RetryWindowProofs ----
(***************************************************************************)
(* The retry window never overcounts and loses nothing, for every window,  *)
(* cadence, modulus and traffic that cannot wrap a counter within it. The  *)
(* readings in the window grow with time (Ordered), and each full one      *)
(* bounds what the radio's counters can read by now (Bounded); while an    *)
(* association goes on undisturbed, it says exactly what they read (Exact) *)
(* and no stretch as long as a slow poll is without one (Covered).         *)
(***************************************************************************)
EXTENDS RetryWindow, WellFoundedInduction, TLAPS

Cap == Most * Stall

LEMMA Bounds ==
  /\ Window \in Nat \ {0} /\ Slow \in Nat \ {0} /\ Stall \in Nat \ {0} /\ Modulus \in Nat \ {0}
  /\ Slow <= Window /\ Window < Stall /\ Long = Window + 1 /\ Long \in Nat
BY RetryAssumption DEF Long

LEMMA CapIs == Cap \in Nat /\ Cap < Modulus /\ Most <= Cap /\ Modulus \in Nat \ {0}
<1>1. Most \in Nat /\ Stall \in Nat \ {0} /\ Modulus \in Nat \ {0}
  BY RetryAssumption
<1>2. Most * Stall \in Nat /\ Most <= Most * Stall
  BY <1>1
<1> QED  BY <1>1, <1>2, RetryAssumption DEF Cap

\* In one tick a counter moves by what was counted, or falls by the modulus.
LEMMA Counting ==
  ASSUME NEW c \in Counters, NEW p \in 0 .. Most
  PROVE  (c + p) % Modulus \in Counters /\ (c + p) % Modulus <= c + p
<1>1. c \in Nat /\ p \in Nat /\ c < Modulus /\ p < Modulus /\ Modulus \in Nat \ {0}
  BY CapIs, RetryAssumption DEF Counters
<1> QED  BY <1>1 DEF Counters

LEMMA DeltaType ==
  ASSUME NEW c \in Counters, NEW d \in Counters
  PROVE  CounterDelta(c, d) \in Counters
BY CapIs DEF Counters, CounterDelta

LEMMA AtMostType ==
  ASSUME NEW n \in Nat, NEW b \in Nat
  PROVE  AtMost(n, b) \in 0 .. b /\ AtMost(n, b) <= n
BY DEF AtMost

-----------------------------------------------------------------------------
(* There is an oldest and a newest reading. *)

LEMMA Least ==
  ASSUME NEW S \in SUBSET Nat, S # {}
  PROVE  \E n \in S : \A m \in S : n <= m
<1>1. \E n \in S : \A m \in S : ~(<<m, n>> \in OpToRel(<, Nat))
  BY NatLessThanWellFounded, WFMin
<1>2. PICK n \in S : \A m \in S : ~(<<m, n>> \in OpToRel(<, Nat))
  BY <1>1
<1>3. \A m \in S : ~(m < n)
  BY <1>2 DEF OpToRel
<1> QED  BY <1>3

LEMMA NewestIs ==
  ASSUME NEW R \in SUBSET Samples, R # {}
  PROVE  Newest(R) \in R /\ \A o \in R : Newest(R).age <= o.age
<1> DEFINE Ages == {s.age : s \in R}
<1>1. \A s \in R : s.age \in Nat
  BY RetryAssumption DEF Samples, Long
<1>2. PICK a \in Ages : \A b \in Ages : a <= b
  <2>1. Ages \in SUBSET Nat /\ Ages # {}
    BY <1>1
  <2> QED  BY <2>1, Least
<1>3. PICK s \in R : s.age = a
  OBVIOUS
<1>4. \A o \in R : s.age <= o.age
  BY <1>1, <1>2, <1>3
<1> QED  BY <1>4 DEF Newest

LEMMA OldestIs ==
  ASSUME NEW R \in SUBSET Samples, R # {}
  PROVE  Oldest(R) \in R /\ \A o \in R : o.age <= Oldest(R).age
<1> DEFINE Youths == {Long - s.age : s \in R}
<1>1. \A s \in R : s.age \in 0 .. Long /\ Long - s.age \in Nat
  BY RetryAssumption DEF Samples, Long
<1>2. PICK a \in Youths : \A b \in Youths : a <= b
  <2>1. Youths \in SUBSET Nat /\ Youths # {}
    BY <1>1
  <2> QED  BY <2>1, Least
<1>3. PICK s \in R : Long - s.age = a
  OBVIOUS
<1>4. \A o \in R : o.age <= s.age
  <2> TAKE o \in R
  <2>1. a <= Long - o.age
    BY <1>2
  <2>2. Long \in Nat
    BY RetryAssumption DEF Long
  <2> QED  BY <1>1, <1>3, <2>1, <2>2
<1> QED  BY <1>4 DEF Oldest

-----------------------------------------------------------------------------
(* Types. *)

LEMMA ReadingType ==
  ASSUME link \in Links, NEW counted \in BOOLEAN
  PROVE  Reading(counted) \in Samples
<1>1. 0 \in Counters /\ 0 \in 0 .. Long /\ 0 \in 0 .. Most * Stall
  BY CapIs, RetryAssumption DEF Counters, Long, Cap
<1> QED  BY <1>1 DEF Reading, Links, Samples

LEMMA KeptType ==
  ASSUME TypeOK, NEW now \in Samples, now.age = 0
  PROVE  Kept(now) \in SUBSET Samples /\ now \in Kept(now)
BY RetryAssumption DEF TypeOK, Kept, InWindow

LEMMA TakeType ==
  ASSUME TypeOK, link \in Links, NEW counted \in BOOLEAN, Take(Reading(counted))
  PROVE  samples' \subseteq Samples /\ shown' \in [packets : Counters, retries : Counters, base : Samples]
<1> DEFINE now == Reading(counted)
<1>1. now \in Samples /\ now.age = 0
  BY ReadingType DEF Reading
<1>2. Kept(now) \in SUBSET Samples /\ now \in Kept(now)
  BY <1>1, KeptType
<1>3. Oldest(Kept(now)) \in Samples
  BY <1>2, OldestIs
<1> HIDE DEF now
<1>4. CounterDelta(now.packets, Oldest(Kept(now)).packets) \in Counters
  BY <1>1, <1>3, DeltaType DEF Samples
<1>5. CounterDelta(now.retries, Oldest(Kept(now)).retries) \in Counters
  BY <1>1, <1>3, DeltaType DEF Samples
<1> QED  BY <1>2, <1>3, <1>4, <1>5 DEF Take, now

LEMMA OlderType ==
  ASSUME NEW s \in Samples, NEW p \in 0 .. Most, NEW r \in 0 .. p
  PROVE  Older(s, p, r) \in Samples
<1>1. s.age + 1 \in Nat /\ s.sent + p \in Nat /\ s.resent + r \in Nat
  <2>1. s.age \in 0 .. Long /\ s.sent \in 0 .. Cap /\ s.resent \in 0 .. Cap
    BY DEF Samples, Cap
  <2> QED  BY <2>1, CapIs, RetryAssumption DEF Long
<1>2. AtMost(s.age + 1, Long) \in 0 .. Long
  BY <1>1, Bounds DEF AtMost
<1>3. AtMost(s.sent + p, Cap) \in 0 .. Cap /\ AtMost(s.resent + r, Cap) \in 0 .. Cap
  BY <1>1, AtMostType, CapIs
<1>4. Older(s, p, r) = [s EXCEPT !.age = AtMost(s.age + 1, Long), !.sent = AtMost(s.sent + p, Cap),
                                 !.resent = AtMost(s.resent + r, Cap)]
  BY DEF Older, Cap, Samples
<1> HIDE DEF Cap
<1>5. Samples = [ap : APs, time : 0 .. Long, packets : Counters, retries : Counters,
                 age : 0 .. Long, bare : BOOLEAN, sent : 0 .. Cap, resent : 0 .. Cap]
  BY DEF Samples, Cap
<1> QED  BY <1>2, <1>3, <1>4, <1>5

LEMMA TypeStep ==
  ASSUME TypeOK, [Next]_vars
  PROVE  TypeOK'
<1> USE DEF TypeOK
<1>0. Window \in Nat /\ Slow \in Nat /\ Stall \in Nat /\ Slow < Stall /\ Events \in Nat /\ Long \in Nat
  BY RetryAssumption, Bounds
<1>1. CASE PollFull
  <2>1. link \in Links /\ UNCHANGED <<link, left, steady>>
    BY <1>1 DEF PollFull
  <2>2. samples' \subseteq Samples /\ shown' \in [packets : Counters, retries : Counters, base : Samples]
    BY <1>1, <2>1, TakeType DEF PollFull
  <2>3. due' \in 0 .. Stall
    BY <1>0, <1>1 DEF PollFull, OnTime
  <2> QED  BY <2>1, <2>2, <2>3
<1>2. CASE PollOff
  BY <1>0, <1>2 DEF PollOff, OnTime, Forget
<1>3. CASE PollBare
  <2>1. samples' \subseteq Samples /\ shown' \in [packets : Counters, retries : Counters, base : Samples]
    BY <1>3, TakeType DEF PollBare
  <2> QED  BY <1>0, <1>3, <2>1 DEF PollBare, OnTime, Trouble
<1>4. CASE PollMisses
  BY <1>0, <1>4 DEF PollMisses, OnTime, Trouble, Forget
<1>5. CASE Stalls
  BY <1>0, <1>5 DEF Stalls, Trouble
<1>6. CASE Tick
  <2>0. PICK p \in 0 .. Most : \E r \in 0 .. p :
          /\ link' = IF link = None THEN None
                     ELSE [link EXCEPT !.time = AtMost(@ + 1, Long),
                                       !.packets = (@ + p) % Modulus, !.retries = (@ + r) % Modulus]
          /\ samples' = {Older(s, p, r) : s \in samples}
          /\ steady' = IF due > Slow \/ Wraps(p, r) THEN 0 ELSE AtMost(steady + 1, Long)
    BY <1>6 DEF Tick
  <2>1. PICK r \in 0 .. p :
          /\ link' = IF link = None THEN None
                     ELSE [link EXCEPT !.time = AtMost(@ + 1, Long),
                                       !.packets = (@ + p) % Modulus, !.retries = (@ + r) % Modulus]
          /\ samples' = {Older(s, p, r) : s \in samples}
          /\ steady' = IF due > Slow \/ Wraps(p, r) THEN 0 ELSE AtMost(steady + 1, Long)
    BY <2>0
  <2>2. samples' \subseteq Samples
    BY <2>1, OlderType
  <2>3. link' \in Links \cup {None}
    <3>1. CASE link = None
      BY <2>1, <3>1
    <3>2. CASE link # None
      <4>1. link \in Links
        BY <3>2
      <4>2. r \in 0 .. Most
        <5>1. p \in 0 .. Most /\ r \in 0 .. p
          OBVIOUS
        <5> QED  BY <5>1, RetryAssumption
      <4>3. AtMost(link.time + 1, Long) \in 0 .. Long
        <5>1. link.time + 1 \in Nat
          BY <4>1, Bounds DEF Links
        <5> QED  BY <5>1, Bounds DEF AtMost
      <4>4. (link.packets + p) % Modulus \in Counters /\ (link.retries + r) % Modulus \in Counters
        BY <4>1, <4>2, Counting DEF Links
      <4> QED  BY <2>1, <3>2, <4>1, <4>3, <4>4 DEF Links
    <3> QED  BY <3>1, <3>2
  <2>4. steady' \in 0 .. Long
    BY <1>0, <2>1, AtMostType
  <2>5. due' \in 0 .. Stall /\ shown' = None /\ left' = left
    BY <1>0, <1>6 DEF Tick
  <2> QED  BY <2>2, <2>3, <2>4, <2>5
<1>7. CASE Roams
  <2>1. 0 \in Counters /\ 0 \in 0 .. Long
    BY <1>0, CapIs DEF Counters
  <2>2. link' \in Links \cup {None}
    BY <1>7, <2>1 DEF Roams, Links
  <2> QED  BY <1>0, <1>7, <2>2 DEF Roams, Trouble
<1>8. CASE UNCHANGED vars
  BY <1>8 DEF vars
<1> QED  BY <1>1, <1>2, <1>3, <1>4, <1>5, <1>6, <1>7, <1>8 DEF Next

LEMMA TypeInit == Init => TypeOK
BY RetryAssumption DEF Init, TypeOK, Long

\* Types.
THEOREM TypeCorrect == Spec => []TypeOK
BY TypeInit, TypeStep, PTL DEF Spec

-----------------------------------------------------------------------------
(* The invariant. *)

\* A poll never meets a reading taken in the same tick.
Apart == due = 0 => \A s \in samples : s.age >= 1

\* Younger readings in the window never read less.
Ordered ==
  \A n, o \in samples : n.age <= o.age /\ o.age <= Window => o.packets <= n.packets /\ o.retries <= n.retries

\* What a full reading in the window counted, with what was sent since, the counters cannot exceed.
Bounded ==
  \A s \in samples : s.age <= Window =>
    /\ s.sent <= Most * s.age /\ s.resent <= Most * s.age
    /\ ~s.bare /\ link # None => link.packets <= s.packets + s.sent /\ link.retries <= s.retries + s.resent

Inv == TypeOK /\ Apart /\ Ordered /\ Bounded /\ NeverOvercounts

LEMMA TakeOrdered ==
  ASSUME Inv, link \in Links, NEW counted \in BOOLEAN, due = 0
  PROVE  \A n, o \in Kept(Reading(counted)) : n.age <= o.age => o.packets <= n.packets /\ o.retries <= n.retries
<1> DEFINE now == Reading(counted)
<1>1. now \in Samples /\ now.age = 0
  BY ReadingType DEF Reading
<1> HIDE DEF now
<1> SUFFICES ASSUME NEW n \in Kept(now), NEW o \in Kept(now), n.age <= o.age
             PROVE  o.packets <= n.packets /\ o.retries <= n.retries
  BY DEF now
<1>2. samples \subseteq Samples /\ \A s \in samples : s.age >= 1
  BY DEF Inv, TypeOK, Apart
<1>3. n \in {now} \cup samples /\ o \in {now} \cup samples /\ n \in Samples /\ o \in Samples
  BY <1>1, <1>2 DEF Kept, InWindow
<1>4. CASE o = now
  <2>1. n = now
    BY <1>1, <1>2, <1>3, <1>4 DEF Samples
  <2> QED  BY <1>1, <1>4, <2>1 DEF Samples, Counters
<1>5. CASE o # now
  <2>1. o \in samples /\ o.age <= Window /\ ~SessionChanged(Newest(samples), now)
    BY <1>3, <1>5 DEF Kept, InWindow
  <2>2. CASE n = now
    <3>1. Newest(samples) \in samples /\ Newest(samples).age <= o.age
      BY <1>2, <2>1, NewestIs
    <3>2. o.packets <= Newest(samples).packets /\ o.retries <= Newest(samples).retries
      BY <2>1, <3>1 DEF Inv, Ordered
    <3>3. Newest(samples).packets <= now.packets /\ Newest(samples).retries <= now.retries
      BY <1>1, <1>2, <2>1, <3>1 DEF SessionChanged, Samples, Counters
    <3> QED  BY <1>1, <1>2, <1>3, <2>2, <3>1, <3>2, <3>3 DEF Samples, Counters
  <2>3. CASE n # now
    BY <1>3, <2>1, <2>3 DEF Inv, Ordered
  <2> QED  BY <2>2, <2>3
<1> QED  BY <1>4, <1>5

LEMMA TakeStep ==
  ASSUME Inv, link \in Links, link # None, NEW counted \in BOOLEAN, Take(Reading(counted)),
         OnTime, UNCHANGED link, TypeOK'
  PROVE  Inv'
<1> DEFINE now  == Reading(counted)
           base == Oldest(Kept(now))
<1>1. /\ now \in Samples /\ now.age = 0 /\ now.sent = 0 /\ now.resent = 0
      /\ ~now.bare => now.packets = link.packets /\ now.retries = link.retries
      /\ now.bare  => now.packets = 0 /\ now.retries = 0
  BY ReadingType DEF Reading
<1>2. Kept(now) \subseteq Samples /\ now \in Kept(now) /\ Kept(now) \subseteq {now} \cup samples
  BY <1>1, KeptType DEF Inv, Kept, InWindow
<1>3. \A s \in Kept(now) : s.age <= Window
  BY DEF Kept, InWindow
<1>4. \A n, o \in Kept(now) : n.age <= o.age => o.packets <= n.packets /\ o.retries <= n.retries
  BY TakeOrdered DEF OnTime
<1>5. base \in Kept(now) /\ base \in Samples
  BY <1>2, OldestIs
<1>6. samples' = Kept(now) /\ shown'.base = base
      /\ shown'.packets = CounterDelta(now.packets, base.packets)
      /\ shown'.retries = CounterDelta(now.retries, base.retries)
  BY DEF Take
<1> HIDE DEF now, base
<1>7. Apart'
  BY Bounds DEF OnTime, Apart
<1>8. Ordered'
  BY <1>4, <1>6 DEF Ordered
<1>9. ASSUME NEW s \in Kept(now)
      PROVE  /\ s.sent <= Most * s.age /\ s.resent <= Most * s.age
             /\ ~s.bare => link.packets <= s.packets + s.sent /\ link.retries <= s.retries + s.resent
  <2>1. CASE s = now
    <3>1. Most * 0 = 0
      BY RetryAssumption
    <3>2. link.packets \in Nat /\ link.retries \in Nat
      BY DEF Links, Counters
    <3> QED  BY <1>1, <2>1, <3>1, <3>2
  <2>2. CASE s # now
    <3>1. s \in samples /\ s.age <= Window
      BY <1>2, <1>3, <2>2
    <3>2. /\ s.sent <= Most * s.age /\ s.resent <= Most * s.age
          /\ ~s.bare /\ link # None => link.packets <= s.packets + s.sent /\ link.retries <= s.retries + s.resent
      BY <3>1 DEF Inv, Bounded
    <3> QED  BY <3>2
  <2> QED  BY <2>1, <2>2
<1>10. Bounded'
  BY <1>6, <1>9 DEF Bounded
<1>11. base.packets <= now.packets /\ base.retries <= now.retries
  BY <1>1, <1>2, <1>4, <1>5 DEF Samples
<1>12. NeverOvercounts'
  <2>1. /\ now.packets \in Nat /\ base.packets \in Nat /\ now.retries \in Nat /\ base.retries \in Nat
        /\ base.sent \in Nat /\ base.resent \in Nat
    <3>1. base.sent \in 0 .. Cap /\ base.resent \in 0 .. Cap
      BY <1>5 DEF Samples, Cap
    <3>2. now.packets \in Counters /\ base.packets \in Counters /\ now.retries \in Counters /\ base.retries \in Counters
      BY <1>1, <1>5 DEF Samples
    <3> QED  BY <3>1, <3>2 DEF Counters
  <2>2. shown'.packets = now.packets - base.packets /\ shown'.retries = now.retries - base.retries
    BY <1>6, <1>11, <2>1 DEF CounterDelta
  <2> SUFFICES ASSUME ~base.bare
               PROVE  now.packets - base.packets <= base.sent /\ now.retries - base.retries <= base.resent
    BY <1>6, <2>2 DEF NeverOvercounts, Modest
  <2>3. link.packets <= base.packets + base.sent /\ link.retries <= base.retries + base.resent
    BY <1>5, <1>9
  <2>4. link.packets \in Nat /\ link.retries \in Nat
    BY DEF Links, Counters
  <2>5. CASE now.bare
    BY <1>1, <2>1, <2>5
  <2>6. CASE ~now.bare
    BY <1>1, <2>1, <2>3, <2>4, <2>6
  <2> QED  BY <2>5, <2>6
<1> QED  BY <1>7, <1>8, <1>10, <1>12 DEF Inv

\* Within the window nothing is cut off an age or a count.
LEMMA OlderInWindow ==
  ASSUME NEW s \in Samples, NEW p \in 0 .. Most, NEW r \in 0 .. p, Older(s, p, r).age <= Window,
         s.age <= Window => s.sent <= Most * s.age /\ s.resent <= Most * s.age
  PROVE  /\ s.age <= Window /\ Older(s, p, r).age = s.age + 1
         /\ Older(s, p, r).sent = s.sent + p /\ Older(s, p, r).resent = s.resent + r
         /\ Older(s, p, r).sent <= Most * (s.age + 1) /\ Older(s, p, r).resent <= Most * (s.age + 1)
         /\ Older(s, p, r).packets = s.packets /\ Older(s, p, r).retries = s.retries
         /\ Older(s, p, r).bare = s.bare
<1>1. s.age \in Nat /\ s.sent \in Nat /\ s.resent \in Nat /\ Most \in Nat /\ p \in 0 .. Most /\ r \in 0 .. p
  <2>1. s.age \in 0 .. Long /\ s.sent \in 0 .. Cap /\ s.resent \in 0 .. Cap
    BY DEF Samples, Cap
  <2> QED  BY <2>1, CapIs, Bounds, RetryAssumption
<1>2. /\ Older(s, p, r).age = AtMost(s.age + 1, Long)
      /\ Older(s, p, r).sent = AtMost(s.sent + p, Cap) /\ Older(s, p, r).resent = AtMost(s.resent + r, Cap)
      /\ Older(s, p, r).packets = s.packets /\ Older(s, p, r).retries = s.retries /\ Older(s, p, r).bare = s.bare
  BY DEF Older, Samples, Cap
<1>3. s.age + 1 <= Window /\ Older(s, p, r).age = s.age + 1
  BY <1>1, <1>2, Bounds DEF AtMost
<1>4. Most * (s.age + 1) = Most * s.age + Most
  BY <1>1
<1>5. Most * (s.age + 1) <= Cap
  <2>1. \A x, y, z \in Nat : x <= y => z * x <= z * y
    OBVIOUS
  <2>2. s.age + 1 \in Nat /\ Stall \in Nat /\ s.age + 1 <= Stall
    BY <1>1, <1>3, Bounds
  <2> QED  BY <1>1, <2>1, <2>2 DEF Cap
<1>6. Most * s.age \in Nat
  BY <1>1
<1> HIDE DEF Cap
<1>7. s.sent + p <= Most * (s.age + 1) /\ s.resent + r <= Most * (s.age + 1)
  BY <1>1, <1>3, <1>4, <1>6, Bounds
<1>8. AtMost(s.sent + p, Cap) = s.sent + p /\ AtMost(s.resent + r, Cap) = s.resent + r
  BY <1>1, <1>4, <1>5, <1>6, <1>7, CapIs DEF AtMost
<1> QED  BY <1>1, <1>2, <1>3, <1>7, <1>8, Bounds

LEMMA TickStep ==
  ASSUME Inv, Tick, TypeOK'
  PROVE  Inv'
<1>0. PICK p \in 0 .. Most : \E r \in 0 .. p :
        /\ link' = IF link = None THEN None
                   ELSE [link EXCEPT !.time = AtMost(@ + 1, Long),
                                     !.packets = (@ + p) % Modulus, !.retries = (@ + r) % Modulus]
        /\ samples' = {Older(s, p, r) : s \in samples}
  BY DEF Tick
<1>1. PICK r \in 0 .. p :
        /\ link' = IF link = None THEN None
                   ELSE [link EXCEPT !.time = AtMost(@ + 1, Long),
                                     !.packets = (@ + p) % Modulus, !.retries = (@ + r) % Modulus]
        /\ samples' = {Older(s, p, r) : s \in samples}
  BY <1>0
<1>2. shown' = None
  BY DEF Tick
<1>3. samples \subseteq Samples /\ samples' \subseteq Samples
  BY DEF Inv, TypeOK
<1>4. \A s \in samples : s.age <= Window => s.sent <= Most * s.age /\ s.resent <= Most * s.age
  BY DEF Inv, Bounded
<1>5. Apart'
  <2>1. \A s \in Samples : Older(s, p, r).age >= 1
    BY Bounds DEF Older, AtMost, Samples
  <2> QED  BY <1>1, <1>3, <2>1 DEF Apart
<1>6. Ordered'
  <2> SUFFICES ASSUME NEW n \in samples, NEW o \in samples,
                      Older(n, p, r).age <= Older(o, p, r).age, Older(o, p, r).age <= Window
               PROVE  /\ Older(o, p, r).packets <= Older(n, p, r).packets
                      /\ Older(o, p, r).retries <= Older(n, p, r).retries
    BY <1>1 DEF Ordered
  <2>1. n \in Samples /\ o \in Samples /\ Older(n, p, r) \in Samples /\ Older(o, p, r) \in Samples
    BY <1>3, OlderType
  <2>2. Older(n, p, r).age <= Window
    BY <2>1, Bounds DEF Samples
  <2>3. /\ o.age <= Window /\ Older(o, p, r).age = o.age + 1
        /\ Older(o, p, r).packets = o.packets /\ Older(o, p, r).retries = o.retries
    BY <1>4, <2>1, OlderInWindow
  <2>4. /\ n.age <= Window /\ Older(n, p, r).age = n.age + 1
        /\ Older(n, p, r).packets = n.packets /\ Older(n, p, r).retries = n.retries
    BY <1>4, <2>1, <2>2, OlderInWindow
  <2>5. n.age <= o.age
    BY <2>1, <2>3, <2>4, Bounds DEF Samples
  <2> QED  BY <2>3, <2>4, <2>5 DEF Inv, Ordered
<1>7. Bounded'
  <2> SUFFICES ASSUME NEW s \in samples, Older(s, p, r).age <= Window
               PROVE  /\ Older(s, p, r).sent <= Most * Older(s, p, r).age
                      /\ Older(s, p, r).resent <= Most * Older(s, p, r).age
                      /\ ~Older(s, p, r).bare /\ link' # None =>
                           /\ link'.packets <= Older(s, p, r).packets + Older(s, p, r).sent
                           /\ link'.retries <= Older(s, p, r).retries + Older(s, p, r).resent
    BY <1>1 DEF Bounded
  <2>1. s \in Samples
    BY <1>3
  <2>2. /\ s.age <= Window /\ Older(s, p, r).age = s.age + 1
        /\ Older(s, p, r).sent = s.sent + p /\ Older(s, p, r).resent = s.resent + r
        /\ Older(s, p, r).sent <= Most * (s.age + 1) /\ Older(s, p, r).resent <= Most * (s.age + 1)
        /\ Older(s, p, r).packets = s.packets /\ Older(s, p, r).retries = s.retries
        /\ Older(s, p, r).bare = s.bare
    BY <1>4, <2>1, OlderInWindow
  <2>3. ASSUME ~s.bare, link' # None
        PROVE  /\ link'.packets <= Older(s, p, r).packets + Older(s, p, r).sent
               /\ link'.retries <= Older(s, p, r).retries + Older(s, p, r).resent
    <3>1. link # None /\ link \in Links
      BY <1>1, <2>3 DEF Inv, TypeOK
    <3>2. link'.packets = (link.packets + p) % Modulus /\ link'.retries = (link.retries + r) % Modulus
      BY <1>1, <3>1 DEF Links
    <3>3. link.packets \in Counters /\ link.retries \in Counters /\ s.packets \in Nat /\ s.retries \in Nat
          /\ s.sent \in Nat /\ s.resent \in Nat
      <4>1. s.sent \in 0 .. Cap /\ s.resent \in 0 .. Cap
        BY <2>1 DEF Samples, Cap
      <4> QED  BY <2>1, <3>1, <4>1 DEF Links, Samples, Counters
    <3>4. r \in 0 .. Most /\ p \in Nat /\ r \in Nat
      <4>1. p \in 0 .. Most /\ r \in 0 .. p
        OBVIOUS
      <4> QED  BY <4>1, RetryAssumption
    <3>5. link'.packets <= link.packets + p /\ link'.retries <= link.retries + r
          /\ link'.packets \in Nat /\ link'.retries \in Nat
      <4>1. (link.packets + p) % Modulus \in Counters /\ (link.packets + p) % Modulus <= link.packets + p
        BY <3>3, Counting
      <4>2. (link.retries + r) % Modulus \in Counters /\ (link.retries + r) % Modulus <= link.retries + r
        BY <3>3, <3>4, Counting
      <4> QED  BY <3>2, <4>1, <4>2 DEF Counters
    <3>6. link.packets <= s.packets + s.sent /\ link.retries <= s.retries + s.resent
      BY <2>2, <2>3, <3>1 DEF Inv, Bounded
    <3>7. link.packets \in Nat /\ link.retries \in Nat
      BY <3>3 DEF Counters
    <3> QED  BY <2>2, <3>3, <3>4, <3>5, <3>6, <3>7
  <2> QED  BY <2>2, <2>3
<1>8. NeverOvercounts'
  BY <1>2 DEF NeverOvercounts
<1> QED  BY <1>5, <1>6, <1>7, <1>8 DEF Inv

LEMMA InvStep ==
  ASSUME Inv, [Next]_vars
  PROVE  Inv'
<1>0. TypeOK'
  BY TypeStep DEF Inv
<1>1. CASE PollFull
  BY <1>0, <1>1, TakeStep DEF PollFull, Inv, TypeOK
<1>2. CASE PollBare
  BY <1>0, <1>2, TakeStep DEF PollBare, Inv, TypeOK
<1>3. CASE PollOff \/ PollMisses
  BY <1>0, <1>3 DEF PollOff, PollMisses, Forget, Inv, Apart, Ordered, Bounded, NeverOvercounts
<1>4. CASE Stalls
  <2>1. UNCHANGED <<link, samples, shown>> /\ due' # 0
    BY <1>4, Bounds DEF Stalls
  <2> QED  BY <1>0, <2>1 DEF Inv, Apart, Ordered, Bounded, NeverOvercounts, Modest
<1>5. CASE Tick
  BY <1>0, <1>5, TickStep
<1>6. CASE Roams
  <2>1. UNCHANGED <<samples, shown, due>> /\ (link' # None => link'.packets = 0 /\ link'.retries = 0)
    BY <1>6 DEF Roams
  <2>2. Apart' /\ Ordered' /\ NeverOvercounts'
    BY <2>1 DEF Inv, Apart, Ordered, NeverOvercounts, Modest
  <2>3. \A s \in samples : s.packets + s.sent >= 0 /\ s.retries + s.resent >= 0
    <3>1. \A s \in samples : s.packets \in Counters /\ s.retries \in Counters /\ s.sent \in 0 .. Cap /\ s.resent \in 0 .. Cap
      BY DEF Inv, TypeOK, Samples, Cap
    <3> QED  BY <3>1, CapIs DEF Counters
  <2>4. Bounded'
    BY <2>1, <2>3 DEF Inv, Bounded
  <2> QED  BY <1>0, <2>2, <2>4 DEF Inv
<1>7. CASE UNCHANGED vars
  BY <1>0, <1>7 DEF vars, Inv, Apart, Ordered, Bounded, NeverOvercounts, Modest
<1> QED  BY <1>1, <1>2, <1>3, <1>4, <1>5, <1>6, <1>7 DEF Next

\* The window never shows more than the radio sent since the full reading it counts from.
THEOREM NeverOvercountsHolds == Spec => []NeverOvercounts
<1>1. Init => Inv
  BY TypeInit DEF Init, Inv, Apart, Ordered, Bounded, NeverOvercounts
<1>2. Spec => []Inv
  BY <1>1, InvStep, PTL DEF Spec
<1>3. Inv => NeverOvercounts
  BY DEF Inv
<1> QED  BY <1>2, <1>3, PTL

-----------------------------------------------------------------------------
(* Nothing is lost. *)

\* While the radio goes on undisturbed, a reading of that time and what was sent since
\* make up what its counters read.
Exact ==
  link # None => \A s \in samples : s.age < steady =>
    /\ ~s.bare /\ s.ap = link.ap /\ s.time <= link.time
    /\ s.packets + s.sent = link.packets /\ s.retries + s.resent = link.retries

\* In that time a reading was taken in every Slow ticks in a row, up to the next poll.
Covered ==
  link # None /\ due <= Slow =>
    \A a \in Int : 1 - due <= a /\ a + Slow <= steady =>
      \E s \in samples : a <= s.age /\ s.age < a + Slow

LossInv == Inv /\ Exact /\ Covered

\* No Slow ticks in a row are left of a time that has just begun.
LEMMA NoRoom ==
  ASSUME NEW a \in Int, NEW d \in Int, d <= Slow, 1 - d <= a
  PROVE  a + Slow \in Int /\ 0 < a + Slow
<1>1. Slow \in Int
  BY Bounds
<1>2. 0 < a + d
  OBVIOUS
<1> QED  BY <1>1, <1>2

\* An association just disturbed promises nothing.
LEMMA Disturbed ==
  ASSUME TypeOK', steady' = 0
  PROVE  Exact' /\ Covered'
<1>1. \A s \in samples' : s.age \in Nat
  BY Bounds DEF TypeOK, Samples
<1>2. due' \in Int
  BY Bounds DEF TypeOK
<1>3. ASSUME NEW a \in Int, due' <= Slow, 1 - due' <= a, a + Slow <= steady' PROVE FALSE
  <2>1. a + Slow \in Int /\ 0 < a + Slow
    BY <1>2, <1>3, NoRoom
  <2> QED  BY <1>3, <2>1
<1> QED  BY <1>1, <1>3 DEF Exact, Covered

\* A full reading meets no other association as long as the newest one is of undisturbed time.
LEMMA NoSessionChange ==
  ASSUME Inv, Exact, link \in Links, link # None, samples # {}, Newest(samples).age < steady
  PROVE  ~SessionChanged(Newest(samples), Reading(TRUE))
<1>1. samples \subseteq Samples
  BY DEF Inv, TypeOK
<1>2. PICK n \in samples : n = Newest(samples)
  BY <1>1, NewestIs
<1>3. /\ n.ap = link.ap /\ n.time <= link.time
      /\ n.packets + n.sent = link.packets /\ n.retries + n.resent = link.retries
  BY <1>2 DEF Exact
<1>4. n \in Samples
  BY <1>1
<1>5. n.sent \in Nat /\ n.resent \in Nat /\ n.packets \in Nat /\ n.retries \in Nat /\ n.time \in Nat
  <2>1. n.sent \in 0 .. Cap /\ n.resent \in 0 .. Cap /\ n.time \in 0 .. Long
    BY <1>4 DEF Samples, Cap
  <2>2. n.packets \in Counters /\ n.retries \in Counters
    BY <1>4 DEF Samples
  <2> QED  BY <2>1, <2>2 DEF Counters
<1>6. link.time \in Nat /\ link.packets \in Nat /\ link.retries \in Nat
  BY DEF Links, Counters
<1>7. PICK now : now = Reading(TRUE)
  OBVIOUS
<1>8. now.ap = link.ap /\ now.time = link.time /\ now.packets = link.packets /\ now.retries = link.retries
  BY <1>7 DEF Reading
<1>9. ~SessionChanged(n, now)
  BY <1>3, <1>5, <1>6, <1>8 DEF SessionChanged
<1> QED  BY <1>2, <1>7, <1>9

\* So it keeps every reading of the window.
LEMMA NothingForgotten ==
  ASSUME Inv, Exact, link \in Links, link # None, NEW s \in samples, s.age < steady
  PROVE  s \in Kept(Reading(TRUE))
<1>1. samples \subseteq Samples /\ s \in Samples /\ steady \in 0 .. Long
  BY DEF Inv, TypeOK
<1>2. PICK n \in samples : n = Newest(samples) /\ n.age <= s.age
  BY <1>1, NewestIs
<1>3. n \in Samples
  BY <1>1
<1>4. n.age < steady /\ s.age <= Window
  BY <1>1, <1>2, <1>3, Bounds DEF Samples
<1>5. ~SessionChanged(Newest(samples), Reading(TRUE))
  BY <1>2, <1>4, NoSessionChange
<1> QED  BY <1>4, <1>5 DEF Kept, InWindow

LEMMA PollLoss ==
  ASSUME LossInv, PollFull, TypeOK'
  PROVE  Exact' /\ Covered'
<1>1. link \in Links /\ link # None /\ due = 0 /\ due' \in 1 .. Slow /\ UNCHANGED <<link, left, steady>>
  BY DEF PollFull, OnTime, LossInv, Inv, TypeOK
<1>2. samples' = Kept(Reading(TRUE))
  BY DEF PollFull, Take
<1>3. PICK now \in Samples : now = Reading(TRUE)
  BY <1>1, ReadingType
<1>4. /\ now.age = 0 /\ now.sent = 0 /\ now.resent = 0 /\ ~now.bare /\ now.ap = link.ap
      /\ now.time = link.time /\ now.packets = link.packets /\ now.retries = link.retries
  BY <1>3 DEF Reading
<1>5. now \in samples' /\ samples' \subseteq {now} \cup samples
  <2>1. now \in Kept(now) /\ Kept(now) \subseteq {now} \cup samples
    BY <1>4, KeptType DEF LossInv, Inv, Kept, InWindow
  <2> QED  BY <1>2, <1>3, <2>1
<1>6. link.time \in Nat /\ link.packets \in Nat /\ link.retries \in Nat
  BY <1>1 DEF Links, Counters
<1>7. Exact'
  <2> SUFFICES ASSUME NEW s \in samples', s.age < steady
               PROVE  /\ ~s.bare /\ s.ap = link.ap /\ s.time <= link.time
                      /\ s.packets + s.sent = link.packets /\ s.retries + s.resent = link.retries
    BY <1>1 DEF Exact
  <2>1. CASE s = now
    BY <1>1, <1>4, <1>6, <2>1
  <2>2. CASE s # now
    BY <1>1, <1>5, <2>2 DEF LossInv, Exact
  <2> QED  BY <2>1, <2>2
<1>8. Covered'
  <2> SUFFICES ASSUME NEW a \in Int, 1 - due' <= a, a + Slow <= steady
               PROVE  \E s \in samples' : a <= s.age /\ s.age < a + Slow
    BY <1>1 DEF Covered
  <2>1. CASE a <= 0
    <3>1. due' \in Int /\ due' <= Slow /\ Slow \in Int
      BY <1>1, Bounds
    <3>2. a <= now.age /\ now.age < a + Slow
      BY <1>4, <2>1, <3>1, NoRoom
    <3> QED  BY <1>5, <3>2
  <2>2. CASE a > 0
    <3>1. PICK s \in samples : a <= s.age /\ s.age < a + Slow
      BY <1>1, <2>2, Bounds DEF LossInv, Covered
    <3>2. s.age < steady
      BY <3>1, Bounds DEF LossInv, Inv, TypeOK, Samples
    <3>3. s \in samples'
      BY <1>1, <1>2, <3>2, NothingForgotten DEF LossInv
    <3> QED  BY <3>1, <3>3
  <2> QED  BY <2>1, <2>2
<1> QED  BY <1>7, <1>8

LEMMA TickLoss ==
  ASSUME LossInv, Tick, TypeOK'
  PROVE  Exact' /\ Covered'
<1>0. PICK p \in 0 .. Most : \E r \in 0 .. p :
        /\ link' = IF link = None THEN None
                   ELSE [link EXCEPT !.time = AtMost(@ + 1, Long),
                                     !.packets = (@ + p) % Modulus, !.retries = (@ + r) % Modulus]
        /\ samples' = {Older(s, p, r) : s \in samples}
        /\ steady' = IF due > Slow \/ Wraps(p, r) THEN 0 ELSE AtMost(steady + 1, Long)
  BY DEF Tick
<1>1. PICK r \in 0 .. p :
        /\ link' = IF link = None THEN None
                   ELSE [link EXCEPT !.time = AtMost(@ + 1, Long),
                                     !.packets = (@ + p) % Modulus, !.retries = (@ + r) % Modulus]
        /\ samples' = {Older(s, p, r) : s \in samples}
        /\ steady' = IF due > Slow \/ Wraps(p, r) THEN 0 ELSE AtMost(steady + 1, Long)
  BY <1>0
<1>2. CASE due > Slow \/ Wraps(p, r)
  BY <1>1, <1>2, Disturbed
<1>3. CASE ~(due > Slow \/ Wraps(p, r))
  <2>1. samples \subseteq Samples /\ steady \in 0 .. Long /\ due \in 0 .. Stall /\ due' = due - 1 /\ due > 0
    BY DEF LossInv, Inv, TypeOK, Tick
  <2>2. steady' \in 0 .. Long /\ steady' <= steady + 1
    BY <1>1, <1>3, <2>1, Bounds, AtMostType
  <2>3. p \in Nat /\ r \in Nat /\ p \in 0 .. Most /\ r \in 0 .. Most
    <3>1. p \in 0 .. Most /\ r \in 0 .. p
      OBVIOUS
    <3> QED  BY <3>1, RetryAssumption
  <2>4. \A s \in samples : s.age <= Window => s.sent <= Most * s.age /\ s.resent <= Most * s.age
    BY DEF LossInv, Inv, Bounded
  <2>5. link # None => /\ link \in Links /\ link'.ap = link.ap
                       /\ link'.time = AtMost(link.time + 1, Long)
                       /\ link'.packets = link.packets + p /\ link'.retries = link.retries + r
    <3> SUFFICES ASSUME link # None
                 PROVE  /\ link \in Links /\ link'.ap = link.ap
                        /\ link'.time = AtMost(link.time + 1, Long)
                        /\ link'.packets = link.packets + p /\ link'.retries = link.retries + r
      OBVIOUS
    <3>1. link \in Links /\ link' \in Links \cup {None}
      BY DEF LossInv, Inv, TypeOK
    <3>2. /\ link'.ap = link.ap /\ link'.time = AtMost(link.time + 1, Long)
          /\ link'.packets = (link.packets + p) % Modulus /\ link'.retries = (link.retries + r) % Modulus
      BY <1>1, <3>1 DEF Links
    <3>3. link.packets \in Nat /\ link.retries \in Nat
      BY <3>1 DEF Links, Counters
    <3>4. link.packets + p < Modulus /\ link.retries + r < Modulus
      BY <1>3, <2>3, <3>3, Bounds DEF Wraps
    <3>5. (link.packets + p) % Modulus = link.packets + p /\ (link.retries + r) % Modulus = link.retries + r
      <4>1. \A x \in Nat : x < Modulus => x % Modulus = x
        BY Bounds
      <4>2. link.packets + p \in Nat /\ link.retries + r \in Nat
        BY <2>3, <3>3
      <4> QED  BY <3>4, <4>1, <4>2
    <3> QED  BY <3>1, <3>2, <3>5
  <2>6. Exact'
    <3>0. link' # None => link # None
      BY <1>1
    <3> SUFFICES ASSUME link # None, NEW s \in samples, Older(s, p, r).age < steady'
                 PROVE  /\ ~Older(s, p, r).bare
                        /\ Older(s, p, r).ap = link'.ap /\ Older(s, p, r).time <= link'.time
                        /\ Older(s, p, r).packets + Older(s, p, r).sent = link'.packets
                        /\ Older(s, p, r).retries + Older(s, p, r).resent = link'.retries
      BY <1>1, <3>0 DEF Exact
    <3>1. s \in Samples /\ Older(s, p, r) \in Samples
      BY <2>1, OlderType
    <3>2. Older(s, p, r).age <= Window
      BY <2>2, <3>1, Bounds DEF Samples
    <3>3. /\ s.age <= Window /\ Older(s, p, r).age = s.age + 1
          /\ Older(s, p, r).sent = s.sent + p /\ Older(s, p, r).resent = s.resent + r
          /\ Older(s, p, r).packets = s.packets /\ Older(s, p, r).retries = s.retries
          /\ Older(s, p, r).bare = s.bare
      BY <2>4, <3>1, <3>2, OlderInWindow
    <3>4. Older(s, p, r).ap = s.ap /\ Older(s, p, r).time = s.time
      BY <3>1 DEF Older, Samples
    <3>5. s.age < steady
      BY <2>1, <2>2, <3>1, <3>3, Bounds DEF Samples
    <3>6. /\ ~s.bare /\ s.ap = link.ap /\ s.time <= link.time
          /\ s.packets + s.sent = link.packets /\ s.retries + s.resent = link.retries
      BY <3>5 DEF LossInv, Exact
    <3>7. s.packets \in Nat /\ s.retries \in Nat /\ s.sent \in Nat /\ s.resent \in Nat
      <4>1. s.sent \in 0 .. Cap /\ s.resent \in 0 .. Cap /\ s.packets \in Counters /\ s.retries \in Counters
        BY <3>1 DEF Samples, Cap
      <4> QED  BY <4>1 DEF Counters
    <3>8. s.time <= link'.time
      <4>1. s.time \in 0 .. Long /\ link.time \in 0 .. Long
        BY <2>5, <3>1, <3>6 DEF Samples, Links
      <4> QED  BY <2>5, <3>6, <4>1, Bounds DEF AtMost
    <3> QED  BY <2>3, <2>5, <3>3, <3>4, <3>6, <3>7, <3>8
  <2>7. Covered'
    <3>1. link' # None => link # None
      BY <1>1
    <3> SUFFICES ASSUME NEW a \in Int, link # None, 1 - (due - 1) <= a, a + Slow <= steady'
                 PROVE  \E s \in samples' : a <= s.age /\ s.age < a + Slow
      BY <2>1, <3>1 DEF Covered
    <3>2. a - 1 \in Int /\ 1 - due <= a - 1 /\ (a - 1) + Slow <= steady /\ due <= Slow
      BY <1>3, <2>1, <2>2, Bounds
    <3>3. PICK s \in samples : a - 1 <= s.age /\ s.age < (a - 1) + Slow
      BY <3>2 DEF LossInv, Covered
    <3>4. Older(s, p, r).age = AtMost(s.age + 1, Long) /\ s.age \in Nat
      BY <2>1, Bounds DEF Older, Samples
    <3>5. Older(s, p, r).age = s.age + 1
      BY <2>2, <3>3, <3>4, Bounds DEF AtMost
    <3>6. Older(s, p, r) \in samples'
      BY <1>1
    <3> QED  BY <3>3, <3>4, <3>5, <3>6, Bounds
  <2> QED  BY <2>6, <2>7
<1> QED  BY <1>2, <1>3

LEMMA LossStep ==
  ASSUME LossInv, [Next]_vars
  PROVE  LossInv'
<1>0. Inv' /\ TypeOK'
  BY InvStep, TypeStep DEF LossInv, Inv
<1>1. CASE PollFull
  BY <1>0, <1>1, PollLoss DEF LossInv
<1>2. CASE PollBare \/ PollMisses \/ Roams
  <2>1. steady' = 0
    BY <1>2 DEF PollBare, PollMisses, Roams
  <2>2. Exact' /\ Covered'
    BY <1>0, <2>1, Disturbed
  <2> QED  BY <1>0, <2>2 DEF LossInv
<1>3. CASE PollOff
  <2>1. link' = None /\ samples' = {}
    BY <1>3 DEF PollOff, Forget
  <2> QED  BY <1>0, <2>1 DEF LossInv, Exact, Covered
<1>4. CASE Stalls
  <2>1. UNCHANGED <<link, samples, steady>> /\ ~(due' <= Slow)
    BY <1>4, Bounds DEF Stalls
  <2> QED  BY <1>0, <2>1 DEF LossInv, Exact, Covered
<1>5. CASE Tick
  BY <1>0, <1>5, TickLoss DEF LossInv
<1>6. CASE UNCHANGED vars
  BY <1>0, <1>6 DEF vars, LossInv, Exact, Covered
<1> QED  BY <1>1, <1>2, <1>3, <1>4, <1>5, <1>6 DEF Next

\* What a full poll shows of an association that lasts.
LEMMA PollShows ==
  ASSUME LossInv, PollFull, steady = Long
  PROVE  /\ shown'.base.age + Slow > Window
         /\ shown'.packets = shown'.base.sent /\ shown'.retries = shown'.base.resent
<1>1. link \in Links /\ link # None /\ due = 0
  BY DEF PollFull, OnTime, LossInv, Inv, TypeOK
<1>2. PICK now \in Samples : now = Reading(TRUE)
  BY <1>1, ReadingType
<1>3. /\ now.age = 0 /\ now.sent = 0 /\ now.resent = 0
      /\ now.packets = link.packets /\ now.retries = link.retries
  BY <1>2 DEF Reading
<1>4. Kept(now) \subseteq Samples /\ now \in Kept(now) /\ Kept(now) \subseteq {now} \cup samples
  BY <1>3, KeptType DEF LossInv, Inv, Kept, InWindow
<1>5. PICK base \in Kept(now) : base = Oldest(Kept(now)) /\ \A o \in Kept(now) : o.age <= base.age
  BY <1>4, OldestIs
<1>6. /\ shown'.base = base
      /\ shown'.packets = CounterDelta(now.packets, base.packets)
      /\ shown'.retries = CounterDelta(now.retries, base.retries)
  BY <1>2, <1>5 DEF PollFull, Take
<1>7. base \in Samples /\ base.age <= Window /\ base.age \in Nat
  BY <1>4, <1>5, Bounds DEF Kept, InWindow, Samples
<1>8. base.age + Slow > Window
  <2> DEFINE a == Long - Slow
  <2>1. a \in Int /\ 1 - due <= a /\ a + Slow <= steady /\ due <= Slow
    BY <1>1, Bounds
  <2> HIDE DEF a
  <2>2. PICK s \in samples : a <= s.age /\ s.age < a + Slow
    BY <1>1, <2>1 DEF LossInv, Covered
  <2>3. s.age \in Nat /\ s.age < steady
    BY <2>1, <2>2, Bounds DEF LossInv, Inv, TypeOK, Samples, a
  <2>4. s \in Kept(now)
    BY <1>1, <1>2, <2>3, NothingForgotten DEF LossInv
  <2>5. s.age <= base.age
    BY <1>5, <2>4
  <2> QED  BY <1>7, <2>2, <2>3, <2>5, Bounds DEF a
<1>9. base.packets + base.sent = link.packets /\ base.retries + base.resent = link.retries
  <2>1. CASE base = now
    BY <1>1, <1>3, <2>1 DEF Links, Counters
  <2>2. CASE base # now
    <3>1. base \in samples /\ base.age < steady
      BY <1>4, <1>7, <2>2, Bounds
    <3> QED  BY <1>1, <3>1 DEF LossInv, Exact
  <2> QED  BY <2>1, <2>2
<1>10. base.packets \in Nat /\ base.retries \in Nat /\ base.sent \in Nat /\ base.resent \in Nat
  <2>1. base.sent \in 0 .. Cap /\ base.resent \in 0 .. Cap /\ base.packets \in Counters /\ base.retries \in Counters
    BY <1>7 DEF Samples, Cap
  <2> QED  BY <2>1 DEF Counters
<1>11. CounterDelta(now.packets, base.packets) = base.sent
       /\ CounterDelta(now.retries, base.retries) = base.resent
  BY <1>3, <1>9, <1>10 DEF CounterDelta
<1> QED  BY <1>6, <1>8, <1>11

\* On an association that lasts, read in time and in full, the window reaches back to within
\* a slow poll of its length and counts all that was sent since.
THEOREM LosesNothingHolds == Spec => LosesNothing
<1>1. Init => LossInv
  <2> SUFFICES ASSUME Init PROVE LossInv
    OBVIOUS
  <2>1. Inv
    BY TypeInit DEF Init, Inv, Apart, Ordered, Bounded, NeverOvercounts
  <2>2. samples = {} /\ due = 0 /\ steady = 0
    BY DEF Init
  <2>3. \A a \in Int : ~(1 - due <= a /\ a + Slow <= steady)
    BY <2>2, Bounds
  <2> QED  BY <2>1, <2>2, <2>3 DEF LossInv, Exact, Covered
<1>2. LossInv /\ [Next]_vars => LossInv'
  BY LossStep
<1>3. LossInv /\ [Next]_vars =>
        [PollFull /\ steady = Long =>
           /\ shown'.base.age + Slow > Window
           /\ shown'.packets = shown'.base.sent /\ shown'.retries = shown'.base.resent]_vars
  BY PollShows
<1> QED  BY <1>1, <1>2, <1>3, PTL DEF Spec, LosesNothing
====
