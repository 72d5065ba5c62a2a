---- MODULE RetryWindow ----
(***************************************************************************)
(* The 10-second window of TX retries of one radio, and the readings it is *)
(* made of. The kernel counts packets and retries per association, in 32   *)
(* bits. Every poll reads the counters and the time connected; the daemon  *)
(* keeps the readings of the last RETRY_WINDOW_S, forgets them all when    *)
(* the counters seem to be of another association, and shows the last      *)
(* reading minus the oldest one.                                           *)
(*                                                                         *)
(* A reading may be bare: when the kernel lists no station, or its dump    *)
(* cannot be had, the link is read from `iw link', which says that it is   *)
(* up and to which access point, and the counters and the time stay at 0.  *)
(* It may also miss the link altogether.                                   *)
(*                                                                         *)
(* Time moves in ticks. Failed packets are counted like retries and left   *)
(* out. Of the poll's cadence only its extent is kept: the next poll comes *)
(* within POLL_SLOW_S, unless the follower holds the loop up.              *)
(*                                                                         *)
(* History: of a reading, whether it was bare, and what the radio has sent *)
(* and resent since; steady, for how many ticks the radio has kept its     *)
(* association, counters that did not wrap, full readings, timely polls.   *)
(***************************************************************************)
EXTENDS Integers

CONSTANTS
  APs,
  Window,   \* RETRY_WINDOW_S
  Slow,     \* POLL_SLOW_S
  Stall,    \* a poll the follower holds up comes at most this late
  Modulus,  \* U32_COUNTER_MODULUS
  Most,     \* packets sent in a tick
  Events,   \* changes of the link, poor readings and stalls in a behaviour
  None

ASSUME RetryAssumption ==
  /\ None \notin APs
  /\ {Window, Slow, Stall, Modulus} \subseteq Nat \ {0}
  /\ Slow <= Window /\ Window < Stall
  /\ Most \in Nat /\ Most * Stall < Modulus
  /\ Events \in Nat

VARIABLES
  link,     \* the association: access point, time connected, the two counters
  samples,  \* retry_samples[iface]; an age instead of "monotonic"
  shown,    \* retry_10s_packets and retry_10s_retries, and the reading they count from,
            \* until time moves on
  due,      \* ticks until the next poll
  left, steady

vars == <<link, samples, shown, due, left, steady>>

\* Longer times are not told apart: a reading that old is of no account.
Long == Window + 1
AtMost(n, bound) == IF n < bound THEN n ELSE bound

Counters == 0 .. Modulus - 1
Links    == [ap : APs, time : 0 .. Long, packets : Counters, retries : Counters]
Samples  == [ap : APs, time : 0 .. Long, packets : Counters, retries : Counters,
             age : 0 .. Long, bare : BOOLEAN, sent : 0 .. Most * Stall, resent : 0 .. Most * Stall]

TypeOK ==
  /\ link \in Links \cup {None}
  /\ samples \subseteq Samples
  /\ shown \in {None} \cup [packets : Counters, retries : Counters, base : Samples]
  /\ due \in 0 .. Stall /\ left \in 0 .. Events /\ steady \in 0 .. Long

\* A daemon that has just started, on any link and whatever it has counted.
Init ==
  /\ link \in {l \in Links : l.retries <= l.packets} \cup {None}
  /\ samples = {} /\ shown = None /\ due = 0
  /\ left = Events /\ steady = 0

Trouble == left > 0 /\ left' = left - 1

-----------------------------------------------------------------------------
(* update_retry_window *)

Reading(counted) ==
  [ap |-> link.ap, age |-> 0, sent |-> 0, resent |-> 0, bare |-> ~counted,
   time    |-> IF counted THEN link.time ELSE 0,
   packets |-> IF counted THEN link.packets ELSE 0,
   retries |-> IF counted THEN link.retries ELSE 0]

Newest(readings) == CHOOSE s \in readings : \A o \in readings : s.age <= o.age
Oldest(readings) == CHOOSE s \in readings : \A o \in readings : o.age <= s.age

\* Mutant: the access point and the time alone tell them apart.
ByTime(last, now) == now.ap # last.ap \/ now.time < last.time

\* session_changed
SessionChanged(last, now) ==
  \/ now.ap # last.ap \/ now.time < last.time
  \/ now.packets < last.packets \/ now.retries < last.retries

\* Mutant: equal counters are taken for a wrap.
DeltaOrWrap(current, previous) ==
  IF current > previous THEN current - previous ELSE Modulus - previous + current

\* counter_delta
CounterDelta(current, previous) ==
  IF current >= previous THEN current - previous ELSE Modulus - previous + current

\* Mutant: a reading is dropped when it is as old as the window.
Younger(readings) == {s \in readings : s.age < Window}

InWindow(readings) == {s \in readings : s.age <= Window}

Kept(now) ==
  InWindow({now} \cup IF samples # {} /\ SessionChanged(Newest(samples), now) THEN {} ELSE samples)

Take(now) ==
  /\ samples' = Kept(now)
  /\ shown' = LET base == Oldest(Kept(now)) IN
       [packets |-> CounterDelta(now.packets, base.packets),
        retries |-> CounterDelta(now.retries, base.retries), base |-> base]

\* No association, or none that the poll could see: everything is forgotten.
Forget == samples' = {} /\ shown' = None

-----------------------------------------------------------------------------
(* The polls: the next one is due within POLL_SLOW_S, or the loop is held up. *)

OnTime == due = 0 /\ due' \in 1 .. Slow

PollFull ==
  /\ OnTime /\ link # None
  /\ Take(Reading(TRUE))
  /\ UNCHANGED <<link, left, steady>>

PollOff ==
  /\ OnTime /\ link = None
  /\ Forget
  /\ UNCHANGED <<link, left, steady>>

PollBare ==
  /\ OnTime /\ link # None /\ Trouble
  /\ Take(Reading(FALSE))
  /\ steady' = 0
  /\ UNCHANGED link

PollMisses ==
  /\ OnTime /\ link # None /\ Trouble
  /\ Forget
  /\ steady' = 0
  /\ UNCHANGED link

Stalls ==
  /\ due > 0 /\ Trouble
  /\ due' = Stall
  /\ UNCHANGED <<link, samples, shown, steady>>

-----------------------------------------------------------------------------
(* The radio. *)

Older(s, p, r) ==
  [s EXCEPT !.age = AtMost(@ + 1, Long), !.sent = AtMost(@ + p, Most * Stall),
            !.resent = AtMost(@ + r, Most * Stall)]

Wraps(p, r) == link # None /\ (link.packets + p >= Modulus \/ link.retries + r >= Modulus)

Tick ==
  /\ due > 0 /\ due' = due - 1
  /\ \E p \in 0 .. Most : \E r \in 0 .. p :
       /\ link = None => p = 0
       /\ link' = IF link = None THEN None
                  ELSE [link EXCEPT !.time = AtMost(@ + 1, Long),
                                    !.packets = (@ + p) % Modulus, !.retries = (@ + r) % Modulus]
       /\ samples' = {Older(s, p, r) : s \in samples}
       /\ steady' = IF due > Slow \/ Wraps(p, r) THEN 0 ELSE AtMost(steady + 1, Long)
  /\ shown' = None
  /\ UNCHANGED left

\* A new association, perhaps to the same access point; or none.
Roams ==
  /\ Trouble
  /\ link' \in {[ap |-> a, time |-> 0, packets |-> 0, retries |-> 0] : a \in APs} \cup {None}
  /\ link' # link
  /\ steady' = 0
  /\ UNCHANGED <<samples, shown, due>>

Next == PollFull \/ PollOff \/ PollBare \/ PollMisses \/ Stalls \/ Tick \/ Roams

Spec == Init /\ [][Next]_vars

-----------------------------------------------------------------------------
(* Properties. *)

Modest == shown.packets <= shown.base.sent /\ shown.retries <= shown.base.resent

\* The window never shows more packets or retries than the radio sent since the reading it
\* counts from, whatever associations, wraps and delays came between: unless that reading
\* was bare.
NeverOvercounts == shown # None /\ ~shown.base.bare => Modest

\* On an association that lasts, read in time and in full, the window loses nothing: it
\* reaches back to within a slow poll of ten seconds, and counts all that was sent.
LosesNothing ==
  [][PollFull /\ steady = Long =>
       /\ shown'.base.age + Slow > Window
       /\ shown'.packets = shown'.base.sent /\ shown'.retries = shown'.base.resent]_vars
====
