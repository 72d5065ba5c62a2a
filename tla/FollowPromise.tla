--------------------------- MODULE FollowPromise ---------------------------
(***************************************************************************)
(* What following a network choice promises (src/README.md, "Following     *)
(* your network choice"; src/docs/roaming.md, "The model"): wifimimo never *)
(* picks a network itself.  Once it follows one it keeps to it until       *)
(* somebody else gives it a reason not to, and every reason counts for one *)
(* review of the choice only.                                              *)
(***************************************************************************)
CONSTANTS
  Nets,   \* networks
  None    \* no network

VARIABLES
  followed,  \* the network followed, or None
  reasons    \* since the last review: the networks activated by the user, or by
             \* NetworkManager where it had the radio; None: a reason to let go

promise == <<followed, reasons>>

PromiseInit == followed = None /\ reasons = {}

\* The user, NetworkManager or the air gives a reason.
Reason ==
  /\ \E c \in Nets \union {None} : reasons' = reasons \union {c}
  /\ UNCHANGED followed

\* The choice is reviewed, and the reasons known by then are spent.
Review ==
  /\ reasons' \subseteq reasons
  /\ \/ UNCHANGED followed
     \/ followed' \in reasons            \* switch to it, or let go
     \/ followed = None /\ followed' \in Nets  \* adopt what the machine already uses

PromiseNext == Reason \/ Review

Promise == PromiseInit /\ [][PromiseNext]_promise
=============================================================================
