---------------------------- MODULE MCPlacement ----------------------------
(***************************************************************************)
(* Two rooms, two or three access points.                                  *)
(***************************************************************************)
EXTENDS Placement

\* 1 and 2 on one 5 GHz block, 3 on 2.4 GHz.
MCSpan  == << <<5170, 5250>>, <<5250, 5330>>, <<2402, 2422>> >>
MCWidth == << 80, 80, 20 >>

\* All radios hear everything well; a walk away from the first two access points;
\* a strong radio beside a weak one that would be better off in each other's place.
Near == << -55, -62, -66 >>
Far  == << -85, -73, -60 >>
Uneven == << << -48, -62, -51 >>, << -68, -66, -62 >>, << -73, -55, -71 >> >>

MCSignals == {-48, -51, -55, -60, -62, -66, -68, -71, -73, -85}
MCSurveys == {[r \in Radios |-> Near], [r \in Radios |-> Far], [r \in Radios |-> Uneven[r]]}
=============================================================================
