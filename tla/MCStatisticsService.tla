------------------------- MODULE MCStatisticsService -------------------------
(* Instances of StatisticsService for TLC: one account. *)
EXTENDS StatisticsService, TLC

CONSTANTS e1, e2, e3, p1, g1, a1, m1, m2

OneAccount == [x \in Events \cup Puts \cup Readers |-> a1]

\* Every event once, or the first one twice.
AllOnce == [e \in Events |-> 1]

FirstTwice == [e \in Events |-> IF e = e1 THEN 2 ELSE 1]

AtFirstNode == [x \in Puts \cup Readers |-> m1]
=============================================================================
