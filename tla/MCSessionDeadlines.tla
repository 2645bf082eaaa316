------------------------- MODULE MCSessionDeadlines -------------------------
(* SessionDeadlines for TLC, with the fairness of its clock and goroutines. *)
EXTENDS SessionDeadlines

\* The clock stands still at the bound and every session is over.
Over == clock = MaxClock /\ UNCHANGED deadlineVars

FairDeadlines ==
    DeadlineInit /\ [][DeadlineNext \/ Over]_deadlineVars /\ DeadlineFair
=============================================================================
