--------------------------- MODULE MCBusinessDay ---------------------------
(* Two loans, an officer and the scheduler over four calendar days.          *)
EXTENDS BusinessDay

CONSTANTS l1, l2, o1
=============================================================================
