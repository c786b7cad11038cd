--------------------------- MODULE MCPeriodClose ---------------------------
(* One or two short months and up to three clerks, in two scenes: end of day *)
(* with its troubles beside them, or a request that posts.                   *)
EXTENDS PeriodClose, TLC

CONSTANTS l1, o1, c1, c2, c3, p1

VARIABLE scene

\* Everyone sends one request at a time, or c1 and c2 are one person's.
OneEach == [c \in Closers |-> c]
TwoOfOne == [c \in Closers |-> IF c = c2 THEN c1 ELSE c]

Alike == Permutations(Clerks)

\* Bound: beside a request that posts, the scheduler alone runs end of day, and
\* nothing goes wrong in it.
MCNext ==
  /\ CloseNext
  /\ \/ scene = "days" /\ UNCHANGED <<posting, booked>>
     \/ scene = "posts" /\ trouble' = 0 /\ \A o \in Officers : job'[o] = Rest
  /\ UNCHANGED scene

MCInit == CloseInit /\ scene \in {"days", "posts"}

MCSpec == MCInit /\ [][MCNext]_<<vars, scene>>
=============================================================================
