------------------------------ MODULE MCLanes -------------------------------
(* Constant values for model checking Lanes.                               *)
EXTENDS Lanes, TLC

CONSTANTS k1, k2, t1, t2

\* One browser session; the API takes two calls at a time here.
Permits == [c \in Lanes |-> IF c \in Browsers THEN 1 ELSE 2]

\* t1 may be read over the API or in the browser, t2 is a first message.
BothRoutes == [t \in Tasks |-> IF t = t1 THEN <<"API", "BROWSER">> ELSE <<"BROWSER">>]

\* The ticks are interchangeable.
TickSymmetry == Permutations({k1, k2})
=============================================================================
