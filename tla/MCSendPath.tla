----------------------------- MODULE MCSendPath -----------------------------
(* Constant values for model checking SendPath.                            *)
EXTENDS SendPath, TLC

CONSTANTS p1, p2, o1, o2, f1, f2, r1, r2, h1

NumberF == [a \in FollowUps |-> IF a = f1 THEN 1 ELSE 2]

\* Drafts of the first message are interchangeable.
Drafts == Permutations({o1, o2})

\* So are the processes.
Processes == Permutations({p1, p2})
=============================================================================
