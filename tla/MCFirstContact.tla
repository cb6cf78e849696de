--------------------------- MODULE MCFirstContact ---------------------------
(* Constant values for model checking FirstContact: three kinds of scenes.  *)
EXTENDS FirstContact, TLC

Cafe == [link |-> "platform", books |-> TRUE, busy |-> FALSE, closed |-> FALSE]

Quiet == [page |-> Cafe, later |-> Cafe, fit |-> 30, twice |-> FALSE, partial |-> FALSE, unreadable |-> FALSE,
          checks |-> TRUE, answers |-> {"good"}, commenter |-> FALSE, igsid |-> FALSE, api |-> FALSE,
          llm |-> FALSE, alike |-> FALSE, autonomous |-> TRUE, operator |-> FALSE, faults |-> 0,
          refused |-> FALSE]

\* What profiles and websites show, and what becomes of it when inspections overlap.
Profiles ==
  {[link |-> l, books |-> b, busy |-> b, closed |-> FALSE] :
     l \in {None, "platform", "builder", "site"}, b \in BOOLEAN}
Moved == [link |-> "moved", books |-> TRUE, busy |-> FALSE, closed |-> FALSE]
Closed == [link |-> "site", books |-> FALSE, busy |-> TRUE, closed |-> TRUE]
Reading ==
  {[Quiet EXCEPT !.page = p, !.later = IF p.books THEN Moved ELSE Closed, !.twice = TRUE, !.partial = TRUE,
                 !.answers = Answers, !.llm = TRUE, !.unreadable = TRUE, !.autonomous = FALSE] : p \in Profiles}

\* Someone comments, twice: private replies and what they fall back on, with faults and without.
\* In one scene a draft has two mishaps: it may arrive, and the next attempt be turned away.
Commenting ==
  {[Quiet EXCEPT !.commenter = TRUE, !.igsid = id, !.api = TRUE, !.refused = ref, !.autonomous = auto,
                 !.operator = ~auto, !.faults = IF id \/ ref \/ auto THEN 1 ELSE 2] :
     id \in BOOLEAN, ref \in BOOLEAN, auto \in BOOLEAN}

\* An ordinary first message, with every fault, and texts that are too much alike.
Ordinary == {[Quiet EXCEPT !.faults = 1, !.operator = TRUE, !.alike = TRUE, !.checks = FALSE]}

AllScenes == Reading \union Commenting \union Ordinary
=============================================================================
