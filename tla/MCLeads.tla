------------------------------ MODULE MCLeads -------------------------------
(***************************************************************************)
(* Instances of Leads for TLC.                                             *)
(***************************************************************************)
EXTENDS Leads, TLC

CONSTANTS r1, r2

TwoRunners == {r1, r2}

\* The branches "bandra" and "khar" share a website.
Page(domain, own, contacts) == [domain |-> domain, own |-> own, contacts |-> contacts]
Branches == "bandra" :> Page("pearl.example", "CUSTOM_DOMAIN", {})
            @@ "khar" :> Page("pearl.example", "CUSTOM_DOMAIN", {"98"})

Verdicts == "bandra" :> {"QUALIFIED", "DISQUALIFIED"} @@ "khar" :> {"QUALIFIED"}

Two == <<"search", "similar">>
Queried == "search" :> <<"q1", "q2">> @@ "similar" :> <<>>
Each == "search" :> 1 @@ "similar" :> 1
Days == "search" :> 2 @@ "similar" :> 3
Found == [q \in Queries |-> IF q = "q1" THEN <<"khar">> ELSE IF q = "khar" THEN <<"bandra">> ELSE <<>>]

Case(runners, enabled, arrivals, troubles) ==
  [runners |-> runners, enabled |-> enabled, arrivals |-> arrivals, troubles |-> troubles]
Cases ==
  {Case({r1, r2}, {}, <<"bandra", "khar">>, {"slow", "opt_out"}),
   Case({r1, r2}, {}, <<"bandra", "khar">>, {"retry", "gone", "opt_out"}),
   Case({r1, r2}, {}, <<"bandra", "khar">>, {"crash", "opt_out"}),
   Case({r1, r2}, {}, <<"khar">>, {"compose"}),
   Case({r1, r2}, {"search", "similar"}, <<>>, {}),
   Case({r1, r2}, {"search"}, <<>>, {"late"}),
   Case({r1}, {"search"}, <<>>, {"retry"}),
   Case({r1}, {"search"}, <<>>, {"crash"})}
=============================================================================
