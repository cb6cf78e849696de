----------------------------- MODULE MCInbound -----------------------------
(***************************************************************************)
(* Instances of Inbound for TLC.                                           *)
(***************************************************************************)
EXTENDS Inbound, TLC

CONSTANTS r1, r2

OneRunner == {r1}
TwoRunners == {r1, r2}
Meaning == "stop" :> "OPT_OUT" @@ "yes" :> "INTERESTED" @@ "ok" :> "NEUTRAL"
Case(script, handOff, troubles) == [script |-> script, handOff |-> handOff, troubles |-> troubles]
Cases ==
  {Case(<<"yes", "stop">>, FALSE, {"retry"}),
   Case(<<"stop">>, TRUE, {"crash"}),
   Case(<<"ok", "ok">>, FALSE, {"BROWSER"}),
   Case(<<Note>>, TRUE, {"echoes", "retry", "BROWSER"}),
   Case(<<"yes">>, TRUE, {"API", "resolver"})}

LostEvent == {Case(<<"stop", "ok">>, TRUE, {"crash", "BROWSER"})}
=============================================================================
