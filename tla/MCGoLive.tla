------------------------------ MODULE MCGoLive ------------------------------
(* Constant values for model checking GoLive: the scenes.                  *)
EXTENDS GoLive, TLC

CONSTANTS e1, e2

Nothing == [k \in Keys |-> Unset]
Yaml == [environment |-> "LOCAL", default_mode |-> "OBSERVE", browser |-> TRUE, research |-> FALSE,
         research_user |-> "", sandbox |-> FALSE, per_day |-> 20, searching |-> TRUE]

Quiet == [yaml |-> Yaml, environ |-> Nothing, token |-> TRUE, requests |-> {}, testing |-> FALSE,
          limits |-> {}, modes |-> {}, override |-> Unset, happens |-> FALSE,
          serving |-> FALSE, shared |-> FALSE]

\* The way to AUTONOMOUS: environments, default mode, switches, checks.
Switching ==
  [Quiet EXCEPT
     !.requests = {[environment |-> "LIVE", browser |-> TRUE, default_mode |-> "APPROVAL"],
                   [environment |-> Unset], [default_mode |-> "AUTONOMOUS"]},
     !.modes = {"APPROVAL", "AUTONOMOUS"}, !.happens = TRUE, !.serving = TRUE]

\* The same with one database for both environments and the default mode of settings.yaml.
Sharing ==
  [Switching EXCEPT
     !.shared = TRUE,
     !.requests = {[environment |-> "LIVE", browser |-> TRUE, default_mode |-> "APPROVAL"],
                   [environment |-> Unset]}]

\* Saving settings, with and without an environment variable or a token.
Saving ==
  {[Quiet EXCEPT !.token = tok, !.environ = env,
     !.requests = {[environment |-> "LIVE"], [research |-> TRUE], [research |-> Unset],
                   [research_user |-> "second"], [research_user |-> Unset],
                   [per_day |-> 30], [per_day |-> Unset]}] :
     tok \in BOOLEAN, env \in {Nothing, [Nothing EXCEPT !.per_day = 8]}}

\* Test mode against limit overrides, with a switch of the environment.
Testing ==
  [Quiet EXCEPT !.testing = TRUE, !.limits = {30}, !.override = 30,
                !.requests = {[environment |-> "LIVE"]}]

AllScenes == {Switching, Sharing, Testing, [Testing EXCEPT !.shared = TRUE]} \union Saving
ThreadSymmetry == Permutations(Threads)
=============================================================================
