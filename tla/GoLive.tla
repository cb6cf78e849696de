------------------------------- MODULE GoLive -------------------------------
(***************************************************************************)
(* How the program comes to send by itself on the real account: the        *)
(* settings and where they are saved (editable_settings.py, config.py),    *)
(* the mode and the limit overrides kept in the database (runtime.py), the *)
(* go-live checks (readiness.py), the switch of the mode (control.py), the *)
(* ways the program comes up, with the guard of the start or without it    *)
(* (cli.py), and test mode (setup.py).                                     *)
(*                                                                         *)
(* A setting is read from settings.yaml, then from the file Mission        *)
(* Control writes, then from the environment variables.  Each environment, *)
(* LOCAL and LIVE, has a database of its own unless database_url names one *)
(* for both.  The program is started by `run`, which ticks by itself, or   *)
(* by `serve`, whose page can ask for a tick; one of the two is up at a    *)
(* time.  The page's requests run in threads of that program; commands     *)
(* typed in a terminal are processes that load the saved settings.         *)
(***************************************************************************)
EXTENDS Naturals, FiniteSets

CONSTANTS
  Threads,   \* the threads that serve the page's requests
  Cli,       \* a command typed in a terminal
  Scenes,    \* what the files hold at first and what is asked in a behaviour
  Need,      \* rollout.min_approved_sends_for_autonomous
  Unset      \* no value here

Environments == {"LOCAL", "LIVE"}
Modes == {"OBSERVE", "DRAFT", "APPROVAL", "AUTONOMOUS"}
Accounts == {"", "brand", "second"}

\* EDITABLE: the fields that wait for a restart, and those that apply at once.
RestartKeys == {"environment", "default_mode", "browser", "research", "research_user"}
AtOnceKeys == {"sandbox", "per_day", "searching"}
Keys == RestartKeys \union AtOnceKeys

\* The values of each field.
Fields ==
  [environment |-> Environments, default_mode |-> Modes, browser |-> BOOLEAN, research |-> BOOLEAN,
   research_user |-> Accounts, sandbox |-> BOOLEAN, per_day |-> Nat, searching |-> BOOLEAN]
Complete(s) == \A k \in Keys : s[k] \in Fields[k]
Layer(s) == \A k \in DOMAIN s : s[k] \in Fields[k] \union {Unset}

\* A request of the settings page: the fields it names, Unset to put back
\* the value of settings.yaml.  "sandbox": allowed_targets is not empty.
Preset == [sandbox |-> TRUE, per_day |-> 1, searching |-> FALSE]
LeavePreset == [sandbox |-> Unset, per_day |-> 5, searching |-> TRUE]

LimitKeys == {"per_day", "per_hour"}
NoOverrides == [k \in LimitKeys |-> Unset]

Actors == Threads \union {Cli}
Idle == [at |-> "idle"]

VARIABLES
  scene,       \* the chosen member of Scenes
  overlay,     \* settings.dashboard.yaml
  run,         \* the program: up or not, its settings object, its startup guard
  job,         \* the request or command each actor is in the middle of
  rows,        \* runtime_settings of each database
  account,     \* what the checks look at on the live account
  cleared,     \* history: how the mode of the live account was last set or looked at
  overlapped,  \* history: two read-and-write requests overlapped
  preset       \* history: the database in which test mode's preset stands

vars == <<scene, overlay, run, job, rows, account, cleared, overlapped, preset>>

-----------------------------------------------------------------------------
(* The settings                                                            *)

\* compose_settings: the last of the three sources that has a value.
Composed(sources, o) ==
  [k \in Keys |-> IF sources.environ[k] # Unset THEN sources.environ[k]
                  ELSE IF o[k] # Unset THEN o[k] ELSE sources.yaml[k]]
Compose(o) == Composed(scene, o)

NoOverlay == [k \in Keys |-> Unset]
Saved == Compose(overlay)

\* What _live_adapters() accepts: a research account has a name.
Boots(s) == ~(s.environment = "LIVE" /\ s.browser /\ s.research /\ s.research_user = "")

\* The program starts from the files as they are found, and they hold what the page may hold.
ASSUME GoLiveAssumption ==
  /\ Cli \notin Threads
  /\ Need \in Nat
  /\ Unset \notin Nat /\ Unset \notin Modes \union Environments
  /\ \A s \in Scenes :
       /\ Complete(s.yaml) /\ Keys \subseteq DOMAIN s.environ /\ Layer(s.environ)
       /\ Boots(Composed(s, NoOverlay))
       /\ \A want \in s.requests : DOMAIN want \subseteq Keys /\ Layer(want)
       /\ s.modes \subseteq Modes /\ s.limits \subseteq Nat
       /\ s.override \in Nat \union {Unset}
       /\ s.shared \in BOOLEAN /\ s.serving \in BOOLEAN

\* (mutant) Only the token is looked at.
RefusedToken(s) == s.environment = "LIVE" /\ ~scene.token

\* The combinations apply() does not save.
Refused(s) ==
  \/ s.environment = "LIVE" /\ ~scene.token
  \/ s.research /\ s.research_user \in {"", "brand"}

\* read_overlay with the request's changes put into it.
Changed(o, want) == [k \in Keys |-> IF k \in DOMAIN want THEN want[k] ELSE o[k]]

\* (mutant) A value the page sent wins over the environment variables.
AdoptedSent(settings, fresh, want) ==
  [k \in Keys |-> IF k \notin DOMAIN want \intersect AtOnceKeys THEN settings[k]
                  ELSE IF want[k] # Unset THEN want[k] ELSE fresh[k]]

\* The running settings after a change: only what it names, and of that only
\* what needs no restart, with the value the sources now compose to.
Adopted(settings, fresh, want) ==
  [k \in Keys |-> IF k \in DOMAIN want \intersect AtOnceKeys THEN fresh[k] ELSE settings[k]]

-----------------------------------------------------------------------------
(* Mode, limits and checks                                                 *)

\* The database a process with settings s works with: one for each environment,
\* or one for both, which then is the one named LIVE here.
Database(s) == IF scene.shared THEN "LIVE" ELSE s.environment

\* RuntimeControl.mode: the stored mode, else the configured default.
Mode(s) == LET stored == rows[Database(s)].mode
           IN IF stored # Unset THEN stored ELSE s.default_mode

\* RuntimeControl.limits, for one limit.
PerDay == LET o == rows[Database(run.settings)].limits.per_day
          IN IF o # Unset THEN o ELSE run.settings.per_day

\* The required checks of live_readiness that fail for a process with
\* settings s; the simulation has none.
Failing(s) ==
  IF s.environment # "LIVE" THEN {}
  ELSE {c \in {"control_token", "send_lane", "browser_session", "lanes", "approved_sends"} :
          CASE c = "control_token" -> ~scene.token
            [] c = "send_lane" -> ~s.browser
            [] c = "browser_session" -> s.browser /\ account.session # "fresh"
            [] c = "lanes" -> account.trouble
            [] c = "approved_sends" -> account.approved < Need}

\* The settings an actor works with: the program's, or what a new command loads.
SettingsOf(a) == IF a = Cli THEN Saved ELSE run.settings

\* The program is at work: past its guard, or started without one.
AtWork == run.up /\ run.guard \in {"passed", "none"}

\* An actor can begin something: the page only while the program serves it.
Free(a) == job[a] = Idle /\ (a = Cli \/ AtWork)

-----------------------------------------------------------------------------
(* Changing settings                                                       *)

\* Another actor is between the read and the write of something saved.
Editing(a) == \E b \in Actors \ {a} : job[b].at \in {"apply", "unset", "limits"}

\* SettingsEditor.apply, up to the read of the overlay file.
AskChange(t, want, test) ==
  /\ Free(t)
  /\ job' = [job EXCEPT ![t] = [at |-> "apply", want |-> want, test |-> test, seen |-> overlay]]
  /\ overlapped' = (overlapped \/ Editing(t))
  /\ UNCHANGED <<scene, overlay, run, rows, account, cleared, preset>>

\* The rest of apply: validated as a whole, written, then applied.
Apply(t) ==
  /\ job[t].at = "apply"
  /\ LET want == job[t].want
         next == Changed(job[t].seen, want)
         fresh == Compose(next)
     IN IF Refused(fresh)
        THEN /\ job' = [job EXCEPT ![t] = Idle]
             /\ UNCHANGED <<overlay, run, preset>>
        ELSE /\ overlay' = next
             /\ run' = [run EXCEPT !.settings = Adopted(run.settings, fresh, want)]
             /\ job' = [job EXCEPT ![t] = IF job[t].test THEN [at |-> "unset", on |-> want = Preset]
                                          ELSE Idle]
             /\ preset' = IF "per_day" \in DOMAIN want THEN Unset ELSE preset
  /\ UNCHANGED <<scene, rows, account, cleared, overlapped>>

ChangeSettings(t) == \E want \in scene.requests : AskChange(t, want, FALSE)
SetTestMode(t) == scene.testing /\ \E want \in {Preset, LeavePreset} : AskChange(t, want, TRUE)

-----------------------------------------------------------------------------
(* Limit overrides: read in one transaction, written in another            *)

\* unset_limit_overrides, at the end of set_test_mode.
Dropped(limits) == [limits EXCEPT !.per_day = Unset]

Unhide(t) ==
  /\ job[t].at = "unset"
  /\ LET env == Database(run.settings)
         limits == rows[env].limits
     IN IF Dropped(limits) = limits
        THEN /\ job' = [job EXCEPT ![t] = Idle]
             /\ preset' = IF job[t].on THEN env ELSE Unset
        ELSE /\ job' = [job EXCEPT ![t] = [at |-> "limits", env |-> env, limits |-> Dropped(limits),
                                           leaves |-> IF job[t].on THEN env ELSE Unset]]
             /\ UNCHANGED preset
  /\ UNCHANGED <<scene, overlay, run, rows, account, cleared, overlapped>>

\* set_limit_overrides: the current overrides with one more.
AskLimit(a) ==
  /\ Free(a)
  /\ LET env == Database(SettingsOf(a))
     IN \E k \in LimitKeys, v \in scene.limits :
          job' = [job EXCEPT ![a] = [at |-> "limits", env |-> env,
                                     limits |-> [rows[env].limits EXCEPT ![k] = v],
                                     leaves |-> IF k = "per_day" THEN Unset ELSE preset]]
  /\ overlapped' = (overlapped \/ Editing(a))
  /\ UNCHANGED <<scene, overlay, run, rows, account, cleared, preset>>

WriteLimits(a) ==
  /\ job[a].at = "limits"
  /\ rows' = [rows EXCEPT ![job[a].env].limits = job[a].limits]
  /\ preset' = job[a].leaves
  /\ job' = [job EXCEPT ![a] = Idle]
  /\ UNCHANGED <<scene, overlay, run, account, cleared, overlapped>>

ClearLimits(a) ==
  /\ Free(a) /\ scene.limits # {}
  /\ rows' = [rows EXCEPT ![Database(SettingsOf(a))].limits = NoOverrides]
  /\ UNCHANGED <<scene, overlay, run, job, account, cleared, overlapped, preset>>

-----------------------------------------------------------------------------
(* The mode                                                                *)

\* ControlService.set_mode of a confirmed request, up to the checks.
AskMode(a) ==
  /\ Free(a)
  /\ \E m \in scene.modes :
       /\ m = "AUTONOMOUS" => Failing(SettingsOf(a)) = {}
       /\ job' = [job EXCEPT ![a] = [at |-> "mode", env |-> Database(SettingsOf(a)), mode |-> m,
                                      live |-> SettingsOf(a).environment = "LIVE"]]
  /\ UNCHANGED <<scene, overlay, run, rows, account, cleared, overlapped, preset>>

WriteMode(a) ==
  /\ job[a].at = "mode"
  /\ rows' = [rows EXCEPT ![job[a].env].mode = job[a].mode]
  /\ cleared' = IF job[a].env # "LIVE" THEN cleared
                ELSE IF job[a].mode # "AUTONOMOUS" THEN "no"
                ELSE IF job[a].live THEN "checked" ELSE "switched in LOCAL"
  /\ job' = [job EXCEPT ![a] = Idle]
  /\ UNCHANGED <<scene, overlay, run, account, overlapped, preset>>

-----------------------------------------------------------------------------
(* Stop and start                                                          *)

\* A restart asked for, or a crash: the requests it was serving end there.
Stop ==
  /\ run.up
  /\ run' = [run EXCEPT !.up = FALSE, !.guard = "passed"]
  /\ job' = [a \in Actors |-> IF a \in Threads THEN Idle ELSE job[a]]
  /\ UNCHANGED <<scene, overlay, rows, account, cleared, overlapped, preset>>

\* insta-outreach run
Start ==
  /\ ~run.up /\ Boots(Saved)
  /\ run' = [up |-> TRUE, settings |-> Saved, guard |-> "due"]
  /\ cleared' = "no"
  /\ UNCHANGED <<scene, overlay, job, rows, account, overlapped, preset>>

\* insta-outreach serve: the page and its requests, POST /api/tick among them.
\* Nobody looks at the mode, which stays as it is found.
Serve ==
  /\ scene.serving
  /\ ~run.up /\ Boots(Saved)
  /\ run' = [up |-> TRUE, settings |-> Saved, guard |-> "none"]
  /\ cleared' = "as found"
  /\ UNCHANGED <<scene, overlay, job, rows, account, overlapped, preset>>

\* (mutant) Only a stored mode is looked at.
GuardedStored(s) == s.environment = "LIVE" /\ rows[Database(s)].mode = "AUTONOMOUS"

\* startup_guard: does this start have to be looked at?
Guarded(s) == s.environment = "LIVE" /\ Mode(s) = "AUTONOMOUS"

\* _run_once: the guard's look at the checks, and its step down to APPROVAL.
StartupGuard ==
  /\ run.up /\ run.guard = "due"
  /\ LET fails == Guarded(run.settings) /\ Failing(run.settings) # {}
     IN /\ run' = [run EXCEPT !.guard = IF fails THEN "steps down" ELSE "passed"]
        /\ cleared' = IF Guarded(run.settings) /\ ~fails THEN "checked" ELSE cleared
  /\ UNCHANGED <<scene, overlay, job, rows, account, overlapped, preset>>

StepDown ==
  /\ run.up /\ run.guard = "steps down"
  /\ rows' = [rows EXCEPT ![Database(run.settings)].mode = "APPROVAL"]
  /\ run' = [run EXCEPT !.guard = "passed"]
  /\ cleared' = "no"
  /\ UNCHANGED <<scene, overlay, job, account, overlapped, preset>>

-----------------------------------------------------------------------------
(* What happens on the live account                                        *)

\* It ticks there, by itself or when the page asks.
Live == AtWork /\ run.settings.environment = "LIVE"

\* A lane halts or a warning opens; a login or a read proves the session; a
\* message that Rohit approved is sent.
Happens ==
  /\ Live /\ scene.happens
  /\ \/ account' = [account EXCEPT !.trouble = ~account.trouble]
     \/ run.settings.browser /\ account' = [account EXCEPT !.session = "fresh"]
     \/ /\ account.approved < Need /\ Mode(run.settings) \in {"APPROVAL", "AUTONOMOUS"}
        /\ account' = [account EXCEPT !.approved = @ + 1]
  /\ account' # account
  /\ UNCHANGED <<scene, overlay, run, job, rows, cleared, overlapped, preset>>

\* browser_session_max_age_days pass, whether the program runs or not.
SessionAges ==
  /\ scene.happens /\ account.session = "fresh"
  /\ account' = [account EXCEPT !.session = "stale"]
  /\ UNCHANGED <<scene, overlay, run, job, rows, cleared, overlapped, preset>>

-----------------------------------------------------------------------------
Init ==
  /\ scene \in Scenes
  /\ overlay = NoOverlay
  /\ run = [up |-> FALSE, settings |-> Compose(overlay), guard |-> "passed"]
  /\ job = [a \in Actors |-> Idle]
  /\ rows = [e \in Environments |->
               [mode |-> Unset, limits |-> [NoOverrides EXCEPT !.per_day = scene.override]]]
  /\ account = [session |-> "never", trouble |-> FALSE, approved |-> 0]
  /\ cleared = "no" /\ overlapped = FALSE /\ preset = Unset

Next ==
  \/ \E t \in Threads : ChangeSettings(t) \/ SetTestMode(t) \/ Apply(t) \/ Unhide(t)
  \/ \E a \in Actors : AskLimit(a) \/ WriteLimits(a) \/ ClearLimits(a) \/ AskMode(a) \/ WriteMode(a)
  \/ Stop \/ Start \/ Serve \/ StartupGuard \/ StepDown
  \/ Happens \/ SessionAges

Spec == Init /\ [][Next]_vars

-----------------------------------------------------------------------------
(* Properties                                                              *)

Overrides == [LimitKeys -> Nat \union {Unset}]
JobOK(j) ==
  /\ j.at \in {"idle", "apply", "unset", "limits", "mode"}
  /\ j.at = "idle" => j = Idle
  /\ j.at = "apply" =>
       /\ j = [at |-> "apply", want |-> j.want, test |-> j.test, seen |-> j.seen]
       /\ j.test \in BOOLEAN /\ Layer(j.want) /\ DOMAIN j.seen = Keys /\ Layer(j.seen)
  /\ j.at = "unset" => j = [at |-> "unset", on |-> j.on] /\ j.on \in BOOLEAN
  /\ j.at = "limits" =>
       /\ j = [at |-> "limits", env |-> j.env, limits |-> j.limits, leaves |-> j.leaves]
       /\ j.env \in Environments /\ j.limits \in Overrides
       /\ j.leaves \in Environments \union {Unset}
  /\ j.at = "mode" =>
       /\ j = [at |-> "mode", env |-> j.env, mode |-> j.mode, live |-> j.live]
       /\ j.env \in Environments /\ j.mode \in Modes /\ j.live \in BOOLEAN

\* Every variable keeps to its type: settings to their fields', a mode and a limit to the
\* database, a request to what it has read (editable_settings.py, runtime.py).
TypeOK ==
  /\ scene \in Scenes
  /\ DOMAIN overlay = Keys /\ Layer(overlay)
  /\ run = [up |-> run.up, settings |-> run.settings, guard |-> run.guard]
  /\ run.up \in BOOLEAN /\ Complete(run.settings) /\ run.guard \in {"due", "steps down", "passed", "none"}
  /\ DOMAIN job = Actors /\ \A a \in Actors : JobOK(job[a])
  /\ rows \in [Environments -> [mode : Modes \union {Unset}, limits : Overrides]]
  /\ account \in [session : {"never", "fresh", "stale"}, trouble : BOOLEAN, approved : 0..Need]
  /\ cleared \in {"no", "checked", "as found", "switched in LOCAL"} /\ overlapped \in BOOLEAN
  /\ preset \in Environments \union {Unset}

\* The file Mission Control writes never holds settings the program cannot
\* start from, not even after requests that overlapped: each request validates
\* and replaces the whole file (apply, _live_adapters).
StartsFromSaved == Boots(Saved)

\* A setting that needs no restart runs as it is saved, through changes,
\* resets, refusals, environment variables and restarts, unless two requests
\* overlapped and one lost its change (apply reads the file, then writes it).
RunsAsSaved ==
  (run.up /\ ~overlapped) => \A k \in AtOnceKeys : run.settings[k] = Saved[k]

\* A program started by `run` never works AUTONOMOUS on the live account unless
\* every go-live check passed when it was switched or when it started: whatever
\* was stored, configured, switched from a terminal or found by the startup
\* guard.  One started by `serve`, which has no guard, may find AUTONOMOUS and
\* stays so until it is switched; a switch is checked there, too.  With one
\* database for both environments, a switch made for LOCAL reaches the live
\* account unchecked.
NeverUnchecked ==
  (Live /\ Mode(run.settings) = "AUTONOMOUS") =>
    \/ cleared = "checked"
    \/ cleared = "as found" /\ run.guard = "none"
    \/ cleared = "switched in LOCAL" /\ scene.shared

\* Once test mode is on, its one message a day is the limit that applies in
\* its database until Rohit sets another, whatever overrides there were
\* (set_test_mode), unless requests overlapped.
PresetHolds ==
  (run.up /\ ~overlapped /\ preset = Database(run.settings) /\ scene.environ.per_day = Unset)
    => PerDay = 1

\* What Rohit has set is what runs (apply, RuntimeControl).
RunsAsSet == RunsAsSaved /\ PresetHolds
=============================================================================
