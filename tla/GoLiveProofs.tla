---------------------------- MODULE GoLiveProofs ----------------------------
(***************************************************************************)
(* Proofs about settings, mode and limits, for any number of requests at a *)
(* time, any fields asked for and any files at the start.                  *)
(*                                                                         *)
(* The type invariant is inductive as it stands.  Each property needs to   *)
(* know what a request has in memory: what it will write is still what is  *)
(* saved, changed only as it was asked to (OneEditor, ReadIsCurrent).      *)
(***************************************************************************)
EXTENDS GoLive, TLAPS

\* What the program composes from its sources is complete and typed.
LEMMA ComposeTyped ==
  ASSUME NEW s \in Scenes, NEW o, DOMAIN o = Keys, Layer(o)
  PROVE  Complete(Composed(s, o))
<1>1. \A k \in Keys : /\ s.yaml[k] \in Fields[k]
                      /\ s.environ[k] \in Fields[k] \union {Unset}
                      /\ o[k] \in Fields[k] \union {Unset}
  BY GoLiveAssumption DEF Complete, Layer
<1>2. \A k \in Keys : Composed(s, o)[k] \in Fields[k]
  BY <1>1 DEF Composed
<1> QED
  BY <1>2 DEF Complete

\* A request changes the layer it has read into a layer.
LEMMA ChangedTyped ==
  ASSUME NEW o, DOMAIN o = Keys, Layer(o), NEW want, Layer(want)
  PROVE  DOMAIN Changed(o, want) = Keys /\ Layer(Changed(o, want))
BY DEF Changed, Layer

LEMMA FieldFacts ==
  /\ Fields["environment"] = Environments /\ Fields["default_mode"] = Modes
  /\ Fields["per_day"] = Nat
  /\ \A k \in {"sandbox", "searching"} : Fields[k] = BOOLEAN
BY DEF Fields

\* Settings that are complete name an environment and a mode.
LEMMA SettingsTyped ==
  ASSUME NEW s, Complete(s)
  PROVE  s.environment \in Environments /\ s.default_mode \in Modes /\ s.per_day \in Nat
BY FieldFacts DEF Complete, Keys, RestartKeys, AtOnceKeys

\* A process works with one of the databases.
LEMMA DatabaseTyped ==
  ASSUME NEW s, Complete(s)
  PROVE  Database(s) \in Environments
BY SettingsTyped DEF Database, Environments

LEMMA PresetTyped == Layer(Preset) /\ Layer(LeavePreset)
<1>1. DOMAIN Preset = {"sandbox", "per_day", "searching"} /\ DOMAIN LeavePreset = DOMAIN Preset
  BY DEF Preset, LeavePreset
<1>2. /\ Preset["sandbox"] \in BOOLEAN /\ Preset["per_day"] \in Nat /\ Preset["searching"] \in BOOLEAN
      /\ LeavePreset["sandbox"] = Unset /\ LeavePreset["per_day"] \in Nat
      /\ LeavePreset["searching"] \in BOOLEAN
  BY DEF Preset, LeavePreset
<1> QED
  BY <1>1, <1>2, FieldFacts DEF Layer

-----------------------------------------------------------------------------
LEMMA TypeInit == Init => TypeOK
<1> SUFFICES ASSUME Init PROVE TypeOK
  OBVIOUS
<1>1. DOMAIN overlay = Keys /\ Layer(overlay)
  BY DEF Init, NoOverlay, Layer
<1>2. Complete(run.settings)
  BY <1>1, ComposeTyped DEF Init, Compose
<1>3. rows \in [Environments -> [mode : Modes \union {Unset}, limits : Overrides]]
  <2>1. [NoOverrides EXCEPT !.per_day = scene.override] \in Overrides
    BY GoLiveAssumption DEF Init, NoOverrides, Overrides, LimitKeys
  <2> QED
    BY <2>1 DEF Init
<1>4. DOMAIN job = Actors /\ \A a \in Actors : JobOK(job[a])
  BY DEF Init, JobOK, Idle
<1>5. scene \in Scenes /\ account \in [session : {"never", "fresh", "stale"}, trouble : BOOLEAN, approved : 0..Need]
  BY GoLiveAssumption DEF Init
<1>6. /\ run = [up |-> run.up, settings |-> run.settings, guard |-> run.guard]
      /\ run.up \in BOOLEAN /\ run.guard \in {"due", "steps down", "passed", "none"}
      /\ cleared \in {"no", "checked", "as found", "switched in LOCAL"} /\ overlapped \in BOOLEAN /\ preset \in Environments \union {Unset}
  BY DEF Init
<1> QED
  BY <1>1, <1>2, <1>3, <1>4, <1>5, <1>6 DEF TypeOK

\* The settings an actor works with are complete.
LEMMA ActorSettings ==
  ASSUME TypeOK, NEW a \in Actors
  PROVE  Database(SettingsOf(a)) \in Environments /\ Complete(Saved)
<1>1. Complete(Saved)
  BY ComposeTyped DEF TypeOK, Saved, Compose
<1> QED
  BY <1>1, DatabaseTyped DEF SettingsOf, TypeOK

LEMMA TypeNext == TypeOK /\ [Next]_vars => TypeOK'
<1> SUFFICES ASSUME TypeOK, [Next]_vars PROVE TypeOK'
  OBVIOUS
<1>1. ASSUME NEW t \in Threads, NEW want, NEW test \in BOOLEAN, Layer(want), AskChange(t, want, test)
      PROVE  TypeOK'
  <2>1. JobOK([at |-> "apply", want |-> want, test |-> test, seen |-> overlay])
    BY <1>1 DEF TypeOK, JobOK
  <2> QED
    BY <1>1, <2>1 DEF AskChange, TypeOK, Actors
<1>2. ASSUME NEW t \in Threads, ChangeSettings(t) PROVE TypeOK'
  <2>1. PICK want \in scene.requests : AskChange(t, want, FALSE)
    BY <1>2 DEF ChangeSettings
  <2>2. Layer(want)
    BY <2>1, GoLiveAssumption DEF TypeOK
  <2> QED
    BY <1>1, <2>1, <2>2
<1>3. ASSUME NEW t \in Threads, SetTestMode(t) PROVE TypeOK'
  BY <1>1, <1>3, PresetTyped DEF SetTestMode
<1>4. ASSUME NEW t \in Threads, Apply(t) PROVE TypeOK'
  <2> DEFINE want == job[t].want
             next == Changed(job[t].seen, want)
             fresh == Compose(next)
  <2>1. JobOK(job[t]) /\ t \in Actors /\ job[t].at = "apply"
    BY <1>4 DEF Apply, TypeOK, Actors
  <2>2. DOMAIN next = Keys /\ Layer(next)
    BY <2>1, ChangedTyped DEF JobOK
  <2>3. Complete(fresh)
    BY <2>2, ComposeTyped DEF TypeOK, Compose
  <2>4. Complete(Adopted(run.settings, fresh, want))
    BY <2>3 DEF TypeOK, Complete, Adopted
  <2>5. JobOK(Idle) /\ JobOK([at |-> "unset", on |-> want = Preset])
    BY DEF JobOK, Idle
  <2>6. CASE Refused(fresh)
    BY <2>6, <2>5, <1>4 DEF Apply, TypeOK
  <2>7. CASE ~Refused(fresh)
    <3>1. overlay' = next /\ run' = [run EXCEPT !.settings = Adopted(run.settings, fresh, want)]
      BY <2>7, <1>4 DEF Apply
    <3>2. /\ run' = [up |-> run'.up, settings |-> run'.settings, guard |-> run'.guard]
          /\ run'.up = run.up /\ run'.guard = run.guard
          /\ run'.settings = Adopted(run.settings, fresh, want)
      BY <3>1 DEF TypeOK
    <3>3. preset' \in Environments \union {Unset}
      BY <2>7, <1>4 DEF Apply, TypeOK
    <3>4. DOMAIN job' = Actors /\ \A a \in Actors : JobOK(job'[a])
      BY <2>7, <1>4, <2>5 DEF Apply, TypeOK
    <3> QED
      BY <1>4, <2>2, <2>4, <3>1, <3>2, <3>3, <3>4 DEF Apply, TypeOK
  <2> QED
    BY <2>6, <2>7
<1>5. ASSUME NEW t \in Threads, Unhide(t) PROVE TypeOK'
  <2>1. JobOK(job[t]) /\ t \in Actors /\ job[t].at = "unset"
    BY <1>5 DEF Unhide, TypeOK, Actors
  <2>2. Database(run.settings) \in Environments
    BY DatabaseTyped DEF TypeOK
  <2>3. Dropped(rows[Database(run.settings)].limits) \in Overrides
    BY <2>2 DEF TypeOK, Dropped, Overrides
  <2> DEFINE env == Database(run.settings)
             limits == rows[env].limits
             on == IF job[t].on THEN env ELSE Unset
             new == [at |-> "limits", env |-> env, limits |-> Dropped(limits), leaves |-> on]
  <2>4. JobOK(Idle) /\ JobOK(new)
    BY <2>2, <2>3 DEF JobOK, Idle
  <2>5. /\ job' = [job EXCEPT ![t] = Idle] \/ job' = [job EXCEPT ![t] = new]
        /\ preset' \in {preset, on}
    BY <1>5 DEF Unhide
  <2>6. DOMAIN job' = Actors /\ \A a \in Actors : JobOK(job'[a])
    BY <2>4, <2>5 DEF TypeOK
  <2>7. preset' \in Environments \union {Unset}
    BY <2>2, <2>5 DEF TypeOK
  <2> QED
    BY <1>5, <2>6, <2>7 DEF Unhide, TypeOK
<1>6. ASSUME NEW a \in Actors, AskLimit(a) PROVE TypeOK'
  <2> DEFINE env == Database(SettingsOf(a))
  <2>1. env \in Environments
    BY ActorSettings
  <2>2. PICK k \in LimitKeys, v \in scene.limits :
          job' = [job EXCEPT ![a] = [at |-> "limits", env |-> env,
                                     limits |-> [rows[env].limits EXCEPT ![k] = v],
                                     leaves |-> IF k = "per_day" THEN Unset ELSE preset]]
    BY <1>6 DEF AskLimit
  <2>3. [rows[env].limits EXCEPT ![k] = v] \in Overrides
    BY <2>1, GoLiveAssumption DEF TypeOK, Overrides
  <2>4. JobOK([at |-> "limits", env |-> env, limits |-> [rows[env].limits EXCEPT ![k] = v],
               leaves |-> IF k = "per_day" THEN Unset ELSE preset])
    BY <2>1, <2>3 DEF TypeOK, JobOK
  <2>5. DOMAIN job' = Actors /\ \A b \in Actors : JobOK(job'[b])
    BY <2>2, <2>4 DEF TypeOK
  <2> QED
    BY <1>6, <2>5 DEF AskLimit, TypeOK, Editing
<1>7. ASSUME NEW a \in Actors, WriteLimits(a) PROVE TypeOK'
  <2>1. JobOK(job[a]) /\ JobOK(Idle)
    BY DEF TypeOK, JobOK, Idle
  <2>2. job[a].env \in Environments /\ job[a].limits \in Overrides /\ job[a].leaves \in Environments \union {Unset}
    BY <1>7, <2>1 DEF WriteLimits, JobOK
  <2> QED
    BY <1>7, <2>1, <2>2 DEF WriteLimits, TypeOK
<1>8. ASSUME NEW a \in Actors, ClearLimits(a) PROVE TypeOK'
  <2>1. NoOverrides \in Overrides
    BY DEF NoOverrides, Overrides
  <2>2. Database(SettingsOf(a)) \in Environments
    BY ActorSettings
  <2>3. rows' \in [Environments -> [mode : Modes \union {Unset}, limits : Overrides]]
    BY <1>8, <2>1, <2>2 DEF ClearLimits, TypeOK
  <2> QED
    BY <1>8, <2>3 DEF ClearLimits, TypeOK
<1>9. ASSUME NEW a \in Actors, AskMode(a) PROVE TypeOK'
  <2>1. PICK m \in scene.modes :
          job' = [job EXCEPT ![a] = [at |-> "mode", env |-> Database(SettingsOf(a)), mode |-> m,
                                     live |-> SettingsOf(a).environment = "LIVE"]]
    BY <1>9 DEF AskMode
  <2>2. JobOK([at |-> "mode", env |-> Database(SettingsOf(a)), mode |-> m,
               live |-> SettingsOf(a).environment = "LIVE"])
    BY <2>1, ActorSettings, GoLiveAssumption DEF TypeOK, JobOK
  <2> QED
    BY <1>9, <2>1, <2>2 DEF AskMode, TypeOK
<1>10. ASSUME NEW a \in Actors, WriteMode(a) PROVE TypeOK'
  <2>1. job[a].env \in Environments /\ job[a].mode \in Modes
    BY <1>10 DEF WriteMode, TypeOK, JobOK
  <2>2. JobOK(Idle)
    BY DEF JobOK, Idle
  <2> QED
    BY <1>10, <2>1, <2>2 DEF WriteMode, TypeOK
<1>11. CASE Stop
  <2>1. JobOK(Idle)
    BY DEF JobOK, Idle
  <2> QED
    BY <1>11, <2>1 DEF Stop, TypeOK
<1>12. CASE Start \/ Serve
  <2>1. Complete(Saved)
    BY ComposeTyped DEF TypeOK, Saved, Compose
  <2>2. CASE Start
    BY <2>1, <2>2 DEF Start, TypeOK
  <2>3. CASE Serve
    BY <2>1, <2>3 DEF Serve, TypeOK
  <2> QED
    BY <1>12, <2>2, <2>3
<1>13. CASE StartupGuard
  BY <1>13 DEF StartupGuard, TypeOK, Guarded
<1>14. CASE StepDown
  BY <1>14, DatabaseTyped DEF StepDown, TypeOK, Modes
<1>15. CASE Happens
  <2>1. account' \in [session : {"never", "fresh", "stale"}, trouble : BOOLEAN, approved : 0..Need]
    <3>1. CASE account' = [account EXCEPT !.trouble = ~account.trouble]
      BY <3>1 DEF TypeOK
    <3>2. CASE account' = [account EXCEPT !.session = "fresh"]
      BY <3>2 DEF TypeOK
    <3>3. CASE account.approved < Need /\ account' = [account EXCEPT !.approved = @ + 1]
      <4>1. account.approved \in 0..Need /\ Need \in Nat
        BY GoLiveAssumption DEF TypeOK
      <4>2. account.approved + 1 \in 0..Need
        BY <3>3, <4>1
      <4> QED
        BY <3>3, <4>2 DEF TypeOK
    <3> QED
      BY <1>15, <3>1, <3>2, <3>3 DEF Happens
  <2> QED
    BY <1>15, <2>1 DEF Happens, TypeOK
<1>16. CASE SessionAges
  BY <1>16 DEF SessionAges, TypeOK
<1>17. CASE UNCHANGED vars
  BY <1>17 DEF vars, TypeOK
<1> QED
  BY <1>2, <1>3, <1>4, <1>5, <1>6, <1>7, <1>8, <1>9, <1>10, <1>11, <1>12, <1>13, <1>14, <1>15,
     <1>16, <1>17 DEF Next, Actors

\* Every variable keeps to its type (editable_settings.py, runtime.py): what is saved is always a
\* whole layer of typed values, what runs a complete set of settings.
THEOREM GoLiveTypesCorrect == Spec => []TypeOK
BY TypeInit, TypeNext, PTL DEF Spec

-----------------------------------------------------------------------------
(* The saved file starts.                                                   *)

\* What apply() does not refuse starts.
LEMMA AcceptedBoots == \A s : ~Refused(s) => Boots(s)
BY DEF Refused, Boots

\* Whatever requests overlap, the saved settings are such that the program starts
\* (SettingsEditor.apply, _live_adapters).
THEOREM SavedFileStarts == Spec => []StartsFromSaved
<1>1. Init => StartsFromSaved
  BY GoLiveAssumption DEF Init, StartsFromSaved, Saved, Compose
<1>2. ASSUME StartsFromSaved, [Next]_vars PROVE StartsFromSaved'
  <2>1. ASSUME overlay' = overlay, scene' = scene PROVE StartsFromSaved'
    <3>1. Saved' = Saved
      BY <2>1 DEF Saved, Compose, Composed
    <3> QED
      BY <1>2, <3>1 DEF StartsFromSaved
  <2>2. ASSUME NEW t \in Threads, Apply(t) PROVE StartsFromSaved'
    <3>1. CASE overlay' = overlay
      BY <2>1, <2>2, <3>1 DEF Apply
    <3>2. CASE overlay' # overlay
      <4>1. ~Refused(Compose(Changed(job[t].seen, job[t].want)))
            /\ overlay' = Changed(job[t].seen, job[t].want)
        BY <2>2, <3>2 DEF Apply
      <4>2. Saved' = Compose(Changed(job[t].seen, job[t].want))
        BY <2>2, <4>1 DEF Apply, Saved, Compose, Composed
      <4> QED
        BY <4>1, <4>2, AcceptedBoots DEF StartsFromSaved
    <3> QED
      BY <3>1, <3>2
  <2> QED
    BY <1>2, <2>1, <2>2
    DEF Next, vars, ChangeSettings, SetTestMode, AskChange, Unhide, AskLimit, WriteLimits, ClearLimits,
        AskMode, WriteMode, Stop, Start, Serve, StartupGuard, StepDown, Happens, SessionAges
<1> QED
  BY <1>1, <1>2, PTL DEF Spec

-----------------------------------------------------------------------------
(* No AUTONOMOUS on the live account without the checks.                    *)

\* What the files hold and what is asked is the same for the whole behaviour.
LEMMA SceneStays == [Next]_vars => scene' = scene
BY DEF Next, vars, ChangeSettings, SetTestMode, AskChange, Apply, Unhide, AskLimit, WriteLimits,
   ClearLimits, AskMode, WriteMode, Stop, Start, Serve, StartupGuard, StepDown, Happens, SessionAges

\* A change of settings leaves environment and default mode of the running program alone.
LEMMA RestartKeysStay ==
  ASSUME TypeOK, NEW t \in Threads, Apply(t)
  PROVE  /\ run'.up = run.up /\ run'.guard = run.guard
         /\ run'.settings.environment = run.settings.environment
         /\ run'.settings.default_mode = run.settings.default_mode
<1> DEFINE want == job[t].want
           fresh == Compose(Changed(job[t].seen, want))
<1>1. CASE run' = run
  BY <1>1
<1>2. CASE run' = [run EXCEPT !.settings = Adopted(run.settings, fresh, want)]
  <2>1. run'.up = run.up /\ run'.guard = run.guard /\ run'.settings = Adopted(run.settings, fresh, want)
    BY <1>2 DEF TypeOK
  <2> QED
    BY <2>1 DEF Adopted, Keys, RestartKeys, AtOnceKeys
<1> QED
  BY <1>1, <1>2 DEF Apply

\* A switch under way is of the database of the environment it was asked in.
SwitchesKnown ==
  \A a \in Actors :
    (job[a].at = "mode" /\ job[a].env = "LIVE" /\ ~job[a].live) => scene.shared

LEMMA SwitchesNext == TypeOK /\ SwitchesKnown /\ [Next]_vars => SwitchesKnown'
<1> SUFFICES ASSUME TypeOK, SwitchesKnown, [Next]_vars PROVE SwitchesKnown'
  OBVIOUS
<1>1. scene' = scene
  BY SceneStays
<1>2. ASSUME \A b \in Actors : job'[b] = job[b] \/ job'[b].at # "mode"
      PROVE  SwitchesKnown'
  BY <1>1, <1>2 DEF SwitchesKnown
<1>3. ASSUME NEW a \in Actors, NEW j, job' = [job EXCEPT ![a] = j], j.at # "mode"
      PROVE  SwitchesKnown'
  BY <1>2, <1>3 DEF TypeOK
<1>4. ASSUME NEW t \in Threads, ChangeSettings(t) \/ SetTestMode(t) PROVE SwitchesKnown'
  <2>1. PICK want, test : AskChange(t, want, test)
    BY <1>4 DEF ChangeSettings, SetTestMode
  <2> DEFINE j == [at |-> "apply", want |-> want, test |-> test, seen |-> overlay]
  <2>2. job' = [job EXCEPT ![t] = j] /\ j.at = "apply"
    BY <2>1 DEF AskChange
  <2> HIDE DEF j
  <2> QED
    BY <1>3, <2>2 DEF Actors
<1>5. ASSUME NEW t \in Threads, Apply(t) PROVE SwitchesKnown'
  <2> DEFINE unset == [at |-> "unset", on |-> job[t].want = Preset]
  <2>1. job' = [job EXCEPT ![t] = Idle] \/ job' = [job EXCEPT ![t] = unset]
    BY <1>5 DEF Apply
  <2>2. Idle.at # "mode" /\ unset.at # "mode"
    BY DEF Idle
  <2> HIDE DEF unset
  <2> QED
    BY <1>3, <2>1, <2>2 DEF Actors
<1>6. ASSUME NEW t \in Threads, Unhide(t) PROVE SwitchesKnown'
  <2>1. PICK j : job' = [job EXCEPT ![t] = j] /\ j.at # "mode"
    BY <1>6 DEF Unhide, Idle
  <2> QED
    BY <1>3, <2>1 DEF Actors
<1>7. ASSUME NEW a \in Actors, AskLimit(a) PROVE SwitchesKnown'
  <2>1. PICK k \in LimitKeys, v \in scene.limits :
          job' = [job EXCEPT ![a] = [at |-> "limits", env |-> Database(SettingsOf(a)),
                                     limits |-> [rows[Database(SettingsOf(a))].limits EXCEPT ![k] = v],
                                     leaves |-> IF k = "per_day" THEN Unset ELSE preset]]
    BY <1>7 DEF AskLimit
  <2>2. job'[a].at = "limits" /\ \A b \in Actors : b # a => job'[b] = job[b]
    BY <2>1 DEF TypeOK
  <2> QED
    BY <1>2, <2>2
<1>8. ASSUME NEW a \in Actors, WriteLimits(a) \/ WriteMode(a) PROVE SwitchesKnown'
  <2>1. job' = [job EXCEPT ![a] = Idle] /\ Idle.at # "mode"
    BY <1>8 DEF WriteLimits, WriteMode, Idle
  <2> QED
    BY <1>3, <2>1
<1>9. ASSUME NEW a \in Actors, AskMode(a) PROVE SwitchesKnown'
  <2>1. PICK m \in scene.modes :
          job' = [job EXCEPT ![a] = [at |-> "mode", env |-> Database(SettingsOf(a)), mode |-> m,
                                     live |-> SettingsOf(a).environment = "LIVE"]]
    BY <1>9 DEF AskMode
  <2>2. Database(SettingsOf(a)) = "LIVE" /\ SettingsOf(a).environment # "LIVE" => scene.shared
    BY DEF Database
  <2>3. \A b \in Actors : b # a => job'[b] = job[b]
    BY <2>1 DEF TypeOK
  <2>4. /\ job'[a].env = Database(SettingsOf(a))
        /\ job'[a].live <=> SettingsOf(a).environment = "LIVE"
    BY <2>1 DEF TypeOK
  <2> QED
    BY <1>1, <2>2, <2>3, <2>4 DEF SwitchesKnown
<1>10. CASE Stop
  BY <1>2, <1>10 DEF Stop, Idle
<1>11. ASSUME UNCHANGED job PROVE SwitchesKnown'
  BY <1>2, <1>11
<1> QED
  BY <1>4, <1>5, <1>6, <1>7, <1>8, <1>9, <1>10, <1>11
  DEF Next, vars, Actors, ClearLimits, Start, Serve, StartupGuard, StepDown, Happens, SessionAges

LEMMA UncheckedNext == TypeOK /\ SwitchesKnown /\ NeverUnchecked /\ [Next]_vars => NeverUnchecked'
<1> SUFFICES ASSUME TypeOK, SwitchesKnown, NeverUnchecked, [Next]_vars PROVE NeverUnchecked'
  OBVIOUS
<1>1. ASSUME /\ run'.up = run.up /\ run'.guard = run.guard
             /\ run'.settings.environment = run.settings.environment
             /\ run'.settings.default_mode = run.settings.default_mode
             /\ \A e \in Environments : rows'[e].mode = rows[e].mode
             /\ cleared' = cleared /\ scene' = scene
      PROVE  NeverUnchecked'
  <2>1. Database(run.settings)' = Database(run.settings) /\ Database(run.settings) \in Environments
    BY <1>1, DatabaseTyped DEF TypeOK, Database
  <2>2. Mode(run.settings)' = Mode(run.settings)
    BY <1>1, <2>1 DEF Mode
  <2> QED
    BY <1>1, <2>2 DEF NeverUnchecked, Live, AtWork
<1>2. ASSUME NEW t \in Threads, Apply(t) PROVE NeverUnchecked'
  <2>1. UNCHANGED <<scene, rows, cleared>>
    BY <1>2 DEF Apply
  <2> QED
    BY <1>1, <1>2, <2>1, RestartKeysStay
<1>3. ASSUME NEW a \in Actors, WriteLimits(a) PROVE NeverUnchecked'
  <2>1. \A e \in Environments : rows'[e].mode = rows[e].mode
    BY <1>3 DEF WriteLimits, TypeOK
  <2>2. run' = run /\ cleared' = cleared /\ scene' = scene
    BY <1>3 DEF WriteLimits
  <2> QED
    BY <1>1, <2>1, <2>2
<1>4. ASSUME NEW a \in Actors, ClearLimits(a) PROVE NeverUnchecked'
  <2>1. \A e \in Environments : rows'[e].mode = rows[e].mode
    BY <1>4 DEF ClearLimits, TypeOK
  <2>2. run' = run /\ cleared' = cleared /\ scene' = scene
    BY <1>4 DEF ClearLimits
  <2> QED
    BY <1>1, <2>1, <2>2
<1>5. ASSUME NEW a \in Actors, WriteMode(a) PROVE NeverUnchecked'
  <2>1. job[a].env \in Environments /\ job[a].mode \in Modes
    BY <1>5 DEF WriteMode, TypeOK, JobOK
  <2>2. run' = run /\ scene' = scene /\ JobOK(job[a])
    BY <1>5 DEF WriteMode, TypeOK
  <2>3. Live' => Database(run.settings)' = "LIVE"
    BY <2>2 DEF Live, Database
  <2>4. CASE job[a].env = "LIVE"
    <3>1. rows'["LIVE"].mode = job[a].mode /\ job[a].mode # Unset
      BY <1>5, <2>1, <2>4, GoLiveAssumption DEF WriteMode, TypeOK, Environments
    <3>2. Live' => Mode(run.settings)' = job[a].mode
      BY <2>3, <3>1 DEF Mode
    <3>3. job[a].mode = "AUTONOMOUS" => cleared' = IF job[a].live THEN "checked" ELSE "switched in LOCAL"
      BY <1>5, <2>4 DEF WriteMode
    <3>4. ~job[a].live => scene.shared
      BY <1>5, <2>4 DEF WriteMode, SwitchesKnown
    <3> QED
      BY <2>2, <3>2, <3>3, <3>4 DEF NeverUnchecked
  <2>5. CASE job[a].env = "LOCAL"
    <3>1. rows'["LIVE"] = rows["LIVE"] /\ cleared' = cleared
      BY <1>5, <2>5 DEF WriteMode, TypeOK, Environments
    <3>2. Live' => Mode(run.settings)' = Mode(run.settings)
      BY <2>2, <2>3, <3>1 DEF Mode, Database
    <3> QED
      BY <2>2, <3>1, <3>2 DEF NeverUnchecked, Live, AtWork
  <2> QED
    BY <2>1, <2>4, <2>5 DEF Environments
<1>6. CASE Stop \/ Start \/ Serve
  <2>1. ASSUME Stop PROVE NeverUnchecked'
    <3>1. run = [up |-> run.up, settings |-> run.settings, guard |-> run.guard]
      BY DEF TypeOK
    <3>2. run'.up = FALSE
      BY <2>1, <3>1 DEF Stop
    <3> QED
      BY <3>2 DEF NeverUnchecked, Live, AtWork
  <2>2. ASSUME Start PROVE NeverUnchecked'
    <3>1. run'.guard = "due"
      BY <2>2 DEF Start
    <3> QED
      BY <3>1 DEF NeverUnchecked, Live, AtWork
  <2>3. ASSUME Serve PROVE NeverUnchecked'
    <3>1. run'.guard = "none" /\ cleared' = "as found"
      BY <2>3 DEF Serve
    <3> QED
      BY <3>1 DEF NeverUnchecked
  <2> QED
    BY <1>6, <2>1, <2>2, <2>3
<1>7. CASE StartupGuard
  <2>1. run'.settings = run.settings /\ rows' = rows /\ scene' = scene
    BY <1>7 DEF StartupGuard, TypeOK
  <2>2. Mode(run.settings)' = Mode(run.settings)
    BY <2>1 DEF Mode, Database
  <2>3. run'.guard = IF Guarded(run.settings) /\ Failing(run.settings) # {} THEN "steps down" ELSE "passed"
    BY <1>7 DEF StartupGuard, TypeOK
  <2>4. Guarded(run.settings) /\ Failing(run.settings) = {} => cleared' = "checked"
    BY <1>7 DEF StartupGuard
  <2> QED
    BY <2>1, <2>2, <2>3, <2>4 DEF NeverUnchecked, Live, AtWork, Guarded
<1>8. CASE StepDown
  <2>1. run'.settings = run.settings /\ scene' = scene
    BY <1>8 DEF StepDown, TypeOK
  <2>2. rows'[Database(run.settings)].mode = "APPROVAL"
    BY <1>8, DatabaseTyped DEF StepDown, TypeOK
  <2>3. "APPROVAL" # Unset
    BY GoLiveAssumption DEF Modes
  <2>4. Mode(run.settings)' = "APPROVAL"
    BY <2>1, <2>2, <2>3 DEF Mode, Database
  <2> QED
    BY <2>4 DEF NeverUnchecked
<1>9. ASSUME UNCHANGED <<scene, run, rows, cleared>> PROVE NeverUnchecked'
  BY <1>1, <1>9
<1> QED
  BY <1>2, <1>3, <1>4, <1>5, <1>6, <1>7, <1>8, <1>9
  DEF Next, vars, ChangeSettings, SetTestMode, AskChange, Unhide, AskLimit, AskMode, Happens, SessionAges

\* A program that `run` has started works AUTONOMOUS on the live account only when every go-live
\* check passed at the switch or at the start, for any files, requests, commands and restarts
\* (ControlService.set_mode, startup_guard).  One that `serve` has started does so, too, once the
\* mode has been switched; before that it works in the mode it has found (cmd_serve).  With one
\* database for both environments, a switch in LOCAL is the only other way there.
THEOREM NeverLiveUnchecked == Spec => []NeverUnchecked
<1>1. Init => NeverUnchecked /\ SwitchesKnown
  BY DEF Init, NeverUnchecked, Live, AtWork, SwitchesKnown, Idle
<1> QED
  BY <1>1, TypeInit, TypeNext, SwitchesNext, UncheckedNext, PTL DEF Spec

-----------------------------------------------------------------------------
(* What is set is what runs.                                                *)

Edits(a) == job[a].at \in {"apply", "unset", "limits"}

\* Unless requests have overlapped, one actor at a time is between a read and its write.
OneEditor == \A a, b \in Actors : Edits(a) /\ Edits(b) => a = b

\* What a request has read is what is saved.
ReadIsCurrent == \A a \in Actors : job[a].at = "apply" => job[a].seen = overlay

\* Where test mode is on, one message a day is saved and no override hides it; the request that
\* puts it on, and one that is writing another limit, leave it so.
PresetKept ==
  /\ preset # Unset => overlay.per_day = 1 /\ rows[preset].limits.per_day = Unset
  /\ \A a \in Actors :
       /\ job[a].at = "unset" /\ job[a].on => overlay.per_day = 1
       /\ job[a].at = "limits" /\ job[a].leaves # Unset =>
            /\ overlay.per_day = 1
            /\ IF job[a].env = job[a].leaves THEN job[a].limits.per_day = Unset
               ELSE rows[job[a].leaves].limits.per_day = Unset

SetInv == ~overlapped => OneEditor /\ ReadIsCurrent /\ PresetKept /\ (run.up => RunsAsSaved)

LEMMA SetInit == Init => SetInv
BY DEF Init, SetInv, OneEditor, ReadIsCurrent, PresetKept, Edits, Idle

\* Once requests have overlapped, they have.
LEMMA OverlapStays == TypeOK /\ [Next]_vars => (overlapped => overlapped')
BY DEF TypeOK, Next, vars, ChangeSettings, SetTestMode, AskChange, Apply, Unhide, AskLimit,
   WriteLimits, ClearLimits,
       AskMode, WriteMode, Stop, Start, Serve, StartupGuard, StepDown, Happens, SessionAges

\* Steps that neither edit nor touch what is saved or what runs.
LEMMA SetQuiet ==
  ASSUME TypeOK, SetInv, ~overlapped, overlapped' = overlapped,
         scene' = scene, overlay' = overlay, preset' = preset,
         run'.up => (run.up /\ run'.settings = run.settings) \/ run'.settings = Saved,
         \A e \in Environments : rows'[e].limits.per_day \in {rows[e].limits.per_day, Unset},
         \A a \in Actors : \/ job'[a] = job[a]
                           \/ job'[a].at \in {"idle", "mode"}
  PROVE  SetInv'
<1>1. OneEditor'
  BY DEF SetInv, OneEditor, Edits
<1>2. ReadIsCurrent'
  BY DEF SetInv, ReadIsCurrent
<1>3. Saved' = Saved
  BY DEF Saved, Compose, Composed
<1>4. run'.up => RunsAsSaved'
  <2>1. RunsAsSaved' <=> (run'.up /\ ~overlapped' => \A k \in AtOnceKeys : run'.settings[k] = Saved[k])
    BY <1>3 DEF RunsAsSaved
  <2> QED
    BY <2>1 DEF SetInv, RunsAsSaved
<1>5. PresetKept'
  <2>1. preset' # Unset => overlay'.per_day = 1 /\ rows'[preset'].limits.per_day = Unset
    BY DEF SetInv, PresetKept, TypeOK
  <2>2. ASSUME NEW a \in Actors
        PROVE  /\ job'[a].at = "unset" /\ job'[a].on => overlay'.per_day = 1
               /\ job'[a].at = "limits" /\ job'[a].leaves # Unset =>
                    /\ overlay'.per_day = 1
                    /\ IF job'[a].env = job'[a].leaves THEN job'[a].limits.per_day = Unset
                       ELSE rows'[job'[a].leaves].limits.per_day = Unset
    <3>1. CASE job'[a] = job[a]
      <4>1. PresetKept
        BY DEF SetInv
      <4>2. job[a].at = "limits" /\ job[a].leaves # Unset => job[a].leaves \in Environments
        BY DEF TypeOK, JobOK
      <4> QED
        BY <3>1, <4>1, <4>2 DEF PresetKept
    <3>2. CASE job'[a].at \in {"idle", "mode"}
      BY <3>2
    <3> QED
      BY <3>1, <3>2
  <2> QED
    BY <2>1, <2>2 DEF PresetKept
<1> QED
  BY <1>1, <1>2, <1>4, <1>5 DEF SetInv

\* A request begins: nobody else is editing, as otherwise they would overlap.
LEMMA SetAsk ==
  ASSUME TypeOK, SetInv, ~overlapped, NEW a \in Actors, ~Editing(a), overlapped' = overlapped,
         job[a] = Idle, NEW j, job' = [job EXCEPT ![a] = j],
         UNCHANGED <<scene, overlay, run, rows, preset>>,
         j.at \in {"apply", "limits"}, j.at = "apply" => j.seen = overlay,
         j.at = "limits" /\ j.leaves # Unset =>
            /\ overlay.per_day = 1
            /\ IF j.env = j.leaves THEN j.limits.per_day = Unset
               ELSE rows[j.leaves].limits.per_day = Unset
  PROVE  SetInv'
<1>1. \A b \in Actors : job'[b] = IF b = a THEN j ELSE job[b]
  BY DEF TypeOK
<1>2. \A b \in Actors : b # a => ~Edits(b)
  BY DEF Editing, Edits
<1>3. OneEditor' /\ ReadIsCurrent'
  BY <1>1, <1>2 DEF SetInv, OneEditor, ReadIsCurrent, Edits
<1>4. PresetKept'
  BY <1>1 DEF SetInv, PresetKept
<1>5. run'.up => RunsAsSaved'
  BY DEF SetInv, RunsAsSaved, Saved, Compose, Composed
<1> QED
  BY <1>3, <1>4, <1>5 DEF SetInv

\* A request ends, or goes on to the next read: whatever it has changed is consistent.
LEMMA SetWrite ==
  ASSUME TypeOK, SetInv, ~overlapped, NEW a \in Actors, Edits(a), overlapped' = overlapped,
         NEW j, job' = [job EXCEPT ![a] = j], j.at \in {"idle", "unset", "limits"},
         preset' # Unset => overlay'.per_day = 1 /\ rows'[preset'].limits.per_day = Unset,
         j.at = "unset" /\ j.on => overlay'.per_day = 1,
         j.at = "limits" /\ j.leaves # Unset =>
            /\ overlay'.per_day = 1
            /\ IF j.env = j.leaves THEN j.limits.per_day = Unset
               ELSE rows'[j.leaves].limits.per_day = Unset,
         run'.up => RunsAsSaved'
  PROVE  SetInv'
<1>1. \A b \in Actors : job'[b] = IF b = a THEN j ELSE job[b]
  BY DEF TypeOK
<1>2. \A b \in Actors : b # a => ~Edits(b)
  BY DEF SetInv, OneEditor
<1>3. OneEditor' /\ ReadIsCurrent'
  BY <1>1, <1>2 DEF OneEditor, ReadIsCurrent, Edits
<1>4. PresetKept'
  BY <1>1, <1>2 DEF PresetKept, Edits
<1> QED
  BY <1>3, <1>4 DEF SetInv

\* apply() leaves everything that needs no restart running as it is saved.
LEMMA ApplyRuns ==
  ASSUME TypeOK, SetInv, ~overlapped, NEW t \in Threads, Apply(t)
  PROVE  /\ run'.up => RunsAsSaved'
         /\ overlay' # overlay => overlay' = Changed(overlay, job[t].want)
<1> DEFINE want == job[t].want
           next == Changed(overlay, want)
           fresh == Compose(next)
<1>1. job[t].seen = overlay
  BY DEF SetInv, ReadIsCurrent, Apply, Actors
<1>2. CASE Refused(fresh)
  BY <1>1, <1>2 DEF Apply, SetInv, RunsAsSaved, Saved, Compose, Composed
<1>3. CASE ~Refused(fresh)
  <2>1. overlay' = next /\ run' = [run EXCEPT !.settings = Adopted(run.settings, fresh, want)]
    BY <1>1, <1>3 DEF Apply
  <2>2. run'.up = run.up /\ run'.settings = Adopted(run.settings, fresh, want)
    BY <2>1 DEF TypeOK
  <2>3. Saved' = fresh
    BY <2>1 DEF Apply, Saved, Compose, Composed
  <2>4. ASSUME run.up, NEW k \in AtOnceKeys PROVE run'.settings[k] = fresh[k]
    <3>1. k \in Keys /\ run'.settings[k] = IF k \in DOMAIN want THEN fresh[k] ELSE run.settings[k]
      BY <2>2 DEF Adopted, Keys
    <3>2. run.settings[k] = Compose(overlay)[k]
      BY <2>4 DEF SetInv, RunsAsSaved, Saved
    <3>3. k \notin DOMAIN want => fresh[k] = Compose(overlay)[k]
      BY <3>1 DEF Compose, Composed, Changed
    <3> QED
      BY <3>1, <3>2, <3>3
  <2> QED
    BY <2>1, <2>2, <2>3, <2>4 DEF RunsAsSaved
<1> QED
  BY <1>2, <1>3

LEMMA SetNext == TypeOK /\ SetInv /\ [Next]_vars => SetInv'
<1> SUFFICES ASSUME TypeOK, SetInv, [Next]_vars, ~overlapped' PROVE SetInv'
  BY DEF SetInv
<1> USE DEF Actors
<1>0. ~overlapped
  BY OverlapStays
<1>1. ASSUME NEW t \in Threads, NEW want, NEW test, AskChange(t, want, test) PROVE SetInv'
  <2> DEFINE j == [at |-> "apply", want |-> want, test |-> test, seen |-> overlay]
  <2>1. job' = [job EXCEPT ![t] = j] /\ ~Editing(t) /\ overlapped' = overlapped /\ job[t] = Idle
    BY <1>0, <1>1 DEF AskChange, Free, TypeOK
  <2>2. j.at = "apply" /\ j.seen = overlay
    OBVIOUS
  <2>3. UNCHANGED <<scene, overlay, run, rows, preset>>
    BY <1>1 DEF AskChange
  <2> HIDE DEF j
  <2> QED
    BY <1>0, <2>1, <2>2, <2>3, SetAsk
<1>2. ASSUME NEW t \in Threads, Apply(t) PROVE SetInv'
  <2> DEFINE want == job[t].want
  <2>1. run'.up => RunsAsSaved'
    BY <1>0, <1>2, ApplyRuns
  <2>2. Edits(t) /\ overlapped' = overlapped /\ rows' = rows
    BY <1>2 DEF Apply, Edits
  <2>3. CASE overlay' = overlay /\ preset' = preset /\ job' = [job EXCEPT ![t] = Idle]
    <3>1. preset' # Unset => overlay'.per_day = 1 /\ rows'[preset'].limits.per_day = Unset
      BY <1>0, <2>2, <2>3 DEF SetInv, PresetKept
    <3> QED
      BY <1>0, <2>1, <2>2, <2>3, <3>1, SetWrite DEF Idle
  <2>4. CASE /\ overlay' = Changed(overlay, want)
             /\ preset' = IF "per_day" \in DOMAIN want THEN Unset ELSE preset
             /\ job' = [job EXCEPT ![t] = IF job[t].test THEN [at |-> "unset", on |-> want = Preset]
                                          ELSE Idle]
    <3> DEFINE j == IF job[t].test THEN [at |-> "unset", on |-> want = Preset] ELSE Idle
    <3>1. preset' # Unset => overlay'.per_day = 1 /\ rows'[preset'].limits.per_day = Unset
      BY <1>0, <2>2, <2>4 DEF SetInv, PresetKept, Changed, Keys, AtOnceKeys
    <3>2. want = Preset => overlay'.per_day = 1
      BY <2>4 DEF Changed, Keys, AtOnceKeys, Preset
    <3>3. j.at \in {"idle", "unset"} /\ (j.at = "unset" => j.on = (want = Preset))
      BY DEF Idle
    <3>4. job' = [job EXCEPT ![t] = j]
      BY <2>4
    <3> HIDE DEF j
    <3> QED
      BY <1>0, <2>1, <2>2, <3>1, <3>2, <3>3, <3>4, SetWrite
  <2>5. CASE Refused(Compose(Changed(job[t].seen, want)))
    BY <1>2, <2>3, <2>5 DEF Apply
  <2>6. CASE ~Refused(Compose(Changed(job[t].seen, want)))
    <3>1. job[t].seen = overlay
      BY <1>0, <1>2 DEF SetInv, ReadIsCurrent, Apply
    <3> QED
      BY <1>2, <2>4, <2>6, <3>1 DEF Apply
  <2> QED
    BY <2>5, <2>6
<1>3. ASSUME NEW t \in Threads, Unhide(t) PROVE SetInv'
  <2> DEFINE env == Database(run.settings)
             limits == rows[env].limits
             leaves == IF job[t].on THEN env ELSE Unset
             new == [at |-> "limits", env |-> env, limits |-> Dropped(limits), leaves |-> leaves]
  <2>1. Edits(t) /\ UNCHANGED <<scene, overlay, run, rows, overlapped>>
    BY <1>3 DEF Unhide, Edits
  <2>2. run'.up => RunsAsSaved'
    BY <1>0, <2>1 DEF SetInv, RunsAsSaved, Saved, Compose, Composed
  <2>3. job[t].on => overlay.per_day = 1
    BY <1>0, <1>3 DEF SetInv, PresetKept, Unhide
  <2>4. Dropped(limits).per_day = Unset
    <3>1. limits \in Overrides
      BY DatabaseTyped DEF TypeOK
    <3> QED
      BY <3>1 DEF Dropped, Overrides, LimitKeys
  <2>5. CASE Dropped(limits) = limits
    <3>1. job' = [job EXCEPT ![t] = Idle] /\ preset' = leaves
      BY <1>3, <2>5 DEF Unhide
    <3>2. preset' # Unset => overlay'.per_day = 1 /\ rows'[preset'].limits.per_day = Unset
      BY <2>1, <2>3, <2>4, <2>5, <3>1
    <3> QED
      BY <1>0, <2>1, <2>2, <3>1, <3>2, SetWrite DEF Idle
  <2>6. CASE Dropped(limits) # limits
    <3>1. job' = [job EXCEPT ![t] = new] /\ preset' = preset
      BY <1>3, <2>6 DEF Unhide
    <3>2. preset' # Unset => overlay'.per_day = 1 /\ rows'[preset'].limits.per_day = Unset
      BY <1>0, <2>1, <3>1 DEF SetInv, PresetKept
    <3>3. /\ new.at = "limits"
          /\ new.leaves # Unset => overlay'.per_day = 1 /\ new.env = new.leaves
          /\ new.limits.per_day = Unset
      BY <2>1, <2>3, <2>4
    <3> HIDE DEF new
    <3> QED
      BY <1>0, <2>1, <2>2, <3>1, <3>2, <3>3, SetWrite
  <2> QED
    BY <2>5, <2>6
<1>4. ASSUME NEW a \in Actors, AskLimit(a) PROVE SetInv'
  <2> DEFINE env == Database(SettingsOf(a))
  <2>1. PICK k \in LimitKeys, v \in scene.limits :
          job' = [job EXCEPT ![a] = [at |-> "limits", env |-> env,
                                     limits |-> [rows[env].limits EXCEPT ![k] = v],
                                     leaves |-> IF k = "per_day" THEN Unset ELSE preset]]
    BY <1>4 DEF AskLimit
  <2> DEFINE j == [at |-> "limits", env |-> env, limits |-> [rows[env].limits EXCEPT ![k] = v],
                   leaves |-> IF k = "per_day" THEN Unset ELSE preset]
  <2>2. ~Editing(a) /\ overlapped' = overlapped /\ job[a] = Idle /\ UNCHANGED <<scene, overlay, run, rows, preset>>
    BY <1>0, <1>4 DEF AskLimit, Free, TypeOK
  <2>3. j.leaves # Unset => /\ overlay.per_day = 1 /\ j.leaves = preset /\ k # "per_day"
                            /\ rows[preset].limits.per_day = Unset
    BY <1>0 DEF SetInv, PresetKept
  <2>4. rows[env].limits \in Overrides
    BY ActorSettings DEF TypeOK
  <2>5. k # "per_day" => j.limits.per_day = rows[env].limits.per_day
    BY <2>4 DEF Overrides, LimitKeys
  <2>6. j.at = "limits" /\ j.env = env
    OBVIOUS
  <2> HIDE DEF j
  <2>7. j.leaves # Unset =>
          /\ overlay.per_day = 1
          /\ IF j.env = j.leaves THEN j.limits.per_day = Unset ELSE rows[j.leaves].limits.per_day = Unset
    BY <2>3, <2>5, <2>6
  <2> QED
    BY <1>0, <2>1, <2>2, <2>6, <2>7, SetAsk DEF j
<1>5. ASSUME NEW a \in Actors, WriteLimits(a) PROVE SetInv'
  <2>1. Edits(a) /\ UNCHANGED <<scene, overlay, run, overlapped>> /\ job' = [job EXCEPT ![a] = Idle]
    BY <1>5 DEF WriteLimits, Edits
  <2>2. run'.up => RunsAsSaved'
    BY <1>0, <2>1 DEF SetInv, RunsAsSaved, Saved, Compose, Composed
  <2>3. preset' = job[a].leaves /\ job[a].leaves \in Environments \union {Unset} /\ job[a].env \in Environments
    BY <1>5 DEF WriteLimits, TypeOK, JobOK
  <2>4. \A e \in Environments : rows'[e].limits = IF e = job[a].env THEN job[a].limits ELSE rows[e].limits
    BY <1>5 DEF WriteLimits, TypeOK
  <2>5. job[a].leaves # Unset =>
          /\ overlay.per_day = 1
          /\ IF job[a].env = job[a].leaves THEN job[a].limits.per_day = Unset
             ELSE rows[job[a].leaves].limits.per_day = Unset
    BY <1>0, <1>5 DEF WriteLimits, SetInv, PresetKept
  <2>6. preset' # Unset => overlay'.per_day = 1 /\ rows'[preset'].limits.per_day = Unset
    BY <2>1, <2>3, <2>4, <2>5
  <2> QED
    BY <1>0, <2>1, <2>2, <2>6, SetWrite DEF Idle
<1>6. ASSUME NEW a \in Actors, ClearLimits(a) PROVE SetInv'
  <2>1. \A e \in Environments : rows'[e].limits.per_day \in {rows[e].limits.per_day, Unset}
    BY <1>6 DEF ClearLimits, TypeOK, NoOverrides, LimitKeys
  <2> QED
    BY <1>0, <1>6, <2>1, SetQuiet DEF ClearLimits
<1>7. ASSUME NEW a \in Actors, AskMode(a) PROVE SetInv'
  <2>1. PICK m \in scene.modes :
          job' = [job EXCEPT ![a] = [at |-> "mode", env |-> Database(SettingsOf(a)), mode |-> m,
                                     live |-> SettingsOf(a).environment = "LIVE"]]
    BY <1>7 DEF AskMode
  <2>2. \A b \in Actors : job'[b] = job[b] \/ job'[b].at = "mode"
    BY <2>1 DEF TypeOK
  <2> QED
    BY <1>0, <1>7, <2>2, SetQuiet DEF AskMode
<1>8. ASSUME NEW a \in Actors, WriteMode(a) PROVE SetInv'
  <2>1. \A e \in Environments : rows'[e].limits = rows[e].limits
    BY <1>8 DEF WriteMode, TypeOK
  <2>2. \A b \in Actors : job'[b] = job[b] \/ job'[b].at = "idle"
    BY <1>8 DEF WriteMode, TypeOK, Idle
  <2> QED
    BY <1>0, <1>8, <2>1, <2>2, SetQuiet DEF WriteMode
<1>9. CASE Stop
  <2>1. run'.up = FALSE
    BY <1>9 DEF Stop, TypeOK
  <2>2. \A b \in Actors : job'[b] = job[b] \/ job'[b].at = "idle"
    BY <1>9 DEF Stop, Idle
  <2> QED
    BY <1>0, <1>9, <2>1, <2>2, SetQuiet DEF Stop
<1>10. CASE Start \/ Serve
  <2>1. run'.settings = Saved
    <3>1. CASE Start
      BY <3>1 DEF Start
    <3>2. CASE Serve
      BY <3>2 DEF Serve
    <3> QED
      BY <1>10, <3>1, <3>2
  <2> QED
    BY <1>0, <1>10, <2>1, SetQuiet DEF Start, Serve
<1>11. CASE StartupGuard
  <2>1. run'.up = run.up /\ run'.settings = run.settings
    BY <1>11 DEF StartupGuard, TypeOK
  <2> QED
    BY <1>0, <1>11, <2>1, SetQuiet DEF StartupGuard
<1>12. CASE StepDown
  <2>1. run'.up = run.up /\ run'.settings = run.settings
    BY <1>12 DEF StepDown, TypeOK
  <2>2. \A e \in Environments : rows'[e].limits = rows[e].limits
    BY <1>12 DEF StepDown, TypeOK
  <2> QED
    BY <1>0, <1>12, <2>1, <2>2, SetQuiet DEF StepDown
<1>13. CASE Happens \/ SessionAges \/ UNCHANGED vars
  BY <1>0, <1>13, SetQuiet DEF Happens, SessionAges, vars
<1> QED
  BY <1>1, <1>2, <1>3, <1>4, <1>5, <1>6, <1>7, <1>8, <1>9, <1>10, <1>11, <1>12, <1>13
  DEF Next, ChangeSettings, SetTestMode

\* What runs is what the saved settings say, and the limit of test mode hides behind nothing.
LEMMA SetImplies == TypeOK /\ SetInv => RunsAsSet
<1> SUFFICES ASSUME TypeOK, SetInv PROVE RunsAsSet
  OBVIOUS
<1>1. RunsAsSaved
  BY DEF SetInv, RunsAsSaved
<1>2. PresetHolds
  <2> SUFFICES ASSUME run.up, ~overlapped, preset = Database(run.settings), scene.environ.per_day = Unset
               PROVE  PerDay = 1
    BY DEF PresetHolds
  <2>1. preset \in Environments /\ preset # Unset
    <3>1. Database(run.settings) \in Environments
      BY DatabaseTyped DEF TypeOK
    <3>2. Unset \notin Environments
      BY GoLiveAssumption
    <3> QED
      BY <3>1, <3>2
  <2>2. overlay.per_day = 1 /\ rows[preset].limits.per_day = Unset /\ overlay.per_day # Unset
    BY <2>1, GoLiveAssumption DEF SetInv, PresetKept
  <2>3. run.settings.per_day = Saved.per_day
    BY <1>1 DEF RunsAsSaved, AtOnceKeys
  <2>4. Saved.per_day = 1
    BY <2>2 DEF Saved, Compose, Composed, Keys, AtOnceKeys
  <2> QED
    BY <2>2, <2>3, <2>4 DEF PerDay
<1> QED
  BY <1>1, <1>2 DEF RunsAsSet

\* Through changes, resets, refusals, environment variables and restarts, a setting that needs no
\* restart runs as it is saved, and test mode's limit applies, unless two requests overlapped
\* (SettingsEditor.apply, set_test_mode, set_limit_overrides).
THEOREM SettingsRunAsSet == Spec => []RunsAsSet
<1>1. Spec => [](TypeOK /\ SetInv)
  BY TypeInit, TypeNext, SetInit, SetNext, PTL DEF Spec
<1> QED
  BY <1>1, SetImplies, PTL
=============================================================================
