----------------------------- MODULE LanesProofs -----------------------------
(***************************************************************************)
(* Proofs about the lanes, for any channels, routes, numbers of ticks and  *)
(* limits.                                                                 *)
(*                                                                         *)
(* ShapeOK says what a runner and the job have in memory in each phase; it *)
(* makes LaneOf(r) a lane.  With it the type invariant is inductive, and   *)
(* each of the properties after it needs only a small strengthening.       *)
(***************************************************************************)
EXTENDS Lanes, TLAPS, FiniteSetTheorems

\* A tick at work has an action and is at some lane of its route, Desk works only for a
\* check, the job has a lane, and an answer comes with the lane that gave it.
ShapeOK ==
  /\ \A r \in Ticks : step[r] # "idle" => item[r] \in Tasks
  /\ step[Desk] # "idle" => job = "checking"
  /\ job # "none" => jobLane \in Lanes
  /\ \A r \in Runners : step[r] # "idle" => at[r] <= Len(Route(r))
  /\ \A r \in Runners : step[r] \in {"routing", "queued", "running", "done"} /\ res[r] # "none"
                        => resLane[r] \in Lanes
  /\ \A r \in Runners : step[r] = "done" => res[r] # "none"

Inv == TypeOK /\ ShapeOK

\* Nothing has happened: all columns have their defaults.
LEMMA TypeInit == Init => Inv
<1> SUFFICES ASSUME Init PROVE Inv
  OBVIOUS
<1>1. LaneTypeOK
  BY LanesAssumption, FS_EmptySet
  DEF Init, LaneTypeOK, LaneStates, Reasons, Signal, Kinds, Severities
<1>2. TaskTypeOK /\ JobTypeOK
  BY DEF Init, TaskTypeOK, TaskStates, JobTypeOK, JobPhases
<1>4. RunTypeOK
  BY DEF Init, RunTypeOK, Steps, Results
<1>3. ShapeOK
  BY DEF Init, ShapeOK, Runners
<1> QED
  BY <1>1, <1>2, <1>3, <1>4 DEF Init, Inv, TypeOK

\* What a step leaves alone keeps its type.
LEMMA Frame ==
  ASSUME TypeOK
  PROVE  /\ UNCHANGED laneVars => LaneTypeOK'
         /\ UNCHANGED taskVars => TaskTypeOK'
         /\ UNCHANGED <<runVars, users>> => RunTypeOK'
         /\ UNCHANGED jobVars => JobTypeOK'
<1>1. UNCHANGED laneVars => LaneTypeOK'
  BY DEF TypeOK, laneVars, LaneTypeOK
<1>2. UNCHANGED taskVars => TaskTypeOK'
  BY DEF TypeOK, taskVars, TaskTypeOK
<1>3. UNCHANGED <<runVars, users>> => RunTypeOK'
  BY DEF TypeOK, runVars, RunTypeOK
<1>4. UNCHANGED jobVars => JobTypeOK'
  BY DEF TypeOK, jobVars, JobTypeOK
<1> QED
  BY <1>1, <1>2, <1>3, <1>4

\* A route is a sequence of lanes, and a runner at work is at one of them.
LEMMA LaneOfType ==
  ASSUME Inv, NEW r \in Runners, step[r] # "idle"
  PROVE  /\ Route(r) \in Seq(Lanes) /\ Len(Route(r)) \in Nat \ {0}
         /\ at[r] \in 1..Len(Route(r))
         /\ LaneOf(r) \in Lanes
         /\ Route(r)[1] \in Lanes
<1>1. Route(r) \in Seq(Lanes) /\ Route(r) # <<>>
  <2>1. CASE r = Desk
    BY <2>1 DEF Inv, ShapeOK, Route
  <2>2. CASE r # Desk
    <3>1. r \in Ticks /\ item[r] \in Tasks
      BY <2>2 DEF Inv, ShapeOK, Runners
    <3> QED
      BY <2>2, <3>1, LanesAssumption DEF Route
  <2> QED
    BY <2>1, <2>2
<1>2. Len(Route(r)) \in Nat \ {0}
  BY <1>1
<1>3. at[r] \in 1..Len(Route(r))
  BY <1>2 DEF Inv, ShapeOK, TypeOK, RunTypeOK
<1> QED
  BY <1>1, <1>2, <1>3 DEF LaneOf

(***************************************************************************)
(* The lane service keeps the types.                                       *)
(***************************************************************************)
\* snapshot() only ever writes ACTIVE.
LEMMA SnapshotType ==
  ASSUME TypeOK, NEW C, Snapshot(C),
         UNCHANGED <<signals, drift, incidents, alerts, stragglers, throttled>>
  PROVE  LaneTypeOK'
BY DEF TypeOK, LaneTypeOK, Snapshot, LaneStates, Reasons

\* A halt writes a lane's state and notes who had looked at it.
LEMMA SetHaltedType ==
  ASSUME TypeOK, NEW C, NEW why \in Reasons, SetHalted(C, why)
  PROVE  /\ state' \in [Lanes -> LaneStates] /\ until' \in [Lanes -> Nat]
         /\ reason' \in [Lanes -> Reasons]
         /\ stragglers' \in [Lanes -> SUBSET Runners]
<1>1. \A c \in Lanes : Admitted(c) \subseteq Runners
  BY DEF Admitted
<1> QED
  BY <1>1 DEF TypeOK, LaneTypeOK, SetHalted, LaneStates

\* An incident has a lane and a kind, an alert a severity.
LEMMA OpenIncidentsType ==
  ASSUME TypeOK, NEW C \in SUBSET Lanes, NEW kind \in Kinds, NEW severity \in Severities,
         OpenIncidents(C, kind, severity)
  PROVE  incidents' \subseteq Lanes \X Kinds /\ alerts' \in [Lanes -> SUBSET Severities]
BY DEF TypeOK, LaneTypeOK, OpenIncidents

\* _halt() keeps the types of all it writes.
LEMMA HaltType ==
  ASSUME TypeOK, NEW C \in SUBSET Lanes, NEW why \in {"barrier", "limits", "drift"}, Halt(C, why)
  PROVE  /\ state' \in [Lanes -> LaneStates] /\ until' \in [Lanes -> Nat]
         /\ reason' \in [Lanes -> Reasons]
         /\ stragglers' \in [Lanes -> SUBSET Runners]
         /\ incidents' \subseteq Lanes \X Kinds /\ alerts' \in [Lanes -> SUBSET Severities]
<1>1. why \in Reasons /\ KindOf(why) \in Kinds /\ SeverityOf(why) \in Severities
  BY DEF Reasons, KindOf, SeverityOf, Kinds, Severities
<1> QED
  BY <1>1, SetHaltedType, OpenIncidentsType DEF Halt

\* A cooldown ends at a time of the clock.
LEMMA CoolDownType ==
  ASSUME TypeOK, NEW c \in Lanes, NEW wait \in Nat, CoolDown(c, wait)
  PROVE  /\ state' \in [Lanes -> LaneStates] /\ until' \in [Lanes -> Nat]
         /\ reason' \in [Lanes -> Reasons]
         /\ stragglers' \in [Lanes -> SUBSET Runners]
         /\ incidents' \subseteq Lanes \X Kinds /\ alerts' \in [Lanes -> SUBSET Severities]
<1>1. incidents' \subseteq Lanes \X Kinds /\ alerts' \in [Lanes -> SUBSET Severities]
  BY OpenIncidentsType DEF CoolDown, Kinds, Severities
<1>2. /\ state' \in [Lanes -> LaneStates] /\ until' \in [Lanes -> Nat]
      /\ reason' \in [Lanes -> Reasons]
      /\ stragglers' \in [Lanes -> SUBSET Runners]
  BY DEF TypeOK, LaneTypeOK, CoolDown, LaneStates, Reasons
<1> QED
  BY <1>1, <1>2

\* A signal is put on record with its moment and its number.
LEMMA AddSignalType ==
  ASSUME now \in Nat, NEW S \in SUBSET Signal, IsFiniteSet(S)
  PROVE  AddSignal(S) \in SUBSET Signal /\ IsFiniteSet(AddSignal(S))
<1> DEFINE same == {e \in S : e[1] = now}
<1>1. Cardinality(same) \in Nat
  BY FS_Subset, FS_CardinalityType
<1>2. IsFiniteSet(S \cup {<<now, Cardinality(same)>>})
  BY FS_AddElement
<1> QED
  BY <1>1, <1>2 DEF AddSignal, Signal

\* The counters and lists of record_result() keep their types whatever the result.
LEMMA RecordResultType ==
  ASSUME TypeOK, NEW c \in Lanes, NEW s, RecordResult(c, s)
  PROVE  LaneTypeOK'
<1>1. CASE s = "SUCCESS" /\ drift' = [drift EXCEPT ![c] = 0]
           /\ UNCHANGED <<state, until, reason, signals, incidents, alerts, stragglers, throttled>>
  BY <1>1, LanesAssumption DEF TypeOK, LaneTypeOK
<1>2. CASE Halt(Lanes, "barrier") /\ UNCHANGED <<signals, drift, throttled>>
  <2>1. Lanes \in SUBSET Lanes
    OBVIOUS
  <2> QED
    BY <1>2, <2>1, HaltType DEF TypeOK, LaneTypeOK
<1>3. CASE Halt({c}, "barrier") /\ UNCHANGED <<signals, drift, throttled>>
  BY <1>3, HaltType DEF TypeOK, LaneTypeOK
<1>4. CASE RateLimited(c)
  <2> DEFINE events == AddSignal(Recent(signals[c]))
  <2>1. /\ signals[c] \in SUBSET Signal /\ IsFiniteSet(signals[c])
        /\ throttled[c] \in SUBSET Signal /\ IsFiniteSet(throttled[c])
        /\ now \in Nat
    BY DEF TypeOK, LaneTypeOK
  <2>2. Recent(signals[c]) \in SUBSET Signal /\ IsFiniteSet(Recent(signals[c]))
    BY <2>1, FS_Subset DEF Recent
  <2>3. events \in SUBSET Signal /\ IsFiniteSet(events)
    BY <2>1, <2>2, AddSignalType
  <2>4. AddSignal(throttled[c]) \in SUBSET Signal /\ IsFiniteSet(AddSignal(throttled[c]))
    BY <2>1, AddSignalType
  <2>5. /\ signals' = [signals EXCEPT ![c] = events]
        /\ throttled' = [throttled EXCEPT ![c] = AddSignal(throttled[c])]
        /\ drift' = drift
    BY <1>4 DEF RateLimited
  <2>6. /\ signals' \in [Lanes -> SUBSET Signal] /\ throttled' \in [Lanes -> SUBSET Signal]
        /\ \A d \in Lanes : IsFiniteSet(signals'[d]) /\ IsFiniteSet(throttled'[d])
    BY <2>3, <2>4, <2>5 DEF TypeOK, LaneTypeOK
  <2>7. /\ state' \in [Lanes -> LaneStates] /\ until' \in [Lanes -> Nat]
        /\ reason' \in [Lanes -> Reasons]
        /\ stragglers' \in [Lanes -> SUBSET Runners]
        /\ incidents' \subseteq Lanes \X Kinds /\ alerts' \in [Lanes -> SUBSET Severities]
    <3>1. CASE Halt({c}, "limits")
      BY <3>1, HaltType
    <3>2. CASE \E d \in RetryAfter : CoolDown(c, IF d > Cooldown THEN d ELSE Cooldown)
      BY <3>2, LanesAssumption, CoolDownType
    <3> QED
      BY <1>4, <3>1, <3>2 DEF RateLimited
  <2> QED
    BY <2>5, <2>6, <2>7 DEF TypeOK, LaneTypeOK
<1>5. CASE Drifted(c, s)
  <2>1. drift' \in [Lanes -> 0..(DriftLimit + 1)]
    BY <1>5, LanesAssumption DEF Drifted, TypeOK, LaneTypeOK
  <2>2. UNCHANGED <<signals, throttled>>
        /\ (Halt({c}, "drift") \/ UNCHANGED <<state, until, reason, incidents, alerts, stragglers>>)
    BY <1>5 DEF Drifted
  <2> QED
    BY <2>1, <2>2, HaltType DEF TypeOK, LaneTypeOK
<1>6. CASE UNCHANGED laneVars
  BY <1>6, Frame
<1> QED
  BY <1>1, <1>2, <1>3, <1>4, <1>5, <1>6 DEF RecordResult

\* Forgetting a lane and releasing its parked actions keeps the types.
LEMMA ResumeType ==
  ASSUME TypeOK, NEW c \in Lanes, Resume(c)
  PROVE  LaneTypeOK' /\ TaskTypeOK'
<1>1. LaneTypeOK'
  BY LanesAssumption, FS_EmptySet
  DEF TypeOK, LaneTypeOK, Resume, Forget, LaneStates, Reasons
<1>2. TaskTypeOK'
  BY DEF TypeOK, TaskTypeOK, Resume, TaskStates
<1> QED
  BY <1>1, <1>2

(***************************************************************************)
(* Every action keeps Inv.                                                 *)
(***************************************************************************)
\* A claimed action is at the first lane of its route, which is never empty.
LEMMA ClaimInv ==
  ASSUME Inv, NEW r \in Ticks, NEW t \in Tasks, Claim(r, t)
  PROVE  Inv'
<1>1. LaneTypeOK'
  BY SnapshotType DEF Claim, Inv
<1>2. TaskTypeOK' /\ JobTypeOK'
  BY DEF Inv, TypeOK, TaskTypeOK, TaskStates, JobTypeOK, jobVars, Claim
<1>3. RunTypeOK'
  BY DEF Inv, TypeOK, RunTypeOK, Runners, Steps, Results, Claim
<1>4. r # Desk /\ Len(Routes[t]) \in Nat \ {0}
  BY LanesAssumption
<1>5. \A q \in Runners : step'[q] # "idle" => at'[q] <= Len(Route(q)')
  <2> SUFFICES ASSUME NEW q \in Runners, step'[q] # "idle"
               PROVE  at'[q] <= Len(Route(q)')
    OBVIOUS
  <2>1. CASE q = r
    <3>1. at'[q] = 1 /\ Route(q)' = Routes[t]
      BY <1>4, <2>1 DEF Claim, Inv, TypeOK, RunTypeOK, Runners, Route
    <3> QED
      BY <1>4, <3>1
  <2>2. CASE q # r
    <3>1. step[q] # "idle" /\ at'[q] = at[q] /\ Route(q)' = Route(q)
      BY <2>2 DEF Claim, Inv, TypeOK, RunTypeOK, Runners, Route, jobVars
    <3> QED
      BY <3>1 DEF Inv, ShapeOK
  <2> QED
    BY <2>1, <2>2
<1>6. ShapeOK'
  BY <1>4, <1>5 DEF Claim, Inv, TypeOK, RunTypeOK, Runners, ShapeOK, jobVars
<1> QED
  BY <1>1, <1>2, <1>3, <1>6 DEF Inv, TypeOK, Claim

\* Looking at a lane moves a runner to the semaphore and nothing else.
LEMMA AdmitInv ==
  ASSUME Inv, NEW r \in Runners, Admit(r)
  PROVE  Inv'
<1>1. LaneTypeOK'
  BY SnapshotType DEF Admit, Inv
<1>2. TaskTypeOK' /\ JobTypeOK'
  BY Frame DEF Inv, Admit
<1>3. RunTypeOK'
  BY DEF Inv, TypeOK, RunTypeOK, Steps, Admit
<1>4. \A q \in Runners : Route(q)' = Route(q) /\ (step'[q] # "idle" => step[q] # "idle")
  BY DEF Route, Admit, Inv, TypeOK, RunTypeOK, jobVars
<1>5. ShapeOK'
  BY <1>4 DEF Admit, Inv, TypeOK, RunTypeOK, Runners, ShapeOK, jobVars
<1> QED
  BY <1>1, <1>2, <1>3, <1>5 DEF Inv, TypeOK, Admit

\* A runner that passes over a lane stays within its route or is done.
LEMMA PassOverInv ==
  ASSUME Inv, NEW r \in Runners, PassOver(r)
  PROVE  Inv'
<1>1. LaneTypeOK' /\ TaskTypeOK' /\ JobTypeOK'
  BY Frame DEF Inv, PassOver
<1>2. /\ Len(Route(r)) \in Nat /\ Route(r)[1] \in Lanes /\ at[r] \in Nat \ {0}
      /\ at[r] <= Len(Route(r))
  BY LaneOfType DEF PassOver
<1>3. \A q \in Runners : Route(q)' = Route(q)
  BY DEF Route, PassOver, jobVars
<1>4. CASE at[r] < Len(Route(r)) /\ at' = [at EXCEPT ![r] = at[r] + 1] /\ UNCHANGED <<step, res, resLane>>
  <2>1. RunTypeOK'
    BY <1>2, <1>4 DEF Inv, TypeOK, RunTypeOK, PassOver
  <2>2. \A q \in Runners : step'[q] # "idle" => at'[q] <= Len(Route(q)')
    BY <1>2, <1>3, <1>4 DEF Inv, TypeOK, RunTypeOK, ShapeOK
  <2>3. ShapeOK'
    BY <1>4, <2>2 DEF PassOver, Inv, ShapeOK, jobVars
  <2> QED
    BY <1>1, <2>1, <2>3 DEF Inv, TypeOK, PassOver
<1>5. CASE /\ step' = [step EXCEPT ![r] = "done"]
           /\ res' = IF res[r] = "none" THEN [res EXCEPT ![r] = "NO_LANE"] ELSE res
           /\ resLane' = IF res[r] = "none" THEN [resLane EXCEPT ![r] = Route(r)[1]] ELSE resLane
           /\ UNCHANGED at
  <2>1. RunTypeOK'
    BY <1>2, <1>5 DEF Inv, TypeOK, RunTypeOK, PassOver, Steps, Results
  <2>2. \A q \in Runners : step'[q] # "idle" => at'[q] <= Len(Route(q)')
    BY <1>3, <1>5 DEF Inv, TypeOK, RunTypeOK, ShapeOK, PassOver
  <2>3. ShapeOK'
    BY <1>2, <1>5, <2>2 DEF PassOver, Inv, TypeOK, RunTypeOK, Runners, ShapeOK, jobVars
  <2> QED
    BY <1>1, <2>1, <2>3 DEF Inv, TypeOK, PassOver
<1> QED
  BY <1>4, <1>5 DEF PassOver

\* Getting a permit changes the phase and the holders.
LEMMA EnterInv ==
  ASSUME Inv, NEW r \in Runners, Enter(r)
  PROVE  Inv'
<1>1. LaneTypeOK' /\ TaskTypeOK' /\ JobTypeOK'
  BY Frame DEF Inv, Enter
<1>2. RunTypeOK'
  BY DEF Inv, TypeOK, RunTypeOK, Steps, Enter
<1>3. \A q \in Runners : Route(q)' = Route(q) /\ (step'[q] # "idle" => step[q] # "idle")
  BY DEF Route, Enter, Inv, TypeOK, RunTypeOK, jobVars
<1>4. ShapeOK'
  BY <1>3 DEF Enter, Inv, TypeOK, RunTypeOK, Runners, ShapeOK, jobVars
<1> QED
  BY <1>1, <1>2, <1>4 DEF Inv, TypeOK, Enter

\* An answer comes with its lane; the next lane tried is within the route.
LEMMA LeaveInv ==
  ASSUME Inv, NEW r \in Runners, NEW s \in Reported, Leave(r, s)
  PROVE  Inv'
<1>1. LaneTypeOK' /\ TaskTypeOK' /\ JobTypeOK'
  BY Frame DEF Inv, Leave
<1>2. /\ Len(Route(r)) \in Nat /\ LaneOf(r) \in Lanes /\ at[r] \in Nat \ {0}
      /\ at[r] <= Len(Route(r))
  BY LaneOfType DEF Leave
<1>3. \A q \in Runners : Route(q)' = Route(q)
  BY DEF Route, Leave, jobVars
<1>4. s \in Results /\ s # "none"
  BY LanesAssumption DEF Results, Answers
<1>5. CASE /\ at[r] < Len(Route(r))
           /\ step' = [step EXCEPT ![r] = "routing"] /\ at' = [at EXCEPT ![r] = at[r] + 1]
  <2>1. RunTypeOK'
    BY <1>2, <1>4, <1>5 DEF Inv, TypeOK, RunTypeOK, Leave, Steps
  <2>2. \A q \in Runners : step'[q] # "idle" => at'[q] <= Len(Route(q)')
    BY <1>2, <1>3, <1>5 DEF Inv, TypeOK, RunTypeOK, ShapeOK
  <2>3. ShapeOK'
    BY <1>2, <1>4, <1>5, <2>2 DEF Leave, Inv, TypeOK, RunTypeOK, Runners, ShapeOK, jobVars
  <2> QED
    BY <1>1, <2>1, <2>3 DEF Inv, TypeOK, Leave
<1>6. CASE step' = [step EXCEPT ![r] = "done"] /\ UNCHANGED at
  <2>1. RunTypeOK'
    BY <1>2, <1>4, <1>6 DEF Inv, TypeOK, RunTypeOK, Leave, Steps
  <2>2. \A q \in Runners : step'[q] # "idle" => at'[q] <= Len(Route(q)')
    BY <1>3, <1>6 DEF Inv, TypeOK, RunTypeOK, ShapeOK, Leave
  <2>3. ShapeOK'
    BY <1>2, <1>4, <1>6, <2>2 DEF Leave, Inv, TypeOK, RunTypeOK, Runners, ShapeOK, jobVars
  <2> QED
    BY <1>1, <2>1, <2>3 DEF Inv, TypeOK, Leave
<1> QED
  BY <1>5, <1>6 DEF Leave

\* Recording gives the lane and the action their new states and frees the tick.
LEMMA RecordInv ==
  ASSUME Inv, NEW r \in Ticks, Record(r)
  PROVE  Inv'
<1>1. r \in Runners /\ r # Desk /\ resLane[r] \in Lanes /\ item[r] \in Tasks
  BY LanesAssumption DEF Record, Inv, ShapeOK, Runners
<1>2. LaneTypeOK'
  BY <1>1, RecordResultType DEF Record, Inv
<1>3. TaskTypeOK' /\ JobTypeOK'
  <2>1. TaskAfter(res[r]) \subseteq TaskStates
    BY DEF TaskAfter, TaskStates
  <2> QED
    BY <1>1, <2>1 DEF Record, Inv, TypeOK, TaskTypeOK, JobTypeOK, jobVars
<1>4. RunTypeOK'
  BY <1>1 DEF Record, Inv, TypeOK, RunTypeOK, Steps, Results
<1>5. \A q \in Runners : step'[q] # "idle" =>
        q # r /\ step[q] # "idle" /\ at'[q] = at[q] /\ Route(q)' = Route(q)
  BY <1>1 DEF Record, Inv, TypeOK, RunTypeOK, Route, jobVars
<1>6. ShapeOK'
  BY <1>1, <1>5 DEF Record, Inv, TypeOK, RunTypeOK, Runners, ShapeOK, jobVars
<1> QED
  BY <1>2, <1>3, <1>4, <1>6 DEF Inv, TypeOK, Record

\* Desk is idle after its check, so the job's lane may be forgotten.
LEMMA RecordCheckInv ==
  ASSUME Inv, RecordCheck
  PROVE  Inv'
<1>1. Desk \in Runners /\ resLane[Desk] \in Lanes
  BY DEF RecordCheck, Inv, ShapeOK, Runners
<1>2. LaneTypeOK'
  BY <1>1, RecordResultType DEF RecordCheck, Inv
<1>3. TaskTypeOK' /\ JobTypeOK'
  BY Frame DEF RecordCheck, Inv, JobTypeOK, JobPhases
<1>4. RunTypeOK'
  BY <1>1 DEF RecordCheck, Inv, TypeOK, RunTypeOK, Steps, Results
<1>5. \A q \in Runners : step'[q] # "idle" =>
        q # Desk /\ step[q] # "idle" /\ at'[q] = at[q] /\ Route(q)' = Route(q)
  BY <1>1 DEF RecordCheck, Inv, TypeOK, RunTypeOK, Route
<1>6. ShapeOK'
  BY <1>1, <1>5 DEF RecordCheck, Inv, TypeOK, RunTypeOK, Runners, ShapeOK
<1> QED
  BY <1>2, <1>3, <1>4, <1>6 DEF Inv, TypeOK, RecordCheck

\* No runner works for a job that is only starting, or not yet begun.
LEMMA StartLoginInv ==
  ASSUME Inv, NEW c \in Lanes, StartLogin(c)
  PROVE  Inv'
<1>1. LaneTypeOK' /\ TaskTypeOK' /\ RunTypeOK'
  BY Frame DEF Inv, StartLogin
<1>2. JobTypeOK'
  BY DEF Inv, TypeOK, JobTypeOK, JobPhases, StartLogin
<1>3. step[Desk] = "idle" /\ \A q \in Runners : q # Desk => Route(q)' = Route(q)
  BY DEF Inv, ShapeOK, StartLogin, Route, runVars
<1>4. ShapeOK'
  BY <1>3 DEF StartLogin, Inv, ShapeOK, runVars
<1> QED
  BY <1>1, <1>2, <1>4 DEF Inv, TypeOK, StartLogin

\* Desk sets out for its only lane.
LEMMA StartCheckInv ==
  ASSUME Inv, NEW c \in Lanes, StartCheck(c)
  PROVE  Inv'
<1>1. LaneTypeOK' /\ TaskTypeOK'
  BY Frame DEF Inv, StartCheck
<1>2. JobTypeOK' /\ RunTypeOK'
  BY DEF Inv, TypeOK, JobTypeOK, JobPhases, RunTypeOK, Runners, Steps, Results, StartCheck
<1>3. \A q \in Runners : q # Desk => Route(q)' = Route(q) /\ step'[q] = step[q] /\ at'[q] = at[q]
  BY DEF Inv, TypeOK, RunTypeOK, StartCheck, Route
<1>4. at'[Desk] = 1 /\ Len(Route(Desk)') = 1 /\ res'[Desk] = "none" /\ step'[Desk] = "routing"
  BY DEF Inv, TypeOK, RunTypeOK, Runners, StartCheck, Route
<1>5. \A q \in Runners : step'[q] # "idle" => at'[q] <= Len(Route(q)')
  BY <1>3, <1>4 DEF Inv, ShapeOK
<1>6. \A q \in Runners : res'[q] # "none" => q # Desk /\ res'[q] = res[q]
  BY <1>4 DEF StartCheck, Inv, TypeOK, RunTypeOK
<1>7. \A q \in Runners : step'[q] \in {"routing", "queued", "running", "done"} /\ res'[q] # "none"
                        => resLane'[q] \in Lanes
  BY <1>3, <1>6 DEF StartCheck, Inv, ShapeOK
<1>8. \A q \in Runners : step'[q] = "done" => res'[q] # "none"
  BY <1>3, <1>4 DEF StartCheck, Inv, TypeOK, RunTypeOK, ShapeOK
<1>9. \A q \in Ticks : step'[q] # "idle" => item'[q] \in Tasks
  BY <1>3, LanesAssumption DEF StartCheck, Inv, Runners, ShapeOK
<1>10. ShapeOK'
  BY <1>5, <1>7, <1>8, <1>9 DEF StartCheck, ShapeOK
<1> QED
  BY <1>1, <1>2, <1>10 DEF Inv, TypeOK, StartCheck

\* The job that halts its lane has one.
LEMMA StopForLoginInv ==
  ASSUME Inv, StopForLogin
  PROVE  Inv'
<1>1. jobLane \in Lanes
  BY DEF Inv, ShapeOK, StopForLogin
<1>2. LaneTypeOK'
  <2>1. CASE SetHalted({jobLane}, "login")
    BY <1>1, <2>1, SetHaltedType DEF StopForLogin, Inv, TypeOK, LaneTypeOK, Reasons
  <2>2. CASE UNCHANGED <<state, until, reason, stragglers>>
    BY <2>2 DEF StopForLogin, Inv, TypeOK, LaneTypeOK
  <2> QED
    BY <2>1, <2>2 DEF StopForLogin
<1>3. TaskTypeOK' /\ RunTypeOK'
  BY Frame DEF Inv, StopForLogin
<1>4. JobTypeOK'
  BY DEF Inv, TypeOK, JobTypeOK, JobPhases, StopForLogin, Open, Lapsed
<1>5. ShapeOK'
  BY DEF StopForLogin, Inv, ShapeOK, Route, runVars
<1> QED
  BY <1>2, <1>3, <1>4, <1>5 DEF Inv, TypeOK, StopForLogin

\* The window opens with a permit of its lane.
LEMMA OpenWindowInv ==
  ASSUME Inv, OpenWindow
  PROVE  Inv'
<1>1. LaneTypeOK' /\ TaskTypeOK'
  BY Frame DEF Inv, OpenWindow
<1>2. RunTypeOK' /\ JobTypeOK'
  BY DEF Inv, TypeOK, RunTypeOK, Runners, JobTypeOK, JobPhases, OpenWindow, runVars
<1>3. ShapeOK'
  BY DEF OpenWindow, Inv, ShapeOK, Route, runVars
<1> QED
  BY <1>1, <1>2, <1>3 DEF Inv, TypeOK, OpenWindow

\* Resuming the lane at the end of a login, or not, keeps the types.
LEMMA ReopenType ==
  ASSUME Inv, jobLane \in Lanes, Reopen
  PROVE  LaneTypeOK' /\ TaskTypeOK'
BY ResumeType, Frame DEF Inv, Reopen

\* Desk was idle while its window was open; it may set out for the check now.
LEMMA CloseWindowInv ==
  ASSUME Inv, NEW ok \in BOOLEAN, CloseWindow(ok)
  PROVE  Inv'
<1>1. jobLane \in Lanes /\ step[Desk] = "idle" /\ Desk \in Runners
  BY DEF Inv, ShapeOK, CloseWindow, Runners
<1>2. LaneTypeOK' /\ TaskTypeOK'
  BY <1>1, ReopenType DEF CloseWindow
<1>3. \A q \in Runners : q # Desk => Route(q)' = Route(q) /\ step'[q] = step[q] /\ at'[q] = at[q]
  BY DEF Inv, TypeOK, RunTypeOK, CloseWindow, Route
<1>4. CASE /\ job' = "checking" /\ step' = [step EXCEPT ![Desk] = "routing"]
           /\ at' = [at EXCEPT ![Desk] = 1] /\ res' = [res EXCEPT ![Desk] = "none"]
           /\ UNCHANGED <<jobLane, stoppedHere>>
  <2>1. RunTypeOK' /\ JobTypeOK'
    BY <1>1, <1>4
    DEF Inv, TypeOK, JobTypeOK, JobPhases, RunTypeOK, Steps, Results, CloseWindow
  <2>2. at'[Desk] = 1 /\ Len(Route(Desk)') = 1 /\ res'[Desk] = "none" /\ step'[Desk] = "routing"
    BY <1>1, <1>4 DEF Inv, TypeOK, RunTypeOK, Route
  <2>3. \A q \in Runners : step'[q] # "idle" => at'[q] <= Len(Route(q)')
    BY <1>3, <2>2 DEF Inv, ShapeOK
  <2>4. \A q \in Runners : res'[q] # "none" => q # Desk /\ res'[q] = res[q]
    BY <1>4, <2>2 DEF Inv, TypeOK, RunTypeOK
  <2>5. \A q \in Runners : step'[q] \in {"routing", "queued", "running", "done"} /\ res'[q] # "none"
                          => resLane'[q] \in Lanes
    BY <1>3, <2>4 DEF CloseWindow, Inv, ShapeOK
  <2>6. \A q \in Runners : step'[q] = "done" => res'[q] # "none"
    BY <1>3, <1>4, <2>2 DEF Inv, TypeOK, RunTypeOK, ShapeOK
  <2>7. \A q \in Ticks : step'[q] # "idle" => item'[q] \in Tasks
    BY <1>3, LanesAssumption DEF CloseWindow, Inv, Runners, ShapeOK
  <2>8. ShapeOK'
    BY <1>1, <1>4, <2>3, <2>5, <2>6, <2>7 DEF ShapeOK
  <2> QED
    BY <1>2, <2>1, <2>8 DEF Inv, TypeOK, CloseWindow
<1>5. CASE /\ job' = "none" /\ jobLane' = NoLane /\ stoppedHere' = FALSE
           /\ UNCHANGED <<step, at, res>>
  <2>1. RunTypeOK' /\ JobTypeOK'
    BY <1>5 DEF Inv, TypeOK, JobTypeOK, JobPhases, RunTypeOK, CloseWindow
  <2>2. ShapeOK'
    BY <1>1, <1>3, <1>5 DEF CloseWindow, Inv, ShapeOK
  <2> QED
    BY <1>2, <2>1, <2>2 DEF Inv, TypeOK, CloseWindow
<1> QED
  BY <1>4, <1>5 DEF CloseWindow

\* A cancelled login leaves no job.
LEMMA CancelLoginInv ==
  ASSUME Inv, CancelLogin
  PROVE  Inv'
<1>1. jobLane \in Lanes /\ step[Desk] = "idle"
  BY DEF Inv, ShapeOK, CancelLogin
<1>2. LaneTypeOK' /\ TaskTypeOK'
  BY <1>1, ReopenType DEF CancelLogin
<1>3. RunTypeOK' /\ JobTypeOK'
  BY DEF Inv, TypeOK, JobTypeOK, JobPhases, RunTypeOK, CancelLogin, runVars
<1>4. ShapeOK'
  BY <1>1 DEF CancelLogin, Inv, ShapeOK, Route, runVars
<1> QED
  BY <1>2, <1>3, <1>4 DEF Inv, TypeOK, CancelLogin

\* The operator, the clock, a crash and the recovery of an action.
LEMMA OutsideInv ==
  ASSUME Inv,
         \/ \E c \in Lanes : OperatorHalts(c) \/ OperatorResumes(c)
         \/ TimePasses
         \/ Crash
         \/ \E t \in Tasks : Recover(t)
         \/ UNCHANGED vars
  PROVE  Inv'
<1>1. ASSUME NEW c \in Lanes, OperatorHalts(c) PROVE Inv'
  <2>1. LaneTypeOK'
    BY <1>1, SetHaltedType DEF OperatorHalts, Inv, TypeOK, LaneTypeOK, Reasons
  <2>2. TaskTypeOK' /\ RunTypeOK' /\ JobTypeOK'
    BY <1>1, Frame DEF Inv, OperatorHalts
  <2>3. ShapeOK'
    BY <1>1 DEF OperatorHalts, Inv, ShapeOK, Route, runVars, jobVars
  <2> QED
    BY <1>1, <2>1, <2>2, <2>3 DEF Inv, TypeOK, OperatorHalts
<1>2. ASSUME NEW c \in Lanes, OperatorResumes(c) PROVE Inv'
  <2>1. LaneTypeOK' /\ TaskTypeOK'
    BY <1>2, ResumeType DEF OperatorResumes, Inv
  <2>2. RunTypeOK' /\ JobTypeOK'
    BY <1>2, Frame DEF Inv, OperatorResumes
  <2>3. ShapeOK'
    BY <1>2 DEF OperatorResumes, Inv, ShapeOK, Route, runVars, jobVars
  <2> QED
    BY <1>2, <2>1, <2>2, <2>3 DEF Inv, TypeOK, OperatorResumes
<1>3. ASSUME TimePasses \/ UNCHANGED vars PROVE Inv'
  <2>1. LaneTypeOK' /\ TaskTypeOK' /\ RunTypeOK' /\ JobTypeOK'
    BY <1>3, Frame DEF Inv, TimePasses, vars
  <2>2. ShapeOK' /\ now' \in Nat
    BY <1>3 DEF TimePasses, Inv, TypeOK, ShapeOK, Route, vars, runVars, jobVars
  <2> QED
    BY <2>1, <2>2 DEF Inv, TypeOK
<1>4. ASSUME Crash PROVE Inv'
  <2>1. LaneTypeOK' /\ TaskTypeOK'
    BY <1>4, Frame DEF Inv, Crash
  <2>2. RunTypeOK'
    BY <1>4 DEF Crash, RunTypeOK, Steps, Results
  <2>3. JobTypeOK' /\ ShapeOK' /\ now' \in Nat
    BY <1>4 DEF Crash, Inv, TypeOK, JobTypeOK, JobPhases, ShapeOK, Runners
  <2> QED
    BY <2>1, <2>2, <2>3 DEF Inv, TypeOK
<1>5. ASSUME NEW t \in Tasks, Recover(t) PROVE Inv'
  <2>1. LaneTypeOK' /\ RunTypeOK' /\ JobTypeOK'
    BY <1>5, Frame DEF Inv, Recover
  <2>2. TaskTypeOK' /\ ShapeOK' /\ now' \in Nat
    BY <1>5 DEF Recover, Inv, TypeOK, TaskTypeOK, TaskStates, ShapeOK, Route, runVars, jobVars
  <2> QED
    BY <2>1, <2>2 DEF Inv, TypeOK
<1> QED
  BY <1>1, <1>2, <1>3, <1>4, <1>5

\* Every step keeps the types and the shape of what is in memory.
LEMMA InvStep == Inv /\ [Next]_vars => Inv'
<1> SUFFICES ASSUME Inv, [Next]_vars PROVE Inv'
  OBVIOUS
<1>1. CASE \E r \in Ticks, t \in Tasks : Claim(r, t)
  BY <1>1, ClaimInv
<1>2. CASE \E r \in Runners : Admit(r) \/ PassOver(r) \/ Enter(r) \/ \E s \in Reported : Leave(r, s)
  BY <1>2, AdmitInv, PassOverInv, EnterInv, LeaveInv
<1>3. CASE (\E r \in Ticks : Record(r)) \/ RecordCheck
  BY <1>3, RecordInv, RecordCheckInv
<1>4. CASE \E c \in Lanes : StartLogin(c) \/ StartCheck(c)
  BY <1>4, StartLoginInv, StartCheckInv
<1>5. CASE StopForLogin \/ OpenWindow \/ (\E ok \in BOOLEAN : CloseWindow(ok)) \/ CancelLogin
  BY <1>5, StopForLoginInv, OpenWindowInv, CloseWindowInv, CancelLoginInv
<1>6. CASE \/ \E c \in Lanes : OperatorHalts(c) \/ OperatorResumes(c)
           \/ TimePasses
           \/ Crash
           \/ \E t \in Tasks : Recover(t)
           \/ UNCHANGED vars
  BY <1>6, OutsideInv
<1> QED
  BY <1>1, <1>2, <1>3, <1>4, <1>5, <1>6 DEF Next

\* The lanes' types, and the shape of the memory, in every reachable state.
LEMMA InvHolds == Spec => []Inv
BY TypeInit, InvStep, PTL DEF Spec

\* Every column and every variable in memory keeps its type.
THEOREM LaneTypesCorrect == Spec => []TypeOK
<1>1. Inv => TypeOK
  BY DEF Inv
<1> QED
  BY <1>1, InvHolds, PTL

(***************************************************************************)
(* What a step may do to a lane.                                           *)
(***************************************************************************)
\* The ways in which the columns that stop a lane, and its alerts, are written.
LaneMove ==
  \/ UNCHANGED <<state, reason, incidents, alerts, stragglers>>
  \/ \E C \in SUBSET Lanes, why \in {"barrier", "limits", "drift"} : Halt(C, why)
  \/ \E c \in Lanes, wait \in Nat : CoolDown(c, wait)
  \/ (\E C \in SUBSET Lanes : Snapshot(C)) /\ UNCHANGED <<incidents, alerts, stragglers>>
  \/ \E c \in Lanes, why \in {"login", "operator"} :
       SetHalted({c}, why) /\ UNCHANGED <<incidents, alerts>>
  \/ \E c \in Lanes : Forget(c) /\ UNCHANGED stragglers

\* A recorded result halts lanes, cools one down or leaves them as they are.
LEMMA RecordResultMoves ==
  ASSUME NEW c \in Lanes, NEW s, RecordResult(c, s)
  PROVE  /\ LaneMove
         /\ s \in Barriers => \E C \in SUBSET Lanes : c \in C /\ Halt(C, "barrier")
         /\ s # "RATE_LIMITED" =>
              \/ UNCHANGED <<state, reason, incidents, alerts, stragglers>>
              \/ \E C \in SUBSET Lanes, why \in {"barrier", "drift"} : Halt(C, why)
<1>1. {c} \in SUBSET Lanes /\ Lanes \in SUBSET Lanes
  OBVIOUS
<1>2. s \in Barriers => \E C \in SUBSET Lanes : c \in C /\ Halt(C, "barrier")
  BY <1>1 DEF RecordResult, Barriers
<1>3. s # "RATE_LIMITED" =>
        \/ UNCHANGED <<state, reason, incidents, alerts, stragglers>>
        \/ \E C \in SUBSET Lanes, why \in {"barrier", "drift"} : Halt(C, why)
  BY <1>1 DEF RecordResult, Drifted, laneVars
<1>4. CASE s = "RATE_LIMITED"
  <2>1. Halt({c}, "limits") \/ \E d \in RetryAfter : CoolDown(c, IF d > Cooldown THEN d ELSE Cooldown)
    BY <1>4 DEF RecordResult, RateLimited
  <2>2. \A d \in RetryAfter : (IF d > Cooldown THEN d ELSE Cooldown) \in Nat
    BY LanesAssumption
  <2>3. LaneMove
    BY <1>1, <2>1, <2>2 DEF LaneMove
  <2> QED
    BY <1>2, <1>3, <2>3
<1>5. CASE s # "RATE_LIMITED"
  BY <1>2, <1>3, <1>5 DEF LaneMove
<1> QED
  BY <1>4, <1>5

\* Every step moves the lanes in one of these ways.
LEMMA StepMoves == Inv /\ [Next]_vars => LaneMove
<1> SUFFICES ASSUME Inv, [Next]_vars PROVE LaneMove
  OBVIOUS
<1>1. ASSUME NEW r \in Ticks, NEW t \in Tasks, Claim(r, t) PROVE LaneMove
  <2>1. {Routes[t][i] : i \in DOMAIN Routes[t]} \in SUBSET Lanes
    BY LanesAssumption
  <2> QED
    BY <1>1, <2>1 DEF LaneMove, Claim
<1>2. ASSUME NEW r \in Runners, Admit(r) PROVE LaneMove
  <2>1. {LaneOf(r)} \in SUBSET Lanes
    BY <1>2, LaneOfType DEF Admit
  <2> QED
    BY <1>2, <2>1 DEF LaneMove, Admit
<1>3. CASE \E r \in Runners : PassOver(r) \/ Enter(r) \/ \E s \in Reported : Leave(r, s)
  BY <1>3 DEF LaneMove, PassOver, Enter, Leave, laneVars
<1>4. ASSUME NEW r \in Runners, step[r] = "done", RecordResult(resLane[r], res[r]) PROVE LaneMove
  <2>1. resLane[r] \in Lanes
    BY <1>4 DEF Inv, ShapeOK
  <2> QED
    BY <1>4, <2>1, RecordResultMoves
<1>5. CASE (\E r \in Ticks : Record(r)) \/ RecordCheck
  BY <1>4, <1>5 DEF Record, RecordCheck, Runners
<1>6. CASE (\E c \in Lanes : StartLogin(c) \/ StartCheck(c)) \/ OpenWindow \/ TimePasses \/ Crash
           \/ (\E t \in Tasks : Recover(t)) \/ UNCHANGED vars
  BY <1>6 DEF LaneMove, StartLogin, StartCheck, OpenWindow, TimePasses, Crash, Recover, vars,
     laneVars
<1>7. CASE StopForLogin
  BY <1>7 DEF LaneMove, StopForLogin, Inv, ShapeOK
<1>8. ASSUME Reopen, job # "none" PROVE LaneMove
  BY <1>8 DEF LaneMove, Reopen, Resume, Inv, ShapeOK, laneVars
<1>9. CASE (\E ok \in BOOLEAN : CloseWindow(ok)) \/ CancelLogin
  BY <1>8, <1>9 DEF CloseWindow, CancelLogin
<1>10. CASE \E c \in Lanes : OperatorHalts(c) \/ OperatorResumes(c)
  BY <1>10 DEF LaneMove, OperatorHalts, OperatorResumes, Resume
<1> QED
  BY <1>1, <1>2, <1>3, <1>5, <1>6, <1>7, <1>9, <1>10 DEF Next

(***************************************************************************)
(* A stopped account has told its operator.                                *)
(***************************************************************************)
\* A lane stopped by a barrier has its incident, and an incident its alert: what makes
\* the silence about an incident that is already open harmless.
IncidentsOK ==
  \A c \in Lanes :
    /\ reason[c] = "barrier" => <<c, "barrier">> \in incidents
    /\ <<c, "barrier">> \in incidents => "CRITICAL" \in alerts[c]

\* Incidents and alerts are only ever forgotten together, with the reason.
LEMMA IncidentsStep == TypeOK /\ IncidentsOK /\ LaneMove => IncidentsOK'
<1> SUFFICES ASSUME TypeOK, IncidentsOK, LaneMove PROVE IncidentsOK'
  OBVIOUS
<1> SUFFICES ASSUME NEW c \in Lanes
             PROVE  /\ reason'[c] = "barrier" => <<c, "barrier">> \in incidents'
                    /\ <<c, "barrier">> \in incidents' => "CRITICAL" \in alerts'[c]
  BY DEF IncidentsOK
<1>1. CASE UNCHANGED <<state, reason, incidents, alerts, stragglers>>
  BY <1>1 DEF IncidentsOK
<1>2. ASSUME NEW C \in SUBSET Lanes, Halt(C, "barrier")
      PROVE  /\ reason'[c] = "barrier" => <<c, "barrier">> \in incidents'
             /\ <<c, "barrier">> \in incidents' => "CRITICAL" \in alerts'[c]
  BY <1>2 DEF IncidentsOK, Halt, SetHalted, OpenIncidents, KindOf, SeverityOf
<1>3. ASSUME NEW C \in SUBSET Lanes, NEW why \in {"limits", "drift"}, Halt(C, why)
      PROVE  /\ reason'[c] = "barrier" => <<c, "barrier">> \in incidents'
             /\ <<c, "barrier">> \in incidents' => "CRITICAL" \in alerts'[c]
  <2>1. KindOf(why) # "barrier" /\ why # "barrier"
    BY DEF KindOf
  <2> QED
    BY <1>3, <2>1 DEF IncidentsOK, Halt, SetHalted, OpenIncidents
<1>4. ASSUME NEW d \in Lanes, NEW wait \in Nat, CoolDown(d, wait)
      PROVE  /\ reason'[c] = "barrier" => <<c, "barrier">> \in incidents'
             /\ <<c, "barrier">> \in incidents' => "CRITICAL" \in alerts'[c]
  BY <1>4 DEF TypeOK, LaneTypeOK, IncidentsOK, CoolDown, OpenIncidents
<1>5. ASSUME NEW C \in SUBSET Lanes, Snapshot(C), UNCHANGED <<incidents, alerts, stragglers>>
      PROVE  /\ reason'[c] = "barrier" => <<c, "barrier">> \in incidents'
             /\ <<c, "barrier">> \in incidents' => "CRITICAL" \in alerts'[c]
  BY <1>5 DEF IncidentsOK, Snapshot
<1>6. ASSUME NEW d \in Lanes, NEW why \in {"login", "operator"}, SetHalted({d}, why),
             UNCHANGED <<incidents, alerts>>
      PROVE  /\ reason'[c] = "barrier" => <<c, "barrier">> \in incidents'
             /\ <<c, "barrier">> \in incidents' => "CRITICAL" \in alerts'[c]
  BY <1>6 DEF IncidentsOK, SetHalted
<1>7. ASSUME NEW d \in Lanes, Forget(d)
      PROVE  /\ reason'[c] = "barrier" => <<c, "barrier">> \in incidents'
             /\ <<c, "barrier">> \in incidents' => "CRITICAL" \in alerts'[c]
  BY <1>7 DEF TypeOK, LaneTypeOK, IncidentsOK, Forget
<1> QED
  BY <1>1, <1>2, <1>3, <1>4, <1>5, <1>6, <1>7 DEF LaneMove

\* Whatever stopped the lane before, a lane that Instagram's barrier has stopped has
\* handed a CRITICAL alert to the notifier since its last resume, and its incident is open.
THEOREM BarriersAreAlerted == Spec => []BarrierIsAlerted
<1>1. Init => IncidentsOK
  BY DEF Init, IncidentsOK
<1>2. Inv /\ IncidentsOK /\ [Next]_vars => IncidentsOK'
  BY StepMoves, IncidentsStep DEF Inv
<1>3. IncidentsOK => BarrierIsAlerted
  BY DEF IncidentsOK, BarrierIsAlerted
<1> QED
  BY <1>1, <1>2, <1>3, InvHolds, PTL DEF Spec

(***************************************************************************)
(* The executor's look is the last one.                                    *)
(***************************************************************************)
\* A lane that is halted after a move was halted before it, or has noted who had looked.
LEMMA HaltNotesStragglers ==
  ASSUME TypeOK, LaneMove, NEW c \in Lanes, state'[c] = "HALTED"
  PROVE  \/ state[c] = "HALTED" /\ stragglers'[c] = stragglers[c]
         \/ stragglers'[c] = Admitted(c)
<1>1. CASE UNCHANGED <<state, reason, incidents, alerts, stragglers>>
  BY <1>1
<1>2. ASSUME NEW C, NEW why, SetHalted(C, why)
      PROVE  \/ state[c] = "HALTED" /\ stragglers'[c] = stragglers[c]
             \/ stragglers'[c] = Admitted(c)
  BY <1>2 DEF SetHalted
<1>3. ASSUME NEW d \in Lanes, NEW wait \in Nat, CoolDown(d, wait)
      PROVE  state[c] = "HALTED" /\ stragglers'[c] = stragglers[c]
  BY <1>3 DEF TypeOK, LaneTypeOK, CoolDown
<1>4. ASSUME NEW C \in SUBSET Lanes, Snapshot(C), UNCHANGED <<incidents, alerts, stragglers>>
      PROVE  state[c] = "HALTED" /\ stragglers'[c] = stragglers[c]
  BY <1>4 DEF Snapshot
<1>5. ASSUME NEW d \in Lanes, Forget(d), UNCHANGED stragglers
      PROVE  state[c] = "HALTED" /\ stragglers'[c] = stragglers[c]
  BY <1>5 DEF TypeOK, LaneTypeOK, Forget
<1> QED
  BY <1>1, <1>2, <1>3, <1>4, <1>5 DEF LaneMove, Halt

\* Only the executor's look lets a runner through, and only on a lane that is not halted.
LEMMA NobodyElseAdmitted ==
  ASSUME Inv, [Next]_vars, NEW c \in Lanes
  PROVE  \/ Admitted(c)' \subseteq Admitted(c)
         \/ state[c] # "HALTED" /\ state'[c] # "HALTED"
<1>1. ASSUME NEW r \in Ticks, NEW t \in Tasks, Claim(r, t) PROVE Admitted(c)' \subseteq Admitted(c)
  BY <1>1 DEF Admitted, Claim, LaneOf, Route, Inv, TypeOK, RunTypeOK, Runners, jobVars
<1>2. ASSUME NEW r \in Runners, Admit(r)
      PROVE  \/ Admitted(c)' \subseteq Admitted(c)
             \/ state[c] # "HALTED" /\ state'[c] # "HALTED"
  <2>1. \A q \in Runners : LaneOf(q)' = LaneOf(q)
    BY <1>2 DEF Admit, LaneOf, Route, jobVars
  <2>2. CASE c = LaneOf(r)
    BY <1>2, <2>2 DEF Admit, Snapshot, Open, Lapsed
  <2>3. CASE c # LaneOf(r)
    BY <1>2, <2>1, <2>3 DEF Admit, Admitted, Inv, TypeOK, RunTypeOK
  <2> QED
    BY <2>2, <2>3
<1>3. ASSUME NEW r \in Runners, PassOver(r) PROVE Admitted(c)' \subseteq Admitted(c)
  BY <1>3 DEF PassOver, Admitted, LaneOf, Route, Inv, TypeOK, RunTypeOK, jobVars
<1>4. ASSUME NEW r \in Runners, Enter(r) PROVE Admitted(c)' \subseteq Admitted(c)
  BY <1>4 DEF Enter, Admitted, LaneOf, Route, Inv, TypeOK, RunTypeOK, jobVars
<1>5. ASSUME NEW r \in Runners, NEW s \in Reported, Leave(r, s)
      PROVE  Admitted(c)' \subseteq Admitted(c)
  BY <1>5 DEF Leave, Admitted, LaneOf, Route, Inv, TypeOK, RunTypeOK, jobVars
<1>6. ASSUME NEW r \in Ticks, Record(r) PROVE Admitted(c)' \subseteq Admitted(c)
  BY <1>6 DEF Record, Admitted, LaneOf, Route, Inv, TypeOK, RunTypeOK, Runners, jobVars
<1>7. CASE RecordCheck
  BY <1>7 DEF RecordCheck, Admitted, LaneOf, Route, Inv, TypeOK, RunTypeOK, Runners
<1>8. ASSUME step[Desk] = "idle", UNCHANGED item,
             \A q \in Runners : q # Desk => step'[q] = step[q] /\ at'[q] = at[q],
             step'[Desk] \in {"idle", "routing"}
      PROVE  Admitted(c)' \subseteq Admitted(c)
  BY <1>8 DEF Admitted, LaneOf, Route
<1>9. CASE \E d \in Lanes : StartLogin(d) \/ StartCheck(d)
  <2>1. step[Desk] = "idle" /\ Desk \in Runners
    BY <1>9 DEF StartLogin, StartCheck, Inv, ShapeOK, Runners
  <2> QED
    BY <1>8, <1>9, <2>1 DEF StartLogin, StartCheck, Inv, TypeOK, RunTypeOK, runVars
<1>10. CASE (\E ok \in BOOLEAN : CloseWindow(ok)) \/ CancelLogin
  <2>1. step[Desk] = "idle" /\ Desk \in Runners
    BY <1>10 DEF CloseWindow, CancelLogin, Inv, ShapeOK, Runners
  <2> QED
    BY <1>8, <1>10, <2>1 DEF CloseWindow, CancelLogin, Inv, TypeOK, RunTypeOK, runVars
<1>11. CASE StopForLogin \/ OpenWindow \/ TimePasses \/ UNCHANGED vars
            \/ (\E d \in Lanes : OperatorHalts(d) \/ OperatorResumes(d))
            \/ \E t \in Tasks : Recover(t)
  BY <1>11 DEF StopForLogin, OpenWindow, TimePasses, OperatorHalts, OperatorResumes, Recover,
               Admitted, LaneOf, Route, vars, runVars, jobVars
<1>12. CASE Crash
  BY <1>12 DEF Crash, Admitted
<1> QED
  BY <1>1, <1>2, <1>3, <1>4, <1>5, <1>6, <1>7, <1>9, <1>10, <1>11, <1>12 DEF Next

\* On a halted lane nobody runs, or waits to run, who had not looked at it before.
THEOREM HaltedLanesDrain == Spec => []OnlyStragglersOnHaltedLane
<1>1. Init => OnlyStragglersOnHaltedLane
  BY DEF Init, OnlyStragglersOnHaltedLane
<1>2. Inv /\ OnlyStragglersOnHaltedLane /\ [Next]_vars => OnlyStragglersOnHaltedLane'
  <2> SUFFICES ASSUME Inv, OnlyStragglersOnHaltedLane, [Next]_vars,
                      NEW c \in Lanes, state'[c] = "HALTED"
               PROVE  Admitted(c)' \subseteq stragglers'[c]
    BY DEF OnlyStragglersOnHaltedLane
  <2>1. Admitted(c)' \subseteq Admitted(c)
    BY NobodyElseAdmitted
  <2>2. \/ state[c] = "HALTED" /\ stragglers'[c] = stragglers[c]
        \/ stragglers'[c] = Admitted(c)
    BY StepMoves, HaltNotesStragglers DEF Inv
  <2> QED
    BY <2>1, <2>2 DEF OnlyStragglersOnHaltedLane
<1> QED
  BY <1>1, <1>2, InvHolds, PTL DEF Spec

(***************************************************************************)
(* The login window has the profile for itself.                            *)
(***************************************************************************)
\* Who runs on a lane, or has its window open, holds a permit of it, and a lane with one
\* permit has one holder.
PermitsOK ==
  /\ \A c \in Lanes : Sessions[c] = 1 => \A p, q \in users[c] : p = q
  /\ \A r \in Runners : step[r] = "running" => r \in users[LaneOf(r)]
  /\ job = "window" => Desk \in users[jobLane]

\* A semaphore with one permit that has one to give has given none.
LEMMA OnePermit ==
  ASSUME TypeOK, NEW c \in Lanes, Sessions[c] = 1, Cardinality(users[c]) < Sessions[c]
  PROVE  users[c] = {}
<1>1. IsFiniteSet(Runners)
  BY LanesAssumption, FS_AddElement DEF Runners
<1>2. IsFiniteSet(users[c])
  BY <1>1, FS_Subset DEF TypeOK, RunTypeOK
<1>3. Cardinality(users[c]) \in Nat
  BY <1>2, FS_CardinalityType
<1>4. Cardinality(users[c]) = 0
  BY <1>3
<1> QED
  BY <1>2, <1>4, FS_EmptySet

\* A runner takes the only permit when nobody holds it.
LEMMA EnterPermits ==
  ASSUME Inv, PermitsOK, NEW r \in Runners, Enter(r)
  PROVE  PermitsOK'
<1>1. LaneOf(r) \in Lanes
  BY LaneOfType DEF Enter
<1>2. \A q \in Runners : LaneOf(q)' = LaneOf(q)
  BY DEF Enter, LaneOf, Route, jobVars
<1>3. \A c \in Lanes : users'[c] = IF c = LaneOf(r) THEN users[c] \cup {r} ELSE users[c]
  BY <1>1 DEF Enter, Inv, TypeOK, RunTypeOK
<1>4. \A c \in Lanes : Sessions[c] = 1 => \A p, q \in users'[c] : p = q
  <2>1. Sessions[LaneOf(r)] = 1 => users[LaneOf(r)] = {}
    BY <1>1, OnePermit DEF Enter, Inv
  <2> QED
    BY <1>3, <2>1 DEF PermitsOK
<1>5. \A q \in Runners : step'[q] = "running" => q \in users'[LaneOf(q)']
  <2> SUFFICES ASSUME NEW q \in Runners, step'[q] = "running"
               PROVE  q \in users'[LaneOf(q)]
    BY <1>2
  <2>1. CASE q = r
    BY <1>1, <1>3, <2>1
  <2>2. CASE q # r
    <3>1. step[q] = "running"
      BY <2>2 DEF Enter, Inv, TypeOK, RunTypeOK
    <3>2. LaneOf(q) \in Lanes
      BY <3>1, LaneOfType
    <3> QED
      BY <1>3, <3>1, <3>2 DEF PermitsOK
  <2> QED
    BY <2>1, <2>2
<1>6. job' = "window" => Desk \in users'[jobLane']
  BY <1>3 DEF Enter, PermitsOK, Inv, ShapeOK, jobVars
<1> QED
  BY <1>4, <1>5, <1>6 DEF PermitsOK

\* A runner that leaves gives back its own permit only, and is not Desk in its window.
LEMMA LeavePermits ==
  ASSUME Inv, PermitsOK, NEW r \in Runners, NEW s \in Reported, Leave(r, s)
  PROVE  PermitsOK'
<1>1. LaneOf(r) \in Lanes /\ (job = "window" => r # Desk)
  BY LaneOfType DEF Leave, Inv, ShapeOK
<1>2. \A c \in Lanes : users'[c] = IF c = LaneOf(r) THEN users[c] \ {r} ELSE users[c]
  BY <1>1 DEF Leave, Inv, TypeOK, RunTypeOK
<1>3. \A q \in Runners : step'[q] = "running" => q # r /\ step[q] = "running" /\ LaneOf(q)' = LaneOf(q)
  BY DEF Leave, LaneOf, Route, Inv, TypeOK, RunTypeOK, jobVars
<1>4. \A q \in Runners : step'[q] = "running" => q \in users'[LaneOf(q)']
  <2> SUFFICES ASSUME NEW q \in Runners, step'[q] = "running"
               PROVE  q \in users'[LaneOf(q)]
    BY <1>3
  <2>1. LaneOf(q) \in Lanes
    BY <1>3, LaneOfType
  <2>2. q # r /\ q \in users[LaneOf(q)]
    BY <1>3 DEF PermitsOK
  <2> QED
    BY <1>2, <2>1, <2>2
<1>5. job' = "window" => Desk \in users'[jobLane']
  BY <1>1, <1>2 DEF Leave, PermitsOK, Inv, ShapeOK, jobVars
<1>6. \A c \in Lanes : Sessions[c] = 1 => \A p, q \in users'[c] : p = q
  BY <1>2 DEF PermitsOK
<1> QED
  BY <1>4, <1>5, <1>6 DEF PermitsOK

\* The window opens when its lane's only permit is free.
LEMMA OpenWindowPermits ==
  ASSUME Inv, PermitsOK, OpenWindow
  PROVE  PermitsOK'
<1>1. jobLane \in Lanes
  BY DEF OpenWindow, Inv, ShapeOK
<1>2. \A c \in Lanes : users'[c] = IF c = jobLane THEN users[c] \cup {Desk} ELSE users[c]
  BY <1>1 DEF OpenWindow, Inv, TypeOK, RunTypeOK
<1>3. \A q \in Runners : step'[q] = step[q] /\ LaneOf(q)' = LaneOf(q)
  BY DEF OpenWindow, LaneOf, Route, runVars
<1>4. \A c \in Lanes : Sessions[c] = 1 => \A p, q \in users'[c] : p = q
  <2>1. Sessions[jobLane] = 1 => users[jobLane] = {}
    BY <1>1, OnePermit DEF OpenWindow, Inv
  <2> QED
    BY <1>2, <2>1 DEF PermitsOK
<1>5. \A q \in Runners : step'[q] = "running" => q \in users'[LaneOf(q)']
  <2> SUFFICES ASSUME NEW q \in Runners, step[q] = "running"
               PROVE  q \in users'[LaneOf(q)]
    BY <1>3
  <2>1. LaneOf(q) \in Lanes
    BY LaneOfType
  <2> QED
    BY <1>2, <2>1 DEF PermitsOK
<1>6. job' = "window" => Desk \in users'[jobLane']
  BY <1>1, <1>2 DEF OpenWindow
<1> QED
  BY <1>4, <1>5, <1>6 DEF PermitsOK

\* A login that ends gives back the window's permit; Desk runs nowhere at that moment.
LEMMA EndLoginPermits ==
  ASSUME Inv, PermitsOK, (\E ok \in BOOLEAN : CloseWindow(ok)) \/ CancelLogin
  PROVE  PermitsOK'
<1>1. jobLane \in Lanes /\ step[Desk] = "idle" /\ Desk \in Runners /\ job' # "window"
  BY DEF CloseWindow, CancelLogin, Inv, ShapeOK, Runners
<1>2. \A c \in Lanes : users'[c] = IF c = jobLane THEN users[c] \ {Desk} ELSE users[c]
  BY <1>1 DEF CloseWindow, CancelLogin, Inv, TypeOK, RunTypeOK
<1>3. \A q \in Runners : step'[q] = "running" => q # Desk /\ step[q] = "running" /\ LaneOf(q)' = LaneOf(q)
  BY <1>1 DEF CloseWindow, CancelLogin, LaneOf, Route, Inv, TypeOK, RunTypeOK, runVars
<1>4. \A q \in Runners : step'[q] = "running" => q \in users'[LaneOf(q)']
  <2> SUFFICES ASSUME NEW q \in Runners, step'[q] = "running"
               PROVE  q \in users'[LaneOf(q)]
    BY <1>3
  <2>1. LaneOf(q) \in Lanes
    BY <1>3, LaneOfType
  <2> QED
    BY <1>2, <1>3, <2>1 DEF PermitsOK
<1>5. \A c \in Lanes : Sessions[c] = 1 => \A p, q \in users'[c] : p = q
  BY <1>2 DEF PermitsOK
<1> QED
  BY <1>1, <1>4, <1>5 DEF PermitsOK

\* Every other step moves no permit and starts nobody running.
LEMMA PermitsStep == Inv /\ PermitsOK /\ [Next]_vars => PermitsOK'
<1> SUFFICES ASSUME Inv, PermitsOK, [Next]_vars PROVE PermitsOK'
  OBVIOUS
<1>1. ASSUME UNCHANGED users,
             job' = "window" => job = "window" /\ jobLane' = jobLane,
             \A q \in Runners : step'[q] = "running" => step[q] = "running" /\ LaneOf(q)' = LaneOf(q)
      PROVE  PermitsOK'
  BY <1>1 DEF PermitsOK
<1>2. ASSUME NEW r \in Ticks, NEW t \in Tasks, Claim(r, t) PROVE PermitsOK'
  <2>1. \A q \in Runners : step'[q] = "running" => step[q] = "running" /\ LaneOf(q)' = LaneOf(q)
    BY <1>2 DEF Claim, LaneOf, Route, Inv, TypeOK, RunTypeOK, Runners, jobVars
  <2> QED
    BY <1>1, <1>2, <2>1 DEF Claim, jobVars
<1>3. ASSUME NEW r \in Runners, Admit(r) \/ PassOver(r) PROVE PermitsOK'
  <2>1. \A q \in Runners : step'[q] = "running" => step[q] = "running" /\ LaneOf(q)' = LaneOf(q)
    BY <1>3 DEF Admit, PassOver, LaneOf, Route, Inv, TypeOK, RunTypeOK, jobVars
  <2> QED
    BY <1>1, <1>3, <2>1 DEF Admit, PassOver, jobVars
<1>4. CASE \E r \in Ticks : Record(r)
  <2>1. \A q \in Runners : step'[q] = "running" => step[q] = "running" /\ LaneOf(q)' = LaneOf(q)
    BY <1>4 DEF Record, LaneOf, Route, Inv, TypeOK, RunTypeOK, Runners, jobVars
  <2> QED
    BY <1>1, <1>4, <2>1 DEF Record, jobVars
<1>5. CASE RecordCheck
  <2>1. \A q \in Runners : step'[q] = "running" => step[q] = "running" /\ LaneOf(q)' = LaneOf(q)
    BY <1>5 DEF RecordCheck, LaneOf, Route, Inv, TypeOK, RunTypeOK, Runners
  <2> QED
    BY <1>1, <1>5, <2>1 DEF RecordCheck
<1>6. CASE \E c \in Lanes : StartLogin(c) \/ StartCheck(c)
  <2>1. step[Desk] = "idle" /\ Desk \in Runners
    BY <1>6 DEF StartLogin, StartCheck, Inv, ShapeOK, Runners
  <2>2. \A q \in Runners : step'[q] = "running" => step[q] = "running" /\ LaneOf(q)' = LaneOf(q)
    BY <1>6, <2>1 DEF StartLogin, StartCheck, LaneOf, Route, Inv, TypeOK, RunTypeOK, runVars
  <2> QED
    BY <1>1, <1>6, <2>2 DEF StartLogin, StartCheck
<1>7. CASE StopForLogin \/ TimePasses \/ UNCHANGED vars
           \/ (\E c \in Lanes : OperatorHalts(c) \/ OperatorResumes(c))
           \/ \E t \in Tasks : Recover(t)
  <2>1. UNCHANGED <<runVars, users, jobLane>> /\ (job' = "window" => job = "window")
    BY <1>7 DEF StopForLogin, TimePasses, OperatorHalts, OperatorResumes, Recover, vars, jobVars
  <2>2. \A q \in Runners : step'[q] = step[q] /\ LaneOf(q)' = LaneOf(q)
    BY <2>1 DEF LaneOf, Route, runVars
  <2> QED
    BY <1>1, <2>1, <2>2
<1>8. CASE Crash
  BY <1>8 DEF Crash, PermitsOK
<1> QED
  BY <1>2, <1>3, <1>4, <1>5, <1>6, <1>7, <1>8, EnterPermits, LeavePermits, OpenWindowPermits,
     EndLoginPermits DEF Next

\* While a login window is open on a lane with one permit, no step runs on that lane.
THEOREM TheWindowIsAlone == Spec => []WindowIsAlone
<1>1. Init => PermitsOK
  BY DEF Init, PermitsOK
<1>2. Inv /\ PermitsOK => WindowIsAlone
  <2> SUFFICES ASSUME Inv, PermitsOK, NEW c \in Lanes, job = "window", jobLane = c,
                      Sessions[c] = 1, NEW r \in Runners, step[r] = "running", LaneOf(r) = c
               PROVE  FALSE
    BY DEF WindowIsAlone
  <2>1. r = Desk
    BY DEF PermitsOK
  <2> QED
    BY <2>1 DEF Inv, ShapeOK
<1> QED
  BY <1>1, <1>2, PermitsStep, InvHolds, PTL DEF Spec

(***************************************************************************)
(* A halt made for a login window ends with the login.                     *)
(***************************************************************************)
\* The job whose halt it is remembers that it halted the lane.
LoginHaltOK ==
  \A c \in Lanes : reason[c] = "login" => job \in {"waiting", "window"} /\ jobLane = c /\ stoppedHere

\* No lane becomes halted for a login.
NoNewLogin == \A c \in Lanes : reason'[c] = "login" => reason[c] = "login"

\* A result has other reasons to stop a lane.
LEMMA ResultIsNoLogin ==
  ASSUME TypeOK, NEW c \in Lanes, NEW s, RecordResult(c, s)
  PROVE  NoNewLogin
<1>1. ASSUME NEW C, NEW why, why # "login", Halt(C, why) PROVE NoNewLogin
  BY <1>1 DEF NoNewLogin, Halt, SetHalted
<1>2. ASSUME NEW wait, CoolDown(c, wait) PROVE NoNewLogin
  BY <1>2 DEF NoNewLogin, CoolDown, TypeOK, LaneTypeOK
<1>3. CASE UNCHANGED reason
  BY <1>3 DEF NoNewLogin
<1> QED
  BY <1>1, <1>2, <1>3 DEF RecordResult, RateLimited, Drifted, laneVars

\* The login job halts its lane knowing that it did, and reopens it in every ending it
\* lives to see.
LEMMA LoginHaltStep ==
  ASSUME "crash" \notin Events, Inv, LoginHaltOK, [Next]_vars
  PROVE  LoginHaltOK'
<1>1. ASSUME NoNewLogin, UNCHANGED jobVars PROVE LoginHaltOK'
  BY <1>1 DEF NoNewLogin, LoginHaltOK, jobVars
<1>2. ASSUME NEW C, Snapshot(C) PROVE NoNewLogin
  BY <1>2 DEF NoNewLogin, Snapshot
<1>3. ASSUME NEW c \in Lanes, Resume(c)
      PROVE  NoNewLogin /\ reason'[c] # "login"
  BY <1>3 DEF NoNewLogin, Resume, Forget, TypeOK, LaneTypeOK, Inv
<1>4. CASE \E r \in Ticks, t \in Tasks : Claim(r, t)
  BY <1>1, <1>2, <1>4 DEF Claim
<1>5. ASSUME NEW r \in Runners,
             Admit(r) \/ PassOver(r) \/ Enter(r) \/ \E s \in Reported : Leave(r, s)
      PROVE  LoginHaltOK'
  <2>1. UNCHANGED jobVars /\ (UNCHANGED reason \/ Snapshot({LaneOf(r)}))
    BY <1>5 DEF Admit, PassOver, Enter, Leave, laneVars
  <2> QED
    BY <1>1, <1>2, <2>1 DEF NoNewLogin
<1>6. ASSUME NEW r \in Ticks, Record(r) PROVE LoginHaltOK'
  <2>1. resLane[r] \in Lanes
    BY <1>6 DEF Record, Inv, ShapeOK, Runners
  <2> QED
    BY <1>1, <1>6, <2>1, ResultIsNoLogin DEF Record, Inv
<1>7. CASE RecordCheck
  <2>1. resLane[Desk] \in Lanes /\ job = "checking"
    BY <1>7 DEF RecordCheck, Inv, ShapeOK, Runners
  <2>2. NoNewLogin
    BY <1>7, <2>1, ResultIsNoLogin DEF RecordCheck, Inv
  <2> QED
    BY <2>1, <2>2 DEF NoNewLogin, LoginHaltOK
<1>8. CASE \E c \in Lanes : StartLogin(c) \/ StartCheck(c)
  BY <1>8 DEF StartLogin, StartCheck, LoginHaltOK, laneVars
<1>9. CASE StopForLogin
  <2>1. jobLane \in Lanes
    BY <1>9 DEF StopForLogin, Inv, ShapeOK
  <2> QED
    BY <1>9, <2>1 DEF StopForLogin, SetHalted, LoginHaltOK
<1>10. CASE OpenWindow
  BY <1>10 DEF OpenWindow, LoginHaltOK, laneVars
<1>11. CASE (\E ok \in BOOLEAN : CloseWindow(ok)) \/ CancelLogin
  <2>1. jobLane \in Lanes /\ Reopen
    BY <1>11 DEF CloseWindow, CancelLogin, Inv, ShapeOK
  <2>2. CASE stoppedHere
    <3>1. NoNewLogin /\ reason'[jobLane] # "login"
      BY <1>3, <2>1, <2>2 DEF Reopen
    <3> QED
      BY <3>1 DEF NoNewLogin, LoginHaltOK
  <2>3. CASE ~stoppedHere
    BY <2>1, <2>3 DEF Reopen, LoginHaltOK, laneVars
  <2> QED
    BY <2>2, <2>3
<1>12. CASE \E c \in Lanes : OperatorHalts(c)
  <2>1. NoNewLogin /\ UNCHANGED jobVars
    BY <1>12 DEF OperatorHalts, SetHalted, NoNewLogin
  <2> QED
    BY <1>1, <2>1
<1>13. CASE \E c \in Lanes : OperatorResumes(c)
  BY <1>1, <1>3, <1>13 DEF OperatorResumes
<1>14. CASE TimePasses \/ (\E t \in Tasks : Recover(t)) \/ UNCHANGED vars
  BY <1>1, <1>14 DEF TimePasses, Recover, NoNewLogin, vars, laneVars
<1>15. ~Crash
  BY DEF Crash
<1> QED
  BY <1>4, <1>5, <1>6, <1>7, <1>8, <1>9, <1>10, <1>11, <1>12, <1>13, <1>14, <1>15 DEF Next

\* In a process that does not die, a lane halted for a login window is halted only while
\* the job that halted it waits for the lane or has the window open.
THEOREM LoginHaltsEnd ==
  ASSUME "crash" \notin Events
  PROVE  Spec => []LoginLeavesNoHalt
<1>1. Init => LoginHaltOK
  BY DEF Init, LoginHaltOK
<1>2. Inv /\ LoginHaltOK /\ [Next]_vars => LoginHaltOK'
  BY LoginHaltStep
<1>3. LoginHaltOK => LoginLeavesNoHalt
  BY DEF LoginHaltOK, LoginLeavesNoHalt
<1> QED
  BY <1>1, <1>2, <1>3, InvHolds, PTL DEF Spec

(***************************************************************************)
(* A parked action can be found and released.                              *)
(***************************************************************************)
\* What a runner has in hand was reported, or there was no lane.
AnswersOK == \A r \in Runners : res[r] \in Reported \cup {"none", "NO_LANE"}

\* Answers come from the adapters.
LEMMA AnswersStep == Inv /\ AnswersOK /\ [Next]_vars => AnswersOK'
<1> SUFFICES ASSUME Inv, AnswersOK, [Next]_vars PROVE AnswersOK'
  OBVIOUS
<1>1. ASSUME NEW r \in Runners, NEW s \in Reported \cup {"none", "NO_LANE"},
             res' = [res EXCEPT ![r] = s]
      PROVE  AnswersOK'
  BY <1>1 DEF AnswersOK, Inv, TypeOK, RunTypeOK
<1>2. CASE UNCHANGED res
  BY <1>2 DEF AnswersOK
<1>3. CASE \E r \in Runners, s \in Reported : Leave(r, s)
  BY <1>1, <1>3 DEF Leave
<1>4. CASE \E r \in Runners : PassOver(r)
  BY <1>1, <1>2, <1>4 DEF PassOver
<1>5. ASSUME NEW r \in Runners, res' = [res EXCEPT ![r] = "none"] \/ UNCHANGED res PROVE AnswersOK'
  BY <1>1, <1>2, <1>5
<1>6. CASE (\E r \in Ticks, t \in Tasks : Claim(r, t)) \/ \E r \in Ticks : Record(r)
  BY <1>5, <1>6 DEF Claim, Record, Runners
<1>7. CASE RecordCheck \/ (\E ok \in BOOLEAN : CloseWindow(ok)) \/ \E c \in Lanes : StartCheck(c)
  <2>1. Desk \in Runners /\ (res' = [res EXCEPT ![Desk] = "none"] \/ UNCHANGED res)
    BY <1>7 DEF RecordCheck, CloseWindow, StartCheck, Runners
  <2> QED
    BY <1>5, <2>1
<1>8. CASE \/ \E r \in Runners : Admit(r) \/ Enter(r)
           \/ \E c \in Lanes : StartLogin(c) \/ OperatorHalts(c) \/ OperatorResumes(c)
           \/ StopForLogin \/ OpenWindow \/ CancelLogin \/ TimePasses
           \/ (\E t \in Tasks : Recover(t)) \/ UNCHANGED vars
  BY <1>2, <1>8 DEF Admit, Enter, StartLogin, OperatorHalts, OperatorResumes, StopForLogin,
                    OpenWindow, CancelLogin, TimePasses, Recover, vars, runVars
<1>9. CASE Crash
  BY <1>9 DEF Crash, AnswersOK
<1> QED
  BY <1>3, <1>4, <1>8, <1>9, <1>6, <1>7 DEF Next

\* The lanes that are halted stay halted.
NoneReleased == \A c \in Lanes : state[c] = "HALTED" => state'[c] = "HALTED"

\* A result that is no rate limit releases no lane, and a barrier halts its own.
LEMMA ResultReleasesNone ==
  ASSUME TypeOK, NEW c \in Lanes, NEW s, RecordResult(c, s), s # "RATE_LIMITED"
  PROVE  NoneReleased /\ (s \in Barriers => state'[c] = "HALTED")
<1>1. ASSUME NEW C, NEW why, Halt(C, why)
      PROVE  NoneReleased /\ \A d \in C \cap Lanes : state'[d] = "HALTED"
  BY <1>1 DEF NoneReleased, Halt, SetHalted
<1>2. NoneReleased
  BY <1>1, RecordResultMoves DEF NoneReleased
<1>3. s \in Barriers => state'[c] = "HALTED"
  BY <1>1, RecordResultMoves
<1> QED
  BY <1>2, <1>3

\* A resumed lane's parked actions are released with it; the others' lanes stay halted.
LEMMA ResumeReleases ==
  ASSUME Inv, ParkedBehindHaltedLane, NEW c \in Lanes, Resume(c)
  PROVE  ParkedBehindHaltedLane'
<1> SUFFICES ASSUME NEW t \in Tasks, task'[t] = "NEEDS_HUMAN"
             PROVE  taskLane'[t] \in Lanes /\ state'[taskLane'[t]] = "HALTED"
  BY DEF ParkedBehindHaltedLane
<1>1. task[t] = "NEEDS_HUMAN" /\ taskLane[t] # c /\ taskLane'[t] = taskLane[t]
  BY DEF Resume
<1>2. taskLane[t] \in Lanes /\ state[taskLane[t]] = "HALTED"
  BY <1>1 DEF ParkedBehindHaltedLane
<1> QED
  BY <1>1, <1>2 DEF Resume, Forget, Inv, TypeOK, LaneTypeOK

\* Without rate limits nothing but a resume ends a halt, and resuming releases.
LEMMA ParkedStep ==
  ASSUME "RATE_LIMITED" \notin Reported, Inv, AnswersOK, ParkedBehindHaltedLane, [Next]_vars
  PROVE  ParkedBehindHaltedLane'
<1>1. ASSUME NoneReleased, UNCHANGED taskLane,
             \A t \in Tasks : task'[t] = "NEEDS_HUMAN" => task[t] = "NEEDS_HUMAN"
      PROVE  ParkedBehindHaltedLane'
  BY <1>1 DEF NoneReleased, ParkedBehindHaltedLane
<1>2. ASSUME NEW C, Snapshot(C) PROVE NoneReleased
  BY <1>2 DEF NoneReleased, Snapshot, Lapsed
<1>3. ASSUME NEW C, NEW why, SetHalted(C, why) PROVE NoneReleased
  BY <1>3 DEF NoneReleased, SetHalted
<1>4. ASSUME NEW r \in Ticks, NEW t \in Tasks, Claim(r, t) PROVE ParkedBehindHaltedLane'
  <2>1. NoneReleased /\ UNCHANGED taskLane
    BY <1>2, <1>4 DEF Claim
  <2>2. \A u \in Tasks : task'[u] = "NEEDS_HUMAN" => task[u] = "NEEDS_HUMAN"
    BY <1>4 DEF Claim, Inv, TypeOK, TaskTypeOK
  <2> QED
    BY <1>1, <2>1, <2>2
<1>5. ASSUME NEW r \in Runners, Admit(r) PROVE ParkedBehindHaltedLane'
  BY <1>1, <1>2, <1>5 DEF Admit, taskVars
<1>6. ASSUME NEW r \in Ticks, Record(r) PROVE ParkedBehindHaltedLane'
  <2>1. r \in Runners /\ resLane[r] \in Lanes /\ item[r] \in Tasks /\ res[r] # "RATE_LIMITED"
    BY <1>6 DEF Record, Inv, ShapeOK, AnswersOK, Runners
  <2>2. NoneReleased /\ (res[r] \in Barriers => state'[resLane[r]] = "HALTED")
    BY <1>6, <2>1, ResultReleasesNone DEF Record, Inv
  <2>3. task'[item[r]] = "NEEDS_HUMAN" => res[r] \in Barriers
    <3>1. task'[item[r]] \in TaskAfter(res[r])
      BY <1>6, <2>1 DEF Record, Inv, TypeOK, TaskTypeOK
    <3> QED
      BY <3>1 DEF TaskAfter
  <2> SUFFICES ASSUME NEW t \in Tasks, task'[t] = "NEEDS_HUMAN"
               PROVE  taskLane'[t] \in Lanes /\ state'[taskLane'[t]] = "HALTED"
    BY DEF ParkedBehindHaltedLane
  <2>4. CASE t = item[r]
    <3>1. taskLane'[t] = resLane[r]
      BY <1>6, <2>1, <2>4 DEF Record, Inv, TypeOK, TaskTypeOK
    <3> QED
      BY <2>1, <2>2, <2>3, <2>4, <3>1
  <2>5. CASE t # item[r]
    <3>1. task[t] = "NEEDS_HUMAN" /\ taskLane'[t] = taskLane[t]
      BY <1>6, <2>5 DEF Record, Inv, TypeOK, TaskTypeOK
    <3> QED
      BY <2>2, <3>1 DEF NoneReleased, ParkedBehindHaltedLane
  <2> QED
    BY <2>4, <2>5
<1>7. CASE RecordCheck
  <2>1. Desk \in Runners /\ resLane[Desk] \in Lanes /\ res[Desk] # "RATE_LIMITED"
    BY <1>7 DEF RecordCheck, Inv, ShapeOK, AnswersOK, Runners
  <2>2. NoneReleased
    BY <1>7, <2>1, ResultReleasesNone DEF RecordCheck, Inv
  <2> QED
    BY <1>1, <1>7, <2>2 DEF RecordCheck, taskVars
<1>8. CASE StopForLogin \/ \E c \in Lanes : OperatorHalts(c)
  <2>1. NoneReleased /\ UNCHANGED taskVars
    BY <1>3, <1>8 DEF StopForLogin, OperatorHalts, NoneReleased
  <2> QED
    BY <1>1, <2>1 DEF taskVars
<1>9. CASE (\E ok \in BOOLEAN : CloseWindow(ok)) \/ CancelLogin
  <2>1. jobLane \in Lanes /\ Reopen
    BY <1>9 DEF CloseWindow, CancelLogin, Inv, ShapeOK
  <2>2. CASE stoppedHere
    BY <2>1, <2>2, ResumeReleases DEF Reopen
  <2>3. CASE UNCHANGED <<laneVars, taskVars>>
    BY <1>1, <2>3 DEF NoneReleased, laneVars, taskVars
  <2> QED
    BY <2>1, <2>2, <2>3 DEF Reopen
<1>10. CASE \E c \in Lanes : OperatorResumes(c)
  BY <1>10, ResumeReleases DEF OperatorResumes
<1>11. ASSUME UNCHANGED <<laneVars, taskVars>> PROVE ParkedBehindHaltedLane'
  BY <1>1, <1>11 DEF NoneReleased, laneVars, taskVars
<1>12. CASE (\E r \in Runners : PassOver(r) \/ Enter(r) \/ \E s \in Reported : Leave(r, s))
            \/ (\E c \in Lanes : StartLogin(c) \/ StartCheck(c)) \/ OpenWindow \/ TimePasses
            \/ Crash \/ UNCHANGED vars
  BY <1>11, <1>12 DEF PassOver, Enter, Leave, StartLogin, StartCheck, OpenWindow, TimePasses,
     Crash, vars
<1>13. ASSUME NEW t \in Tasks, Recover(t) PROVE ParkedBehindHaltedLane'
  <2>1. NoneReleased /\ UNCHANGED taskLane
    BY <1>13 DEF Recover, NoneReleased, laneVars
  <2>2. \A u \in Tasks : task'[u] = "NEEDS_HUMAN" => task[u] = "NEEDS_HUMAN"
    BY <1>13 DEF Recover, Inv, TypeOK, TaskTypeOK
  <2> QED
    BY <1>1, <2>1, <2>2
<1> QED
  BY <1>4, <1>5, <1>6, <1>7, <1>8, <1>9, <1>10, <1>12, <1>13 DEF Next

\* As long as no adapter reports a rate limit, an action parked by a barrier is behind a
\* lane that is still halted, whose resume releases it.
THEOREM ParkedActionsHaveAHaltedLane ==
  ASSUME "RATE_LIMITED" \notin Reported
  PROVE  Spec => []ParkedBehindHaltedLane
<1>1. Init => AnswersOK /\ ParkedBehindHaltedLane
  BY DEF Init, AnswersOK, ParkedBehindHaltedLane
<1>2. Inv /\ AnswersOK /\ ParkedBehindHaltedLane /\ [Next]_vars
        => AnswersOK' /\ ParkedBehindHaltedLane'
  BY AnswersStep, ParkedStep
<1> QED
  BY <1>1, <1>2, InvHolds, PTL DEF Spec

(***************************************************************************)
(* Repeated rate limits.                                                   *)
(***************************************************************************)
\* What the row keeps of a lane's rate limits is what of them lies within the last 24 hours.
SameSignals == \A c \in Lanes : Recent(throttled[c]) = Recent(signals[c])

SignalsInv == SameSignals /\ RepeatedSignalsHalt

\* The ways in which a step may change what is counted, or end a halt.
SignalMove ==
  \/ UNCHANGED <<now, signals, throttled>> /\ NoneReleased
  \/ now' = now + 1 /\ UNCHANGED <<signals, throttled, state>>
  \/ now' = now /\ \E c \in Lanes : RateLimited(c) \/ Forget(c)

LEMMA SignalMoves == Inv /\ [Next]_vars => SignalMove
<1> SUFFICES ASSUME Inv, [Next]_vars PROVE SignalMove
  OBVIOUS
<1>1. ASSUME NEW C, Snapshot(C) PROVE NoneReleased
  BY <1>1 DEF NoneReleased, Snapshot, Lapsed
<1>2. ASSUME NEW C, NEW why, SetHalted(C, why) PROVE NoneReleased
  BY <1>2 DEF NoneReleased, SetHalted
<1>3. ASSUME NEW r \in Runners, step[r] = "done", RecordResult(resLane[r], res[r]), now' = now
      PROVE  SignalMove
  <2>1. resLane[r] \in Lanes
    BY <1>3 DEF Inv, ShapeOK
  <2>2. CASE res[r] = "RATE_LIMITED"
    <3>1. RateLimited(resLane[r])
      BY <1>3, <2>2 DEF RecordResult
    <3> QED
      BY <1>3, <2>1, <3>1 DEF SignalMove
  <2>3. CASE res[r] # "RATE_LIMITED"
    <3>1. NoneReleased
      BY <1>3, <2>1, <2>3, ResultReleasesNone DEF Inv
    <3>2. UNCHANGED <<signals, throttled>>
      BY <1>3, <2>3 DEF RecordResult, Drifted, laneVars
    <3> QED
      BY <1>3, <3>1, <3>2 DEF SignalMove
  <2> QED
    BY <2>2, <2>3
<1>4. CASE (\E r \in Ticks : Record(r)) \/ RecordCheck
  BY <1>3, <1>4 DEF Record, RecordCheck, Runners
<1>5. CASE (\E r \in Ticks, t \in Tasks : Claim(r, t)) \/ (\E r \in Runners : Admit(r))
  BY <1>1, <1>5 DEF Claim, Admit, SignalMove
<1>6. CASE StopForLogin \/ \E c \in Lanes : OperatorHalts(c)
  BY <1>2, <1>6 DEF StopForLogin, OperatorHalts, SignalMove, NoneReleased
<1>7. CASE (\E r \in Runners : PassOver(r) \/ Enter(r) \/ \E s \in Reported : Leave(r, s))
           \/ (\E c \in Lanes : StartLogin(c) \/ StartCheck(c)) \/ OpenWindow \/ Crash
           \/ (\E t \in Tasks : Recover(t)) \/ UNCHANGED vars
  BY <1>7 DEF PassOver, Enter, Leave, StartLogin, StartCheck, OpenWindow, Crash, Recover, vars,
     laneVars, SignalMove, NoneReleased
<1>8. CASE TimePasses
  BY <1>8 DEF TimePasses, SignalMove, laneVars
<1>9. CASE (\E ok \in BOOLEAN : CloseWindow(ok)) \/ CancelLogin
  <2>1. jobLane \in Lanes /\ Reopen /\ now' = now
    BY <1>9 DEF CloseWindow, CancelLogin, Inv, ShapeOK
  <2> QED
    BY <2>1 DEF Reopen, Resume, laneVars, SignalMove, NoneReleased
<1>10. CASE \E c \in Lanes : OperatorResumes(c)
  BY <1>10 DEF OperatorResumes, Resume, SignalMove
<1> QED
  BY <1>4, <1>5, <1>6, <1>7, <1>8, <1>9, <1>10 DEF Next

\* A new rate limit is recorded alike wherever the same of the moment is on record.
LEMMA AddedAlike ==
  ASSUME now \in Nat, NEW S \in SUBSET Signal, NEW T \in SUBSET Signal, Recent(S) = Recent(T)
  PROVE  Recent(AddSignal(S)) = AddSignal(Recent(T)) /\ Recent(AddSignal(Recent(T))) = AddSignal(Recent(T))
<1> DEFINE today(X) == {e \in X : e[1] = now}
           new(X) == <<now, Cardinality(today(X))>>
<1>1. \A e \in Signal : e[1] \in Nat
  BY DEF Signal
<1>2. \A e \in Signal : e[1] = now => e[1] + Day >= now
  BY <1>1, LanesAssumption
<1>3. \A X \in SUBSET Signal : today(Recent(X)) = today(X)
  BY <1>2 DEF Recent
<1>4. today(S) = today(Recent(T))
  <2>1. today(S) = today(Recent(S))
    BY <1>3
  <2> QED
    BY <2>1
<1>5. \A X, k : Recent(X \cup {<<now, k>>}) = Recent(X) \cup {<<now, k>>}
  <2>1. now + Day >= now
    BY LanesAssumption
  <2>2. \A k : <<now, k>>[1] = now
    OBVIOUS
  <2> SUFFICES ASSUME NEW X, NEW k
               PROVE  Recent(X \cup {<<now, k>>}) = Recent(X) \cup {<<now, k>>}
    OBVIOUS
  <2>3. Recent(X \cup {<<now, k>>}) = Recent(X) \cup Recent({<<now, k>>})
    BY DEF Recent
  <2>4. Recent({<<now, k>>}) = {<<now, k>>}
    BY <2>1, <2>2 DEF Recent
  <2> QED
    BY <2>3, <2>4
<1>6. Recent(Recent(T)) = Recent(T)
  BY DEF Recent
<1>7. AddSignal(S) = S \cup {new(Recent(T))} /\ AddSignal(Recent(T)) = Recent(T) \cup {new(Recent(T))}
  BY <1>4 DEF AddSignal
<1> HIDE DEF today
<1>8. \A X : Recent(X \cup {new(Recent(T))}) = Recent(X) \cup {new(Recent(T))}
  BY <1>5
<1> HIDE DEF new
<1>9. /\ Recent(AddSignal(S)) = Recent(S) \cup {new(Recent(T))}
      /\ Recent(AddSignal(Recent(T))) = Recent(Recent(T)) \cup {new(Recent(T))}
  BY <1>7, <1>8
<1> QED
  BY <1>6, <1>7, <1>9

LEMMA SignalsStep ==
  ASSUME TypeOK, SignalsInv, SignalMove
  PROVE  SignalsInv'
<1>1. \A c \in Lanes : /\ signals[c] \in SUBSET Signal /\ throttled[c] \in SUBSET Signal
                       /\ IsFiniteSet(throttled[c])
  BY DEF TypeOK, LaneTypeOK
<1>2. now \in Nat /\ SignalLimit \in Nat \ {0}
  BY LanesAssumption DEF TypeOK
<1>3. \A c \in Lanes :
        Cardinality(Recent(throttled[c])) >= SignalLimit => state[c] = "HALTED"
  BY DEF SignalsInv, RepeatedSignalsHalt, Recent
<1>4. ASSUME \A c \in Lanes :
               /\ Recent(throttled[c])' = Recent(signals[c])'
               /\ Cardinality(Recent(throttled[c])') >= SignalLimit => state'[c] = "HALTED"
      PROVE  SignalsInv'
  BY <1>4 DEF SignalsInv, SameSignals, RepeatedSignalsHalt, Recent
<1>5. CASE UNCHANGED <<now, signals, throttled>> /\ NoneReleased
  <2>1. \A c \in Lanes : /\ Recent(throttled[c])' = Recent(throttled[c])
                         /\ Recent(signals[c])' = Recent(signals[c])
    BY <1>5 DEF Recent
  <2> QED
    BY <1>3, <1>4, <1>5, <2>1 DEF NoneReleased, SignalsInv, SameSignals
<1>6. CASE now' = now + 1 /\ UNCHANGED <<signals, throttled, state>>
  <2> SUFFICES ASSUME NEW c \in Lanes
               PROVE  /\ Recent(throttled[c])' = Recent(signals[c])'
                      /\ Cardinality(Recent(throttled[c])') >= SignalLimit => state'[c] = "HALTED"
    BY <1>4
  <2> DEFINE still(X) == {e \in X : e[1] + Day >= now + 1}
  <2>1. \A X \in SUBSET Signal : \A e \in X : e[1] + Day >= now + 1 => e[1] + Day >= now
    <3>1. \A e \in Signal : e[1] \in Nat
      BY DEF Signal
    <3> QED
      BY <1>2, <3>1, LanesAssumption
  <2>2. \A X \in SUBSET Signal : still(Recent(X)) = still(X) /\ still(X) \subseteq Recent(X)
    BY <2>1 DEF Recent
  <2>3. Recent(throttled[c])' = still(throttled[c]) /\ Recent(signals[c])' = still(signals[c])
    BY <1>6 DEF Recent
  <2>4. Recent(throttled[c]) = Recent(signals[c])
    BY DEF SignalsInv, SameSignals
  <2>5. Recent(throttled[c])' = Recent(signals[c])'
    <3>1. still(throttled[c]) = still(Recent(throttled[c]))
      BY <1>1, <2>2
    <3>2. still(signals[c]) = still(Recent(signals[c]))
      BY <1>1, <2>2
    <3> QED
      BY <2>3, <2>4, <3>1, <3>2
  <2>6. /\ IsFiniteSet(Recent(throttled[c])) /\ Recent(throttled[c])' \subseteq Recent(throttled[c])
    <3>1. Recent(throttled[c]) \subseteq throttled[c]
      BY DEF Recent
    <3> QED
      BY <1>1, <2>2, <2>3, <3>1, FS_Subset
  <2>7. Cardinality(Recent(throttled[c])') <= Cardinality(Recent(throttled[c]))
        /\ Cardinality(Recent(throttled[c])') \in Nat /\ Cardinality(Recent(throttled[c])) \in Nat
    BY <2>6, FS_Subset, FS_CardinalityType
  <2>8. Cardinality(Recent(throttled[c])') >= SignalLimit => state'[c] = "HALTED"
    <3>1. Cardinality(Recent(throttled[c])') >= SignalLimit
            => Cardinality(Recent(throttled[c])) >= SignalLimit
      BY <1>2, <2>7
    <3> QED
      BY <1>3, <1>6, <3>1
  <2> QED
    BY <2>5, <2>8
<1>7. ASSUME NEW d \in Lanes, now' = now, RateLimited(d) PROVE SignalsInv'
  <2> DEFINE events == AddSignal(Recent(signals[d]))
  <2>1. \A c \in Lanes : /\ throttled'[c] = IF c = d THEN AddSignal(throttled[d]) ELSE throttled[c]
                         /\ signals'[c] = IF c = d THEN events ELSE signals[c]
    BY <1>7 DEF RateLimited, TypeOK, LaneTypeOK
  <2>2. \/ Cardinality(events) >= SignalLimit /\ state'[d] = "HALTED"
        \/ Cardinality(events) < SignalLimit
    BY <1>7 DEF RateLimited, Halt, SetHalted
  <2>3. \A c \in Lanes \ {d} : state'[c] = state[c]
    BY <1>7 DEF RateLimited, Halt, SetHalted, CoolDown, TypeOK, LaneTypeOK
  <2>4. Recent(throttled[d]) = Recent(signals[d])
    BY DEF SignalsInv, SameSignals
  <2>5. Recent(AddSignal(throttled[d])) = events /\ Recent(events) = events
    BY <1>1, <1>2, <2>4, AddedAlike
  <2>6. IsFiniteSet(events) /\ Cardinality(events) \in Nat
    <3>1. signals[d] \in SUBSET Signal /\ IsFiniteSet(signals[d])
      BY DEF TypeOK, LaneTypeOK
    <3>2. Recent(signals[d]) \in SUBSET Signal /\ IsFiniteSet(Recent(signals[d]))
      BY <3>1, FS_Subset DEF Recent
    <3> QED
      BY <1>2, <3>2, AddSignalType, FS_CardinalityType
  <2> SUFFICES ASSUME NEW c \in Lanes
               PROVE  /\ Recent(throttled[c])' = Recent(signals[c])'
                      /\ Cardinality(Recent(throttled[c])') >= SignalLimit => state'[c] = "HALTED"
    BY <1>4
  <2>7. Recent(throttled[c])' = Recent(throttled'[c]) /\ Recent(signals[c])' = Recent(signals'[c])
    BY <1>7 DEF Recent
  <2>8. CASE c = d
    <3>1. Recent(throttled'[c]) = events /\ Recent(signals'[c]) = events
      BY <2>1, <2>5, <2>8
    <3>2. ~(Cardinality(events) < SignalLimit /\ Cardinality(events) >= SignalLimit)
      BY <1>2, <2>6
    <3> QED
      BY <2>2, <2>7, <2>8, <3>1, <3>2
  <2>9. CASE c # d
    BY <1>3, <2>1, <2>3, <2>7, <2>9 DEF SignalsInv, SameSignals
  <2> QED
    BY <2>8, <2>9
<1>8. ASSUME NEW d \in Lanes, now' = now, Forget(d) PROVE SignalsInv'
  <2>1. \A c \in Lanes : /\ throttled'[c] = IF c = d THEN {} ELSE throttled[c]
                         /\ signals'[c] = IF c = d THEN {} ELSE signals[c]
                         /\ c # d => state'[c] = state[c]
    BY <1>8 DEF Forget, TypeOK, LaneTypeOK
  <2> SUFFICES ASSUME NEW c \in Lanes
               PROVE  /\ Recent(throttled[c])' = Recent(signals[c])'
                      /\ Cardinality(Recent(throttled[c])') >= SignalLimit => state'[c] = "HALTED"
    BY <1>4
  <2>2. Recent(throttled[c])' = Recent(throttled'[c]) /\ Recent(signals[c])' = Recent(signals'[c])
    BY <1>8 DEF Recent
  <2>3. CASE c = d
    <3>1. Recent(throttled'[c]) = {} /\ Recent(signals'[c]) = {}
      BY <2>1, <2>3 DEF Recent
    <3>2. Cardinality({}) = 0
      BY FS_EmptySet
    <3> QED
      BY <1>2, <2>2, <3>1, <3>2
  <2>4. CASE c # d
    BY <1>3, <2>1, <2>2, <2>4 DEF SignalsInv, SameSignals
  <2> QED
    BY <2>3, <2>4
<1> QED
  BY <1>5, <1>6, <1>7, <1>8 DEF SignalMove

\* As many rate limits within 24 hours as limits.rate_limit_events_before_halt have halted the lane,
\* however cooldowns, results of other steps, lapses and the clock come in between, unless the lane
\* was resumed since (record_result, which throws away what is older than a day).
THEOREM RateLimitsHalt == Spec => []RepeatedSignalsHalt
<1>1. Init => SignalsInv
  <2> SUFFICES ASSUME Init PROVE SignalsInv
    OBVIOUS
  <2>1. \A c \in Lanes : throttled[c] = {} /\ signals[c] = {}
    BY DEF Init
  <2>2. \A c \in Lanes : {e \in throttled[c] : e[1] + Day >= now} = {}
    BY <2>1
  <2>3. Cardinality({}) = 0 /\ ~(0 >= SignalLimit)
    BY FS_EmptySet, LanesAssumption
  <2> QED
    BY <2>1, <2>2, <2>3 DEF SignalsInv, SameSignals, RepeatedSignalsHalt, Recent
<1>2. Inv /\ SignalsInv /\ [Next]_vars => SignalsInv'
  BY SignalMoves, SignalsStep DEF Inv
<1>3. SignalsInv => RepeatedSignalsHalt
  BY DEF SignalsInv
<1> QED
  BY <1>1, <1>2, <1>3, InvHolds, PTL DEF Spec
=============================================================================
