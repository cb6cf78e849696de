-------------------------------- MODULE Lanes --------------------------------
(***************************************************************************)
(* Execution lanes: who may use an Instagram channel, what stops it and    *)
(* what starts it again.                                                   *)
(*                                                                         *)
(* A lane is one channel of the brand account.  Its users in one process   *)
(* are the ticks of the orchestrator (the loop's and those POST /api/tick  *)
(* starts, which nothing keeps apart), the read-only login check, and the  *)
(* login window.  A step looks at the lane, then waits for the lane's      *)
(* semaphore, then runs, then its result is recorded: four moments with    *)
(* awaits in between, during which results of others, the operator and     *)
(* the login job move the lane.                                            *)
(***************************************************************************)
EXTENDS Naturals, Sequences, FiniteSets

CONSTANTS
  Lanes,        \* the channels
  Browsers,     \* those with a browser profile: a person can log in there
  Sessions,     \* permits of each lane's semaphore (limits.max_concurrent_...)
  Ticks,        \* concurrent orchestrator ticks of the process
  Desk,         \* the runner of Mission Control's login check
  Tasks,        \* actions
  Routes,       \* the channels each action may be executed on, in order
  Writes,       \* the outbound ones among the actions
  NoTask, NoLane,
  Reported,     \* the results the adapters may report
  SignalLimit,  \* limits.rate_limit_events_before_halt
  DriftLimit,   \* limits.ui_changed_events_before_halt
  Cooldown,     \* limits.rate_limit_cooldown_minutes
  RetryAfter,   \* values of result.retry_after_seconds
  Day,          \* the 24 h for which a rate limit counts
  MaxTime,      \* bound: the clock stops here
  MaxSignals,   \* bound: rate limits of one lane on record
  Events        \* which of AllEvents may happen

AllEvents == {"crash", "login", "check", "operator"}

\* ExecutionStatus.  BARRIER: login, checkpoint or human action required; RESTRICTED: the
\* account; NO_BUTTON: NOT_PERMITTED with code no_message_button, REFUSED: with another
\* code; FAILED: no such target, contacted already, or a permanent failure; NO_LANE:
\* CAPABILITY_UNAVAILABLE with code no_channel.
Answers == {"SUCCESS", "BARRIER", "RESTRICTED", "RATE_LIMITED", "UI_CHANGED", "NO_BUTTON",
            "RETRYABLE", "UNAVAILABLE", "REFUSED", "FAILED"}
Barriers == {"BARRIER", "RESTRICTED"}

ASSUME LanesAssumption ==
  /\ Browsers \subseteq Lanes
  /\ Sessions \in [Lanes -> Nat \ {0}]
  /\ IsFiniteSet(Ticks)
  /\ Desk \notin Ticks
  /\ NoTask \notin Tasks
  /\ NoLane \notin Lanes
  /\ Routes \in [Tasks -> Seq(Lanes) \ {<<>>}]
  /\ Writes \subseteq Tasks
  /\ Reported \subseteq Answers
  /\ SignalLimit \in Nat \ {0} /\ DriftLimit \in Nat \ {0}
  /\ Cooldown \in Nat \ {0} /\ RetryAfter \subseteq Nat /\ Day \in Nat
  /\ MaxTime \in Nat /\ MaxSignals \in Nat
  /\ Events \subseteq AllEvents

Runners == Ticks \cup {Desk}

VARIABLES
  now,
  state, until, reason, signals, drift,  \* the lanes table; signals is rate_limit_events
  incidents,                             \* open incidents: lane and kind
  alerts,                                \* severities handed to the notifier since the last resume
  task, taskLane,                        \* actions: status and executed_channel
  step, item, at, res, resLane,          \* what each runner is doing
  users,                                 \* who holds a permit of each lane's semaphore
  job, jobLane, stoppedHere,             \* the login or check job
  stragglers,                            \* history: runners past the look when a lane was halted
  throttled                              \* history: all rate limits since the last resume

laneVars == <<state, until, reason, signals, drift, incidents, alerts, stragglers, throttled>>
taskVars == <<task, taskLane>>
runVars == <<step, item, at, res, resLane>>
jobVars == <<job, jobLane, stoppedHere>>
vars == <<now, laneVars, taskVars, runVars, users, jobVars>>

LaneStates == {"ACTIVE", "COOLDOWN", "HALTED"}
\* Lane.reason, by what wrote it.
Reasons == {"none", "barrier", "limits", "drift", "throttled", "operator", "login"}
Kinds == {"barrier", "throttled", "drift"}
Severities == {"WARNING", "CRITICAL"}
TaskStates == {"APPROVED", "EXECUTING", "NEEDS_HUMAN", "FINISHED"}
Steps == {"idle", "routing", "queued", "running", "done"}
JobPhases == {"none", "starting", "waiting", "window", "checking"}
Results == Answers \cup {"none", "NO_LANE"}
Signal == Nat \X Nat     \* a moment, and which one of that moment

\* The type invariant, by table and by what the process has in memory.
LaneTypeOK ==
  /\ state \in [Lanes -> LaneStates] /\ until \in [Lanes -> Nat] /\ reason \in [Lanes -> Reasons]
  /\ signals \in [Lanes -> SUBSET Signal] /\ throttled \in [Lanes -> SUBSET Signal]
  /\ \A c \in Lanes : IsFiniteSet(signals[c]) /\ IsFiniteSet(throttled[c])
  /\ drift \in [Lanes -> 0..(DriftLimit + 1)]
  /\ incidents \subseteq Lanes \X Kinds /\ alerts \in [Lanes -> SUBSET Severities]
  /\ stragglers \in [Lanes -> SUBSET Runners]

TaskTypeOK == task \in [Tasks -> TaskStates] /\ taskLane \in [Tasks -> Lanes \cup {NoLane}]

RunTypeOK ==
  /\ step \in [Runners -> Steps] /\ item \in [Runners -> Tasks \cup {NoTask}]
  /\ at \in [Runners -> Nat \ {0}]
  /\ res \in [Runners -> Results] /\ resLane \in [Runners -> Lanes \cup {NoLane}]
  /\ users \in [Lanes -> SUBSET Runners]

JobTypeOK == job \in JobPhases /\ jobLane \in Lanes \cup {NoLane} /\ stoppedHere \in BOOLEAN

TypeOK == now \in Nat /\ LaneTypeOK /\ TaskTypeOK /\ RunTypeOK /\ JobTypeOK

Init ==
  /\ now = 0
  /\ state = [c \in Lanes |-> "ACTIVE"] /\ until = [c \in Lanes |-> 0]
  /\ reason = [c \in Lanes |-> "none"]
  /\ signals = [c \in Lanes |-> {}] /\ throttled = [c \in Lanes |-> {}]
  /\ drift = [c \in Lanes |-> 0] /\ incidents = {}
  /\ alerts = [c \in Lanes |-> {}]
  /\ task = [t \in Tasks |-> "APPROVED"] /\ taskLane = [t \in Tasks |-> NoLane]
  /\ step = [r \in Runners |-> "idle"] /\ item = [r \in Runners |-> NoTask]
  /\ at = [r \in Runners |-> 1]
  /\ res = [r \in Runners |-> "none"] /\ resLane = [r \in Runners |-> NoLane]
  /\ users = [c \in Lanes |-> {}]
  /\ job = "none" /\ jobLane = NoLane /\ stoppedHere = FALSE
  /\ stragglers = [c \in Lanes |-> {}]

(***************************************************************************)
(* The lane service.                                                       *)
(***************************************************************************)
\* snapshot() writes a cooldown that is over back as ACTIVE.
Lapsed(c) == state[c] = "COOLDOWN" /\ until[c] <= now

Open(c) == state[c] = "ACTIVE" \/ Lapsed(c)

Snapshot(C) ==
  LET over == {c \in C : Lapsed(c)} IN
  /\ state' = [c \in Lanes |-> IF c \in over THEN "ACTIVE" ELSE state[c]]
  /\ until' = [c \in Lanes |-> IF c \in over THEN 0 ELSE until[c]]
  /\ reason' = [c \in Lanes |-> IF c \in over THEN "none" ELSE reason[c]]

Route(r) == IF r = Desk THEN <<jobLane>> ELSE Routes[item[r]]
LaneOf(r) == Route(r)[at[r]]

\* Those who have looked at the lane and have not left it yet.
Admitted(c) == {r \in Runners : step[r] \in {"queued", "running"} /\ LaneOf(r) = c}

\* lane.state = HALTED, by _halt() or halt_manually().
SetHalted(C, why) ==
  /\ state' = [c \in Lanes |-> IF c \in C THEN "HALTED" ELSE state[c]]
  /\ until' = [c \in Lanes |-> IF c \in C THEN 0 ELSE until[c]]
  /\ reason' = [c \in Lanes |-> IF c \in C THEN why ELSE reason[c]]
  /\ stragglers' = [c \in Lanes |-> IF c \in C /\ state[c] # "HALTED" THEN Admitted(c)
                                    ELSE stragglers[c]]

\* IncidentService.open(): an incident of that kind that is still open is enriched in
\* silence, a new one is handed to the notifier.
OpenIncidents(C, kind, severity) ==
  /\ incidents' = incidents \cup (C \X {kind})
  /\ alerts' = [c \in Lanes |-> IF c \in C /\ <<c, kind>> \notin incidents
                                THEN alerts[c] \cup {severity} ELSE alerts[c]]

\* Mutant of KindOf: one kind per reason.
KindOfReason(why) == why

\* The incident's kind is the result's status, so that a halt for repeated rate limits
\* has the kind of the cooldown before it.
KindOf(why) == IF why = "limits" THEN "throttled" ELSE why

SeverityOf(why) == IF why = "drift" THEN "WARNING" ELSE "CRITICAL"

\* Mutant of Halt: a lane that is already stopped gets no incident.
HaltNew(C, why) ==
  /\ SetHalted(C, why)
  /\ OpenIncidents({c \in C : state[c] # "HALTED"}, KindOf(why), SeverityOf(why))

\* _halt()
Halt(C, why) == SetHalted(C, why) /\ OpenIncidents(C, KindOf(why), SeverityOf(why))

CoolDown(c, wait) ==
  /\ state' = [state EXCEPT ![c] = "COOLDOWN"]
  /\ until' = [until EXCEPT ![c] = now + wait]
  /\ reason' = [reason EXCEPT ![c] = "throttled"]
  /\ OpenIncidents({c}, "throttled", "WARNING")
  /\ UNCHANGED stragglers

\* Mutant of Recent: the window is half as long.
RecentHalf(S) == {e \in S : e[1] + (Day \div 2) >= now}

\* The rate limits of the last 24 hours among S.
Recent(S) == {e \in S : e[1] + Day >= now}

AddSignal(S) == S \cup {<<now, Cardinality({e \in S : e[1] = now})>>}

RateLimited(c) ==
  LET events == AddSignal(Recent(signals[c])) IN
  /\ Cardinality(signals[c]) < MaxSignals /\ Cardinality(throttled[c]) < MaxSignals
  /\ signals' = [signals EXCEPT ![c] = events]
  /\ throttled' = [throttled EXCEPT ![c] = AddSignal(throttled[c])]
  /\ \/ Cardinality(events) >= SignalLimit /\ Halt({c}, "limits")
     \/ /\ Cardinality(events) < SignalLimit
        /\ \E d \in RetryAfter : CoolDown(c, IF d > Cooldown THEN d ELSE Cooldown)
  /\ UNCHANGED drift

\* Beyond DriftLimit + 1 every further drift halts, so the counter saturates there.
Drifted(c, s) ==
  LET n == IF drift[c] > DriftLimit THEN drift[c] ELSE drift[c] + 1
      threshold == IF s = "NO_BUTTON" THEN DriftLimit + 1 ELSE DriftLimit
  IN /\ drift' = [drift EXCEPT ![c] = n]
     /\ \/ n >= threshold /\ Halt({c}, "drift")
        \/ n < threshold /\ UNCHANGED <<state, until, reason, incidents, alerts, stragglers>>
     /\ UNCHANGED <<signals, throttled>>

\* record_result()
RecordResult(c, s) ==
  \/ /\ s = "SUCCESS"
     /\ drift' = [drift EXCEPT ![c] = 0]
     /\ UNCHANGED <<state, until, reason, signals, incidents, alerts, stragglers, throttled>>
  \/ s = "RESTRICTED" /\ Halt(Lanes, "barrier") /\ UNCHANGED <<signals, drift, throttled>>
  \/ s = "BARRIER" /\ Halt({c}, "barrier") /\ UNCHANGED <<signals, drift, throttled>>
  \/ s = "RATE_LIMITED" /\ RateLimited(c)
  \/ s \in {"UI_CHANGED", "NO_BUTTON"} /\ Drifted(c, s)
  \/ s \in {"RETRYABLE", "UNAVAILABLE", "REFUSED", "FAILED", "NO_LANE"} /\ UNCHANGED laneVars

\* Everything about the lane is forgotten.
Forget(c) ==
  /\ state' = [state EXCEPT ![c] = "ACTIVE"]
  /\ until' = [until EXCEPT ![c] = 0]
  /\ reason' = [reason EXCEPT ![c] = "none"]
  /\ signals' = [signals EXCEPT ![c] = {}]
  /\ drift' = [drift EXCEPT ![c] = 0]
  /\ incidents' = {i \in incidents : i[1] # c}
  /\ alerts' = [alerts EXCEPT ![c] = {}] /\ throttled' = [throttled EXCEPT ![c] = {}]

\* Mutant of Resume: the parked actions are forgotten.
ResumeOnly(c) ==
  /\ Forget(c)
  /\ UNCHANGED <<taskVars, stragglers>>

\* resume(): what was parked on the lane is released.
Resume(c) ==
  /\ Forget(c)
  /\ task' = [t \in Tasks |-> IF task[t] = "NEEDS_HUMAN" /\ taskLane[t] \in {c, NoLane}
                              THEN "APPROVED" ELSE task[t]]
  /\ UNCHANGED <<taskLane, stragglers>>

(***************************************************************************)
(* Executing an action: run_once(), executor.execute(), _record().         *)
(***************************************************************************)
\* _prepare(): the gate lets an action through if one of its lanes is open, and claims it.
Claim(r, t) ==
  /\ r \in Ticks /\ step[r] = "idle"
  /\ task[t] = "APPROVED"
  /\ \E i \in DOMAIN Routes[t] : Open(Routes[t][i])
  /\ Snapshot({Routes[t][i] : i \in DOMAIN Routes[t]})
  /\ task' = [task EXCEPT ![t] = "EXECUTING"]
  /\ step' = [step EXCEPT ![r] = "routing"] /\ item' = [item EXCEPT ![r] = t]
  /\ at' = [at EXCEPT ![r] = 1]
  /\ res' = [res EXCEPT ![r] = "none"] /\ resLane' = [resLane EXCEPT ![r] = NoLane]
  /\ UNCHANGED <<now, signals, drift, incidents, alerts, stragglers, throttled, taskLane, users,
                 jobVars>>

\* Mutant of Admit: the executor trusts the gate's look at the lane.
AdmitUnseen(r) ==
  /\ step[r] = "routing"
  /\ step' = [step EXCEPT ![r] = "queued"]
  /\ UNCHANGED <<now, laneVars, taskVars, item, at, res, resLane, users, jobVars>>

\* The executor looks at the lane; if it is open the step goes to the semaphore.
Admit(r) ==
  /\ step[r] = "routing"
  /\ Open(LaneOf(r))
  /\ Snapshot({LaneOf(r)})
  /\ step' = [step EXCEPT ![r] = "queued"]
  /\ UNCHANGED <<now, signals, drift, incidents, alerts, stragglers, throttled, taskVars, item, at,
                 res, resLane, users, jobVars>>

\* A lane that is not open is passed over.  After the last one, the answer is the last
\* attempt's, or that there was no channel.
PassOver(r) ==
  /\ step[r] = "routing"
  /\ ~Open(LaneOf(r))
  /\ \/ /\ at[r] < Len(Route(r))
        /\ at' = [at EXCEPT ![r] = at[r] + 1]
        /\ UNCHANGED <<step, res, resLane>>
     \/ /\ at[r] = Len(Route(r))
        /\ step' = [step EXCEPT ![r] = "done"]
        /\ res' = IF res[r] = "none" THEN [res EXCEPT ![r] = "NO_LANE"] ELSE res
        /\ resLane' = IF res[r] = "none" THEN [resLane EXCEPT ![r] = Route(r)[1]] ELSE resLane
        /\ UNCHANGED at
  /\ UNCHANGED <<now, laneVars, taskVars, item, users, jobVars>>

\* Mutant of Enter: the semaphore lets one too many in.
EnterMore(r) ==
  /\ step[r] = "queued"
  /\ Cardinality(users[LaneOf(r)]) <= Sessions[LaneOf(r)]
  /\ users' = [users EXCEPT ![LaneOf(r)] = @ \cup {r}]
  /\ step' = [step EXCEPT ![r] = "running"]
  /\ UNCHANGED <<now, laneVars, taskVars, item, at, res, resLane, jobVars>>

Enter(r) ==
  /\ step[r] = "queued"
  /\ Cardinality(users[LaneOf(r)]) < Sessions[LaneOf(r)]
  /\ users' = [users EXCEPT ![LaneOf(r)] = @ \cup {r}]
  /\ step' = [step EXCEPT ![r] = "running"]
  /\ UNCHANGED <<now, laneVars, taskVars, item, at, res, resLane, jobVars>>

\* may_fall_back(): never past a barrier; a write only if it certainly was not sent.
MayFallBack(r, s) ==
  /\ s \notin Barriers
  /\ IF item[r] \in Writes THEN s \in {"UNAVAILABLE", "REFUSED", "NO_BUTTON"}
     ELSE s # "SUCCESS"

\* What the adapter of a lane may report: the API has no page that could change.
AnswersOn(c) == IF c \in Browsers THEN Reported ELSE Reported \ {"UI_CHANGED", "NO_BUTTON"}

\* Mutant of Leave: the permit is not given back.
LeaveHeld(r, s) ==
  /\ step[r] = "running" /\ s \in AnswersOn(LaneOf(r))
  /\ res' = [res EXCEPT ![r] = s] /\ resLane' = [resLane EXCEPT ![r] = LaneOf(r)]
  /\ \/ /\ at[r] < Len(Route(r)) /\ MayFallBack(r, s)
        /\ step' = [step EXCEPT ![r] = "routing"] /\ at' = [at EXCEPT ![r] = at[r] + 1]
     \/ /\ ~(at[r] < Len(Route(r)) /\ MayFallBack(r, s))
        /\ step' = [step EXCEPT ![r] = "done"] /\ UNCHANGED at
  /\ UNCHANGED <<now, laneVars, taskVars, item, users, jobVars>>

\* The adapter answers: on to the next lane, or done.
Leave(r, s) ==
  /\ step[r] = "running" /\ s \in AnswersOn(LaneOf(r))
  /\ users' = [users EXCEPT ![LaneOf(r)] = @ \ {r}]
  /\ res' = [res EXCEPT ![r] = s] /\ resLane' = [resLane EXCEPT ![r] = LaneOf(r)]
  /\ \/ /\ at[r] < Len(Route(r)) /\ MayFallBack(r, s)
        /\ step' = [step EXCEPT ![r] = "routing"] /\ at' = [at EXCEPT ![r] = at[r] + 1]
     \/ /\ ~(at[r] < Len(Route(r)) /\ MayFallBack(r, s))
        /\ step' = [step EXCEPT ![r] = "done"] /\ UNCHANGED at
  /\ UNCHANGED <<now, laneVars, taskVars, item, jobVars>>

\* _next_state(); the attempts left are not modelled, a retry may be refused at any time.
TaskAfter(s) ==
  CASE s \in Barriers -> {"NEEDS_HUMAN"}
    [] s = "RATE_LIMITED" -> {"APPROVED"}
    [] s \in {"RETRYABLE", "UI_CHANGED", "UNAVAILABLE", "NO_LANE"} -> {"APPROVED", "FINISHED"}
    [] OTHER -> {"FINISHED"}

\* _record(): the lane and the action, in one transaction.
Record(r) ==
  /\ r \in Ticks /\ step[r] = "done"
  /\ RecordResult(resLane[r], res[r])
  /\ \E next \in TaskAfter(res[r]) : task' = [task EXCEPT ![item[r]] = next]
  /\ taskLane' = [taskLane EXCEPT ![item[r]] = resLane[r]]
  /\ step' = [step EXCEPT ![r] = "idle"] /\ item' = [item EXCEPT ![r] = NoTask]
  /\ at' = [at EXCEPT ![r] = 1]
  /\ res' = [res EXCEPT ![r] = "none"] /\ resLane' = [resLane EXCEPT ![r] = NoLane]
  /\ UNCHANGED <<now, users, jobVars>>

(***************************************************************************)
(* The account jobs of Mission Control: the login window, the check.       *)
(***************************************************************************)
\* start_login(): one job at a time.
StartLogin(c) ==
  /\ "login" \in Events
  /\ job = "none" /\ c \in Browsers
  /\ job' = "starting" /\ jobLane' = c
  /\ UNCHANGED <<now, laneVars, taskVars, runVars, users, stoppedHere>>

\* _run_login() up to the lock: a lane that is running is halted meanwhile.
StopForLogin ==
  /\ job = "starting"
  /\ stoppedHere' = Open(jobLane)
  /\ \/ Open(jobLane) /\ SetHalted({jobLane}, "login")
     \/ ~Open(jobLane) /\ UNCHANGED <<state, until, reason, stragglers>>
  /\ job' = "waiting"
  /\ UNCHANGED <<now, signals, drift, incidents, alerts, throttled, taskVars, runVars, users,
                 jobLane>>

\* lane_lock() lets a running step finish first; then the window opens.
OpenWindow ==
  /\ job = "waiting"
  /\ Cardinality(users[jobLane]) < Sessions[jobLane]
  /\ users' = [users EXCEPT ![jobLane] = @ \cup {Desk}]
  /\ job' = "window"
  /\ UNCHANGED <<now, laneVars, taskVars, runVars, jobLane, stoppedHere>>

\* The finally clause: the lane that was halted for the window is resumed.
Reopen == IF stoppedHere THEN Resume(jobLane) ELSE UNCHANGED <<laneVars, taskVars>>

\* The person is done, or the 900 s are over, or the window could not be opened.  After a
\* login on a lane that is open again the check follows in the same job.
CloseWindow(ok) ==
  /\ job = "window"
  /\ users' = [users EXCEPT ![jobLane] = @ \ {Desk}]
  /\ Reopen
  /\ \/ /\ ok /\ stoppedHere
        /\ job' = "checking" /\ step' = [step EXCEPT ![Desk] = "routing"]
        /\ at' = [at EXCEPT ![Desk] = 1] /\ res' = [res EXCEPT ![Desk] = "none"]
        /\ UNCHANGED <<jobLane, stoppedHere>>
     \/ /\ ~(ok /\ stoppedHere)
        /\ job' = "none" /\ jobLane' = NoLane /\ stoppedHere' = FALSE
        /\ UNCHANGED <<step, at, res>>
  /\ UNCHANGED <<now, item, resLane>>

\* Mutant of CancelLogin: only a window that opened is cleaned up after.
CancelOpened ==
  /\ job \in {"waiting", "window"}
  /\ users' = [users EXCEPT ![jobLane] = @ \ {Desk}]
  /\ IF job = "window" THEN Reopen ELSE UNCHANGED <<laneVars, taskVars>>
  /\ job' = "none" /\ jobLane' = NoLane /\ stoppedHere' = FALSE
  /\ UNCHANGED <<now, runVars>>

\* close() cancels the job when the application is closed.
CancelLogin ==
  /\ job \in {"waiting", "window"}
  /\ users' = [users EXCEPT ![jobLane] = @ \ {Desk}]
  /\ Reopen
  /\ job' = "none" /\ jobLane' = NoLane /\ stoppedHere' = FALSE
  /\ UNCHANGED <<now, runVars>>

\* start_check(): the same look at our own profile, as a job of its own.
StartCheck(c) ==
  /\ "check" \in Events
  /\ job = "none" /\ c \in Browsers
  /\ job' = "checking" /\ jobLane' = c
  /\ step' = [step EXCEPT ![Desk] = "routing"]
  /\ at' = [at EXCEPT ![Desk] = 1] /\ res' = [res EXCEPT ![Desk] = "none"]
  /\ UNCHANGED <<now, laneVars, taskVars, item, resLane, users, stoppedHere>>

\* _check(): the lane is told the result like after real work.
RecordCheck ==
  /\ step[Desk] = "done"
  /\ RecordResult(resLane[Desk], res[Desk])
  /\ step' = [step EXCEPT ![Desk] = "idle"]
  /\ res' = [res EXCEPT ![Desk] = "none"] /\ resLane' = [resLane EXCEPT ![Desk] = NoLane]
  /\ job' = "none" /\ jobLane' = NoLane /\ stoppedHere' = FALSE
  /\ UNCHANGED <<now, taskVars, item, at, users>>

(***************************************************************************)
(* The operator, the clock, crashes.                                       *)
(***************************************************************************)
OperatorHalts(c) ==
  /\ "operator" \in Events
  /\ SetHalted({c}, "operator")
  /\ UNCHANGED <<now, signals, drift, incidents, alerts, throttled, taskVars, runVars, users,
                 jobVars>>

OperatorResumes(c) ==
  /\ "operator" \in Events
  /\ Resume(c)
  /\ UNCHANGED <<now, runVars, users, jobVars>>

TimePasses ==
  /\ now < MaxTime
  /\ now' = now + 1
  /\ UNCHANGED <<laneVars, taskVars, runVars, users, jobVars>>

\* The process dies: its memory is gone, the tables stay.
Crash ==
  /\ "crash" \in Events
  /\ step' = [r \in Runners |-> "idle"] /\ item' = [r \in Runners |-> NoTask]
  /\ at' = [r \in Runners |-> 1]
  /\ res' = [r \in Runners |-> "none"] /\ resLane' = [r \in Runners |-> NoLane]
  /\ users' = [c \in Lanes |-> {}]
  /\ job' = "none" /\ jobLane' = NoLane /\ stoppedHere' = FALSE
  /\ UNCHANGED <<now, laneVars, taskVars>>

\* recover_stale(); a live execution is taken to end within its 900 s lease.
Recover(t) ==
  /\ task[t] = "EXECUTING"
  /\ \A r \in Ticks : step[r] = "idle" \/ item[r] # t
  /\ task' = [task EXCEPT ![t] = "APPROVED"]
  /\ UNCHANGED <<now, laneVars, taskLane, runVars, users, jobVars>>

Next ==
  \/ \E r \in Ticks, t \in Tasks : Claim(r, t)
  \/ \E r \in Runners :
       \/ Admit(r)
       \/ PassOver(r)
       \/ Enter(r)
       \/ \E s \in Reported : Leave(r, s)
  \/ \E r \in Ticks : Record(r)
  \/ RecordCheck
  \/ \E c \in Lanes : StartLogin(c) \/ StartCheck(c) \/ OperatorHalts(c) \/ OperatorResumes(c)
  \/ StopForLogin
  \/ OpenWindow
  \/ \E ok \in BOOLEAN : CloseWindow(ok)
  \/ CancelLogin
  \/ TimePasses
  \/ Crash
  \/ \E t \in Tasks : Recover(t)

Spec == Init /\ [][Next]_vars

\* Every operation of an adapter ends (each of its waits has a timeout), and asyncio's
\* semaphore serves its waiters in order.
FairSpec ==
  /\ Spec
  /\ \A r \in Runners : WF_vars(\E s \in Reported : Leave(r, s))
  /\ SF_vars(OpenWindow)

(***************************************************************************)
(* Properties.                                                             *)
(***************************************************************************)
\* On a lane with one permit the login window has the browser profile for itself: no
\* step runs on it, whatever was queued or running when the login was asked for.
WindowIsAlone ==
  \A c \in Lanes :
    job = "window" /\ jobLane = c /\ Sessions[c] = 1 =>
      \A r \in Runners : ~(step[r] = "running" /\ LaneOf(r) = c)

\* On a halted lane only those still run, or wait for their turn, who had looked at it
\* before it was halted: the executor's look is the last one before Instagram is touched.
OnlyStragglersOnHaltedLane ==
  \A c \in Lanes : state[c] = "HALTED" => Admitted(c) \subseteq stragglers[c]

\* An action parked by a barrier is behind a lane that is halted, so the operator is
\* shown a lane to resume and resuming it releases the action.
ParkedBehindHaltedLane ==
  \A t \in Tasks : task[t] = "NEEDS_HUMAN" => taskLane[t] \in Lanes /\ state[taskLane[t]] = "HALTED"

\* A lane that was halted only to open a login window does not stay halted when the login
\* job has ended, however it ended.
LoginLeavesNoHalt ==
  \A c \in Lanes : reason[c] = "login" => job \in {"waiting", "window"} /\ jobLane = c

\* A lane that a barrier has stopped has an open incident, and a CRITICAL alert was handed
\* to the notifier since the lane was last resumed.
BarrierIsAlerted ==
  \A c \in Lanes : reason[c] = "barrier" => <<c, "barrier">> \in incidents /\ "CRITICAL" \in alerts[c]

\* As many rate limits within 24 hours as the limit allows have halted the lane, unless
\* it was resumed since.
RepeatedSignalsHalt ==
  \A c \in Lanes :
    Cardinality({e \in throttled[c] : e[1] + Day >= now}) >= SignalLimit => state[c] = "HALTED"

\* Somebody who asks for a login window gets it, or gives up: the step that runs on the
\* lane ends and no other one overtakes for ever.
LoginGetsTheLane == job = "waiting" ~> job # "waiting"
=============================================================================
