----------------------------- MODULE UsageCaps -----------------------------
(***************************************************************************)
(* The limits on how much the account does: sends per hour, spacing, page  *)
(* views per hour, and the global pause.  They are checked by the gate     *)
(* when a worker takes an action, against the usage ledger and the actions *)
(* in execution; the ledger is written when the execution is recorded.     *)
(*                                                                         *)
(* Runners are ticks of the orchestrator.  Ticks of one process run in one *)
(* event loop (POST /api/tick starts one beside the loop), so the check    *)
(* and the claim, which contain no await, are one step for each other.     *)
(* Ticks of two processes on one database may both check before either     *)
(* claims.  An execution may outlive its lease, and then the action is     *)
(* recovered and executed again beside it.                                 *)
(***************************************************************************)
EXTENDS Naturals, FiniteSets

CONSTANTS
  Runners,     \* ticks that may run at the same time
  Processes,   \* the processes they may belong to
  Sends,       \* outbound actions of one kind, all approved
  Reads,       \* other browser actions
  Rank,        \* the order in which candidates are taken: priority, created_at
  BrowserOnly, \* the actions only a browser lane can serve
  ApiFirst,    \* those an open API lane is tried for first, and then a browser
  HOUR,        \* the window of the hourly caps
  LEASE,       \* LEASE_SECONDS
  Spacing,     \* limits.min_seconds_between_sends (the jitter on top of it only delays more)
  Caps,        \* the values the operator may give to limits.outreach_per_hour
  UnitCap,     \* limits.browser_units_per_hour
  MaxUnits,    \* limits.max_units_per_operation
  PerTick,     \* schedule.max_actions_per_tick
  MaxTime,     \* bound: the last moment
  Scenarios,   \* triples: the actions that wait, the events of AllTroubles that may happen and
               \* the cap at the start
  NoAction     \* a runner without an action

AllTroubles == {"crash", "pause", "resume", "limits"}

Actions == Sends \cup Reads
Never == MaxTime + 1
Times == 0..MaxTime

ASSUME UsageCapsAssumption ==
  /\ IsFiniteSet(Actions) /\ IsFiniteSet(Runners)
  /\ Sends \cap Reads = {} /\ Reads \subseteq BrowserOnly \cup ApiFirst
  /\ BrowserOnly \subseteq Actions /\ ApiFirst \subseteq Actions \ BrowserOnly
  /\ NoAction \notin Actions
  /\ Rank \in [Actions -> Nat]
  /\ HOUR \in Nat /\ LEASE \in Nat /\ Spacing \in Nat
  /\ Caps \subseteq Nat
  /\ UnitCap \in Nat /\ MaxUnits \in Nat \ {0} /\ PerTick \in Nat \ {0}
  /\ MaxTime \in Nat
  /\ Scenarios \subseteq (SUBSET Actions) \X (SUBSET AllTroubles) \X Caps

VARIABLES
  trouble,     \* the events that may happen in this behaviour, chosen at the start
  now,         \* the clock
  home,        \* which process each runner belongs to
  cap, paused, \* RuntimeControl: the limit in force, the global pause
  status, notBefore, lease,   \* the actions table
  intent,      \* a message row written ahead of the send exists
  token,       \* whose execution holds the conversation lease of the action
  counted,     \* UsageEvent of the action's send, by the time it was recorded
  views,       \* UsageEvents of page views: rows of one unit each, numbered within a moment
  pc, todo, left, capRead, pauseRead,    \* a runner's tick: candidates, results still allowed
  job, snap, peers, slipped, budget, verify, res,   \* its execution: the sends the gate counted,
               \* those of them in flight; history: sends made or under way it could not count
  copies, delivered,   \* the world: copies of each message sent, time of the first
  grant, counting, alongside, missing,   \* history of the claim a send was made under: the cap
               \* it was checked against, what was counted, what of it was in flight, what was not
  sincePause           \* history: claims since the pause was switched on

clockVars == <<trouble, now, home>>
runtimeVars == <<cap, paused>>
queueVars == <<status, notBefore, lease>>
leaseVars == <<intent, token>>
ledgerVars == <<counted, views>>
tickVars == <<todo, left, capRead, pauseRead>>
executionVars == <<job, snap, peers, slipped, budget, verify, res>>
worldVars == <<copies, delivered>>
historyVars == <<grant, counting, alongside, missing, sincePause>>
vars == <<clockVars, runtimeVars, queueVars, leaseVars, ledgerVars, pc, tickVars, executionVars,
          worldVars, historyVars>>

Statuses == {"APPROVED", "EXECUTING", "SUCCEEDED", "FAILED"}
Phases == {"idle", "ticking", "looked", "running", "ready", "done"}
Executing == {"running", "ready", "done"}
Outcomes == {"none", "sent", "found", "conflict"}

\* Page views of one moment are numbered.
ViewRows == [at : Times, number : Nat \ {0}]

TypeOK ==
  /\ trouble \subseteq AllTroubles
  /\ now \in Times /\ home \in [Runners -> Processes]
  /\ cap \in Caps /\ paused \in BOOLEAN
  /\ status \in [Actions -> Statuses]
  /\ notBefore \in [Actions -> Nat] /\ lease \in [Actions -> Nat]
  /\ intent \in [Actions -> BOOLEAN] /\ token \in [Actions -> SUBSET Runners]
  /\ counted \in [Sends -> 0..Never] /\ views \subseteq ViewRows
  /\ pc \in [Runners -> Phases]
  /\ todo \in [Runners -> SUBSET Actions] /\ left \in [Runners -> 0..PerTick]
  /\ capRead \in [Runners -> Caps] /\ pauseRead \in [Runners -> BOOLEAN]
  /\ job \in [Runners -> Actions \cup {NoAction}]
  /\ \A r \in Runners : pc[r] \in Executing \cup {"looked"} => job[r] \in Actions
  /\ snap \in [Runners -> SUBSET Sends] /\ peers \in [Runners -> SUBSET Sends]
  /\ slipped \in [Runners -> SUBSET Sends]
  /\ budget \in [Runners -> 0..MaxUnits]
  /\ verify \in [Runners -> BOOLEAN] /\ res \in [Runners -> Outcomes]
  /\ copies \in [Sends -> Nat] /\ delivered \in [Sends -> 0..Never]
  /\ grant \in [Sends -> Nat]
  /\ counting \in [Sends -> SUBSET Sends] /\ alongside \in [Sends -> SUBSET Sends]
  /\ missing \in [Sends -> SUBSET Sends]
  /\ sincePause \in Nat

\* Approved actions nobody has executed, and runners at rest, of whichever processes.
Init ==
  /\ now = 0 /\ home \in [Runners -> Processes]
  /\ paused = FALSE
  /\ \E s \in Scenarios :
       /\ status = [a \in Actions |-> IF a \in s[1] THEN "APPROVED" ELSE "SUCCEEDED"]
       /\ trouble = s[2] /\ cap = s[3]
  /\ notBefore = [a \in Actions |-> 0]
  /\ lease = [a \in Actions |-> 0]
  /\ intent = [a \in Actions |-> FALSE] /\ token = [a \in Actions |-> {}]
  /\ counted = [a \in Sends |-> Never] /\ views = {}
  /\ pc = [r \in Runners |-> "idle"] /\ todo = [r \in Runners |-> {}]
  /\ left = [r \in Runners |-> 0]
  /\ capRead = [r \in Runners |-> cap] /\ pauseRead = [r \in Runners |-> FALSE]
  /\ job = [r \in Runners |-> NoAction] /\ snap = [r \in Runners |-> {}]
  /\ peers = [r \in Runners |-> {}]
  /\ slipped = [r \in Runners |-> {}] /\ budget = [r \in Runners |-> 0]
  /\ verify = [r \in Runners |-> FALSE] /\ res = [r \in Runners |-> "none"]
  /\ copies = [a \in Sends |-> 0] /\ delivered = [a \in Sends |-> Never]
  /\ grant = [a \in Sends |-> 0] /\ counting = [a \in Sends |-> {}]
  /\ alongside = [a \in Sends |-> {}] /\ missing = [a \in Sends |-> {}]
  /\ sincePause = 0

(***************************************************************************)
(* The ledger.                                                             *)
(***************************************************************************)
\* UsageLedger.total() over the hour before now, by action.
SentLastHour == {a \in Sends : counted[a] <= now /\ counted[a] + HOUR >= now}

\* Mutant of InFlight: only the ledger is counted.
InFlightNone(a) == {}

\* EligibilityGate._in_flight(): sends another execution has claimed and not recorded.
InFlight(a) == {b \in Sends \ {a} : status[b] = "EXECUTING"}

\* UsageLedger.last_at() over SEND_KINDS.
LastSends == {a \in Sends : counted[a] <= now}

\* UsageLedger.total() of page views, and those the browser still has for one operation.
LastHour == {v \in views : v.at <= now /\ v.at + HOUR >= now}
ViewsLastHour == Cardinality(LastHour)

\* max(1, min(limits.max_units_per_operation, left))
MayUse(b) ==
  LET fits(n) == n = 1 \/ ViewsLastHour + n <= UnitCap
  IN fits(b) /\ \A n \in 1..MaxUnits : fits(n) => n <= b

(***************************************************************************)
(* The gate's temporary deferrals: the moments until which an action must  *)
(* wait, by the rule that makes it wait.                                   *)
(***************************************************************************)
CountedFor(a) == Cardinality(SentLastHour) + Cardinality(InFlight(a))

Oldest(T) == IF T = {} THEN now ELSE CHOOSE t \in T : \A u \in T : t <= u

UntilCap(r, a) ==
  IF a \in Sends /\ CountedFor(a) >= capRead[r]
  THEN {Oldest({counted[b] : b \in SentLastHour}) + HOUR} ELSE {}

UntilSpaced(a) == IF a \in Sends THEN {counted[b] + Spacing : b \in LastSends} ELSE {}

\* Only when every lane that could serve the action is a browser.
UntilViews(a) ==
  IF a \in BrowserOnly /\ ViewsLastHour >= UnitCap
  THEN {Oldest({v.at : v \in LastHour}) + HOUR} ELSE {}

\* evaluate(): what is still ahead; an expired cap window asks for now at the earliest.
WaitsUntil(r, a) ==
  UntilCap(r, a) \cup {t \in UntilSpaced(a) : now < t} \cup UntilViews(a)

Latest(T) == CHOOSE t \in T : \A u \in T : u <= t

(***************************************************************************)
(* A tick: maintenance, then run_once over the candidates it has read.     *)
(***************************************************************************)
\* No await between the check and the claim: the other ticks of the process stand still, and
\* those of another process get no further than a check and a claim of their own.
Alone(r) == \A q \in Runners \ {r} : home[q] = home[r] => pc[q] # "looked"
Settled == \A q \in Runners : pc[q] # "looked"

\* recover_stale(): whoever executes it, an execution past its lease is queued again.
Recovered == [a \in Actions |-> IF status[a] = "EXECUTING" /\ lease[a] < now
                                THEN "APPROVED" ELSE status[a]]

\* The actions run_once() reads, and which of them comes next.
Candidates(st) == {a \in Actions : st[a] = "APPROVED" /\ notBefore[a] <= now}

Upcoming(S) == {a \in S : \A b \in S : Rank[a] <= Rank[b]}

\* Mutant of ReadRuntime: the limits are read, the pause is not.
ReadLimitsOnly(r) ==
  /\ capRead' = [capRead EXCEPT ![r] = cap]
  /\ pauseRead' = [pauseRead EXCEPT ![r] = FALSE]

\* The pause and the limits are read here, once for all actions of the tick.
ReadRuntime(r) ==
  /\ capRead' = [capRead EXCEPT ![r] = cap]
  /\ pauseRead' = [pauseRead EXCEPT ![r] = paused]

\* Mutant of GoOn: results are not taken off the number allowed.
GoOnFresh(r, candidates, results) ==
  LET over == candidates = {} IN
  /\ pc' = [pc EXCEPT ![r] = IF over THEN "idle" ELSE "ticking"]
  /\ todo' = [todo EXCEPT ![r] = IF over THEN {} ELSE candidates]
  /\ left' = [left EXCEPT ![r] = IF over THEN 0 ELSE results + 1]

\* run_once() is over when no candidate or no result is left.
GoOn(r, candidates, results) ==
  LET over == candidates = {} \/ results = 0 IN
  /\ pc' = [pc EXCEPT ![r] = IF over THEN "idle" ELSE "ticking"]
  /\ todo' = [todo EXCEPT ![r] = IF over THEN {} ELSE candidates]
  /\ left' = [left EXCEPT ![r] = IF over THEN 0 ELSE results]

\* The start of a tick: maintenance, then run_once() (the planning between them is SendPath's).
StartTick(r) ==
  /\ pc[r] = "idle" /\ Settled
  /\ status' = Recovered
  /\ lease' = [a \in Actions |-> IF Recovered[a] = "EXECUTING" THEN lease[a] ELSE 0]
  /\ ReadRuntime(r)
  /\ GoOn(r, Candidates(Recovered), PerTick)
  /\ UNCHANGED <<clockVars, runtimeVars, notBefore, leaseVars, ledgerVars, executionVars,
                 worldVars, historyVars>>

\* The next candidate is no longer approved, or the gate defers it.
PassOver(r, a) ==
  /\ pc[r] = "ticking" /\ Alone(r) /\ a \in Upcoming(todo[r])
  /\ \/ /\ status[a] # "APPROVED" \/ pauseRead[r]
        /\ UNCHANGED notBefore
     \/ /\ status[a] = "APPROVED" /\ ~pauseRead[r]
        /\ WaitsUntil(r, a) # {}
        /\ notBefore' = [notBefore EXCEPT ![a] = Latest(WaitsUntil(r, a))]
  /\ GoOn(r, todo[r] \ {a}, left[r])
  /\ UNCHANGED <<clockVars, runtimeVars, status, lease, leaseVars, ledgerVars, capRead,
                 pauseRead, executionVars, worldVars, historyVars>>

\* Sends that are in the world or on their way and that no count shows.
Uncounted ==
  {b \in Sends : /\ status[b] # "EXECUTING" /\ counted[b] = Never
                 /\ \/ delivered[b] # Never
                    \/ \E q \in Runners : pc[q] \in Executing /\ job[q] = b}

\* _prepare() up to the claim: the gate allows the action, the request is built.
Look(r, a) ==
  /\ pc[r] = "ticking" /\ Alone(r) /\ a \in Upcoming(todo[r])
  /\ status[a] = "APPROVED" /\ ~pauseRead[r] /\ WaitsUntil(r, a) = {}
  /\ \E b \in 1..MaxUnits : MayUse(b) /\ budget' = [budget EXCEPT ![r] = b]
  /\ verify' = [verify EXCEPT ![r] = intent[a]]
  /\ job' = [job EXCEPT ![r] = a]
  /\ snap' = [snap EXCEPT ![r] = SentLastHour \cup InFlight(a)]
  /\ peers' = [peers EXCEPT ![r] = InFlight(a)]
  /\ slipped' = [slipped EXCEPT ![r] = Uncounted]
  /\ pc' = [pc EXCEPT ![r] = "looked"]
  /\ todo' = [todo EXCEPT ![r] = @ \ {a}]
  /\ UNCHANGED <<clockVars, runtimeVars, queueVars, leaseVars, ledgerVars, left, capRead, pauseRead,
                 res, worldVars, historyVars>>

\* actions.claim(): compare and set on the status.  The conversation is leased and the intent
\* written at once, by the first step of execute().
Claim(r) ==
  /\ pc[r] = "looked"
  /\ LET a == job[r] IN
     \/ /\ status[a] = "APPROVED"
        /\ status' = [status EXCEPT ![a] = "EXECUTING"]
        /\ lease' = [lease EXCEPT ![a] = now + LEASE]
        /\ intent' = [intent EXCEPT ![a] = TRUE]
        /\ token' = [token EXCEPT ![a] = {r}]
        /\ pc' = [pc EXCEPT ![r] = "running"] /\ UNCHANGED <<todo, left>>
        /\ UNCHANGED <<job, budget, verify>>
        /\ sincePause' = IF paused THEN sincePause + 1 ELSE 0
        /\ slipped' = [q \in Runners |-> IF q = r THEN {}
                                         ELSE IF pc[q] = "looked" THEN slipped[q] \cup ({a} \cap Sends)
                                         ELSE slipped[q]]
        /\ IF a \in Sends /\ delivered[a] = Never
           THEN /\ grant' = [grant EXCEPT ![a] = capRead[r]]
                /\ counting' = [counting EXCEPT ![a] = snap[r]]
                /\ alongside' = [alongside EXCEPT ![a] = peers[r]]
                /\ missing' = [missing EXCEPT ![a] = slipped[r]]
           ELSE UNCHANGED <<grant, counting, alongside, missing>>
     \/ /\ status[a] # "APPROVED"
        /\ GoOn(r, todo[r], left[r])
        /\ job' = [job EXCEPT ![r] = NoAction] /\ budget' = [budget EXCEPT ![r] = 0]
        /\ verify' = [verify EXCEPT ![r] = FALSE] /\ slipped' = [slipped EXCEPT ![r] = {}]
        /\ UNCHANGED <<status, lease, leaseVars, historyVars>>
  /\ snap' = [snap EXCEPT ![r] = {}] /\ peers' = [peers EXCEPT ![r] = {}]
  /\ UNCHANGED <<clockVars, runtimeVars, notBefore, ledgerVars, capRead, pauseRead, res,
                 worldVars>>

(***************************************************************************)
(* An execution.                                                           *)
(***************************************************************************)
\* Pacer.unit(): one page view, while the budget lasts.
Unit(r) ==
  /\ pc[r] = "running" /\ budget[r] > 0 /\ Settled
  /\ job[r] \in BrowserOnly \cup ApiFirst
  /\ budget' = [budget EXCEPT ![r] = @ - 1]
  /\ LET before == {v \in views : v.at = now}
     IN views' = views \cup {[at |-> now, number |-> Cardinality(before) + 1]}
  /\ UNCHANGED <<clockVars, runtimeVars, queueVars, leaseVars, counted, pc, tickVars, job, snap, peers,
                 slipped, verify, res, worldVars, historyVars>>

\* The thread is opened; after an earlier attempt it is searched for the message.
Verify(r) ==
  /\ pc[r] = "running" /\ job[r] \in Sends /\ Settled
  /\ IF verify[r] /\ copies[job[r]] > 0
     THEN pc' = [pc EXCEPT ![r] = "done"] /\ res' = [res EXCEPT ![r] = "found"]
     ELSE pc' = [pc EXCEPT ![r] = "ready"] /\ UNCHANGED res
  /\ verify' = [verify EXCEPT ![r] = FALSE] /\ budget' = [budget EXCEPT ![r] = 0]
  /\ UNCHANGED <<clockVars, runtimeVars, queueVars, leaseVars, ledgerVars, tickVars, job, snap, peers,
                 slipped, worldVars, historyVars>>

\* Mutant of Guarded: the send is not guarded.
Unguarded(r) == TRUE

\* still_owner(): the conversation's lease has not passed to another execution.
Guarded(r) == token[job[r]] = {r}

\* The guard is asked and the message sent.
Deliver(r) ==
  /\ pc[r] = "ready" /\ Settled
  /\ IF Guarded(r)
     THEN /\ copies' = [copies EXCEPT ![job[r]] = @ + 1]
          /\ delivered' = [delivered EXCEPT ![job[r]] = IF @ = Never THEN now ELSE @]
          /\ res' = [res EXCEPT ![r] = "sent"]
     ELSE res' = [res EXCEPT ![r] = "conflict"] /\ UNCHANGED worldVars
  /\ pc' = [pc EXCEPT ![r] = "done"]
  /\ UNCHANGED <<clockVars, runtimeVars, queueVars, leaseVars, ledgerVars, tickVars, job, snap, peers,
                 slipped, budget, verify, historyVars>>

\* _record() of a send that is known to be in the thread; counted once per action.
RecordSent(r) ==
  /\ pc[r] = "done" /\ Settled /\ res[r] \in {"sent", "found"}
  /\ status' = [status EXCEPT ![job[r]] = "SUCCEEDED"]
  /\ counted' = [counted EXCEPT ![job[r]] = IF @ = Never THEN now ELSE @]
  /\ UNCHANGED <<notBefore, views>>

\* Any other result, that of a message sent but not confirmed among them: final (FAILED stands
\* for every final status), or queued again after a while.
RecordUnsent(r) ==
  /\ pc[r] \in Executing /\ Settled /\ res[r] # "found"
  /\ \/ /\ res[r] # "conflict"
        /\ status' = [status EXCEPT ![job[r]] = "APPROVED"]
        /\ notBefore' = [notBefore EXCEPT ![job[r]] = now + 1]
     \/ status' = [status EXCEPT ![job[r]] = "FAILED"] /\ UNCHANGED notBefore
  /\ UNCHANGED ledgerVars

Record(r) ==
  /\ RecordSent(r) \/ RecordUnsent(r)
  /\ token' = [token EXCEPT ![job[r]] = @ \ {r}]
  /\ lease' = [lease EXCEPT ![job[r]] = 0]
  /\ GoOn(r, todo[r], left[r] - 1)
  /\ job' = [job EXCEPT ![r] = NoAction]
  /\ res' = [res EXCEPT ![r] = "none"] /\ budget' = [budget EXCEPT ![r] = 0]
  /\ verify' = [verify EXCEPT ![r] = FALSE]
  /\ UNCHANGED <<clockVars, runtimeVars, intent, capRead, pauseRead, snap,
                 peers, slipped, worldVars, historyVars>>

(***************************************************************************)
(* The operator, crashes, the clock.                                       *)
(***************************************************************************)
SetLimit ==
  /\ "limits" \in trouble
  /\ \E c \in Caps \ {cap} : cap' = c
  /\ UNCHANGED <<clockVars, paused, queueVars, leaseVars, ledgerVars, pc, tickVars, executionVars,
                 worldVars, historyVars>>

SetPaused ==
  /\ (IF paused THEN "resume" ELSE "pause") \in trouble
  /\ paused' = ~paused /\ sincePause' = 0
  /\ UNCHANGED <<clockVars, cap, queueVars, leaseVars, ledgerVars, pc, tickVars, executionVars,
                 worldVars, grant, counting, alongside, missing>>

\* Everything a process had in memory is gone; the rows stay as they are.
Crash(p) ==
  LET dead == {r \in Runners : home[r] = p} IN
  /\ "crash" \in trouble /\ \E r \in dead : pc[r] # "idle"
  /\ pc' = [r \in Runners |-> IF r \in dead THEN "idle" ELSE pc[r]]
  /\ todo' = [r \in Runners |-> IF r \in dead THEN {} ELSE todo[r]]
  /\ left' = [r \in Runners |-> IF r \in dead THEN 0 ELSE left[r]]
  /\ job' = [r \in Runners |-> IF r \in dead THEN NoAction ELSE job[r]]
  /\ res' = [r \in Runners |-> IF r \in dead THEN "none" ELSE res[r]]
  /\ budget' = [r \in Runners |-> IF r \in dead THEN 0 ELSE budget[r]]
  /\ verify' = [r \in Runners |-> IF r \in dead THEN FALSE ELSE verify[r]]
  /\ snap' = [r \in Runners |-> IF r \in dead THEN {} ELSE snap[r]]
  /\ peers' = [r \in Runners |-> IF r \in dead THEN {} ELSE peers[r]]
  /\ slipped' = [r \in Runners |-> IF r \in dead THEN {} ELSE slipped[r]]
  /\ UNCHANGED <<clockVars, runtimeVars, queueVars, leaseVars, ledgerVars, capRead, pauseRead,
                 worldVars, historyVars>>

\* Time passes; not_before values that have passed are alike.
Tick ==
  /\ Settled
  /\ now < MaxTime /\ now' = now + 1
  /\ notBefore' = [a \in Actions |-> IF notBefore[a] <= now + 1 THEN 0 ELSE notBefore[a]]
  /\ UNCHANGED <<trouble, home, runtimeVars, status, lease, leaseVars, ledgerVars, pc, tickVars, executionVars,
                 worldVars, historyVars>>

Next ==
  \/ \E r \in Runners :
       \/ StartTick(r) \/ Claim(r)
       \/ \E a \in Actions : PassOver(r, a) \/ Look(r, a)
       \/ Unit(r) \/ Verify(r) \/ Deliver(r) \/ Record(r)
  \/ SetLimit \/ SetPaused \/ Tick
  \/ \E p \in Processes : Crash(p)

Spec == Init /\ [][Next]_vars

(***************************************************************************)
(* Properties.                                                             *)
(***************************************************************************)
Within(D) == \A a, b \in D : delivered[a] <= delivered[b] + HOUR
Done == {a \in Sends : delivered[a] # Never}

\* However sends, records, crashes, recoveries and changes of the limit interleave: the messages
\* delivered in any hour are no more than the cap that one of them was checked against, plus
\* the sends that no count showed at that check (unconfirmed ones, executions that outlived
\* their lease, claims of another process between check and claim).
SendsWithinCap ==
  \A D \in SUBSET Done :
    D # {} /\ Within(D)
      => \E z \in D : Cardinality(D) <= grant[z] + Cardinality(missing[z] \cap D)

\* Why: of two messages delivered within an hour, the check for one knew of the other or could
\* not know of it; and each check found fewer than the cap.
LaterCountsEarlier ==
  /\ \A a, b \in Done :
       a # b /\ Within({a, b}) => \/ a \in counting[b] \cup missing[b]
                                  \/ b \in counting[a] \cup missing[a]
  /\ \A a \in Done : Cardinality(counting[a]) < grant[a]

\* The page views of an hour exceed the cap only by what concurrent ticks were granted at once.
ViewsWithinCap == ViewsLastHour <= UnitCap * Cardinality(Runners)

\* An execution that outlives its lease and the one that replaces it send one message.
OneCopyOfEach == \A a \in Sends : copies[a] <= 1

\* Two messages are spaced, unless one was in flight or unconfirmed when the other was checked.
SpacedUnlessOverlapping ==
  \A a, b \in Sends :
    a # b /\ delivered[a] <= delivered[b] /\ delivered[b] # Never
      => \/ delivered[a] + Spacing <= delivered[b]
         \/ a \in alongside[b] \cup missing[b]
         \/ b \in alongside[a] \cup missing[a]

\* The limits on messages and on page views hold through late records, overlapping executions,
\* crashes and limits that are changed meanwhile (facts_for, _in_flight, _build_request).
WithinLimits ==
  /\ SendsWithinCap
  /\ LaterCountsEarlier
  /\ ViewsWithinCap
  /\ SpacedUnlessOverlapping

\* After the pause is switched on, the ticks under way start no more than what is left of them.
PauseHolds == paused => sincePause <= PerTick * Cardinality(Runners)
=============================================================================
