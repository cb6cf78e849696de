------------------------------- MODULE Leads -------------------------------
(***************************************************************************)
(* How businesses become leads and leads become contacts: the planning of  *)
(* discovery runs (pipeline.plan_discovery, strategies.py), the profiles   *)
(* they reveal, their inspection and analysis (plan_inspections,           *)
(* handle_inspection_result, analyze_lead), the recognition of a business  *)
(* already known under another handle (intelligence/dedupe.py), the first  *)
(* draft (plan_outreach) and the opt-out that closes a business            *)
(* (policy/suppression.py).                                                *)
(*                                                                         *)
(* Several processes run service.tick().  A `with db.session()` block is   *)
(* one step and an await separates two; the planners of a tick, which do   *)
(* not wait, are one step.                                                 *)
(* Time is the day: the age of a run in days decides its cooldown.  The    *)
(* sending of a queued draft is one step: SendPath has it in detail.  Any  *)
(* approved action may be the next one due: not_before is not modelled.    *)
(***************************************************************************)
EXTENDS Naturals, Sequences, FiniteSets, SequencesExt

CONSTANTS
  Runners,      \* orchestrator processes
  Profile,      \* what each handle's profile shows: [domain, own, contacts]
  Verdict,      \* what the analysis makes of each handle: a set of statuses
  Strategies,   \* the campaign's strategies, in order
  Listed,       \* the configured queries of each strategy, in order
  Suggest,      \* the strategy that adds qualified leads as seeds (suggested_accounts)
  PerRun,       \* how many queries a strategy plans at a time
  Cooldown,     \* cooldown_days of each strategy
  Reveals,      \* the handles each query finds
  DailyCap,     \* limits.discovery_runs_per_day
  InspectLimit, \* plan_inspections(limit)
  MaxAttempts,  \* Action.max_attempts of an inspection
  MaxCrashes,   \* bound: deaths of a process
  Scenarios     \* what may happen: [runners, enabled, arrivals, troubles]

Handles == DOMAIN Profile
AllTroubles == {"crash", "slow", "late", "retry", "gone", "compose", "opt_out"}
NoDomain == "no domain"
Idle == [kind |-> "none", of |-> "none"]

\* A strategy's own queries are not shared with another one's.
Queries == UNION {Range(Listed[s]) : s \in Range(Strategies)} \cup Handles
HuntAttempts == 2     \* _queue_discovery(max_attempts=2)

ASSUME LeadsAssumption ==
  /\ \A h \in Handles : /\ Profile[h].own \in {"CUSTOM_DOMAIN", "BUILDER", "none"}
                        /\ Verdict[h] \subseteq {"QUALIFIED", "ANALYZED", "DISQUALIFIED"}
                        /\ Verdict[h] # {}
  /\ \A s, t \in Range(Strategies) : s # t => Range(Listed[s]) \cap Range(Listed[t]) = {}
  /\ \A q \in Queries : Reveals[q] \in Seq(Handles)
  /\ {DailyCap, InspectLimit, MaxAttempts, MaxCrashes} \subseteq Nat
  /\ IsFiniteSet(Handles) /\ IsFiniteSet(Runners)
  /\ \A c \in Scenarios : /\ c.runners \subseteq Runners /\ c.runners # {}
                          /\ c.enabled \subseteq Range(Strategies)
                          /\ c.arrivals \in Seq(Handles)
                          /\ c.troubles \subseteq AllTroubles

VARIABLES
  scenario,     \* who runs, the enabled strategies, who arrives unasked, what may go wrong
  arrived,      \* how many of the arrivals have come
  id,           \* Lead.id; 0: not a lead yet
  status,       \* Lead.status
  inspect,      \* the lead's one INSPECT_PROFILE action
  tries,        \* its attempts
  registered,   \* the leads whose identities are in lead_identities
  drafts,       \* SEND_OUTREACH actions made for the lead
  open,         \* leads with a first message in the queue
  contacted,    \* leads with contacted_at set
  left,         \* the identifiers on the suppression list
  hunts,        \* the newest DISCOVER action and DiscoveryRun of each query
  ledger,       \* DISCOVERY_RUN events of today
  pc, job, batch,          \* what each process has in its memory
  crashes,
  \* history
  judgedBefore, \* <<h, k>>: h was last judged before k was
  lost,         \* leads whose analysis died with its process
  optedOut      \* leads that asked to be left alone

leads == <<id, status, inspect, tries, registered, drafts, open, contacted, left>>
memory == <<pc, job, batch>>
history == <<judgedBefore, lost, optedOut>>
vars == <<scenario, arrived, leads, hunts, ledger, memory, crashes, history>>

Troubles == scenario.troubles
Known == {h \in Handles : id[h] > 0}
\* The leads in the order of their ids.
Table == [i \in 1..Cardinality(Known) |-> CHOOSE h \in Handles : id[h] = i]

Statuses == {"DISCOVERED", "ANALYZED", "QUALIFIED", "DISQUALIFIED", "DUPLICATE", "UNREACHABLE",
             "OUTREACH_PENDING", "CONTACTED", "CLOSED"}
ActionStates == {"none", "APPROVED", "EXECUTING", "DONE"}
NoHunt == [action |-> "none", run |-> "none", age |-> 0, tries |-> 0]

\* The ranges of the tables and of what a process holds.
TypeOK ==
  /\ scenario \in Scenarios
  /\ arrived \in 0..Len(scenario.arrivals)
  /\ id \in [Handles -> Nat] /\ {id[h] : h \in Known} = 1..Cardinality(Known)
  /\ status \in [Handles -> Statuses \cup {"none"}]
  /\ \A h \in Handles : status[h] = "none" <=> h \notin Known
  /\ inspect \in [Handles -> ActionStates]
  /\ tries \in [Handles -> Nat]
  /\ registered \cup contacted \cup lost \cup optedOut \subseteq Known
  /\ open \subseteq {h \in Known : drafts[h] > 0}
  /\ \A q \in Queries : /\ hunts[q].action \in ActionStates
                        /\ hunts[q].run \in {"none", "PLANNED", "SUCCEEDED", "FAILED"}
  /\ pc \in [Runners -> {"idle", "composing", "work", "running", "judging"}]
  /\ \A r \in Runners : /\ job[r] = Idle <=> pc[r] \notin {"running", "judging"}
                        /\ job[r].kind = "inspect" => job[r].of \in Known
                        /\ {d[1] : d \in batch[r]} \subseteq Known
  /\ judgedBefore \subseteq registered \X registered

Init ==
  /\ scenario \in Scenarios
  /\ arrived = 0
  /\ id = [h \in Handles |-> 0]
  /\ status = [h \in Handles |-> "none"]
  /\ inspect = [h \in Handles |-> "none"]
  /\ tries = [h \in Handles |-> 0]
  /\ registered = {}
  /\ drafts = [h \in Handles |-> 0]
  /\ open = {} /\ contacted = {} /\ left = {}
  /\ hunts = [q \in Queries |-> NoHunt]
  /\ ledger = 0
  /\ pc = [r \in Runners |-> "idle"]
  /\ job = [r \in Runners |-> Idle]
  /\ batch = [r \in Runners |-> {}]
  /\ crashes = 0
  /\ judgedBefore = {} /\ lost = {} /\ optedOut = {}

(***************************************************************************)
(* Who is the same business, and who is suppressed.                        *)
(***************************************************************************)
\* identity_keys(): a website counts when it stands on a domain of its own.
Identities(h) ==
  Profile[h].contacts \cup (IF Profile[h].own = "CUSTOM_DOMAIN" THEN {Profile[h].domain} ELSE {})

\* Slip: only the handle is suppressed.
SuppressibleHandle(h) == {h}

\* What an opt-out suppresses, and what the gate looks up: the handle itself, its phones and
\* e-mails, and Lead.website_domain, which is also set for a page on a website builder.
Suppressible(h) ==
  {h} \cup Profile[h].contacts \cup (IF Profile[h].own = "none" THEN {} ELSE {Profile[h].domain})
Suppressed(h) == Suppressible(h) \cap left # {}

SameBusiness(h, k) == h = k \/ Identities(h) \cap Identities(k) # {}

\* register_and_find_duplicate(): an earlier lead that has a claim on an identity of h.
Inert == {"DUPLICATE", "DISQUALIFIED"}
\* Slip: only a lead already contacted has a claim on its identity.
EarlierContacted(h) ==
  {k \in registered : id[k] < id[h] /\ status[k] = "CONTACTED" /\ Identities(k) \cap Identities(h) # {}}

Earlier(h) ==
  {k \in registered : /\ id[k] < id[h]
                      /\ status[k] \notin Inert
                      /\ Identities(k) \cap Identities(h) # {}}

(***************************************************************************)
(* New leads.                                                              *)
(***************************************************************************)
First(seq, e) == CHOOSE i \in DOMAIN seq : seq[i] = e /\ \A j \in 1..(i - 1) : seq[j] # e

\* upsert_candidates(): a handle already in the table stays as it is.
Upsert(found) ==
  LET new == Range(found) \ Known
      before(h) == {k \in new : First(found, k) < First(found, h)}
  IN /\ id' = [h \in Handles |-> IF h \in new THEN Cardinality(Known) + Cardinality(before(h)) + 1
                                 ELSE id[h]]
     /\ status' = [h \in Handles |-> IF h \in new THEN "DISCOVERED" ELSE status[h]]

\* A comment on our own post (_on_comment), or a handle added by hand (add_lead).
Arrive ==
  /\ arrived < Len(scenario.arrivals)
  /\ arrived' = arrived + 1
  /\ Upsert(<<scenario.arrivals[arrived + 1]>>)
  /\ UNCHANGED <<scenario, inspect, tries, registered, drafts, open, contacted, left, hunts, ledger,
                 memory, crashes, history>>

(***************************************************************************)
(* Planning: discovery, inspections, and the leads to draft a message for. *)
(***************************************************************************)
OpenHunts == {q \in Queries : hunts[q].action \in {"APPROVED", "EXECUTING"}}
Recent(s, q) == hunts[q].run \in {"PLANNED", "SUCCEEDED"} /\ hunts[q].age < Cooldown[s]

\* The qualified leads, best first; the order of the scores is the order of the ids here.
Seeds == SelectSeq(Table, LAMBDA h : status[h] \in {"QUALIFIED", "OUTREACH_PENDING", "CONTACTED"})
QueriesOf(s) == Listed[s] \o (IF s = Suggest THEN Seeds ELSE <<>>)

FirstOf(n, seq) == SubSeq(seq, 1, IF n < Len(seq) THEN n ELSE Len(seq))

\* Slip: the cooldown of a query is not looked at.
FreshAlways(s) == FirstOf(PerRun[s], SelectSeq(QueriesOf(s), LAMBDA q : q \notin OpenHunts))

\* _fresh(): the first queries of a strategy that are neither recent nor open.
Fresh(s) ==
  FirstOf(PerRun[s], SelectSeq(QueriesOf(s), LAMBDA q : ~Recent(s, q) /\ q \notin OpenHunts))

\* The action's key holds the day: a query that failed today makes no second action today.
MadeToday(q) == hunts[q].run # "none" /\ hunts[q].age = 0
RanToday == {q \in Queries : hunts[q].run = "SUCCEEDED" /\ hunts[q].age = 0}
Room == LET used == Cardinality(RanToday) + Cardinality(OpenHunts)
        IN IF used < DailyCap THEN DailyCap - used ELSE 0

Planned ==
  LET tasks == FlattenSeq([i \in 1..Len(Strategies) |->
                             IF Strategies[i] \in scenario.enabled THEN Fresh(Strategies[i]) ELSE <<>>])
  IN Range(FirstOf(Room, SelectSeq(tasks, LAMBDA q : ~MadeToday(q))))

PlanDiscovery ==
  LET planned == Planned
  IN hunts' = [q \in Queries |->
                 IF q \in planned THEN [action |-> "APPROVED", run |-> "PLANNED", age |-> 0, tries |-> 0]
                 ELSE hunts[q]]

\* The oldest leads not analysed yet; each gets one inspection, ever.
PlanInspections ==
  LET waiting == {h \in Known : status[h] = "DISCOVERED"}
      oldest == {h \in waiting : Cardinality({k \in waiting : id[k] < id[h]}) < InspectLimit}
  IN inspect' = [h \in Handles |-> IF h \in oldest /\ inspect[h] = "none" THEN "APPROVED" ELSE inspect[h]]

\* maintenance(): an execution whose process died, or that takes longer than its lease, is
\* queued again.
Expired(kind, of) ==
  \/ "slow" \in Troubles
  \/ \A r \in Runners : job[r] # [kind |-> kind, of |-> of]

RecoverInspection(h) ==
  /\ inspect[h] = "EXECUTING" /\ Expired("inspect", h)
  /\ inspect' = [inspect EXCEPT ![h] = "APPROVED"]
  /\ UNCHANGED <<scenario, arrived, id, status, tries, registered, drafts, open, contacted, left,
                 hunts, ledger, memory, crashes, history>>

RecoverHunt(q) ==
  /\ hunts[q].action = "EXECUTING" /\ Expired("hunt", q)
  /\ hunts' = [hunts EXCEPT ![q].action = "APPROVED"]
  /\ UNCHANGED <<scenario, arrived, leads, ledger, memory, crashes, history>>

\* The version of a draft is read with the lead, before the text is composed.
Plan(r) ==
  /\ pc[r] = "idle"
  /\ PlanDiscovery
  /\ PlanInspections
  /\ batch' = [batch EXCEPT ![r] = {<<h, drafts[h] + 1>> : h \in {k \in Known : status[k] = "QUALIFIED"}}]
  /\ pc' = [pc EXCEPT ![r] = "composing"]
  /\ UNCHANGED <<scenario, arrived, id, status, tries, registered, drafts, open, contacted, left,
                 ledger, job, crashes, history>>

\* plan_outreach(): the text could not be composed; whatever happened to the lead meanwhile.
ComposeFails(r, h, version) ==
  /\ "compose" \in Troubles
  /\ <<h, version>> \in batch[r]
  /\ batch' = [batch EXCEPT ![r] = @ \ {<<h, version>>}]
  /\ status' = [status EXCEPT ![h] = "ANALYZED"]
  /\ UNCHANGED <<scenario, arrived, id, inspect, tries, registered, drafts, open, contacted, left,
                 hunts, ledger, pc, job, crashes, history>>

\* gate.evaluate(): the permanent denials of a first message, and the status each leaves.
Denial(h) ==
  IF Suppressed(h) THEN "CLOSED"
  ELSE IF h \in contacted THEN "CONTACTED"
  ELSE IF status[h] \notin {"QUALIFIED", "OUTREACH_PENDING"} THEN "DISQUALIFIED"
  ELSE "none"

\* _queue_outbound(): a version made by another process is not made again.
Queue(r, h, version) ==
  /\ <<h, version>> \in batch[r]
  /\ batch' = [batch EXCEPT ![r] = @ \ {<<h, version>>}]
  /\ IF drafts[h] >= version
     THEN UNCHANGED <<status, drafts, open>>
     ELSE /\ drafts' = [drafts EXCEPT ![h] = version]
          /\ status' = [status EXCEPT ![h] = IF Denial(h) = "none" THEN "OUTREACH_PENDING" ELSE Denial(h)]
          /\ open' = IF Denial(h) = "none" THEN open \cup {h} ELSE open
  /\ UNCHANGED <<scenario, arrived, id, inspect, tries, registered, contacted, left, hunts, ledger,
                 pc, job, crashes, history>>

Composed(r) ==
  /\ pc[r] = "composing" /\ batch[r] = {}
  /\ pc' = [pc EXCEPT ![r] = "work"]
  /\ UNCHANGED <<scenario, arrived, leads, hunts, ledger, job, batch, crashes, history>>

(***************************************************************************)
(* Executing: one action at a time in each process.                        *)
(***************************************************************************)
ClaimInspection(r, h) ==
  /\ pc[r] = "work" /\ inspect[h] = "APPROVED"
  /\ inspect' = [inspect EXCEPT ![h] = "EXECUTING"]
  /\ job' = [job EXCEPT ![r] = [kind |-> "inspect", of |-> h]]
  /\ pc' = [pc EXCEPT ![r] = "running"]
  /\ UNCHANGED <<scenario, arrived, id, status, tries, registered, drafts, open, contacted, left,
                 hunts, ledger, batch, crashes, history>>

\* Slip: the gate does not look at the daily cap of discovery runs.
ClaimHuntUncapped(r, q) ==
  /\ pc[r] = "work" /\ hunts[q].action = "APPROVED"
  /\ hunts' = [hunts EXCEPT ![q].action = "EXECUTING"]
  /\ job' = [job EXCEPT ![r] = [kind |-> "hunt", of |-> q]]
  /\ pc' = [pc EXCEPT ![r] = "running"]
  /\ UNCHANGED <<scenario, arrived, leads, ledger, batch, crashes, history>>

\* The gate counts the runs on the ledger, not the ones being executed.
ClaimHunt(r, q) ==
  /\ pc[r] = "work" /\ hunts[q].action = "APPROVED"
  /\ ledger < DailyCap
  /\ hunts' = [hunts EXCEPT ![q].action = "EXECUTING"]
  /\ job' = [job EXCEPT ![r] = [kind |-> "hunt", of |-> q]]
  /\ pc' = [pc EXCEPT ![r] = "running"]
  /\ UNCHANGED <<scenario, arrived, leads, ledger, batch, crashes, history>>

\* The tick serves the queue to its end; max_actions_per_tick would spread it over more ticks.
EndTick(r) ==
  /\ pc[r] = "work"
  /\ \A h \in Handles : inspect[h] # "APPROVED"
  /\ ledger >= DailyCap \/ \A q \in Queries : hunts[q].action # "APPROVED"
  /\ pc' = [pc EXCEPT ![r] = "idle"]
  /\ UNCHANGED <<scenario, arrived, leads, hunts, ledger, job, batch, crashes, history>>

BackToWork(r) ==
  /\ pc' = [pc EXCEPT ![r] = "work"]
  /\ job' = [job EXCEPT ![r] = Idle]

\* _record() of a discovery run; handle_discovery_result().
HuntSucceeds(r) ==
  /\ pc[r] = "running" /\ job[r].kind = "hunt"
  /\ LET q == job[r].of
     IN /\ Upsert(Reveals[q])
        /\ hunts' = [hunts EXCEPT ![q].action = "DONE", ![q].run = "SUCCEEDED", ![q].tries = @ + 1]
  /\ ledger' = ledger + 1
  /\ BackToWork(r)
  /\ UNCHANGED <<scenario, arrived, inspect, tries, registered, drafts, open, contacted, left, batch,
                 crashes, history>>

HuntFails(r) ==
  /\ pc[r] = "running" /\ job[r].kind = "hunt"
  /\ "retry" \in Troubles
  /\ LET q == job[r].of
         more == hunts[q].tries + 1
     IN hunts' = [hunts EXCEPT ![q] =
                    IF more < HuntAttempts
                    THEN [@ EXCEPT !.action = "APPROVED", !.tries = more]
                    ELSE [@ EXCEPT !.action = "DONE", !.run = "FAILED", !.tries = more]]
  /\ BackToWork(r)
  /\ UNCHANGED <<scenario, arrived, leads, ledger, batch, crashes, history>>

\* _record() of an inspection; handle_inspection_result().
ProfileRead(r) ==
  /\ pc[r] = "running" /\ job[r].kind = "inspect"
  /\ LET h == job[r].of
     IN /\ inspect' = [inspect EXCEPT ![h] = "DONE"]
        /\ tries' = [tries EXCEPT ![h] = @ + 1]
  /\ pc' = [pc EXCEPT ![r] = "judging"]
  /\ UNCHANGED <<scenario, arrived, id, status, registered, drafts, open, contacted, left, hunts,
                 ledger, job, batch, crashes, history>>

\* Slip: a lead whose inspection failed for good keeps its status.
ProfileNotReadQuietly(r) ==
  /\ pc[r] = "running" /\ job[r].kind = "inspect"
  /\ {"retry", "gone"} \cap Troubles # {}
  /\ LET h == job[r].of
     IN /\ tries' = [tries EXCEPT ![h] = @ + 1]
        /\ inspect' = [inspect EXCEPT ![h] = IF tries[h] + 1 < MaxAttempts THEN "APPROVED" ELSE "DONE"]
  /\ BackToWork(r)
  /\ UNCHANGED <<scenario, arrived, id, status, registered, drafts, open, contacted, left, hunts,
                 ledger, batch, crashes, history>>

\* The profile could not be read: again later, or never (no such profile, no attempt left).
ProfileNotRead(r) ==
  /\ pc[r] = "running" /\ job[r].kind = "inspect"
  /\ LET h == job[r].of
         again == "retry" \in Troubles /\ tries[h] + 1 < MaxAttempts
         never == "gone" \in Troubles \/ ("retry" \in Troubles /\ tries[h] + 1 >= MaxAttempts)
     IN /\ tries' = [tries EXCEPT ![h] = @ + 1]
        /\ \/ again /\ inspect' = [inspect EXCEPT ![h] = "APPROVED"] /\ UNCHANGED status
           \/ never /\ inspect' = [inspect EXCEPT ![h] = "DONE"]
                    /\ status' = [status EXCEPT ![h] = "UNREACHABLE"]
  /\ BackToWork(r)
  /\ UNCHANGED <<scenario, arrived, id, registered, drafts, open, contacted, left, hunts, ledger,
                 batch, crashes, history>>

\* analyze_lead(), after the wait for the website check: a lead already in outreach keeps its
\* status; another one is registered and is a duplicate if an earlier lead has its identity.
Judge(r) ==
  /\ pc[r] = "judging"
  /\ LET h == job[r].of
     IN IF status[h] \in {"DISCOVERED", "ANALYZED", "QUALIFIED", "DISQUALIFIED"}
        THEN /\ registered' = registered \cup {h}
             /\ \E verdict \in Verdict[h] :
                  status' = [status EXCEPT ![h] = IF Earlier(h) # {} THEN "DUPLICATE" ELSE verdict]
             /\ judgedBefore' = {p \in judgedBefore : h \notin {p[1], p[2]}}
                                   \cup ((registered \ {h}) \X {h})
        ELSE UNCHANGED <<registered, status, judgedBefore>>
  /\ BackToWork(r)
  /\ UNCHANGED <<scenario, arrived, id, inspect, tries, drafts, open, contacted, left, hunts, ledger,
                 batch, crashes, lost, optedOut>>

(***************************************************************************)
(* What happens to a draft, and to the process.                            *)
(***************************************************************************)
\* The draft is executed: the gate again (_lead_on_denied), then the message goes out.
Send(h) ==
  /\ h \in open
  /\ open' = open \ {h}
  /\ IF Denial(h) = "none"
     THEN /\ contacted' = contacted \cup {h}
          /\ status' = [status EXCEPT ![h] = "CONTACTED"]
     ELSE /\ status' = [status EXCEPT ![h] = IF @ = "OUTREACH_PENDING" THEN Denial(h) ELSE @]
          /\ UNCHANGED contacted
  /\ UNCHANGED <<scenario, arrived, id, inspect, tries, registered, drafts, left, hunts, ledger,
                 memory, crashes, history>>

\* _act_on_reply(): "The business, not just this handle".
OptOut(h) ==
  /\ "opt_out" \in Troubles
  /\ h \in contacted \ optedOut
  /\ left' = left \cup Suppressible(h)
  /\ status' = [status EXCEPT ![h] = "CLOSED"]
  /\ open' = open \ {h}
  /\ optedOut' = optedOut \cup {h}
  /\ UNCHANGED <<scenario, arrived, id, inspect, tries, registered, drafts, contacted, hunts, ledger,
                 memory, crashes, judgedBefore, lost>>

\* The process dies and is started again.
Crash(r) ==
  /\ "crash" \in Troubles
  /\ pc[r] # "idle"
  /\ crashes < MaxCrashes
  /\ crashes' = crashes + 1
  /\ lost' = IF pc[r] = "judging" THEN lost \cup {job[r].of} ELSE lost
  /\ pc' = [pc EXCEPT ![r] = "idle"]
  /\ job' = [job EXCEPT ![r] = Idle]
  /\ batch' = [batch EXCEPT ![r] = {}]
  /\ UNCHANGED <<scenario, arrived, leads, hunts, ledger, judgedBefore, optedOut>>

\* The next day; without "late", a day is long enough for what it has to do.
LongestCooldown == CHOOSE n \in {Cooldown[s] : s \in Range(Strategies)} :
                     \A s \in Range(Strategies) : Cooldown[s] <= n
NewDay ==
  /\ scenario.enabled # {}
  /\ "late" \in Troubles \/ (Planned = {} /\ (OpenHunts = {} \/ ledger = DailyCap))
  /\ ledger' = 0
  /\ hunts' = [q \in Queries |->
                 [hunts[q] EXCEPT !.age = IF hunts[q].run # "none" /\ @ < LongestCooldown THEN @ + 1 ELSE @]]
  /\ UNCHANGED <<scenario, arrived, leads, memory, crashes, history>>

\* What a process does without being disturbed.
Tick(r) ==
  \/ Plan(r) \/ Composed(r) \/ EndTick(r)
  \/ \E d \in batch[r] : Queue(r, d[1], d[2])
  \/ \E h \in Handles : ClaimInspection(r, h)
  \/ \E q \in Queries : ClaimHunt(r, q)
  \/ HuntSucceeds(r) \/ HuntFails(r) \/ ProfileRead(r) \/ ProfileNotRead(r) \/ Judge(r)

Recover == \/ \E h \in Handles : RecoverInspection(h)
           \/ \E q \in Queries : RecoverHunt(q)

Next ==
  \/ Arrive \/ NewDay \/ Recover
  \/ \E r \in scenario.runners : \/ Tick(r) \/ Crash(r)
                                  \/ \E d \in batch[r] : ComposeFails(r, d[1], d[2])
  \/ \E h \in Handles : Send(h) \/ OptOut(h)

Spec == Init /\ [][Next]_vars

\* A process ticks again and again, an await ends, a lease expires and a day passes.
FairSpec ==
  /\ Spec
  /\ \A r \in Runners : WF_vars(r \in scenario.runners /\ Tick(r))
  /\ WF_vars(Recover)
  /\ WF_vars(NewDay)

(***************************************************************************)
(* What must hold.                                                         *)
(***************************************************************************)
Claim == {"QUALIFIED", "OUTREACH_PENDING", "CONTACTED"}

\* dedupe.py: two leads of one business are both in outreach only when the one found earlier was
\* judged after the one found later (register_and_find_duplicate looks among lower ids only);
\* crashes, retries, and leases that expire or texts that cannot be composed add no other way.
\* Both together do: plan_outreach writes ANALYZED over the status of a lead already contacted,
\* which a second analysis may then judge again.
ClaimsInOrder ==
  \/ {"slow", "compose"} \subseteq Troubles
  \/ \A h, k \in Known :
       (/\ SameBusiness(h, k) /\ id[h] < id[k]
        /\ status[h] \in Claim /\ status[k] \in Claim) => <<k, h>> \in judgedBefore

\* README "daily limits": the discovery runs of a day exceed discovery_runs_per_day by no more
\* than one per further process, though runs left over from yesterday, runs being executed and
\* executions repeated after their lease are counted nowhere.
HuntsWithinCap == ledger <= DailyCap + Cardinality(scenario.runners) - 1

\* _act_on_reply: once a business has opted out under one handle, none of its handles gets a
\* first message any more, whatever was found, judged or queued when.
OptOutCoversBusiness ==
  [][\A h \in Handles :
       h \in contacted' \ contacted => \A k \in optedOut : ~SameBusiness(h, k)]_vars

\* plan_inspections, analyze_lead: every lead is analysed or given up; only the death of a process
\* between reading the profile and judging it leaves one DISCOVERED for ever, and with
\* InspectLimit such leads at the head of the table the ones behind them are not looked at.
EveryLeadJudged ==
  \A h \in Handles :
    status[h] = "DISCOVERED" ~> \/ status[h] # "DISCOVERED"
                                \/ h \in lost \/ Cardinality(lost) >= InspectLimit

\* _fresh, plan_discovery: a query that does not fail is run again and again, when the cap leaves
\* room for all within their cooldown and the days are long enough.  (One that fails every day is
\* planned first every day: with PerRun = 1 no other query of its strategy is run.)
RotationCovers ==
  \A s \in Range(Strategies) : \A q \in Range(Listed[s]) :
    s \in scenario.enabled /\ {"retry", "late"} \cap Troubles = {} =>
      []<>(hunts[q].run = "SUCCEEDED" /\ hunts[q].age = 0)
=============================================================================
