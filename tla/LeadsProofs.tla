---------------------------- MODULE LeadsProofs ----------------------------
(***************************************************************************)
(* Three safety properties of Leads, for any processes, handles, queries,  *)
(* verdicts and limits: a business that opted out is left alone under all  *)
(* its handles; the discovery runs of a day keep to their cap but for one  *)
(* of each further process; and two leads of one business are both in      *)
(* outreach only when the one found later was judged first.                *)
(***************************************************************************)
EXTENDS Leads, TLAPS, FiniteSetTheorems

(***************************************************************************)
(* The opt-out.                                                            *)
(***************************************************************************)
\* What a business that opted out can be recognised by is on the suppression list.
OptedOutSuppressed == \A k \in optedOut : Suppressible(k) \subseteq left

\* Who is on the list, who asked for it and who has been written to stay the same.
NothingSaid == UNCHANGED <<left, optedOut, contacted>>

\* Only a send writes to anybody, and only an opt-out touches the list.
LEMMA WhoSpeaks ==
  [Next]_vars => NothingSaid \/ \E h \in Handles : Send(h) \/ OptOut(h)
<1> SUFFICES ASSUME [Next]_vars, ~(\E h \in Handles : Send(h) \/ OptOut(h)) PROVE NothingSaid
  OBVIOUS
<1>1. CASE Arrive \/ NewDay
  BY <1>1 DEF NothingSaid, Arrive, NewDay, leads, history
<1>2. CASE Recover
  BY <1>2 DEF NothingSaid, Recover, RecoverInspection, RecoverHunt, leads, history
<1>3. ASSUME NEW r \in scenario.runners, Tick(r) PROVE NothingSaid
  <2>1. CASE Plan(r) \/ Composed(r) \/ EndTick(r)
    BY <2>1 DEF NothingSaid, Plan, Composed, EndTick, leads, history
  <2>2. CASE \E d \in batch[r] : Queue(r, d[1], d[2])
    BY <2>2 DEF NothingSaid, Queue, history
  <2>3. CASE (\E h \in Handles : ClaimInspection(r, h)) \/ (\E q \in Queries : ClaimHunt(r, q))
    BY <2>3 DEF NothingSaid, ClaimInspection, ClaimHunt, leads, history
  <2>4. CASE HuntSucceeds(r) \/ HuntFails(r)
    BY <2>4 DEF NothingSaid, HuntSucceeds, HuntFails, leads, history
  <2>5. CASE ProfileRead(r) \/ ProfileNotRead(r)
    BY <2>5 DEF NothingSaid, ProfileRead, ProfileNotRead, history
  <2>6. CASE Judge(r)
    BY <2>6 DEF NothingSaid, Judge
  <2> QED
    BY <1>3, <2>1, <2>2, <2>3, <2>4, <2>5, <2>6 DEF Tick
<1>4. ASSUME NEW r \in scenario.runners, Crash(r) PROVE NothingSaid
  BY <1>4 DEF NothingSaid, Crash, leads
<1>5. ASSUME NEW r \in scenario.runners, NEW d \in batch[r], ComposeFails(r, d[1], d[2]) PROVE NothingSaid
  BY <1>5 DEF NothingSaid, ComposeFails, history
<1>6. CASE UNCHANGED vars
  BY <1>6 DEF NothingSaid, vars, leads, history
<1> QED
  BY <1>1, <1>2, <1>3, <1>4, <1>5, <1>6 DEF Next

LEMMA ListGrows == OptedOutSuppressed /\ [Next]_vars => OptedOutSuppressed'
<1> SUFFICES ASSUME OptedOutSuppressed, [Next]_vars PROVE OptedOutSuppressed'
  OBVIOUS
<1>1. CASE NothingSaid
  BY <1>1 DEF OptedOutSuppressed, NothingSaid, Suppressible
<1>2. ASSUME NEW h \in Handles, Send(h) PROVE OptedOutSuppressed'
  BY <1>2 DEF OptedOutSuppressed, Send, history, Suppressible
<1>3. ASSUME NEW h \in Handles, OptOut(h) PROVE OptedOutSuppressed'
  <2>1. left' = left \cup Suppressible(h) /\ optedOut' = optedOut \cup {h}
    BY <1>3 DEF OptOut
  <2> QED
    BY <2>1 DEF OptedOutSuppressed, Suppressible
<1> QED
  BY <1>1, <1>2, <1>3, WhoSpeaks

\* Two handles of one business have something in common that an opt-out suppresses.
LEMMA SameBusinessSuppressed ==
  ASSUME NEW h, NEW k, SameBusiness(h, k)
  PROVE  Suppressible(h) \cap Suppressible(k) # {}
BY DEF SameBusiness, Identities, Suppressible

\* A first message goes out after the gate has looked the lead up on the list.
LEMMA GateLooks ==
  OptedOutSuppressed /\ [Next]_vars
    => \A h \in Handles : h \in contacted' \ contacted => \A k \in optedOut : ~SameBusiness(h, k)
<1> SUFFICES ASSUME OptedOutSuppressed, [Next]_vars, NEW h \in Handles, h \in contacted' \ contacted,
                    NEW k \in optedOut, SameBusiness(h, k)
             PROVE  FALSE
  OBVIOUS
<1>1. Send(h)
  <2>1. ~NothingSaid
    BY DEF NothingSaid
  <2>2. ASSUME NEW g \in Handles, OptOut(g) PROVE FALSE
    BY <2>2 DEF OptOut
  <2>3. ASSUME NEW g \in Handles, Send(g) PROVE g = h
    BY <2>3 DEF Send
  <2> QED
    BY <2>1, <2>2, <2>3, WhoSpeaks
<1>2. ~Suppressed(h)
  BY <1>1 DEF Send, Denial
<1>3. Suppressible(k) \subseteq left
  BY DEF OptedOutSuppressed
<1> QED
  BY <1>2, <1>3, SameBusinessSuppressed DEF Suppressed

\* _act_on_reply, suppression.py: once a business has opted out under one handle, none of its
\* handles gets a first message any more, whatever was found, judged or queued when, by whatever
\* processes.
THEOREM OptedOutLeftAlone == Spec => OptOutCoversBusiness
<1>1. Init => OptedOutSuppressed
  BY DEF Init, OptedOutSuppressed
<1>2. Spec => []OptedOutSuppressed
  BY <1>1, ListGrows, PTL DEF Spec
<1>3. OptedOutSuppressed /\ [Next]_vars
        => [\A h \in Handles : h \in contacted' \ contacted => \A k \in optedOut : ~SameBusiness(h, k)]_vars
  BY GateLooks
<1> QED
  BY <1>2, <1>3, PTL DEF Spec, OptOutCoversBusiness

(***************************************************************************)
(* The cap of discovery runs.                                              *)
(***************************************************************************)
\* The processes that are executing a discovery run: each may add one to the ledger.
Hunting == {r \in scenario.runners : job[r].kind = "hunt"}

Jobs == [kind : {"inspect"}, of : Handles] \cup [kind : {"hunt"}, of : Queries] \cup {Idle}

\* Runs on the ledger and runs under way keep to the cap, but for one of each further process.
HuntInv ==
  /\ scenario \in Scenarios
  /\ ledger \in Nat
  /\ job \in [Runners -> Jobs]
  /\ ledger + Cardinality(Hunting) < DailyCap + Cardinality(scenario.runners)

LEMMA RunnersFinite ==
  ASSUME scenario \in Scenarios
  PROVE  /\ IsFiniteSet(scenario.runners) /\ scenario.runners \subseteq Runners
         /\ Cardinality(scenario.runners) \in Nat /\ Cardinality(scenario.runners) > 0
<1>1. scenario.runners \subseteq Runners /\ scenario.runners # {} /\ IsFiniteSet(Runners)
  BY LeadsAssumption
<1>2. IsFiniteSet(scenario.runners)
  BY <1>1, FS_Subset
<1>3. Cardinality(scenario.runners) \in Nat /\ Cardinality(scenario.runners) # 0
  BY <1>1, <1>2, FS_CardinalityType, FS_EmptySet
<1> QED
  BY <1>1, <1>2, <1>3

\* No run is added, and none begins.
LEMMA HuntsEnd ==
  ASSUME HuntInv, scenario' = scenario, ledger' \in Nat, ledger' <= ledger,
         job' \in [Runners -> Jobs], Hunting' \subseteq Hunting
  PROVE  HuntInv'
<1>1. IsFiniteSet(scenario.runners) /\ Cardinality(scenario.runners) \in Nat
  BY RunnersFinite DEF HuntInv
<1>2. IsFiniteSet(Hunting)
  BY <1>1, FS_Subset DEF Hunting
<1>3. Cardinality(Hunting') <= Cardinality(Hunting) /\ Cardinality(Hunting) \in Nat
      /\ Cardinality(Hunting') \in Nat
  BY <1>2, FS_Subset, FS_CardinalityType
<1>4. ledger + Cardinality(Hunting) < DailyCap + Cardinality(scenario.runners) /\ ledger \in Nat
      /\ DailyCap \in Nat
  BY LeadsAssumption DEF HuntInv
<1>5. ledger' + Cardinality(Hunting') < DailyCap + Cardinality(scenario.runners)
  BY <1>1, <1>3, <1>4
<1> QED
  BY <1>5 DEF HuntInv

LEMMA HuntNext == HuntInv /\ [Next]_vars => HuntInv'
<1> SUFFICES ASSUME HuntInv, [Next]_vars PROVE HuntInv'
  OBVIOUS
<1>1. scenario.runners \subseteq Runners
  BY RunnersFinite DEF HuntInv
<1>2. ASSUME UNCHANGED <<scenario, ledger, job>> PROVE HuntInv'
  BY <1>2 DEF HuntInv, Hunting
<1>3. ASSUME NEW r \in scenario.runners, UNCHANGED <<scenario, ledger>>, NEW j \in Jobs, j.kind # "hunt",
             job' = [job EXCEPT ![r] = j]
      PROVE  HuntInv'
  <2>1. job' \in [Runners -> Jobs]
    BY <1>3 DEF HuntInv
  <2>2. Hunting' \subseteq Hunting
    BY <1>1, <1>3 DEF Hunting, HuntInv
  <2>3. ledger' \in Nat /\ ledger' <= ledger
    BY <1>3 DEF HuntInv
  <2> QED
    BY <1>3, <2>1, <2>2, <2>3, HuntsEnd
<1>4. Idle \in Jobs /\ Idle.kind # "hunt"
  BY DEF Idle, Jobs
<1>5. CASE Arrive \/ Recover
  BY <1>2, <1>5 DEF Arrive, Recover, RecoverInspection, RecoverHunt, memory
<1>6. CASE NewDay
  <2>1. scenario' = scenario /\ ledger' = 0 /\ job' = job
    BY <1>6 DEF NewDay, memory
  <2>2. Hunting' \subseteq Hunting
    BY <2>1 DEF Hunting
  <2>3. ledger' \in Nat /\ ledger' <= ledger
    BY <2>1 DEF HuntInv
  <2>4. job' \in [Runners -> Jobs]
    BY <2>1 DEF HuntInv
  <2> QED
    BY <2>1, <2>2, <2>3, <2>4, HuntsEnd
<1>7. ASSUME NEW r \in scenario.runners, Tick(r) PROVE HuntInv'
  <2>1. CASE Plan(r) \/ Composed(r) \/ EndTick(r) \/ (\E d \in batch[r] : Queue(r, d[1], d[2]))
    BY <1>2, <2>1 DEF Plan, Composed, EndTick, Queue
  <2>2. ASSUME NEW h \in Handles, ClaimInspection(r, h) PROVE HuntInv'
    <3>1. [kind |-> "inspect", of |-> h] \in Jobs
      BY DEF Jobs
    <3>2. UNCHANGED <<scenario, ledger>> /\ job' = [job EXCEPT ![r] = [kind |-> "inspect", of |-> h]]
      BY <2>2 DEF ClaimInspection
    <3> QED
      BY <1>3, <3>1, <3>2
  <2>3. ASSUME NEW q \in Queries, ClaimHunt(r, q) PROVE HuntInv'
    <3>1. ledger < DailyCap /\ UNCHANGED <<scenario, ledger>>
          /\ job' = [job EXCEPT ![r] = [kind |-> "hunt", of |-> q]]
      BY <2>3 DEF ClaimHunt
    <3>2. job' \in [Runners -> Jobs]
      BY <3>1 DEF HuntInv, Jobs
    <3>3. IsFiniteSet(scenario.runners) /\ Cardinality(scenario.runners) \in Nat
      BY RunnersFinite DEF HuntInv
    <3>4. Hunting' \subseteq scenario.runners
      BY <3>1 DEF Hunting
    <3>5. Cardinality(Hunting') <= Cardinality(scenario.runners) /\ Cardinality(Hunting') \in Nat
      BY <3>3, <3>4, FS_Subset, FS_CardinalityType
    <3>6. ledger' + Cardinality(Hunting') < DailyCap + Cardinality(scenario.runners)
      BY <3>1, <3>3, <3>5, LeadsAssumption DEF HuntInv
    <3> QED
      BY <3>1, <3>2, <3>6 DEF HuntInv
  <2>4. CASE HuntSucceeds(r)
    <3>1. job[r].kind = "hunt" /\ scenario' = scenario /\ ledger' = ledger + 1
          /\ job' = [job EXCEPT ![r] = Idle]
      BY <2>4 DEF HuntSucceeds, BackToWork
    <3>2. job' \in [Runners -> Jobs] /\ ledger' \in Nat
      <4>1. job' \in [Runners -> Jobs]
        BY <1>4, <3>1 DEF HuntInv
      <4>2. ledger' \in Nat
        BY <3>1 DEF HuntInv
      <4> QED
        BY <4>1, <4>2
    <3>3. r \in Hunting /\ Hunting' = Hunting \ {r}
      BY <1>1, <1>4, <3>1 DEF Hunting, HuntInv
    <3>4. IsFiniteSet(Hunting)
      BY RunnersFinite, FS_Subset DEF Hunting, HuntInv
    <3>5. Cardinality(Hunting') = Cardinality(Hunting) - 1 /\ Cardinality(Hunting) \in Nat
      BY <3>3, <3>4, FS_RemoveElement, FS_CardinalityType
    <3>6. ledger + Cardinality(Hunting) < DailyCap + Cardinality(scenario.runners) /\ ledger \in Nat
      BY DEF HuntInv
    <3>7. ledger' + Cardinality(Hunting') < DailyCap + Cardinality(scenario.runners)
      <4>1. Cardinality(scenario.runners) \in Nat /\ DailyCap \in Nat
        BY RunnersFinite, LeadsAssumption DEF HuntInv
      <4> QED
        BY <3>1, <3>5, <3>6, <4>1
    <3> QED
      BY <3>1, <3>2, <3>7 DEF HuntInv
  <2>5. CASE HuntFails(r) \/ ProfileNotRead(r) \/ Judge(r)
    <3>1. UNCHANGED <<scenario, ledger>> /\ job' = [job EXCEPT ![r] = Idle]
      BY <2>5 DEF HuntFails, ProfileNotRead, Judge, BackToWork
    <3> QED
      BY <1>3, <1>4, <3>1
  <2>6. CASE ProfileRead(r)
    BY <1>2, <2>6 DEF ProfileRead
  <2> QED
    BY <1>7, <2>1, <2>2, <2>3, <2>4, <2>5, <2>6 DEF Tick
<1>8. ASSUME NEW r \in scenario.runners, Crash(r) PROVE HuntInv'
  <2>1. UNCHANGED <<scenario, ledger>> /\ job' = [job EXCEPT ![r] = Idle]
    BY <1>8 DEF Crash
  <2> QED
    BY <1>3, <1>4, <2>1
<1>9. ASSUME NEW r \in scenario.runners, NEW d \in batch[r], ComposeFails(r, d[1], d[2]) PROVE HuntInv'
  BY <1>2, <1>9 DEF ComposeFails
<1>10. ASSUME NEW h \in Handles, Send(h) \/ OptOut(h) PROVE HuntInv'
  BY <1>2, <1>10 DEF Send, OptOut, memory
<1>11. CASE UNCHANGED vars
  BY <1>2, <1>11 DEF vars, memory
<1> QED
  BY <1>5, <1>6, <1>7, <1>8, <1>9, <1>10, <1>11 DEF Next

\* discovery_runs_per_day: however many processes there are, and although runs under way, runs
\* left over from yesterday and executions repeated after their lease are not counted when one
\* is claimed, the runs of a day exceed the cap by no more than one of each further process.
THEOREM DiscoveryKeepsToCap == Spec => []HuntsWithinCap
<1>1. Init => HuntInv
  <2> SUFFICES ASSUME Init PROVE HuntInv
    OBVIOUS
  <2>1. scenario \in Scenarios /\ ledger = 0 /\ job = [r \in Runners |-> Idle]
    BY DEF Init
  <2>2. job \in [Runners -> Jobs]
    BY <2>1 DEF Idle, Jobs
  <2>3. scenario.runners \subseteq Runners /\ Cardinality(scenario.runners) \in Nat
        /\ Cardinality(scenario.runners) > 0
    BY <2>1, RunnersFinite
  <2>4. Hunting = {}
    BY <2>1, <2>3 DEF Hunting, Idle
  <2>5. Cardinality(Hunting) = 0
    BY <2>4, FS_EmptySet
  <2>6. DailyCap \in Nat
    BY LeadsAssumption
  <2> QED
    BY <2>1, <2>2, <2>3, <2>5, <2>6 DEF HuntInv
<1>2. HuntInv => HuntsWithinCap
  <2> SUFFICES ASSUME HuntInv PROVE HuntsWithinCap
    OBVIOUS
  <2>1. IsFiniteSet(Hunting)
    BY RunnersFinite, FS_Subset DEF Hunting, HuntInv
  <2>2. Cardinality(Hunting) \in Nat /\ Cardinality(scenario.runners) \in Nat /\ DailyCap \in Nat
    BY <2>1, RunnersFinite, FS_CardinalityType, LeadsAssumption DEF HuntInv
  <2>3. ledger \in Nat /\ ledger + Cardinality(Hunting) < DailyCap + Cardinality(scenario.runners)
    BY DEF HuntInv
  <2> QED
    BY <2>2, <2>3 DEF HuntsWithinCap
<1> QED
  BY <1>1, <1>2, HuntNext, PTL DEF Spec

(***************************************************************************)
(* The claims on a business.                                               *)
(***************************************************************************)
Judgeable == {"DISCOVERED", "ANALYZED", "QUALIFIED", "DISQUALIFIED"}
InOutreach == open \cup contacted

\* The ranges of what the claims rest on; who is in the memory of a process, in outreach or in
\* possession of a claim has been judged, and a lead judged is in the table.
ClaimsTyped ==
  /\ scenario \in Scenarios /\ arrived \in Nat
  /\ id \in [Handles -> Nat]
  /\ status \in [Handles -> Statuses \cup {"none"}]
  /\ inspect \in [Handles -> ActionStates]
  /\ drafts \in [Handles -> Nat]
  /\ pc \in [Runners -> {"idle", "composing", "work", "running", "judging"}]
  /\ job \in [Runners -> Jobs]
  /\ batch \in [Runners -> SUBSET (Handles \X Nat)]

JudgedFirst ==
  /\ \A h \in Handles : status[h] # "none" => id[h] > 0
  /\ \A h \in Handles : h \in registered \/ inspect[h] # "none" => status[h] # "none"
  /\ \A h \in Handles : status[h] \in Claim => h \in registered
  /\ InOutreach \subseteq registered /\ registered \subseteq Handles
  /\ \A r \in Runners : \A d \in batch[r] : d[1] \in registered
  /\ \A r \in Runners : pc[r] = "judging" => job[r].kind = "inspect"
  /\ \A r \in Runners : job[r].kind = "inspect" => status[job[r].of] # "none"

\* Without leases that expire, an inspection is with one process, and judged at most once.
JudgedOnce ==
  "slow" \in Troubles \/
    /\ \A r, s \in Runners : job[r].kind = "inspect" /\ job[s] = job[r] => r = s
    /\ \A r \in Runners :
         job[r].kind = "inspect" => /\ job[r].of \notin registered
                                    /\ inspect[job[r].of] \in {"EXECUTING", "DONE"}
                                    /\ pc[r] = "judging" => inspect[job[r].of] = "DONE"
    /\ \A h \in registered : inspect[h] = "DONE"

\* A text is composed for a version that exists or is the next one.
VersionsKnown == \A r \in Runners : \A d \in batch[r] : d[2] <= drafts[d[1]] + 1

\* No text is being composed for a first message after the one a lead in outreach has, so none of
\* its versions is new; its status is one a judgement leaves alone, or nobody can judge it again.
LeftAlone ==
  {"slow", "compose"} \subseteq Troubles \/
    \A h \in InOutreach :
      /\ \A r \in Runners : \A d \in batch[r] : d[1] = h => d[2] <= drafts[h]
      /\ status[h] # "QUALIFIED"
      /\ status[h] \in Judgeable => "slow" \notin Troubles

\* Of two leads of one business with a claim, the one found later was judged first.
LaterFirst ==
  {"slow", "compose"} \subseteq Troubles \/
    \A h, k \in registered :
      (/\ Identities(h) \cap Identities(k) # {} /\ id[h] < id[k]
       /\ status[h] \in Claim /\ status[k] \in Claim) => <<k, h>> \in judgedBefore

Ordered == VersionsKnown /\ LeftAlone /\ LaterFirst
ClaimsInv == ClaimsTyped /\ JudgedFirst /\ JudgedOnce /\ Ordered

LEMMA DenialKinds ==
  ASSUME NEW h \in Handles
  PROVE  /\ Denial(h) \in {"CLOSED", "CONTACTED", "DISQUALIFIED", "none"}
         /\ Denial(h) = "CONTACTED" => h \in contacted
         /\ Denial(h) = "none" => status[h] \in {"QUALIFIED", "OUTREACH_PENDING"} /\ h \notin contacted
         /\ Denial(h) = "DISQUALIFIED" => status[h] \notin {"QUALIFIED", "OUTREACH_PENDING"}
BY DEF Denial

\* What finding some handles does to the table: the new ones get an id, the others keep theirs.
LEMMA UpsertEffect ==
  ASSUME ClaimsTyped, NEW found, found \in Seq(Handles), Upsert(found)
  PROVE  /\ id' \in [Handles -> Nat]
         /\ status' \in [Handles -> Statuses \cup {"none"}]
         /\ \A h \in Handles : \/ id[h] > 0 /\ id'[h] = id[h] /\ status'[h] = status[h]
                               \/ id[h] = 0 /\ id'[h] > 0 /\ status'[h] = "DISCOVERED"
                               \/ id[h] = 0 /\ id'[h] = 0 /\ status'[h] = status[h]
<1> DEFINE new == Range(found) \ Known
           before(h) == {k \in new : First(found, k) < First(found, h)}
<1>1. IsFiniteSet(Handles) /\ Range(found) \subseteq Handles
  BY LeadsAssumption DEF Range
<1>2. Cardinality(Known) \in Nat
  BY <1>1, FS_Subset, FS_CardinalityType DEF Known
<1>3. ASSUME NEW h \in Handles PROVE Cardinality(before(h)) \in Nat
  <2>1. before(h) \subseteq Handles
    BY <1>1
  <2> QED
    BY <1>1, <2>1, FS_Subset, FS_CardinalityType
<1>4. /\ id' = [h \in Handles |-> IF h \in new THEN Cardinality(Known) + Cardinality(before(h)) + 1
                                  ELSE id[h]]
      /\ status' = [h \in Handles |-> IF h \in new THEN "DISCOVERED" ELSE status[h]]
  BY DEF Upsert
<1>5. \A h \in Handles : h \in new => id[h] = 0
  BY DEF Known, ClaimsTyped
<1> HIDE DEF new, before
<1>6. \A h \in Handles : id'[h] = IF h \in new THEN Cardinality(Known) + Cardinality(before(h)) + 1
                                  ELSE id[h]
  BY <1>4
<1>7. \A h \in Handles : id'[h] \in Nat /\ (h \in new => id'[h] > 0) /\ (h \notin new => id'[h] = id[h])
  BY <1>2, <1>3, <1>6 DEF ClaimsTyped
<1>8. \A h \in Handles : status'[h] = IF h \in new THEN "DISCOVERED" ELSE status[h]
  BY <1>4
<1>9. id' \in [Handles -> Nat]
  BY <1>4, <1>7
<1>10. status' \in [Handles -> Statuses \cup {"none"}]
  BY <1>4 DEF ClaimsTyped, Statuses
<1>11. \A h \in Handles : id[h] \in Nat
  BY DEF ClaimsTyped
<1> QED
  BY <1>5, <1>7, <1>8, <1>9, <1>10, <1>11

\* Who finds what: an arrival, or a discovery run.
LEMMA FoundEffect ==
  ASSUME ClaimsTyped, Arrive \/ \E r \in scenario.runners : HuntSucceeds(r)
  PROVE  \E found \in Seq(Handles) : Upsert(found)
<1>1. CASE Arrive
  <2>1. scenario.arrivals \in Seq(Handles) /\ arrived \in Nat /\ arrived < Len(scenario.arrivals)
    BY <1>1, LeadsAssumption DEF ClaimsTyped, Arrive
  <2>2. scenario.arrivals[arrived + 1] \in Handles
    BY <2>1
  <2>3. <<scenario.arrivals[arrived + 1]>> \in Seq(Handles)
    BY <2>2
  <2> QED
    BY <1>1, <2>3 DEF Arrive
<1>2. ASSUME NEW r \in scenario.runners, HuntSucceeds(r) PROVE \E found \in Seq(Handles) : Upsert(found)
  <2>1. r \in Runners /\ job[r].kind = "hunt" /\ job[r] \in Jobs
    BY <1>2, RunnersFinite DEF HuntSucceeds, ClaimsTyped
  <2>2. job[r].of \in Queries
    BY <2>1 DEF Jobs, Idle
  <2>3. Reveals[job[r].of] \in Seq(Handles)
    BY <2>2, LeadsAssumption
  <2> QED
    BY <1>2, <2>3 DEF HuntSucceeds
<1> QED
  BY <1>1, <1>2

\* A process that judges holds an inspection.
LEMMA JudgeOf ==
  ASSUME ClaimsTyped, JudgedFirst, NEW r \in Runners, Judge(r)
  PROVE  job[r].kind = "inspect" /\ job[r].of \in Handles /\ pc[r] = "judging"
<1>1. job[r].kind = "inspect" /\ job[r] \in Jobs /\ pc[r] = "judging"
  BY DEF Judge, ClaimsTyped, JudgedFirst
<1> QED
  BY <1>1 DEF Jobs, Idle

\* Ranges: what one process does to its own place in a function.
LEMMA ClaimsTypedNext == ClaimsTyped /\ JudgedFirst /\ [Next]_vars => ClaimsTyped'
<1> SUFFICES ASSUME ClaimsTyped, JudgedFirst, [Next]_vars PROVE ClaimsTyped'
  OBVIOUS
<1> USE DEF ClaimsTyped
<1>1. scenario.runners \subseteq Runners
  BY RunnersFinite
<1>2. Idle \in Jobs
  BY DEF Jobs
<1>3. ASSUME NEW r \in Runners, BackToWork(r)
      PROVE  pc' \in [Runners -> {"idle", "composing", "work", "running", "judging"}] /\ job' \in [Runners -> Jobs]
  <2>1. pc' = [pc EXCEPT ![r] = "work"] /\ job' = [job EXCEPT ![r] = Idle]
    BY <1>3 DEF BackToWork
  <2> QED
    BY <1>2, <2>1
<1>4. CASE Arrive
  <2>1. id' \in [Handles -> Nat] /\ status' \in [Handles -> Statuses \cup {"none"}]
    BY <1>4, FoundEffect, UpsertEffect
  <2> QED
    BY <1>4, <2>1 DEF Arrive, memory
<1>5. CASE NewDay \/ Recover
  <2>1. CASE NewDay
    BY <2>1 DEF NewDay, leads, memory
  <2>2. ASSUME NEW h \in Handles, RecoverInspection(h) PROVE ClaimsTyped'
    <3>1. inspect' = [inspect EXCEPT ![h] = "APPROVED"]
      BY <2>2 DEF RecoverInspection
    <3>2. inspect' \in [Handles -> ActionStates]
      BY <3>1 DEF ActionStates
    <3> QED
      BY <2>2, <3>2 DEF RecoverInspection, memory
  <2>3. ASSUME NEW q \in Queries, RecoverHunt(q) PROVE ClaimsTyped'
    BY <2>3 DEF RecoverHunt, leads, memory
  <2> QED
    BY <1>5, <2>1, <2>2, <2>3 DEF Recover
<1>6. ASSUME NEW r \in scenario.runners, Plan(r) PROVE ClaimsTyped'
  <2>1. inspect' \in [Handles -> ActionStates]
    BY <1>6 DEF Plan, PlanInspections, ActionStates
  <2>2. \A h \in Handles : drafts[h] + 1 \in Nat
    OBVIOUS
  <2>3. {<<h, drafts[h] + 1>> : h \in {k \in Known : status[k] = "QUALIFIED"}} \subseteq Handles \X Nat
    BY <2>2 DEF Known
  <2>4. batch' \in [Runners -> SUBSET (Handles \X Nat)]
    BY <1>6, <2>3 DEF Plan
  <2>5. pc' \in [Runners -> {"idle", "composing", "work", "running", "judging"}]
    BY <1>6 DEF Plan
  <2> QED
    BY <1>6, <2>1, <2>4, <2>5 DEF Plan
<1>7. ASSUME NEW r \in scenario.runners, Composed(r) \/ EndTick(r) PROVE ClaimsTyped'
  <2>1. pc' \in [Runners -> {"idle", "composing", "work", "running", "judging"}]
    BY <1>7 DEF Composed, EndTick
  <2> QED
    BY <1>7, <2>1 DEF Composed, EndTick, leads
<1>8. ASSUME NEW r \in scenario.runners, NEW d \in batch[r], Queue(r, d[1], d[2]) PROVE ClaimsTyped'
  <2>1. d[1] \in Handles /\ d[2] \in Nat
    BY <1>1
  <2>2. batch' \in [Runners -> SUBSET (Handles \X Nat)]
    BY <1>8 DEF Queue
  <2>3. drafts' \in [Handles -> Nat]
    BY <1>8, <2>1 DEF Queue
  <2>4. status' \in [Handles -> Statuses \cup {"none"}]
    <3>1. Denial(d[1]) = "none" \/ Denial(d[1]) \in Statuses
      BY <2>1, DenialKinds DEF Statuses
    <3>2. \/ status' = status
          \/ status' = [status EXCEPT ![d[1]] =
                          IF Denial(d[1]) = "none" THEN "OUTREACH_PENDING" ELSE Denial(d[1])]
      BY <1>8 DEF Queue
    <3> QED
      BY <2>1, <3>1, <3>2 DEF Statuses
  <2> QED
    BY <1>8, <2>2, <2>3, <2>4 DEF Queue
<1>9. ASSUME NEW r \in scenario.runners, NEW h \in Handles, ClaimInspection(r, h) PROVE ClaimsTyped'
  <2>1. [kind |-> "inspect", of |-> h] \in Jobs
    BY DEF Jobs
  <2>2. inspect' \in [Handles -> ActionStates]
    BY <1>9 DEF ClaimInspection, ActionStates
  <2>3. job' \in [Runners -> Jobs]
    BY <1>9, <2>1 DEF ClaimInspection
  <2>4. pc' \in [Runners -> {"idle", "composing", "work", "running", "judging"}]
    BY <1>9 DEF ClaimInspection
  <2> QED
    BY <1>9, <2>2, <2>3, <2>4 DEF ClaimInspection
<1>10. ASSUME NEW r \in scenario.runners, NEW q \in Queries, ClaimHunt(r, q) PROVE ClaimsTyped'
  <2>1. [kind |-> "hunt", of |-> q] \in Jobs
    BY DEF Jobs
  <2>2. job' \in [Runners -> Jobs]
    BY <1>10, <2>1 DEF ClaimHunt
  <2>3. pc' \in [Runners -> {"idle", "composing", "work", "running", "judging"}]
    BY <1>10 DEF ClaimHunt
  <2> QED
    BY <1>10, <2>2, <2>3 DEF ClaimHunt, leads
<1>11. ASSUME NEW r \in scenario.runners, HuntSucceeds(r) PROVE ClaimsTyped'
  <2>1. id' \in [Handles -> Nat] /\ status' \in [Handles -> Statuses \cup {"none"}]
    BY <1>11, FoundEffect, UpsertEffect
  <2>2. pc' \in [Runners -> {"idle", "composing", "work", "running", "judging"}] /\ job' \in [Runners -> Jobs]
    BY <1>1, <1>3, <1>11 DEF HuntSucceeds
  <2> QED
    BY <1>11, <2>1, <2>2 DEF HuntSucceeds
<1>12. ASSUME NEW r \in scenario.runners, HuntFails(r) PROVE ClaimsTyped'
  <2>1. pc' \in [Runners -> {"idle", "composing", "work", "running", "judging"}] /\ job' \in [Runners -> Jobs]
    BY <1>1, <1>3, <1>12 DEF HuntFails
  <2> QED
    BY <1>12, <2>1 DEF HuntFails, leads
<1>13. ASSUME NEW r \in scenario.runners, ProfileRead(r) PROVE ClaimsTyped'
  <2>1. inspect' \in [Handles -> ActionStates]
    BY <1>13 DEF ProfileRead, ActionStates
  <2>2. pc' \in [Runners -> {"idle", "composing", "work", "running", "judging"}]
    BY <1>13 DEF ProfileRead
  <2> QED
    BY <1>13, <2>1, <2>2 DEF ProfileRead
<1>14. ASSUME NEW r \in scenario.runners, ProfileNotRead(r) PROVE ClaimsTyped'
  <2>1. inspect' \in [Handles -> ActionStates] /\ status' \in [Handles -> Statuses \cup {"none"}]
    BY <1>14 DEF ProfileNotRead, ActionStates, Statuses
  <2>2. pc' \in [Runners -> {"idle", "composing", "work", "running", "judging"}] /\ job' \in [Runners -> Jobs]
    BY <1>1, <1>3, <1>14 DEF ProfileNotRead
  <2> QED
    BY <1>14, <2>1, <2>2 DEF ProfileNotRead
<1>15. ASSUME NEW r \in scenario.runners, Judge(r) PROVE ClaimsTyped'
  <2>0. job[r].of \in Handles
    BY <1>1, <1>15, JudgeOf
  <2>1. Verdict[job[r].of] \subseteq Statuses
    BY <2>0, LeadsAssumption DEF Statuses
  <2>2. status' \in [Handles -> Statuses \cup {"none"}]
    BY <1>15, <2>0, <2>1 DEF Judge, Statuses
  <2>3. pc' \in [Runners -> {"idle", "composing", "work", "running", "judging"}] /\ job' \in [Runners -> Jobs]
    BY <1>1, <1>3, <1>15 DEF Judge
  <2> QED
    BY <1>15, <2>2, <2>3 DEF Judge
<1>16. ASSUME NEW h \in Handles, Send(h) PROVE ClaimsTyped'
  <2>1. status' \in [Handles -> Statuses \cup {"none"}]
    <3>1. Denial(h) = "none" \/ Denial(h) \in Statuses
      BY DenialKinds DEF Statuses
    <3>2. CASE Denial(h) = "none"
      BY <1>16, <3>2 DEF Send, Statuses
    <3>3. CASE Denial(h) # "none"
      BY <1>16, <3>1, <3>3 DEF Send, Statuses
    <3> QED
      BY <3>2, <3>3
  <2> QED
    BY <1>16, <2>1 DEF Send, memory
<1>17. ASSUME NEW h \in Handles, OptOut(h) PROVE ClaimsTyped'
  <2>1. status' \in [Handles -> Statuses \cup {"none"}]
    BY <1>17 DEF OptOut, Statuses
  <2> QED
    BY <1>17, <2>1 DEF OptOut, memory
<1>18. ASSUME NEW r \in scenario.runners, Crash(r) PROVE ClaimsTyped'
  <2>1. pc' \in [Runners -> {"idle", "composing", "work", "running", "judging"}] /\ job' \in [Runners -> Jobs]
    BY <1>2, <1>18 DEF Crash
  <2>2. batch' \in [Runners -> SUBSET (Handles \X Nat)]
    BY <1>18 DEF Crash
  <2> QED
    BY <1>18, <2>1, <2>2 DEF Crash, leads
<1>19. ASSUME NEW r \in scenario.runners, NEW d \in batch[r], ComposeFails(r, d[1], d[2]) PROVE ClaimsTyped'
  <2>1. batch' \in [Runners -> SUBSET (Handles \X Nat)] /\ status' \in [Handles -> Statuses \cup {"none"}]
    BY <1>19 DEF ComposeFails, Statuses
  <2> QED
    BY <1>19, <2>1 DEF ComposeFails
<1>20. CASE UNCHANGED vars
  BY <1>20 DEF vars, leads, memory
<1> QED
  BY <1>4, <1>5, <1>6, <1>7, <1>8, <1>9, <1>10, <1>11, <1>12, <1>13, <1>14, <1>15, <1>16, <1>17,
     <1>18, <1>19, <1>20 DEF Next, Tick

LEMMA InspectsHandle ==
  ASSUME ClaimsTyped
  PROVE  \A r \in Runners :
           job[r].kind = "inspect" => job[r].of \in Handles /\ job[r] = [kind |-> "inspect", of |-> job[r].of]
<1> SUFFICES ASSUME NEW r \in Runners, job[r].kind = "inspect"
             PROVE  job[r].of \in Handles /\ job[r] = [kind |-> "inspect", of |-> job[r].of]
  OBVIOUS
<1>1. job[r] \in Jobs
  BY DEF ClaimsTyped
<1> QED
  BY <1>1 DEF Jobs, Idle

\* What finding some handles leaves of the order of judgements.
LEMMA FoundKeepsJudgedFirst ==
  ASSUME ClaimsTyped, JudgedFirst, Arrive \/ \E r \in scenario.runners : HuntSucceeds(r)
  PROVE  JudgedFirst'
<1>1. PICK found \in Seq(Handles) : Upsert(found)
  BY FoundEffect
<1>2. \A h \in Handles : \/ id[h] > 0 /\ id'[h] = id[h] /\ status'[h] = status[h]
                         \/ id[h] = 0 /\ id'[h] > 0 /\ status'[h] = "DISCOVERED"
                         \/ id[h] = 0 /\ id'[h] = 0 /\ status'[h] = status[h]
  BY <1>1, UpsertEffect
<1>3. UNCHANGED <<inspect, registered, open, contacted, batch>>
  BY DEF Arrive, HuntSucceeds, memory
<1>4. \A h \in Handles : status[h] # "none" => id[h] > 0 /\ status'[h] = status[h]
  BY <1>2 DEF JudgedFirst, ClaimsTyped
<1>5. \A h \in Handles : status'[h] # "none" => id'[h] > 0
  BY <1>2 DEF JudgedFirst, ClaimsTyped
<1>6. /\ registered \subseteq Handles
      /\ \A h \in Handles : h \in registered \/ inspect[h] # "none" => status'[h] # "none"
  BY <1>4 DEF JudgedFirst
<1>7. \A h \in Handles : status'[h] \in Claim => h \in registered
  BY <1>2 DEF JudgedFirst, Claim
<1>8. \A r \in Runners : /\ pc'[r] = "judging" => job'[r].kind = "inspect"
                         /\ job'[r].kind = "inspect" => status'[job'[r].of] # "none"
  <2>1. \A r \in Runners : job[r].kind = "inspect" => status'[job[r].of] # "none"
    BY <1>4, InspectsHandle DEF JudgedFirst
  <2>2. CASE Arrive
    BY <2>1, <2>2 DEF Arrive, memory, JudgedFirst
  <2>3. ASSUME NEW s \in scenario.runners, HuntSucceeds(s)
        PROVE  \A r \in Runners : /\ pc'[r] = "judging" => job'[r].kind = "inspect"
                                  /\ job'[r].kind = "inspect" => status'[job'[r].of] # "none"
    <3>1. pc' = [pc EXCEPT ![s] = "work"] /\ job' = [job EXCEPT ![s] = Idle]
      BY <2>3 DEF HuntSucceeds, BackToWork
    <3> QED
      BY <2>1, <3>1 DEF JudgedFirst, ClaimsTyped, Idle
  <2> QED
    BY <2>2, <2>3
<1> QED
  BY <1>3, <1>5, <1>6, <1>7, <1>8 DEF JudgedFirst, InOutreach

\* Nothing is found, and a lead is registered before it claims anything.
LEMMA KeepsJudgedFirst ==
  ASSUME ClaimsTyped, JudgedFirst, UNCHANGED id,
         \A h \in Handles : \/ status'[h] = status[h]
                            \/ status[h] # "none" /\ status'[h] # "none"
                               /\ (status'[h] \in Claim => h \in registered'),
         registered \subseteq registered', registered' \subseteq Handles,
         \A h \in Handles : h \in registered' \/ inspect'[h] # "none" => status[h] # "none",
         InOutreach' \subseteq registered',
         \A r \in Runners : \A d \in batch'[r] : d[1] \in registered',
         \A r \in Runners : /\ pc'[r] = "judging" => job'[r].kind = "inspect"
                            /\ job'[r].kind = "inspect" => status'[job'[r].of] # "none"
  PROVE  JudgedFirst'
BY DEF JudgedFirst

LEMMA JudgedFirstNext == ClaimsTyped /\ JudgedFirst /\ [Next]_vars => JudgedFirst'
<1> SUFFICES ASSUME ClaimsTyped, JudgedFirst, [Next]_vars PROVE JudgedFirst'
  OBVIOUS
<1> USE DEF ClaimsTyped
<1>1. scenario.runners \subseteq Runners
  BY RunnersFinite
<1>2. /\ InOutreach \subseteq registered /\ registered \subseteq Handles
      /\ \A r \in Runners : \A d \in batch[r] : d[1] \in registered
      /\ \A h \in Handles : h \in registered \/ inspect[h] # "none" => status[h] # "none"
      /\ \A h \in Handles : status[h] \in Claim => h \in registered
      /\ \A r \in Runners : pc[r] = "judging" => job[r].kind = "inspect"
      /\ \A r \in Runners : job[r].kind = "inspect" => status[job[r].of] # "none"
  BY DEF JudgedFirst
<1>3. ASSUME UNCHANGED <<id, status, inspect, registered, open, contacted, batch, pc, job>> PROVE JudgedFirst'
  BY <1>3 DEF JudgedFirst, InOutreach
<1>4. ASSUME NEW r \in Runners, UNCHANGED <<id, status, inspect, registered, open, contacted>>,
             batch' = batch \/ batch' = [batch EXCEPT ![r] = {}],
             NEW p \in {"idle", "composing", "work", "running"}, pc' = [pc EXCEPT ![r] = p],
             NEW j, j.kind # "inspect", job' = job \/ job' = [job EXCEPT ![r] = j]
      PROVE  JudgedFirst'
  <2>1. \A s \in Runners : batch'[s] \subseteq batch[s]
    BY <1>4
  <2>2. \A s \in Runners : /\ pc'[s] = "judging" => job'[s].kind = "inspect"
                           /\ job'[s].kind = "inspect" => status'[job'[s].of] # "none"
    BY <1>2, <1>4
  <2> QED
    BY <1>2, <1>4, <2>1, <2>2, KeepsJudgedFirst DEF InOutreach
<1>5. Idle.kind # "inspect"
  BY DEF Idle
<1>6. CASE Arrive \/ \E r \in scenario.runners : HuntSucceeds(r)
  BY <1>6, FoundKeepsJudgedFirst
<1>7. CASE NewDay \/ Recover
  <2>1. CASE NewDay \/ \E q \in Queries : RecoverHunt(q)
    BY <1>3, <2>1 DEF NewDay, RecoverHunt, leads, memory
  <2>2. ASSUME NEW h \in Handles, RecoverInspection(h) PROVE JudgedFirst'
    <3>1. \A k \in Handles : inspect'[k] # "none" => inspect[k] # "none"
      BY <2>2 DEF RecoverInspection
    <3>2. UNCHANGED <<id, status, registered, open, contacted, batch, pc, job>>
      BY <2>2 DEF RecoverInspection, memory
    <3> QED
      BY <1>2, <3>1, <3>2, KeepsJudgedFirst DEF InOutreach
  <2> QED
    BY <1>7, <2>1, <2>2 DEF Recover
<1>8. ASSUME NEW r \in scenario.runners, Plan(r) PROVE JudgedFirst'
  <2>1. \A d \in batch'[r] : d[1] \in registered
    <3>1. batch'[r] = {<<h, drafts[h] + 1>> : h \in {k \in Known : status[k] = "QUALIFIED"}}
      BY <1>1, <1>8 DEF Plan
    <3>2. \A h \in {k \in Known : status[k] = "QUALIFIED"} : h \in registered
      BY <1>2 DEF Known, Claim
    <3> QED
      BY <3>1, <3>2
  <2>2. \A s \in Runners : \A d \in batch'[s] : d[1] \in registered
    BY <1>1, <1>2, <1>8, <2>1 DEF Plan
  <2>3. \A s \in Runners : pc'[s] = "judging" => pc[s] = "judging"
    BY <1>1, <1>8 DEF Plan
  <2>4. UNCHANGED <<id, status, registered, open, contacted, job>>
    BY <1>8 DEF Plan
  <2>5. \A h \in Handles : inspect'[h] # "none" => inspect[h] # "none" \/ status[h] = "DISCOVERED"
    BY <1>8 DEF Plan, PlanInspections
  <2> QED
    BY <1>2, <2>2, <2>3, <2>4, <2>5, KeepsJudgedFirst DEF InOutreach
<1>9. ASSUME NEW r \in scenario.runners, Composed(r) \/ EndTick(r) PROVE JudgedFirst'
  <2>1. UNCHANGED <<id, status, inspect, registered, open, contacted, batch, job>>
    BY <1>9 DEF Composed, EndTick, leads
  <2>2. pc' = [pc EXCEPT ![r] = "work"] \/ pc' = [pc EXCEPT ![r] = "idle"]
    BY <1>9 DEF Composed, EndTick
  <2> QED
    BY <1>1, <1>4, <1>5, <2>1, <2>2
<1>10. ASSUME NEW r \in scenario.runners, NEW d \in batch[r], Queue(r, d[1], d[2]) PROVE JudgedFirst'
  <2>1. d[1] \in registered /\ d[1] \in Handles
    BY <1>1, <1>2
  <2>2. \A s \in Runners : batch'[s] \subseteq batch[s]
    BY <1>1, <1>10 DEF Queue
  <2>3. InOutreach' \subseteq InOutreach \cup {d[1]}
    BY <1>10 DEF Queue, InOutreach
  <2>4. \A h \in Handles : h # d[1] => status'[h] = status[h]
    BY <1>10 DEF Queue
  <2>5. status'[d[1]] = status[d[1]] \/ status'[d[1]] # "none"
    <3>1. CASE Denial(d[1]) = "none"
      BY <1>10, <2>1, <3>1 DEF Queue
    <3>2. CASE Denial(d[1]) # "none"
      BY <1>10, <2>1, <3>2 DEF Queue
    <3> QED
      BY <3>1, <3>2
  <2>6. UNCHANGED <<id, inspect, registered, pc, job>>
    BY <1>10 DEF Queue
  <2>7. status[d[1]] # "none"
    BY <1>2, <2>1
  <2>8. \A s \in Runners : job[s].kind = "inspect" => status'[job[s].of] # "none"
    BY <1>2, <2>1, <2>4, <2>5, <2>7, InspectsHandle
  <2> QED
    BY <1>2, <2>1, <2>2, <2>3, <2>4, <2>5, <2>6, <2>7, <2>8, KeepsJudgedFirst
<1>11. ASSUME NEW r \in scenario.runners, NEW h \in Handles, ClaimInspection(r, h) PROVE JudgedFirst'
  <2>1. status[h] # "none"
    BY <1>2, <1>11 DEF ClaimInspection
  <2>2. \A k \in Handles : inspect'[k] # "none" => inspect[k] # "none" \/ k = h
    BY <1>11 DEF ClaimInspection
  <2>3. UNCHANGED <<id, status, registered, open, contacted, batch>>
        /\ job' = [job EXCEPT ![r] = [kind |-> "inspect", of |-> h]] /\ pc' = [pc EXCEPT ![r] = "running"]
    BY <1>11 DEF ClaimInspection
  <2>4. \A s \in Runners : /\ pc'[s] = "judging" => job'[s].kind = "inspect"
                           /\ job'[s].kind = "inspect" => status[job'[s].of] # "none"
    BY <1>1, <1>2, <2>1, <2>3
  <2> QED
    BY <1>2, <2>1, <2>2, <2>3, <2>4, KeepsJudgedFirst DEF InOutreach
<1>12. ASSUME NEW r \in scenario.runners, NEW q \in Queries, ClaimHunt(r, q) PROVE JudgedFirst'
  <2>1. [kind |-> "hunt", of |-> q].kind # "inspect"
    OBVIOUS
  <2>2. UNCHANGED <<id, status, inspect, registered, open, contacted, batch>>
        /\ job' = [job EXCEPT ![r] = [kind |-> "hunt", of |-> q]] /\ pc' = [pc EXCEPT ![r] = "running"]
    BY <1>12 DEF ClaimHunt, leads
  <2> QED
    BY <1>1, <1>4, <2>1, <2>2
<1>13. ASSUME NEW r \in scenario.runners, HuntFails(r) PROVE JudgedFirst'
  <2>1. UNCHANGED <<id, status, inspect, registered, open, contacted, batch>>
        /\ job' = [job EXCEPT ![r] = Idle] /\ pc' = [pc EXCEPT ![r] = "work"]
    BY <1>13 DEF HuntFails, BackToWork, leads
  <2> QED
    BY <1>1, <1>4, <1>5, <2>1
<1>14. ASSUME NEW r \in scenario.runners, ProfileRead(r) PROVE JudgedFirst'
  <2>1. UNCHANGED <<id, status, registered, open, contacted, batch, job>> /\ job[r].kind = "inspect"
        /\ pc' = [pc EXCEPT ![r] = "judging"]
    BY <1>14 DEF ProfileRead
  <2>2. job[r].of \in Handles /\ status[job[r].of] # "none"
    BY <1>1, <1>2, <2>1, InspectsHandle
  <2>3. \A h \in Handles : inspect'[h] # "none" => inspect[h] # "none" \/ h = job[r].of
    BY <1>14, <2>2 DEF ProfileRead
  <2> QED
    BY <1>1, <1>2, <2>1, <2>2, <2>3, KeepsJudgedFirst DEF InOutreach
<1>15. ASSUME NEW r \in scenario.runners, ProfileNotRead(r) PROVE JudgedFirst'
  <2>1. UNCHANGED <<id, registered, open, contacted, batch>> /\ job[r].kind = "inspect"
        /\ job' = [job EXCEPT ![r] = Idle] /\ pc' = [pc EXCEPT ![r] = "work"]
    BY <1>15 DEF ProfileNotRead, BackToWork
  <2>2. job[r].of \in Handles /\ status[job[r].of] # "none"
    BY <1>1, <1>2, <2>1, InspectsHandle
  <2>3. \A h \in Handles : status'[h] = status[h] \/ (status'[h] = "UNREACHABLE" /\ status[h] # "none")
    BY <1>15, <2>2 DEF ProfileNotRead
  <2>4. \A s \in Runners : job'[s].kind = "inspect" => status'[job'[s].of] # "none"
    BY <1>1, <1>2, <1>5, <2>1, <2>3, InspectsHandle
  <2>5. \A s \in Runners : pc'[s] = "judging" => job'[s].kind = "inspect"
    BY <1>1, <1>2, <2>1
  <2>6. \A h \in Handles : inspect'[h] # "none" => inspect[h] # "none" \/ h = job[r].of
    <3>1. inspect' = [inspect EXCEPT ![job[r].of] = "APPROVED"] \/ inspect' = [inspect EXCEPT ![job[r].of] = "DONE"]
      BY <1>15 DEF ProfileNotRead
    <3> QED
      BY <3>1
  <2> QED
    BY <1>2, <2>1, <2>2, <2>3, <2>4, <2>5, <2>6, KeepsJudgedFirst DEF InOutreach, Claim
<1>16. ASSUME NEW r \in scenario.runners, Judge(r) PROVE JudgedFirst'
  <2>1. job[r].of \in Handles /\ status[job[r].of] # "none"
    BY <1>1, <1>2, <1>16, JudgeOf
  <2>2. UNCHANGED <<id, inspect, open, contacted, batch>>
        /\ job' = [job EXCEPT ![r] = Idle] /\ pc' = [pc EXCEPT ![r] = "work"]
    BY <1>16 DEF Judge, BackToWork
  <2>3. \A h \in Handles : h # job[r].of => status'[h] = status[h]
    BY <1>16 DEF Judge
  <2>4. \/ registered' = registered /\ status' = status
        \/ registered' = registered \cup {job[r].of} /\ status'[job[r].of] # "none"
    <3>1. CASE status[job[r].of] \in Judgeable
      <4>1. PICK verdict \in Verdict[job[r].of] :
              status' = [status EXCEPT ![job[r].of] = IF Earlier(job[r].of) # {} THEN "DUPLICATE" ELSE verdict]
        BY <1>16, <3>1 DEF Judge, Judgeable
      <4>2. verdict # "none"
        BY <2>1, <4>1, LeadsAssumption
      <4>3. status'[job[r].of] # "none"
        BY <2>1, <4>1, <4>2
      <4> QED
        BY <1>16, <3>1, <4>3 DEF Judge, Judgeable
    <3>2. CASE status[job[r].of] \notin Judgeable
      BY <1>16, <3>2 DEF Judge, Judgeable
    <3> QED
      BY <3>1, <3>2
  <2>5. \A s \in Runners : job'[s].kind = "inspect" => status'[job'[s].of] # "none"
    BY <1>1, <1>2, <1>5, <2>1, <2>2, <2>3, <2>4, InspectsHandle
  <2>6. \A s \in Runners : pc'[s] = "judging" => job'[s].kind = "inspect"
    BY <1>1, <1>2, <2>2
  <2>7. registered \subseteq registered' /\ registered' \subseteq Handles
        /\ (\A h \in Handles : h \in registered' \/ inspect'[h] # "none" => status[h] # "none")
        /\ InOutreach' \subseteq registered'
    BY <1>2, <2>1, <2>2, <2>4 DEF InOutreach
  <2>8. \A h \in Handles : \/ status'[h] = status[h]
                           \/ status[h] # "none" /\ status'[h] # "none"
                              /\ (status'[h] \in Claim => h \in registered')
    BY <2>1, <2>3, <2>4
  <2>9. \A s \in Runners : \A d \in batch'[s] : d[1] \in registered'
    BY <1>2, <2>2, <2>7
  <2> QED
    BY <2>2, <2>5, <2>6, <2>7, <2>8, <2>9, KeepsJudgedFirst
<1>17. ASSUME NEW h \in Handles, Send(h) \/ OptOut(h) PROVE JudgedFirst'
  <2>1. h \in InOutreach /\ h \in registered /\ status[h] # "none"
    BY <1>2, <1>17 DEF Send, OptOut, InOutreach
  <2>2. InOutreach' \subseteq InOutreach
    BY <1>17 DEF Send, OptOut, InOutreach
  <2>3. \A k \in Handles : k # h => status'[k] = status[k]
    BY <1>17 DEF Send, OptOut
  <2>4. status'[h] # "none"
    <3>1. CASE Send(h) /\ Denial(h) = "none"
      BY <3>1 DEF Send
    <3>2. CASE Send(h) /\ Denial(h) # "none"
      BY <2>1, <3>2 DEF Send
    <3>3. CASE OptOut(h)
      BY <3>3 DEF OptOut
    <3> QED
      BY <1>17, <3>1, <3>2, <3>3
  <2>5. UNCHANGED <<id, inspect, registered, batch, pc, job>>
    BY <1>17 DEF Send, OptOut, memory
  <2>6. \A s \in Runners : job[s].kind = "inspect" => status'[job[s].of] # "none"
    BY <1>2, <2>3, <2>4, InspectsHandle
  <2> QED
    BY <1>2, <2>1, <2>2, <2>3, <2>4, <2>5, <2>6, KeepsJudgedFirst
<1>18. ASSUME NEW r \in scenario.runners, Crash(r) PROVE JudgedFirst'
  <2>1. UNCHANGED <<id, status, inspect, registered, open, contacted>> /\ batch' = [batch EXCEPT ![r] = {}]
        /\ job' = [job EXCEPT ![r] = Idle] /\ pc' = [pc EXCEPT ![r] = "idle"]
    BY <1>18 DEF Crash, leads
  <2> QED
    BY <1>1, <1>4, <1>5, <2>1
<1>19. ASSUME NEW r \in scenario.runners, NEW d \in batch[r], ComposeFails(r, d[1], d[2]) PROVE JudgedFirst'
  <2>1. d[1] \in registered /\ d[1] \in Handles /\ status[d[1]] # "none"
    BY <1>1, <1>2
  <2>2. \A s \in Runners : batch'[s] \subseteq batch[s]
    BY <1>1, <1>19 DEF ComposeFails
  <2>3. \A h \in Handles : status'[h] = IF h = d[1] THEN "ANALYZED" ELSE status[h]
    BY <1>19 DEF ComposeFails
  <2>4. UNCHANGED <<id, inspect, registered, open, contacted, pc, job>>
    BY <1>19 DEF ComposeFails
  <2>5. \A s \in Runners : job[s].kind = "inspect" => status'[job[s].of] # "none"
    BY <1>2, <2>3, InspectsHandle
  <2> QED
    BY <1>2, <2>1, <2>2, <2>3, <2>4, <2>5, KeepsJudgedFirst DEF InOutreach, Claim
<1>20. CASE UNCHANGED vars
  BY <1>3, <1>20 DEF vars, leads, memory
<1> QED
  BY <1>6, <1>7, <1>8, <1>9, <1>10, <1>11, <1>12, <1>13, <1>14, <1>15, <1>16, <1>17,
     <1>18, <1>19, <1>20 DEF Next, Tick

\* No inspection is claimed, read or judged.
LEMMA KeepsJudgedOnce ==
  ASSUME JudgedOnce, ClaimsTyped, scenario' = scenario, registered' = registered, registered \subseteq Handles,
         \A h \in Handles : inspect'[h] = inspect[h] \/ inspect[h] = "none",
         \A s \in Runners : job'[s].kind = "inspect" =>
                              job'[s] = job[s] /\ (pc'[s] = "judging" => pc[s] = "judging")
  PROVE  JudgedOnce'
<1> SUFFICES ASSUME "slow" \notin Troubles PROVE JudgedOnce'
  BY DEF JudgedOnce, Troubles
<1>1. /\ \A r, s \in Runners : job[r].kind = "inspect" /\ job[s] = job[r] => r = s
      /\ \A r \in Runners :
           job[r].kind = "inspect" => /\ job[r].of \notin registered
                                      /\ inspect[job[r].of] \in {"EXECUTING", "DONE"}
                                      /\ pc[r] = "judging" => inspect[job[r].of] = "DONE"
      /\ \A h \in registered : inspect[h] = "DONE"
  BY DEF JudgedOnce
<1>2. \A r, s \in Runners : job'[r].kind = "inspect" /\ job'[s] = job'[r] => r = s
  BY <1>1
<1>3. \A r \in Runners :
        job'[r].kind = "inspect" => /\ job'[r].of \notin registered
                                    /\ inspect'[job'[r].of] \in {"EXECUTING", "DONE"}
                                    /\ pc'[r] = "judging" => inspect'[job'[r].of] = "DONE"
  <2> SUFFICES ASSUME NEW r \in Runners, job'[r].kind = "inspect"
               PROVE  /\ job'[r].of \notin registered
                      /\ inspect'[job'[r].of] \in {"EXECUTING", "DONE"}
                      /\ pc'[r] = "judging" => inspect'[job'[r].of] = "DONE"
    OBVIOUS
  <2>1. job'[r] = job[r] /\ job[r].of \in Handles
    BY InspectsHandle
  <2> QED
    BY <1>1, <2>1
<1>4. \A h \in registered : inspect'[h] = "DONE"
  BY <1>1
<1> QED
  BY <1>2, <1>3, <1>4 DEF JudgedOnce

LEMMA JudgedOnceNext == ClaimsTyped /\ JudgedFirst /\ JudgedOnce /\ [Next]_vars => JudgedOnce'
<1> SUFFICES ASSUME ClaimsTyped, JudgedFirst, JudgedOnce, [Next]_vars PROVE JudgedOnce'
  OBVIOUS
<1> USE DEF ClaimsTyped
<1>1. scenario.runners \subseteq Runners /\ registered \subseteq Handles
  BY RunnersFinite DEF JudgedFirst
<1>2. Idle.kind # "inspect"
  BY DEF Idle
<1>3. ASSUME UNCHANGED <<scenario, registered, inspect, pc, job>> PROVE JudgedOnce'
  BY <1>1, <1>3, KeepsJudgedOnce
<1>4. ASSUME NEW r \in Runners, UNCHANGED <<scenario, registered, inspect>>,
             NEW p \in {"idle", "composing", "work", "running"}, pc' = [pc EXCEPT ![r] = p],
             NEW j, j.kind # "inspect", job' = job \/ job' = [job EXCEPT ![r] = j]
      PROVE  JudgedOnce'
  BY <1>1, <1>4, KeepsJudgedOnce
<1>5. CASE Arrive \/ NewDay \/ \E q \in Queries : RecoverHunt(q)
  BY <1>3, <1>5 DEF Arrive, NewDay, RecoverHunt, leads, memory
<1>6. ASSUME NEW h \in Handles, RecoverInspection(h) PROVE JudgedOnce'
  <2> SUFFICES ASSUME "slow" \notin Troubles PROVE JudgedOnce'
    BY <1>6 DEF JudgedOnce, Troubles, RecoverInspection
  <2>1. inspect[h] = "EXECUTING" /\ \A r \in Runners : job[r] # [kind |-> "inspect", of |-> h]
    BY <1>6 DEF RecoverInspection, Expired
  <2>2. inspect' = [inspect EXCEPT ![h] = "APPROVED"] /\ UNCHANGED <<registered, pc, job>>
    BY <1>6 DEF RecoverInspection, memory
  <2>3. \A r \in Runners : job[r].kind = "inspect" => inspect'[job[r].of] = inspect[job[r].of]
    BY <2>1, <2>2, InspectsHandle
  <2>4. \A k \in registered : inspect'[k] = inspect[k]
    BY <1>1, <2>1, <2>2 DEF JudgedOnce
  <2> QED
    BY <2>2, <2>3, <2>4 DEF JudgedOnce
<1>7. ASSUME NEW r \in scenario.runners, Plan(r) PROVE JudgedOnce'
  <2>1. \A h \in Handles : inspect'[h] = inspect[h] \/ inspect[h] = "none"
    BY <1>7 DEF Plan, PlanInspections
  <2>2. UNCHANGED <<scenario, registered, job>> /\ pc' = [pc EXCEPT ![r] = "composing"]
    BY <1>7 DEF Plan
  <2> QED
    BY <1>1, <2>1, <2>2, KeepsJudgedOnce
<1>8. ASSUME NEW r \in scenario.runners, Composed(r) \/ EndTick(r) PROVE JudgedOnce'
  <2>1. UNCHANGED <<scenario, registered, inspect, job>>
        /\ (pc' = [pc EXCEPT ![r] = "work"] \/ pc' = [pc EXCEPT ![r] = "idle"])
    BY <1>8 DEF Composed, EndTick, leads
  <2> QED
    BY <1>1, <1>2, <1>4, <2>1
<1>9. ASSUME NEW r \in scenario.runners, NEW d \in batch[r],
             Queue(r, d[1], d[2]) \/ ComposeFails(r, d[1], d[2])
      PROVE  JudgedOnce'
  BY <1>3, <1>9 DEF Queue, ComposeFails
<1>10. ASSUME NEW r \in scenario.runners, NEW h \in Handles, ClaimInspection(r, h) PROVE JudgedOnce'
  <2> SUFFICES ASSUME "slow" \notin Troubles PROVE JudgedOnce'
    BY <1>10 DEF JudgedOnce, Troubles, ClaimInspection
  <2>1. inspect[h] = "APPROVED" /\ inspect' = [inspect EXCEPT ![h] = "EXECUTING"]
        /\ job' = [job EXCEPT ![r] = [kind |-> "inspect", of |-> h]] /\ pc' = [pc EXCEPT ![r] = "running"]
        /\ registered' = registered
    BY <1>10 DEF ClaimInspection
  <2>2. h \notin registered
    BY <2>1 DEF JudgedOnce
  <2>3. \A s \in Runners : job[s].kind = "inspect" => job[s].of # h /\ job[s].of \in Handles
    BY <2>1, InspectsHandle DEF JudgedOnce
  <2>4. \A s, t \in Runners : job'[s].kind = "inspect" /\ job'[t] = job'[s] => s = t
    BY <1>1, <2>1, <2>3 DEF JudgedOnce
  <2>5. \A s \in Runners :
          job'[s].kind = "inspect" => /\ job'[s].of \notin registered
                                      /\ inspect'[job'[s].of] \in {"EXECUTING", "DONE"}
                                      /\ pc'[s] = "judging" => inspect'[job'[s].of] = "DONE"
    <3> SUFFICES ASSUME NEW s \in Runners, job'[s].kind = "inspect"
                 PROVE  /\ job'[s].of \notin registered
                        /\ inspect'[job'[s].of] \in {"EXECUTING", "DONE"}
                        /\ pc'[s] = "judging" => inspect'[job'[s].of] = "DONE"
      OBVIOUS
    <3>1. CASE s = r
      BY <1>1, <2>1, <2>2, <3>1
    <3>2. CASE s # r
      BY <1>1, <2>1, <2>3, <3>2 DEF JudgedOnce
    <3> QED
      BY <3>1, <3>2
  <2>6. \A k \in registered : inspect'[k] = "DONE"
    BY <1>1, <2>1, <2>2 DEF JudgedOnce
  <2> QED
    BY <2>1, <2>4, <2>5, <2>6 DEF JudgedOnce
<1>11. ASSUME NEW r \in scenario.runners, NEW q \in Queries, ClaimHunt(r, q) PROVE JudgedOnce'
  <2>1. [kind |-> "hunt", of |-> q].kind # "inspect"
    OBVIOUS
  <2>2. UNCHANGED <<scenario, registered, inspect>>
        /\ job' = [job EXCEPT ![r] = [kind |-> "hunt", of |-> q]] /\ pc' = [pc EXCEPT ![r] = "running"]
    BY <1>11 DEF ClaimHunt, leads
  <2> QED
    BY <1>1, <1>4, <2>1, <2>2
<1>12. ASSUME NEW r \in scenario.runners, HuntSucceeds(r) \/ HuntFails(r) PROVE JudgedOnce'
  <2>1. UNCHANGED <<scenario, registered, inspect>>
        /\ job' = [job EXCEPT ![r] = Idle] /\ pc' = [pc EXCEPT ![r] = "work"]
    BY <1>12 DEF HuntSucceeds, HuntFails, BackToWork, leads
  <2> QED
    BY <1>1, <1>2, <1>4, <2>1
<1>13. ASSUME NEW r \in scenario.runners, Crash(r) PROVE JudgedOnce'
  <2>1. UNCHANGED <<scenario, registered, inspect>>
        /\ job' = [job EXCEPT ![r] = Idle] /\ pc' = [pc EXCEPT ![r] = "idle"]
    BY <1>13 DEF Crash, leads
  <2> QED
    BY <1>1, <1>2, <1>4, <2>1
<1>14. ASSUME NEW r \in scenario.runners, ProfileRead(r) PROVE JudgedOnce'
  <2> SUFFICES ASSUME "slow" \notin Troubles PROVE JudgedOnce'
    BY <1>14 DEF JudgedOnce, Troubles, ProfileRead
  <2>1. inspect' = [inspect EXCEPT ![job[r].of] = "DONE"] /\ UNCHANGED <<registered, job>>
        /\ pc' = [pc EXCEPT ![r] = "judging"] /\ job[r].kind = "inspect"
    BY <1>14 DEF ProfileRead
  <2>2. \A s \in Runners :
          job[s].kind = "inspect" => /\ inspect'[job[s].of] \in {inspect[job[s].of], "DONE"}
                                     /\ pc'[s] = "judging" => inspect'[job[s].of] = "DONE"
    <3> SUFFICES ASSUME NEW s \in Runners, job[s].kind = "inspect"
                 PROVE  /\ inspect'[job[s].of] \in {inspect[job[s].of], "DONE"}
                        /\ pc'[s] = "judging" => inspect'[job[s].of] = "DONE"
      OBVIOUS
    <3>1. job[s].of \in Handles /\ job[r].of \in Handles
      BY <1>1, <2>1, InspectsHandle
    <3>2. CASE s = r
      BY <2>1, <3>1, <3>2
    <3>3. CASE s # r
      BY <1>1, <2>1, <3>1, <3>3 DEF JudgedOnce
    <3> QED
      BY <3>2, <3>3
  <2>3. \A k \in registered : inspect'[k] = "DONE"
    BY <1>1, <2>1 DEF JudgedOnce
  <2> QED
    BY <2>1, <2>2, <2>3 DEF JudgedOnce
<1>15. ASSUME NEW r \in scenario.runners, ProfileNotRead(r) PROVE JudgedOnce'
  <2> SUFFICES ASSUME "slow" \notin Troubles PROVE JudgedOnce'
    BY <1>15 DEF JudgedOnce, Troubles, ProfileNotRead
  <2>1. job[r].kind = "inspect" /\ registered' = registered
        /\ job' = [job EXCEPT ![r] = Idle] /\ pc' = [pc EXCEPT ![r] = "work"]
    BY <1>15 DEF ProfileNotRead, BackToWork
  <2>2. inspect' = [inspect EXCEPT ![job[r].of] = "APPROVED"]
        \/ inspect' = [inspect EXCEPT ![job[r].of] = "DONE"]
    BY <1>15 DEF ProfileNotRead
  <2>3. job[r].of \notin registered
    BY <1>1, <2>1 DEF JudgedOnce
  <2>4. \A s \in Runners : job'[s].kind = "inspect" =>
          s # r /\ job'[s] = job[s] /\ pc'[s] = pc[s] /\ job[s].of # job[r].of /\ job[s].of \in Handles
    <3> SUFFICES ASSUME NEW s \in Runners, job'[s].kind = "inspect"
                 PROVE  s # r /\ job'[s] = job[s] /\ pc'[s] = pc[s] /\ job[s].of # job[r].of
                        /\ job[s].of \in Handles
      OBVIOUS
    <3>1. s # r /\ job'[s] = job[s] /\ pc'[s] = pc[s]
      BY <1>1, <1>2, <2>1
    <3>2. job[s] # job[r]
      BY <1>1, <2>1, <3>1 DEF JudgedOnce
    <3>3. job[s] = [kind |-> "inspect", of |-> job[s].of] /\ job[r] = [kind |-> "inspect", of |-> job[r].of]
          /\ job[s].of \in Handles
      BY <1>1, <2>1, <3>1, InspectsHandle
    <3> QED
      BY <3>1, <3>2, <3>3
  <2>5. \A k \in registered : inspect'[k] = "DONE"
    BY <1>1, <2>2, <2>3 DEF JudgedOnce
  <2>6. \A s \in Runners : job'[s].kind = "inspect" => inspect'[job[s].of] = inspect[job[s].of]
    BY <2>2, <2>4
  <2> QED
    BY <2>1, <2>4, <2>5, <2>6 DEF JudgedOnce
<1>16. ASSUME NEW r \in scenario.runners, Judge(r) PROVE JudgedOnce'
  <2> SUFFICES ASSUME "slow" \notin Troubles PROVE JudgedOnce'
    BY <1>16 DEF JudgedOnce, Troubles, Judge
  <2>1. job[r].kind = "inspect" /\ job[r].of \in Handles /\ pc[r] = "judging"
    BY <1>1, <1>16, JudgeOf
  <2>2. inspect' = inspect /\ job' = [job EXCEPT ![r] = Idle] /\ pc' = [pc EXCEPT ![r] = "work"]
        /\ registered' \subseteq registered \cup {job[r].of}
    BY <1>16 DEF Judge, BackToWork
  <2>3. \A s \in Runners : job'[s].kind = "inspect" =>
          s # r /\ job'[s] = job[s] /\ pc'[s] = pc[s] /\ job[s].of # job[r].of
    <3> SUFFICES ASSUME NEW s \in Runners, job'[s].kind = "inspect"
                 PROVE  s # r /\ job'[s] = job[s] /\ pc'[s] = pc[s] /\ job[s].of # job[r].of
      OBVIOUS
    <3>1. s # r /\ job'[s] = job[s] /\ pc'[s] = pc[s]
      BY <1>1, <1>2, <2>2
    <3>2. job[s] # job[r]
      BY <1>1, <2>1, <3>1 DEF JudgedOnce
    <3>3. job[s] = [kind |-> "inspect", of |-> job[s].of] /\ job[r] = [kind |-> "inspect", of |-> job[r].of]
      BY <1>1, <2>1, <3>1, InspectsHandle
    <3> QED
      BY <3>1, <3>2, <3>3
  <2>4. \A k \in registered' : inspect'[k] = "DONE"
    BY <1>1, <2>1, <2>2 DEF JudgedOnce
  <2>5. \A s \in Runners :
          job'[s].kind = "inspect" => /\ job'[s].of \notin registered'
                                      /\ inspect'[job'[s].of] \in {"EXECUTING", "DONE"}
                                      /\ pc'[s] = "judging" => inspect'[job'[s].of] = "DONE"
    BY <2>2, <2>3 DEF JudgedOnce
  <2>6. \A s, t \in Runners : job'[s].kind = "inspect" /\ job'[t] = job'[s] => s = t
    BY <2>3 DEF JudgedOnce
  <2> QED
    BY <2>4, <2>5, <2>6 DEF JudgedOnce
<1>17. ASSUME NEW h \in Handles, Send(h) \/ OptOut(h) PROVE JudgedOnce'
  BY <1>3, <1>17 DEF Send, OptOut, memory
<1>18. CASE UNCHANGED vars
  BY <1>3, <1>18 DEF vars, leads, memory
<1> QED
  BY <1>5, <1>6, <1>7, <1>8, <1>9, <1>10, <1>11, <1>12, <1>13, <1>14, <1>15, <1>16, <1>17,
     <1>18 DEF Next, Tick, Recover

\* Nobody is planned for, drafted or judged, and no claim is made.
LEMMA KeepsOrdered ==
  ASSUME Ordered, scenario' = scenario, UNCHANGED <<registered, drafts, judgedBefore>>,
         \A s \in Runners : batch'[s] \subseteq batch[s],
         InOutreach' \subseteq InOutreach,
         \A h \in InOutreach : \/ status'[h] = status[h]
                               \/ status'[h] \notin Judgeable
                               \/ status'[h] # "QUALIFIED" /\ "compose" \in Troubles,
         \A h \in registered : id'[h] = id[h] /\ (status'[h] \in Claim => status[h] \in Claim)
  PROVE  Ordered'
<1>1. VersionsKnown'
  BY DEF Ordered, VersionsKnown
<1>2. LeftAlone'
  BY DEF Ordered, LeftAlone, Troubles, Judgeable
<1>3. LaterFirst'
  BY DEF Ordered, LaterFirst, Troubles
<1> QED
  BY <1>1, <1>2, <1>3 DEF Ordered

LEMMA PlanKeepsOrdered ==
  ASSUME ClaimsTyped, JudgedFirst, Ordered, NEW r \in Runners, Plan(r)
  PROVE  Ordered'
<1>1. UNCHANGED <<scenario, status, id, registered, drafts, open, contacted, judgedBefore>>
  BY DEF Plan, history
<1>2. \A s \in Runners : s # r => batch'[s] = batch[s]
  BY DEF Plan, ClaimsTyped
<1>3. batch'[r] = {<<h, drafts[h] + 1>> : h \in {k \in Known : status[k] = "QUALIFIED"}}
  BY DEF Plan, ClaimsTyped
<1>4. \A d \in batch'[r] : /\ d[1] \in Handles /\ status[d[1]] = "QUALIFIED"
                           /\ d[2] = drafts[d[1]] + 1 /\ drafts[d[1]] \in Nat
  BY <1>3 DEF Known, ClaimsTyped
<1>5. VersionsKnown'
  BY <1>1, <1>2, <1>4 DEF Ordered, VersionsKnown
<1>6. LeftAlone'
  BY <1>1, <1>2, <1>4 DEF Ordered, LeftAlone, InOutreach, Troubles
<1>7. LaterFirst'
  BY <1>1 DEF Ordered, LaterFirst, Troubles
<1> QED
  BY <1>5, <1>6, <1>7 DEF Ordered

\* The version is the next one: every text being composed for the lead is for this version or an
\* earlier one.
LEMMA QueueKeepsOrdered ==
  ASSUME ClaimsTyped, JudgedFirst, Ordered, NEW r \in Runners, NEW d \in batch[r], Queue(r, d[1], d[2])
  PROVE  Ordered'
<1>1. d[1] \in Handles /\ d[2] \in Nat /\ drafts[d[1]] \in Nat /\ d[1] \in registered
  BY DEF ClaimsTyped, JudgedFirst
<1>2. UNCHANGED <<scenario, id, registered, contacted, judgedBefore>>
  BY DEF Queue, history
<1>3. \A s \in Runners : batch'[s] \subseteq batch[s]
  BY DEF Queue, ClaimsTyped
<1>4. CASE drafts[d[1]] >= d[2]
  <2>1. UNCHANGED <<status, drafts, open>>
    BY <1>4 DEF Queue
  <2> QED
    BY <1>2, <1>3, <2>1, KeepsOrdered DEF InOutreach
<1>5. CASE ~(drafts[d[1]] >= d[2])
  <2>1. d[2] = drafts[d[1]] + 1
    BY <1>1, <1>5 DEF Ordered, VersionsKnown
  <2>2. /\ \A h \in Handles : drafts'[h] = IF h = d[1] THEN d[2] ELSE drafts[h]
        /\ \A h \in Handles : status'[h] = IF h = d[1]
                                           THEN IF Denial(d[1]) = "none" THEN "OUTREACH_PENDING" ELSE Denial(d[1])
                                           ELSE status[h]
        /\ open' = IF Denial(d[1]) = "none" THEN open \cup {d[1]} ELSE open
    BY <1>1, <1>5 DEF Queue, ClaimsTyped
  <2>3. \A s \in Runners : \A e \in batch[s] : e[1] \in Handles /\ e[2] \in Nat
    BY DEF ClaimsTyped
  <2>4. \A s \in Runners : \A e \in batch[s] : e[1] = d[1] => e[2] <= d[2]
    BY <2>1 DEF Ordered, VersionsKnown
  <2>5. VersionsKnown'
    <3> SUFFICES ASSUME NEW s \in Runners, NEW e \in batch'[s] PROVE e[2] <= drafts'[e[1]] + 1
      BY DEF VersionsKnown
    <3>1. e \in batch[s] /\ e[1] \in Handles /\ e[2] \in Nat
      BY <1>3, <2>3
    <3>2. CASE e[1] = d[1]
      BY <1>1, <2>2, <2>4, <3>1, <3>2
    <3>3. CASE e[1] # d[1]
      BY <2>2, <3>1, <3>3 DEF Ordered, VersionsKnown
    <3> QED
      BY <3>2, <3>3
  <2>6. ASSUME ~({"slow", "compose"} \subseteq Troubles) PROVE d[1] \notin InOutreach
    <3>1. ASSUME d[1] \in InOutreach PROVE d[2] <= drafts[d[1]]
      BY <2>6, <3>1 DEF Ordered, LeftAlone
    <3> QED
      BY <1>1, <2>1, <3>1
  <2>7. LeftAlone'
    <3> SUFFICES ASSUME ~({"slow", "compose"} \subseteq Troubles), NEW h \in InOutreach'
                 PROVE  /\ \A s \in Runners : \A e \in batch'[s] : e[1] = h => e[2] <= drafts'[h]
                        /\ status'[h] # "QUALIFIED"
                        /\ status'[h] \in Judgeable => "slow" \notin Troubles
      BY <1>2 DEF LeftAlone, Troubles
    <3>1. h \in InOutreach \/ (h = d[1] /\ Denial(d[1]) = "none")
      BY <1>2, <2>2 DEF InOutreach
    <3>2. CASE h = d[1]
      <4>1. status'[h] = "OUTREACH_PENDING"
        BY <1>1, <2>2, <2>6, <3>1, <3>2
      <4>2. drafts'[h] = d[2]
        BY <1>1, <2>2, <3>2
      <4>3. \A s \in Runners : \A e \in batch'[s] : e[1] = h => e[2] <= drafts'[h]
        BY <1>3, <2>4, <3>2, <4>2
      <4> QED
        BY <4>1, <4>3 DEF Judgeable
    <3>3. CASE h # d[1]
      <4>1. h \in InOutreach /\ h \in Handles
        BY <3>1, <3>3 DEF JudgedFirst
      <4>2. status'[h] = status[h] /\ drafts'[h] = drafts[h]
        BY <2>2, <3>3, <4>1
      <4> QED
        BY <1>3, <4>1, <4>2 DEF Ordered, LeftAlone
    <3> QED
      BY <3>2, <3>3
  <2>8. LaterFirst'
    <3> SUFFICES ASSUME ~({"slow", "compose"} \subseteq Troubles) PROVE LaterFirst'
      BY <1>2 DEF LaterFirst, Troubles
    <3>1. status'[d[1]] \in Claim => status[d[1]] \in Claim
      <4>1. d[1] \notin contacted
        BY <2>6 DEF InOutreach
      <4>2. Denial(d[1]) \in {"CLOSED", "DISQUALIFIED"} \/ status[d[1]] \in {"QUALIFIED", "OUTREACH_PENDING"}
        BY <1>1, <4>1, DenialKinds
      <4> QED
        BY <1>1, <2>2, <4>2 DEF Claim
    <3>2. \A h \in registered : h \in Handles /\ (status'[h] \in Claim => status[h] \in Claim)
      BY <2>2, <3>1 DEF JudgedFirst
    <3> QED
      BY <1>2, <3>2 DEF Ordered, LaterFirst
  <2> QED
    BY <2>5, <2>7, <2>8 DEF Ordered
<1> QED
  BY <1>4, <1>5

\* A lead that is judged is nowhere in outreach; it claims its business only when no earlier lead
\* of the business does, and is from now on the last one judged.
LEMMA JudgeKeepsOrdered ==
  ASSUME ClaimsTyped, JudgedFirst, JudgedOnce, Ordered, NEW r \in Runners, Judge(r)
  PROVE  Ordered'
<1>1. job[r].kind = "inspect" /\ job[r].of \in Handles
  BY JudgeOf
<1>2. PICK h \in Handles : h = job[r].of
  BY <1>1
<1>3. UNCHANGED <<scenario, id, drafts, batch, open, contacted>>
  BY DEF Judge
<1>4. CASE status[h] \notin Judgeable
  <2>1. UNCHANGED <<registered, status, judgedBefore>>
    BY <1>2, <1>4 DEF Judge, Judgeable
  <2> QED
    BY <1>3, <2>1, KeepsOrdered DEF InOutreach
<1>5. CASE status[h] \in Judgeable
  <2>1. PICK verdict \in Verdict[h] :
          status' = [status EXCEPT ![h] = IF Earlier(h) # {} THEN "DUPLICATE" ELSE verdict]
    BY <1>2, <1>5 DEF Judge, Judgeable
  <2>2. registered' = registered \cup {h}
        /\ judgedBefore' = {p \in judgedBefore : h \notin {p[1], p[2]}} \cup ((registered \ {h}) \X {h})
    BY <1>2, <1>5 DEF Judge, Judgeable
  <2>3. \A k \in Handles : k # h => status'[k] = status[k]
    BY <2>1 DEF ClaimsTyped
  <2>4. status'[h] \in Claim => Earlier(h) = {}
    BY <2>1 DEF ClaimsTyped, Claim
  <2>5. VersionsKnown'
    BY <1>3 DEF Ordered, VersionsKnown
  <2>6. LeftAlone'
    <3> SUFFICES ASSUME ~({"slow", "compose"} \subseteq Troubles) PROVE LeftAlone'
      BY <1>3 DEF LeftAlone, Troubles
    <3>1. h \notin InOutreach
      <4> SUFFICES ASSUME h \in InOutreach PROVE FALSE
        OBVIOUS
      <4>1. "slow" \notin Troubles /\ h \in registered
        BY <1>5 DEF Ordered, LeftAlone, JudgedFirst
      <4> QED
        BY <1>1, <1>2, <4>1 DEF JudgedOnce
    <3>2. \A k \in InOutreach : status'[k] = status[k]
      BY <2>3, <3>1 DEF JudgedFirst
    <3> QED
      BY <1>3, <3>2 DEF Ordered, LeftAlone, InOutreach, Troubles
  <2>7. LaterFirst'
    <3> SUFFICES ASSUME ~({"slow", "compose"} \subseteq Troubles), NEW a \in registered', NEW b \in registered',
                        Identities(a) \cap Identities(b) # {}, id[a] < id[b],
                        status'[a] \in Claim, status'[b] \in Claim
                 PROVE  <<b, a>> \in judgedBefore'
      BY <1>3 DEF LaterFirst, Troubles
    <3>1. a # b /\ a \in Handles /\ b \in Handles
      <4>1. a \in Handles /\ b \in Handles
        BY <2>2 DEF JudgedFirst
      <4>2. id[a] \in Nat /\ id[b] \in Nat
        BY <4>1 DEF ClaimsTyped
      <4> QED
        BY <4>1, <4>2
    <3>2. CASE a = h
      BY <2>2, <3>1, <3>2
    <3>3. CASE b = h
      <4>1. a \in registered /\ status'[a] = status[a]
        BY <2>2, <2>3, <3>1, <3>3
      <4>2. a \in Earlier(h)
        BY <3>3, <4>1 DEF Earlier, Claim, Inert
      <4> QED
        BY <2>4, <3>3, <4>2
    <3>4. CASE a # h /\ b # h
      <4>1. a \in registered /\ b \in registered /\ status'[a] = status[a] /\ status'[b] = status[b]
        BY <2>2, <2>3, <3>1, <3>4
      <4>2. <<b, a>> \in judgedBefore
        BY <4>1 DEF Ordered, LaterFirst
      <4> QED
        BY <2>2, <3>4, <4>2
    <3> QED
      BY <3>2, <3>3, <3>4
  <2> QED
    BY <2>5, <2>6, <2>7 DEF Ordered
<1> QED
  BY <1>4, <1>5

LEMMA OrderedNext == ClaimsTyped /\ JudgedFirst /\ JudgedOnce /\ Ordered /\ [Next]_vars => Ordered'
<1> SUFFICES ASSUME ClaimsTyped, JudgedFirst, JudgedOnce, Ordered, [Next]_vars PROVE Ordered'
  OBVIOUS
<1>1. scenario.runners \subseteq Runners
  BY RunnersFinite DEF ClaimsTyped
<1>2. InOutreach \subseteq registered /\ registered \subseteq Handles
      /\ \A h \in registered : status[h] # "none" /\ id[h] > 0
  BY DEF JudgedFirst
<1>3. ASSUME UNCHANGED <<scenario, id, status, registered, drafts, open, contacted, batch, judgedBefore>>
      PROVE  Ordered'
  BY <1>3, KeepsOrdered DEF InOutreach
<1>4. CASE Arrive \/ \E r \in scenario.runners : HuntSucceeds(r)
  <2>1. PICK found \in Seq(Handles) : Upsert(found)
    BY <1>4, FoundEffect
  <2>2. \A h \in registered : id'[h] = id[h] /\ status'[h] = status[h]
    BY <1>2, <2>1, UpsertEffect
  <2>3. UNCHANGED <<scenario, registered, drafts, open, contacted, batch, judgedBefore>>
    BY <1>4 DEF Arrive, HuntSucceeds, memory, history
  <2> QED
    BY <1>2, <2>2, <2>3, KeepsOrdered DEF InOutreach
<1>5. CASE NewDay \/ Recover
  BY <1>3, <1>5 DEF NewDay, Recover, RecoverInspection, RecoverHunt, leads, memory, history
<1>6. ASSUME NEW r \in scenario.runners, Tick(r), ~HuntSucceeds(r) PROVE Ordered'
  <2>1. CASE Plan(r)
    BY <1>1, <2>1, PlanKeepsOrdered
  <2>2. CASE Composed(r) \/ EndTick(r)
    BY <1>3, <2>2 DEF Composed, EndTick, leads, history
  <2>3. CASE \E d \in batch[r] : Queue(r, d[1], d[2])
    BY <1>1, <2>3, QueueKeepsOrdered
  <2>4. CASE (\E h \in Handles : ClaimInspection(r, h)) \/ (\E q \in Queries : ClaimHunt(r, q))
    BY <1>3, <2>4 DEF ClaimInspection, ClaimHunt, leads, history
  <2>5. CASE HuntFails(r) \/ ProfileRead(r)
    BY <1>3, <2>5 DEF HuntFails, ProfileRead, leads, history
  <2>6. CASE ProfileNotRead(r)
    <3>1. UNCHANGED <<scenario, id, registered, drafts, open, contacted, batch, judgedBefore>>
      BY <2>6 DEF ProfileNotRead, history
    <3>2. \A h \in Handles : status'[h] = status[h] \/ status'[h] = "UNREACHABLE"
      <4>1. job[r].of \in Handles
        BY <1>1, <2>6, InspectsHandle DEF ProfileNotRead
      <4> QED
        BY <2>6, <4>1 DEF ProfileNotRead, ClaimsTyped
    <3> QED
      BY <1>2, <3>1, <3>2, KeepsOrdered DEF InOutreach, Claim, Judgeable
  <2>7. CASE Judge(r)
    BY <1>1, <2>7, JudgeKeepsOrdered
  <2> QED
    BY <1>6, <2>1, <2>2, <2>3, <2>4, <2>5, <2>6, <2>7 DEF Tick
<1>7. ASSUME NEW r \in scenario.runners, Crash(r) PROVE Ordered'
  <2>1. UNCHANGED <<scenario, id, status, registered, drafts, open, contacted, judgedBefore>>
        /\ batch' = [batch EXCEPT ![r] = {}]
    BY <1>7 DEF Crash, leads
  <2>2. \A s \in Runners : batch'[s] \subseteq batch[s]
    BY <2>1 DEF ClaimsTyped
  <2> QED
    BY <2>1, <2>2, KeepsOrdered DEF InOutreach
<1>8. ASSUME NEW r \in scenario.runners, NEW d \in batch[r], ComposeFails(r, d[1], d[2]) PROVE Ordered'
  <2>1. "compose" \in Troubles
        /\ UNCHANGED <<scenario, id, registered, drafts, open, contacted, judgedBefore>>
    BY <1>8 DEF ComposeFails, history
  <2>2. \A s \in Runners : batch'[s] \subseteq batch[s]
    BY <1>8 DEF ComposeFails, ClaimsTyped
  <2>3. \A h \in Handles : status'[h] = status[h] \/ status'[h] = "ANALYZED"
    BY <1>8 DEF ComposeFails, ClaimsTyped
  <2> QED
    BY <1>2, <2>1, <2>2, <2>3, KeepsOrdered DEF InOutreach, Claim
<1>9. ASSUME NEW h \in Handles, Send(h) PROVE Ordered'
  <2>1. UNCHANGED <<scenario, id, registered, drafts, batch, judgedBefore>> /\ h \in open
    BY <1>9 DEF Send, memory, history
  <2>2. InOutreach' \subseteq InOutreach
    BY <1>9 DEF Send, InOutreach
  <2>3. \A k \in Handles : k # h => status'[k] = status[k]
    BY <1>9 DEF Send, ClaimsTyped
  <2>4. \/ status'[h] = status[h]
        \/ status'[h] \notin Judgeable /\ (status'[h] \in Claim => status[h] \in Claim)
    <3>1. CASE Denial(h) = "none"
      <4>1. status'[h] = "CONTACTED" /\ status[h] \in {"QUALIFIED", "OUTREACH_PENDING"}
        BY <1>9, <3>1, DenialKinds DEF Send, ClaimsTyped
      <4> QED
        BY <4>1 DEF Judgeable, Claim
    <3>2. CASE Denial(h) # "none" /\ status[h] = "OUTREACH_PENDING"
      <4>1. status'[h] = Denial(h)
        BY <1>9, <3>2 DEF Send, ClaimsTyped
      <4>2. Denial(h) \in {"CLOSED", "CONTACTED"}
        BY <3>2, DenialKinds
      <4> QED
        BY <3>2, <4>1, <4>2 DEF Judgeable, Claim
    <3>3. CASE Denial(h) # "none" /\ status[h] # "OUTREACH_PENDING"
      BY <1>9, <3>3 DEF Send, ClaimsTyped
    <3> QED
      BY <3>1, <3>2, <3>3
  <2> QED
    BY <1>2, <2>1, <2>2, <2>3, <2>4, KeepsOrdered
<1>10. ASSUME NEW h \in Handles, OptOut(h) PROVE Ordered'
  <2>1. UNCHANGED <<scenario, id, registered, drafts, batch, judgedBefore>>
    BY <1>10 DEF OptOut, memory
  <2>2. InOutreach' \subseteq InOutreach
    BY <1>10 DEF OptOut, InOutreach
  <2>3. \A k \in Handles : status'[k] = status[k] \/ status'[k] = "CLOSED"
    BY <1>10 DEF OptOut, ClaimsTyped
  <2> QED
    BY <1>2, <2>1, <2>2, <2>3, KeepsOrdered DEF Judgeable, Claim
<1>11. CASE UNCHANGED vars
  BY <1>3, <1>11 DEF vars, leads, memory, history
<1> QED
  BY <1>4, <1>5, <1>6, <1>7, <1>8, <1>9, <1>10, <1>11 DEF Next

\* dedupe.py, register_and_find_duplicate: of two leads of one business that are both in outreach,
\* the one found earlier was judged after the one found later; crashes, retries, and leases that
\* expire or texts that cannot be composed (but not both) add no other way, for any processes,
\* handles and verdicts.
THEOREM BusinessClaimedInOrder == Spec => []ClaimsInOrder
<1>1. Init => ClaimsInv
  <2> SUFFICES ASSUME Init PROVE ClaimsInv
    OBVIOUS
  <2>1. job = [r \in Runners |-> Idle] /\ Idle \in Jobs /\ Idle.kind = "none"
    BY DEF Init, Jobs, Idle
  <2>2. ClaimsTyped
    BY <2>1 DEF Init, ClaimsTyped, ActionStates
  <2>3. JudgedFirst
    BY <2>1 DEF Init, JudgedFirst, InOutreach, Claim
  <2>4. JudgedOnce
    BY <2>1 DEF Init, JudgedOnce
  <2>5. VersionsKnown /\ LeftAlone /\ LaterFirst
    BY DEF Init, VersionsKnown, LeftAlone, LaterFirst, InOutreach
  <2> QED
    BY <2>2, <2>3, <2>4, <2>5 DEF ClaimsInv, Ordered
<1>2. ClaimsInv /\ [Next]_vars => ClaimsInv'
  BY ClaimsTypedNext, JudgedFirstNext, JudgedOnceNext, OrderedNext DEF ClaimsInv
<1>3. ClaimsInv => ClaimsInOrder
  <2> SUFFICES ASSUME ClaimsInv, ~({"slow", "compose"} \subseteq Troubles), NEW h \in Known, NEW k \in Known,
                      SameBusiness(h, k), id[h] < id[k], status[h] \in Claim, status[k] \in Claim
               PROVE  <<k, h>> \in judgedBefore
    BY DEF ClaimsInOrder
  <2>1. h \in Handles /\ k \in Handles /\ id[h] \in Nat /\ id[k] \in Nat
    BY DEF Known, ClaimsInv, ClaimsTyped
  <2>2. h # k
    BY <2>1
  <2>3. h \in registered /\ k \in registered
    BY <2>1 DEF ClaimsInv, JudgedFirst
  <2> QED
    BY <2>2, <2>3 DEF SameBusiness, ClaimsInv, Ordered, LaterFirst
<1> QED
  BY <1>1, <1>2, <1>3, PTL DEF Spec
=============================================================================
