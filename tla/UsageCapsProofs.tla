-------------------------- MODULE UsageCapsProofs --------------------------
(***************************************************************************)
(* Proofs about the executions of UsageCaps, for any runners, processes,   *)
(* actions, limits and clocks.                                             *)
(*                                                                         *)
(* An action may have several executions at once, as one may outlive its   *)
(* lease.  That only one of them sends rests on two things: the            *)
(* conversation lease, which the last claim takes from the one before, and *)
(* the intent row, which makes every execution but the first look into the *)
(* thread before it writes (FirstLooks, HolderKnows).                      *)
(*                                                                         *)
(* The pause and the page views are arguments of credit: what was started, *)
(* or viewed, and what the executions under way may still start, or view,  *)
(* fit into a grant for every runner (Slots, PauseInv, Granted, ViewsInv). *)
(*                                                                         *)
(* The cap on messages is an argument about claims.  Of any set of messages*)
(* of one hour, the one claimed last counted all the others but those that *)
(* no count could show (Chained), and counted less than the cap            *)
(* (GrantKept).  What a claim counts is what the check before it saw, which*)
(* the steps in between do not make worse (CheckKnows).                    *)
(***************************************************************************)
EXTENDS UsageCaps, FiniteSetTheorems, WellFoundedInduction, TLAPS

\* A runner at work may still return a result; who is ready to send has a message to send.
WorkOK ==
  /\ \A r \in Runners : pc[r] # "idle" => left[r] > 0
  /\ \A r \in Runners : pc[r] = "ready" => job[r] \in Sends

Typed == TypeOK /\ WorkOK

\* The ledger is a finite table.
LedgerFinite == IsFiniteSet(views)

Sound == Typed /\ LedgerFinite

-----------------------------------------------------------------------------
(* Least and greatest moments                                              *)

LEMMA LeastMoment ==
  ASSUME NEW T \in SUBSET Nat, T # {}
  PROVE  \E t \in T : \A u \in T : t <= u
<1>1. PICK t \in T : \A u \in T : <<u, t>> \notin OpToRel(<, Nat)
  BY WFMin, NatLessThanWellFounded
<1>2. \A u \in T : ~(u < t)
  BY <1>1 DEF OpToRel
<1> QED
  BY <1>2

LEMMA LatestMoment ==
  ASSUME NEW B \in Nat, NEW T \in SUBSET (0..B), T # {}
  PROVE  Latest(T) \in T
<1> DEFINE S == {B - t : t \in T}
<1>1. S \in SUBSET Nat /\ S # {}
  <2>1. \A t \in T : t \in 0..B
    OBVIOUS
  <2>2. \A t \in T : B - t \in Nat
    BY <2>1
  <2>3. PICK t \in T : TRUE
    OBVIOUS
  <2> QED
    BY <2>2, <2>3
<1>2. PICK s \in S : \A u \in S : s <= u
  BY <1>1, LeastMoment
<1>3. PICK t \in T : s = B - t
  BY <1>2
<1>4. \A u \in T : u <= t
  BY <1>2, <1>3
<1> QED
  BY <1>4 DEF Latest

LEMMA OldestMoment ==
  ASSUME NEW T \in SUBSET Nat, now \in Nat
  PROVE  Oldest(T) \in T \cup {now}
BY LeastMoment DEF Oldest

\* The gate never asks an action to wait for anything but a moment.
LEMMA WaitsForMoment ==
  ASSUME TypeOK, NEW r \in Runners, NEW a \in Actions, WaitsUntil(r, a) # {}
  PROVE  Latest(WaitsUntil(r, a)) \in Nat
<1> DEFINE B == Never + HOUR + Spacing
<1>1. MaxTime \in Nat /\ HOUR \in Nat /\ Spacing \in Nat /\ now \in 0..MaxTime
  BY UsageCapsAssumption DEF TypeOK, Times
<1>2. \A b \in Sends : counted[b] \in 0..Never
  BY DEF TypeOK
<1>3. UntilCap(r, a) \subseteq 0..B
  <2>1. {counted[b] : b \in SentLastHour} \subseteq 0..Never
    BY <1>2 DEF SentLastHour
  <2>2. Oldest({counted[b] : b \in SentLastHour}) \in 0..Never
    BY <1>1, <2>1, OldestMoment DEF Never
  <2> QED
    BY <1>1, <2>2 DEF UntilCap, Never
<1>4. UntilSpaced(a) \subseteq 0..B
  BY <1>1, <1>2 DEF UntilSpaced, LastSends, Never
<1>5. UntilViews(a) \subseteq 0..B
  <2>1. {v.at : v \in LastHour} \subseteq 0..Never
    BY <1>1 DEF LastHour, Times, Never, TypeOK, ViewRows
  <2>2. Oldest({v.at : v \in LastHour}) \in 0..Never
    BY <1>1, <2>1, OldestMoment DEF Never
  <2> DEFINE oldest == Oldest({v.at : v \in LastHour})
  <2>3. UntilViews(a) \subseteq {oldest + HOUR}
    BY DEF UntilViews
  <2>4. oldest + HOUR \in 0..B
    BY <1>1, <2>2 DEF Never
  <2> QED
    BY <2>3, <2>4
<1>6. WaitsUntil(r, a) \in SUBSET (0..B) /\ B \in Nat
  BY <1>1, <1>3, <1>4, <1>5 DEF WaitsUntil, Never
<1>7. Latest(WaitsUntil(r, a)) \in 0..B
  BY <1>6, LatestMoment
<1> QED
  BY <1>6, <1>7

-----------------------------------------------------------------------------
(* Types                                                                   *)

LEMMA TypeInit == Init => Typed
<1> SUFFICES ASSUME Init PROVE Typed
  OBVIOUS
<1>1. MaxTime \in Nat /\ Never \in Nat /\ Never \in 0..Never
  BY UsageCapsAssumption DEF Never
<1>2. PICK s \in Scenarios :
        /\ status = [a \in Actions |-> IF a \in s[1] THEN "APPROVED" ELSE "SUCCEEDED"]
        /\ trouble = s[2] /\ cap = s[3]
  BY DEF Init
<1>3. s[2] \in SUBSET AllTroubles /\ s[3] \in Caps
  BY <1>2, UsageCapsAssumption
<1>4. cap \in Nat
  BY <1>2, <1>3, UsageCapsAssumption
<1>5. TypeOK
  <2>1. /\ trouble \subseteq AllTroubles /\ cap \in Caps /\ paused \in BOOLEAN
        /\ status \in [Actions -> Statuses]
    BY <1>2, <1>3 DEF Init, Statuses
  <2>2. now \in Times /\ views = {} /\ home \in [Runners -> Processes]
    BY <1>1 DEF Init, Times
  <2>3. /\ notBefore \in [Actions -> Nat] /\ lease \in [Actions -> Nat]
        /\ intent \in [Actions -> BOOLEAN] /\ token \in [Actions -> SUBSET Runners]
        /\ counted \in [Sends -> 0..Never]
    BY <1>1 DEF Init
  <2>4. /\ pc \in [Runners -> Phases] /\ todo \in [Runners -> SUBSET Actions]
        /\ left \in [Runners -> 0..PerTick] /\ capRead \in [Runners -> Caps]
        /\ pauseRead \in [Runners -> BOOLEAN] /\ job \in [Runners -> Actions \cup {NoAction}]
    BY <2>1, UsageCapsAssumption DEF Init, Phases
  <2>5. \A r \in Runners : pc[r] \in Executing \cup {"looked"} => job[r] \in Actions
    BY DEF Init, Executing
  <2>6. /\ snap \in [Runners -> SUBSET Sends] /\ peers \in [Runners -> SUBSET Sends]
        /\ slipped \in [Runners -> SUBSET Sends] /\ budget \in [Runners -> 0..MaxUnits]
        /\ verify \in [Runners -> BOOLEAN] /\ res \in [Runners -> Outcomes]
    BY UsageCapsAssumption DEF Init, Outcomes
  <2>7. /\ copies \in [Sends -> Nat] /\ delivered \in [Sends -> 0..Never]
        /\ grant \in [Sends -> Nat]
        /\ counting \in [Sends -> SUBSET Sends] /\ alongside \in [Sends -> SUBSET Sends]
        /\ missing \in [Sends -> SUBSET Sends] /\ sincePause \in Nat
    BY <1>1 DEF Init
  <2> QED
    BY <2>1, <2>2, <2>3, <2>4, <2>5, <2>6, <2>7 DEF TypeOK
<1>6. WorkOK
  BY DEF Init, WorkOK
<1> QED
  BY <1>5, <1>6 DEF Typed

\* What run_once() goes on with is as it should be.
LEMMA GoOnTyped ==
  ASSUME TypeOK, NEW r \in Runners, NEW C \in SUBSET Actions, NEW n \in 0..PerTick, GoOn(r, C, n)
  PROVE  /\ pc' \in [Runners -> Phases] /\ todo' \in [Runners -> SUBSET Actions]
         /\ left' \in [Runners -> 0..PerTick]
         /\ pc'[r] \in {"idle", "ticking"}
         /\ pc'[r] # "idle" => left'[r] > 0
         /\ \A q \in Runners \ {r} : pc'[q] = pc[q] /\ left'[q] = left[q]
<1>1. 0 \in 0..PerTick
  BY UsageCapsAssumption
<1> QED
  BY <1>1, UsageCapsAssumption DEF TypeOK, GoOn, Phases

\* The rows of page views, and the one that the next view adds.
LEMMA ViewRowsTyped ==
  ASSUME TypeOK, LedgerFinite
  PROVE  /\ Cardinality({v \in views : v.at = now}) + 1 \in Nat \ {0}
         /\ views \cup {[at |-> now, number |-> Cardinality({v \in views : v.at = now}) + 1]}
              \in SUBSET ViewRows
<1> DEFINE before == {v \in views : v.at = now}
<1>1. IsFiniteSet(before)
  BY FS_Subset DEF LedgerFinite
<1>2. Cardinality(before) \in Nat
  BY <1>1, FS_CardinalityType
<1>3. Cardinality(before) + 1 \in Nat \ {0}
  BY <1>2
<1>4. now \in Times /\ views \subseteq ViewRows
  BY DEF TypeOK
<1>5. [at |-> now, number |-> Cardinality(before) + 1] \in ViewRows
  BY <1>3, <1>4 DEF ViewRows
<1> QED
  BY <1>3, <1>4, <1>5

LEMMA TypeNext == Typed /\ LedgerFinite /\ [Next]_vars => Typed'
<1> SUFFICES ASSUME Typed, LedgerFinite, [Next]_vars PROVE Typed'
  OBVIOUS
<1> USE DEF Typed
<1>1. ASSUME NEW r \in Runners, StartTick(r) PROVE Typed'
  <2>1. Candidates(Recovered) \in SUBSET Actions
    BY DEF Candidates
  <2>2. PerTick \in 0..PerTick
    BY UsageCapsAssumption
  <2>3. GoOn(r, Candidates(Recovered), PerTick)
    BY <1>1 DEF StartTick
  <2>4. Recovered \in [Actions -> Statuses]
    BY DEF Recovered, TypeOK, Statuses
  <2>5. /\ pc' \in [Runners -> Phases] /\ todo' \in [Runners -> SUBSET Actions]
        /\ left' \in [Runners -> 0..PerTick]
        /\ pc'[r] \in {"idle", "ticking"} /\ (pc'[r] # "idle" => left'[r] > 0)
        /\ \A q \in Runners \ {r} : pc'[q] = pc[q] /\ left'[q] = left[q]
    BY <2>1, <2>2, <2>3, GoOnTyped
  <2>6. /\ status' = Recovered /\ UNCHANGED <<clockVars, runtimeVars, notBefore, leaseVars, ledgerVars,
                                             executionVars, worldVars, historyVars>>
        /\ lease' = [a \in Actions |-> IF Recovered[a] = "EXECUTING" THEN lease[a] ELSE 0]
        /\ capRead' \in [Runners -> Caps] /\ pauseRead' \in [Runners -> BOOLEAN]
    BY <1>1 DEF StartTick, ReadRuntime, TypeOK
  <2>7. lease' \in [Actions -> Nat]
    BY <2>6 DEF TypeOK
  <2>8. \A q \in Runners : pc'[q] \in Executing \cup {"looked"} => job[q] \in Actions
    BY <2>5 DEF TypeOK, Executing
  <2> QED
    BY <2>4, <2>5, <2>6, <2>7, <2>8 DEF TypeOK, WorkOK, clockVars, runtimeVars, leaseVars,
       ledgerVars,
       executionVars, worldVars, historyVars
<1>2. ASSUME NEW r \in Runners, NEW a \in Actions, PassOver(r, a) PROVE Typed'
  <2>1. todo[r] \ {a} \in SUBSET Actions /\ left[r] \in 0..PerTick
    BY DEF TypeOK
  <2>2. GoOn(r, todo[r] \ {a}, left[r]) /\ pc[r] = "ticking"
    BY <1>2 DEF PassOver
  <2>3. /\ pc' \in [Runners -> Phases] /\ todo' \in [Runners -> SUBSET Actions]
        /\ left' \in [Runners -> 0..PerTick]
        /\ pc'[r] \in {"idle", "ticking"} /\ (pc'[r] # "idle" => left'[r] > 0)
        /\ \A q \in Runners \ {r} : pc'[q] = pc[q] /\ left'[q] = left[q]
    BY <2>1, <2>2, GoOnTyped
  <2>4. notBefore' \in [Actions -> Nat]
    BY <1>2, WaitsForMoment DEF PassOver, TypeOK
  <2>5. \A q \in Runners : pc'[q] \in Executing \cup {"looked"} => job[q] \in Actions
    BY <2>3 DEF TypeOK, Executing
  <2>6. UNCHANGED <<clockVars, runtimeVars, status, lease, leaseVars, ledgerVars, capRead,
                    pauseRead, executionVars, worldVars, historyVars>>
    BY <1>2 DEF PassOver
  <2> QED
    BY <2>3, <2>4, <2>5, <2>6 DEF TypeOK, WorkOK, clockVars, runtimeVars, leaseVars, ledgerVars,
       executionVars, worldVars, historyVars
<1>3. ASSUME NEW r \in Runners, NEW a \in Actions, Look(r, a) PROVE Typed'
  <2>1. SentLastHour \cup InFlight(a) \in SUBSET Sends /\ InFlight(a) \in SUBSET Sends
        /\ Uncounted \in SUBSET Sends
    BY DEF SentLastHour, InFlight, Uncounted
  <2>2. PICK b \in 1..MaxUnits : budget' = [budget EXCEPT ![r] = b]
    BY <1>3 DEF Look
  <2>3. budget' \in [Runners -> 0..MaxUnits]
    BY <2>2, UsageCapsAssumption DEF TypeOK
  <2>4. verify' \in [Runners -> BOOLEAN]
    BY <1>3 DEF Look, TypeOK
  <2>5. snap' \in [Runners -> SUBSET Sends] /\ peers' \in [Runners -> SUBSET Sends]
        /\ slipped' \in [Runners -> SUBSET Sends]
    BY <1>3, <2>1 DEF Look, TypeOK
  <2>6. /\ job' \in [Runners -> Actions \cup {NoAction}] /\ pc' \in [Runners -> Phases]
        /\ todo' \in [Runners -> SUBSET Actions]
        /\ \A q \in Runners : pc'[q] \in Executing \cup {"looked"} => job'[q] \in Actions
    BY <1>3 DEF Look, TypeOK, Phases, Executing
  <2>7. WorkOK'
    BY <1>3 DEF Look, TypeOK, WorkOK
  <2>8. UNCHANGED <<clockVars, runtimeVars, queueVars, leaseVars, ledgerVars, left, capRead, pauseRead,
                    res, worldVars, historyVars>>
    BY <1>3 DEF Look
  <2> QED
    BY <2>3, <2>4, <2>5, <2>6, <2>7, <2>8 DEF TypeOK, clockVars, runtimeVars, queueVars,
       leaseVars, ledgerVars,
       worldVars, historyVars
<1>4. ASSUME NEW r \in Runners, Claim(r), status[job[r]] = "APPROVED" PROVE Typed'
  <2> DEFINE a == job[r]
  <2>1. a \in Actions /\ pc[r] = "looked"
    BY <1>4 DEF Claim, TypeOK
  <2>2. /\ status' = [status EXCEPT ![a] = "EXECUTING"] /\ lease' = [lease EXCEPT ![a] = now + LEASE]
        /\ intent' = [intent EXCEPT ![a] = TRUE] /\ token' = [token EXCEPT ![a] = {r}]
        /\ pc' = [pc EXCEPT ![r] = "running"] /\ UNCHANGED <<todo, left, job, budget, verify>>
        /\ sincePause' = IF paused THEN sincePause + 1 ELSE 0
        /\ slipped' = [q \in Runners |-> IF q = r THEN {}
                                         ELSE IF pc[q] = "looked" THEN slipped[q] \cup ({a} \cap Sends)
                                         ELSE slipped[q]]
    BY <1>4 DEF Claim
  <2>3. /\ grant' = grant \/ grant' = [grant EXCEPT ![a] = capRead[r]]
        /\ counting' = counting \/ counting' = [counting EXCEPT ![a] = snap[r]]
        /\ alongside' = alongside \/ alongside' = [alongside EXCEPT ![a] = peers[r]]
        /\ missing' = missing \/ missing' = [missing EXCEPT ![a] = slipped[r]]
    BY <1>4 DEF Claim
  <2>4. capRead[r] \in Nat /\ now + LEASE \in Nat
    <3>1. capRead[r] \in Caps /\ now \in 0..MaxTime
      BY DEF TypeOK, Times
    <3>2. Caps \subseteq Nat /\ LEASE \in Nat /\ MaxTime \in Nat
      BY UsageCapsAssumption
    <3>3. capRead[r] \in Nat
      BY <3>1, <3>2
    <3>4. now \in Nat
      BY <3>1, <3>2
    <3>5. now + LEASE \in Nat
      BY <3>2, <3>4
    <3> QED
      BY <3>3, <3>5
  <2>5. /\ grant' \in [Sends -> Nat] /\ counting' \in [Sends -> SUBSET Sends]
        /\ alongside' \in [Sends -> SUBSET Sends] /\ missing' \in [Sends -> SUBSET Sends]
    <3>1. grant' \in [Sends -> Nat]
      BY <2>3, <2>4 DEF TypeOK
    <3>2. snap[r] \in SUBSET Sends /\ peers[r] \in SUBSET Sends /\ slipped[r] \in SUBSET Sends
      BY DEF TypeOK
    <3>3. counting' \in [Sends -> SUBSET Sends]
      BY <2>3, <3>2 DEF TypeOK
    <3>4. alongside' \in [Sends -> SUBSET Sends]
      BY <2>3, <3>2 DEF TypeOK
    <3>5. missing' \in [Sends -> SUBSET Sends]
      BY <2>3, <3>2 DEF TypeOK
    <3> QED
      BY <3>1, <3>3, <3>4, <3>5
  <2>6. /\ status' \in [Actions -> Statuses] /\ lease' \in [Actions -> Nat]
        /\ intent' \in [Actions -> BOOLEAN] /\ token' \in [Actions -> SUBSET Runners]
        /\ pc' \in [Runners -> Phases] /\ sincePause' \in Nat
        /\ slipped' \in [Runners -> SUBSET Sends]
    <3>1. status' \in [Actions -> Statuses] /\ lease' \in [Actions -> Nat]
      BY <2>2, <2>4 DEF TypeOK, Statuses
    <3>2. intent' \in [Actions -> BOOLEAN] /\ token' \in [Actions -> SUBSET Runners]
      BY <2>2 DEF TypeOK
    <3>3. pc' \in [Runners -> Phases] /\ sincePause' \in Nat
      BY <2>2 DEF TypeOK, Phases
    <3>4. slipped' \in [Runners -> SUBSET Sends]
      BY <2>2 DEF TypeOK
    <3> QED
      BY <3>1, <3>2, <3>3, <3>4
  <2>7. \A q \in Runners : pc'[q] \in Executing \cup {"looked"} => job'[q] \in Actions
    BY <2>1, <2>2 DEF TypeOK
  <2>8. /\ snap' = [snap EXCEPT ![r] = {}] /\ peers' = [peers EXCEPT ![r] = {}]
        /\ UNCHANGED <<clockVars, runtimeVars, notBefore, ledgerVars, capRead, pauseRead, res, worldVars>>
    BY <1>4 DEF Claim
  <2>9. TypeOK'
    BY <2>2, <2>5, <2>6, <2>7, <2>8 DEF TypeOK, clockVars, runtimeVars, ledgerVars, worldVars
  <2>10. WorkOK'
    BY <2>1, <2>2 DEF TypeOK, WorkOK
  <2> QED
    BY <2>9, <2>10
<1>5. ASSUME NEW r \in Runners, Claim(r), status[job[r]] # "APPROVED" PROVE Typed'
  <2>1. GoOn(r, todo[r], left[r]) /\ todo[r] \in SUBSET Actions /\ left[r] \in 0..PerTick
    BY <1>5 DEF Claim, TypeOK
  <2>2. /\ pc' \in [Runners -> Phases] /\ todo' \in [Runners -> SUBSET Actions]
        /\ left' \in [Runners -> 0..PerTick]
        /\ pc'[r] \in {"idle", "ticking"} /\ (pc'[r] # "idle" => left'[r] > 0)
        /\ \A q \in Runners \ {r} : pc'[q] = pc[q] /\ left'[q] = left[q]
    BY <2>1, GoOnTyped
  <2>3. /\ job' = [job EXCEPT ![r] = NoAction] /\ budget' = [budget EXCEPT ![r] = 0]
        /\ verify' = [verify EXCEPT ![r] = FALSE] /\ slipped' = [slipped EXCEPT ![r] = {}]
        /\ snap' = [snap EXCEPT ![r] = {}] /\ peers' = [peers EXCEPT ![r] = {}]
        /\ UNCHANGED <<clockVars, runtimeVars, queueVars, leaseVars, ledgerVars, capRead, pauseRead, res,
                       worldVars, historyVars>>
    BY <1>5 DEF Claim, queueVars
  <2>4. \A q \in Runners : pc'[q] \in Executing \cup {"looked"} => job'[q] \in Actions
    BY <2>2, <2>3 DEF TypeOK, Executing
  <2>5. 0 \in 0..MaxUnits
    BY UsageCapsAssumption
  <2>6. WorkOK'
    BY <2>2, <2>3 DEF WorkOK, TypeOK
  <2> QED
    BY <2>2, <2>3, <2>4, <2>5, <2>6 DEF TypeOK, clockVars, runtimeVars, queueVars, leaseVars,
       ledgerVars,
       worldVars, historyVars
<1>6. ASSUME NEW r \in Runners, Unit(r) PROVE Typed'
  <2>1. budget' \in [Runners -> 0..MaxUnits]
    <3>1. budget[r] \in 0..MaxUnits /\ budget[r] > 0 /\ MaxUnits \in Nat
      BY <1>6, UsageCapsAssumption DEF Unit, TypeOK
    <3>2. budget[r] - 1 \in 0..MaxUnits
      BY <3>1
    <3> QED
      BY <1>6, <3>2 DEF Unit, TypeOK
  <2>2. views' \in SUBSET ViewRows
    BY <1>6, ViewRowsTyped DEF Unit
  <2>3. UNCHANGED <<clockVars, runtimeVars, queueVars, leaseVars, counted, pc, tickVars, job, snap, peers,
                    slipped, verify, res, worldVars, historyVars>>
    BY <1>6 DEF Unit
  <2> QED
    BY <2>1, <2>2, <2>3 DEF TypeOK, WorkOK, clockVars, runtimeVars, queueVars, leaseVars,
       tickVars,
       worldVars, historyVars
<1>7. ASSUME NEW r \in Runners, Verify(r) PROVE Typed'
  <2>1. 0 \in 0..MaxUnits
    BY UsageCapsAssumption
  <2>2. /\ pc[r] = "running" /\ job[r] \in Sends
        /\ \/ pc' = [pc EXCEPT ![r] = "done"] /\ res' = [res EXCEPT ![r] = "found"]
           \/ pc' = [pc EXCEPT ![r] = "ready"] /\ res' = res
        /\ verify' = [verify EXCEPT ![r] = FALSE] /\ budget' = [budget EXCEPT ![r] = 0]
        /\ UNCHANGED <<clockVars, runtimeVars, queueVars, leaseVars, ledgerVars, tickVars, job, snap, peers,
                       slipped, worldVars, historyVars>>
    BY <1>7 DEF Verify
  <2>3. pc' \in [Runners -> Phases] /\ res' \in [Runners -> Outcomes]
    <3>1. CASE pc' = [pc EXCEPT ![r] = "done"] /\ res' = [res EXCEPT ![r] = "found"]
      BY <3>1 DEF TypeOK, Phases, Outcomes
    <3>2. CASE pc' = [pc EXCEPT ![r] = "ready"] /\ res' = res
      BY <3>2 DEF TypeOK, Phases
    <3> QED
      BY <2>2, <3>1, <3>2
  <2>4. \A q \in Runners : pc'[q] \in Executing \cup {"looked"} => job'[q] \in Actions
    BY <2>2 DEF TypeOK, Actions, tickVars
  <2>5. WorkOK'
    BY <2>2 DEF WorkOK, TypeOK, tickVars
  <2> QED
    BY <2>1, <2>2, <2>3, <2>4, <2>5 DEF TypeOK, clockVars, runtimeVars, queueVars, leaseVars,
       ledgerVars,
       tickVars, worldVars, historyVars
<1>8. ASSUME NEW r \in Runners, Deliver(r) PROVE Typed'
  <2>1. now \in 0..Never /\ job[r] \in Sends
    BY <1>8, UsageCapsAssumption DEF Deliver, TypeOK, WorkOK, Times, Never
  <2>2. /\ \/ /\ copies' = [copies EXCEPT ![job[r]] = @ + 1]
              /\ delivered' = [delivered EXCEPT ![job[r]] = IF @ = Never THEN now ELSE @]
              /\ res' = [res EXCEPT ![r] = "sent"]
           \/ res' = [res EXCEPT ![r] = "conflict"] /\ UNCHANGED worldVars
        /\ pc[r] = "ready" /\ pc' = [pc EXCEPT ![r] = "done"]
        /\ UNCHANGED <<clockVars, runtimeVars, queueVars, leaseVars, ledgerVars, tickVars, job, snap, peers,
                       slipped, budget, verify, historyVars>>
    BY <1>8 DEF Deliver
  <2>3. copies' \in [Sends -> Nat] /\ delivered' \in [Sends -> 0..Never] /\ res' \in [Runners -> Outcomes]
    <3>1. copies' \in [Sends -> Nat]
      <4>1. copies \in [Sends -> Nat]
        BY DEF TypeOK
      <4> QED
        BY <2>1, <2>2, <4>1 DEF worldVars
    <3>2. delivered' \in [Sends -> 0..Never]
      <4>1. delivered \in [Sends -> 0..Never]
        BY DEF TypeOK
      <4> QED
        BY <2>1, <2>2, <4>1 DEF worldVars
    <3>3. res' \in [Runners -> Outcomes]
      BY <2>2 DEF TypeOK, Outcomes
    <3> QED
      BY <3>1, <3>2, <3>3
  <2>4. pc' \in [Runners -> Phases]
    BY <2>2 DEF TypeOK, Phases
  <2>5. \A q \in Runners : pc'[q] \in Executing \cup {"looked"} => job'[q] \in Actions
    BY <2>1, <2>2 DEF TypeOK, Actions, tickVars
  <2>6. WorkOK'
    BY <2>2 DEF WorkOK, TypeOK, tickVars
  <2> QED
    BY <2>2, <2>3, <2>4, <2>5, <2>6 DEF TypeOK, clockVars, runtimeVars, queueVars, leaseVars,
       ledgerVars,
       tickVars, historyVars
<1>9. ASSUME NEW r \in Runners, Record(r) PROVE Typed'
  <2>1. /\ pc[r] \in Executing /\ job[r] \in Actions /\ left[r] \in 0..PerTick /\ left[r] > 0
        /\ todo[r] \in SUBSET Actions
    BY <1>9 DEF Record, RecordSent, RecordUnsent, TypeOK, WorkOK, Executing
  <2>2. left[r] - 1 \in 0..PerTick
    BY <2>1, UsageCapsAssumption
  <2>3. GoOn(r, todo[r], left[r] - 1)
    BY <1>9 DEF Record
  <2>4. /\ pc' \in [Runners -> Phases] /\ todo' \in [Runners -> SUBSET Actions]
        /\ left' \in [Runners -> 0..PerTick]
        /\ pc'[r] \in {"idle", "ticking"} /\ (pc'[r] # "idle" => left'[r] > 0)
        /\ \A q \in Runners \ {r} : pc'[q] = pc[q] /\ left'[q] = left[q]
    BY <2>1, <2>2, <2>3, GoOnTyped
  <2>5. now \in 0..Never /\ now + 1 \in Nat
    BY UsageCapsAssumption DEF TypeOK, Times, Never
  <2>6. /\ status' \in [Actions -> Statuses] /\ notBefore' \in [Actions -> Nat]
        /\ counted' \in [Sends -> 0..Never] /\ UNCHANGED views
    <3>1. CASE RecordSent(r)
      BY <2>5, <3>1 DEF RecordSent, TypeOK, Statuses
    <3>2. CASE RecordUnsent(r)
      <4>1. status' \in [Actions -> Statuses]
        BY <3>2 DEF RecordUnsent, TypeOK, Statuses
      <4>2. notBefore' \in [Actions -> Nat]
        BY <2>5, <3>2 DEF RecordUnsent, TypeOK
      <4> QED
        BY <3>2, <4>1, <4>2 DEF RecordUnsent, TypeOK, ledgerVars
    <3> QED
      BY <1>9, <3>1, <3>2 DEF Record
  <2>7. /\ token' = [token EXCEPT ![job[r]] = @ \ {r}]
        /\ lease' = [lease EXCEPT ![job[r]] = 0]
        /\ job' = [job EXCEPT ![r] = NoAction]
        /\ res' = [res EXCEPT ![r] = "none"] /\ budget' = [budget EXCEPT ![r] = 0]
        /\ verify' = [verify EXCEPT ![r] = FALSE]
        /\ UNCHANGED <<clockVars, runtimeVars, intent, capRead, pauseRead, snap, peers, slipped,
                       worldVars, historyVars>>
    BY <1>9 DEF Record
  <2>8. /\ token' \in [Actions -> SUBSET Runners] /\ lease' \in [Actions -> Nat]
        /\ job' \in [Runners -> Actions \cup {NoAction}] /\ res' \in [Runners -> Outcomes]
        /\ budget' \in [Runners -> 0..MaxUnits] /\ verify' \in [Runners -> BOOLEAN]
    <3>1. token[job[r]] \in SUBSET Runners /\ 0 \in 0..MaxUnits
      BY <2>1, UsageCapsAssumption DEF TypeOK
    <3>2. token' \in [Actions -> SUBSET Runners] /\ lease' \in [Actions -> Nat]
      BY <2>7, <3>1 DEF TypeOK
    <3>3. job' \in [Runners -> Actions \cup {NoAction}] /\ res' \in [Runners -> Outcomes]
      BY <2>7 DEF TypeOK, Outcomes
    <3>4. budget' \in [Runners -> 0..MaxUnits] /\ verify' \in [Runners -> BOOLEAN]
      BY <2>7, <3>1 DEF TypeOK
    <3> QED
      BY <3>2, <3>3, <3>4
  <2>9. \A q \in Runners : pc'[q] \in Executing \cup {"looked"} => job'[q] \in Actions
    BY <2>4, <2>7 DEF TypeOK, Executing
  <2>10. WorkOK'
    BY <2>4, <2>7 DEF WorkOK, TypeOK
  <2> QED
    BY <2>4, <2>6, <2>7, <2>8, <2>9, <2>10 DEF TypeOK, clockVars, runtimeVars, worldVars,
       historyVars
<1>10. CASE SetLimit
  BY <1>10 DEF SetLimit, TypeOK, WorkOK, clockVars, queueVars, leaseVars, ledgerVars, tickVars,
     executionVars,
     worldVars, historyVars
<1>11. CASE SetPaused
  BY <1>11 DEF SetPaused, TypeOK, WorkOK, clockVars, queueVars, leaseVars, ledgerVars, tickVars,
     executionVars, worldVars
<1>12. CASE Tick
  <2>1. now' \in Times
    BY <1>12, UsageCapsAssumption DEF Tick, TypeOK, Times
  <2>2. notBefore' \in [Actions -> Nat]
    BY <1>12 DEF Tick, TypeOK
  <2> QED
    BY <1>12, <2>1, <2>2 DEF Tick, TypeOK, WorkOK, runtimeVars, leaseVars, ledgerVars, tickVars,
       executionVars, worldVars, historyVars
<1>13. ASSUME NEW p \in Processes, Crash(p) PROVE Typed'
  <2>1. 0 \in 0..PerTick /\ 0 \in 0..MaxUnits
    BY UsageCapsAssumption
  <2>2. /\ pc' \in [Runners -> Phases] /\ todo' \in [Runners -> SUBSET Actions]
        /\ left' \in [Runners -> 0..PerTick] /\ job' \in [Runners -> Actions \cup {NoAction}]
        /\ res' \in [Runners -> Outcomes] /\ budget' \in [Runners -> 0..MaxUnits]
        /\ verify' \in [Runners -> BOOLEAN] /\ snap' \in [Runners -> SUBSET Sends]
        /\ peers' \in [Runners -> SUBSET Sends] /\ slipped' \in [Runners -> SUBSET Sends]
    BY <1>13, <2>1 DEF Crash, TypeOK, Phases, Outcomes
  <2>3. \A q \in Runners : \/ pc'[q] = "idle"
                           \/ pc'[q] = pc[q] /\ job'[q] = job[q] /\ left'[q] = left[q]
    BY <1>13 DEF Crash
  <2>4. \A q \in Runners : pc'[q] \in Executing \cup {"looked"} => job'[q] \in Actions
    BY <2>3 DEF TypeOK, Executing
  <2>5. WorkOK'
    BY <2>3 DEF WorkOK
  <2>6. UNCHANGED <<clockVars, runtimeVars, queueVars, leaseVars, ledgerVars, capRead, pauseRead,
                    worldVars, historyVars>>
    BY <1>13 DEF Crash
  <2> QED
    BY <2>2, <2>4, <2>5, <2>6 DEF TypeOK, clockVars, runtimeVars, queueVars, leaseVars,
       ledgerVars, worldVars,
       historyVars
<1>14. CASE UNCHANGED vars
  BY <1>14 DEF vars, TypeOK, WorkOK, clockVars, runtimeVars, queueVars, leaseVars, ledgerVars,
     tickVars,
     executionVars, worldVars, historyVars
<1> QED
  BY <1>1, <1>2, <1>3, <1>4, <1>5, <1>6, <1>7, <1>8, <1>9, <1>10, <1>11, <1>12, <1>13, <1>14
     DEF Next

LEMMA LedgerNext == LedgerFinite /\ [Next]_vars => LedgerFinite'
<1> SUFFICES ASSUME LedgerFinite, [Next]_vars PROVE LedgerFinite'
  OBVIOUS
<1>1. CASE views' = views
  BY <1>1 DEF LedgerFinite
<1>2. CASE \E r \in Runners : Unit(r)
  <2>1. PICK row : views' = views \cup {row}
    BY <1>2 DEF Unit
  <2> QED
    BY <2>1, FS_AddElement DEF LedgerFinite
<1>3. ASSUME NEW r \in Runners, StartTick(r) \/ Claim(r) \/ Verify(r) \/ Deliver(r)
      PROVE  views' = views
  BY <1>3 DEF StartTick, Claim, Verify, Deliver, ledgerVars
<1>4. ASSUME NEW r \in Runners, NEW a \in Actions, PassOver(r, a) \/ Look(r, a)
      PROVE  views' = views
  BY <1>4 DEF PassOver, Look, ledgerVars
<1>5. ASSUME NEW r \in Runners, Record(r) PROVE views' = views
  BY <1>5 DEF Record, RecordSent, RecordUnsent, ledgerVars
<1>6. CASE SetLimit \/ SetPaused \/ Tick \/ (\E p \in Processes : Crash(p)) \/ UNCHANGED vars
  BY <1>1, <1>6 DEF SetLimit, SetPaused, Tick, Crash, vars, ledgerVars
<1> QED
  BY <1>1, <1>2, <1>3, <1>4, <1>5, <1>6 DEF Next

LEMMA SoundInit == Init => Sound
BY TypeInit, FS_EmptySet DEF Sound, LedgerFinite, Init

LEMMA SoundNext == Sound /\ [Next]_vars => Sound'
BY TypeNext, LedgerNext DEF Sound

\* Every variable keeps to its type, for any runners, actions, limits and clocks; a tick never has
\* fewer results left than it returns (run_once).
THEOREM UsageTypesCorrect == Spec => []TypeOK
BY SoundInit, SoundNext, PTL DEF Spec, Sound, Typed

-----------------------------------------------------------------------------
(* One copy of each message                                                *)

\* An execution that will not look into the thread is about to be the first, or will find
\* that another process has claimed the action.
FirstLooks ==
  \A r \in Runners :
    pc[r] = "looked" /\ ~verify[r] => ~intent[job[r]] \/ status[job[r]] = "EXECUTING"

\* Nothing is in the thread, and nobody holds the conversation, before the intent is written.
NothingBeforeIntent == \A a \in Sends : ~intent[a] => copies[a] = 0 /\ token[a] = {}

\* A conversation has one holder.
OneHolder == \A a \in Actions : \A q, r \in token[a] : q = r

\* The holder of the conversation that is about to send, or will not look, has nothing to find.
HolderKnows ==
  \A r \in Runners :
    (/\ job[r] \in Sends /\ token[job[r]] = {r}
     /\ pc[r] = "ready" \/ (pc[r] = "running" /\ ~verify[r]))
      => copies[job[r]] = 0

SendInv == FirstLooks /\ NothingBeforeIntent /\ OneHolder /\ HolderKnows /\ OneCopyOfEach

LEMMA SendInit == Init => SendInv
<1> SUFFICES ASSUME Init PROVE SendInv
  OBVIOUS
<1>1. FirstLooks /\ HolderKnows
  BY DEF Init, FirstLooks, HolderKnows
<1>2. NothingBeforeIntent /\ OneHolder
  BY DEF Init, NothingBeforeIntent, OneHolder, Actions
<1>3. OneCopyOfEach
  BY DEF Init, OneCopyOfEach
<1> QED
  BY <1>1, <1>2, <1>3 DEF SendInv

\* Steps that change no status while somebody is about to claim, and put nobody nearer to sending.
Quietly ==
  /\ UNCHANGED <<intent, token, copies>>
  /\ status' = status \/ Settled
  /\ \A q \in Runners : \/ pc'[q] \in {"idle", "ticking", "done"}
                        \/ pc'[q] = pc[q] /\ job'[q] = job[q] /\ verify'[q] = verify[q]

LEMMA SendQuiet == TypeOK /\ SendInv /\ Quietly => SendInv'
<1> SUFFICES ASSUME TypeOK, SendInv, Quietly PROVE SendInv'
  OBVIOUS
<1>1. FirstLooks'
  BY DEF SendInv, FirstLooks, Settled, Quietly
<1>2. HolderKnows'
  BY DEF SendInv, HolderKnows, Quietly
<1> QED
  BY <1>1, <1>2 DEF SendInv, NothingBeforeIntent, OneHolder, OneCopyOfEach, Quietly

LEMMA SendNext == Typed /\ SendInv /\ [Next]_vars => SendInv'
<1> SUFFICES ASSUME TypeOK, WorkOK, SendInv, [Next]_vars PROVE SendInv'
  BY DEF Typed
<1>1. ASSUME NEW r \in Runners, StartTick(r) PROVE SendInv'
  <2>1. \A q \in Runners : \/ pc'[q] \in {"idle", "ticking", "done"}
                           \/ pc'[q] = pc[q] /\ job'[q] = job[q] /\ verify'[q] = verify[q]
    BY <1>1 DEF StartTick, GoOn, TypeOK, executionVars
  <2>2. UNCHANGED <<intent, token, copies>>
    BY <1>1 DEF StartTick, leaseVars, worldVars
  <2>3. status' = status \/ Settled
    BY <1>1 DEF StartTick
  <2> QED
    BY <2>1, <2>2, <2>3, SendQuiet DEF Quietly
<1>2. ASSUME NEW r \in Runners, NEW a \in Actions, PassOver(r, a) PROVE SendInv'
  <2>1. \A q \in Runners : \/ pc'[q] \in {"idle", "ticking", "done"}
                           \/ pc'[q] = pc[q] /\ job'[q] = job[q] /\ verify'[q] = verify[q]
    BY <1>2 DEF PassOver, GoOn, TypeOK, executionVars
  <2>2. UNCHANGED <<intent, token, copies>>
    BY <1>2 DEF PassOver, leaseVars, worldVars
  <2>3. status' = status \/ Settled
    BY <1>2 DEF PassOver
  <2> QED
    BY <2>1, <2>2, <2>3, SendQuiet DEF Quietly
<1>3. ASSUME NEW r \in Runners, NEW a \in Actions, Look(r, a) PROVE SendInv'
  <2>1. /\ \A q \in Runners : /\ pc'[q] = IF q = r THEN "looked" ELSE pc[q]
                              /\ job'[q] = IF q = r THEN a ELSE job[q]
                              /\ verify'[q] = IF q = r THEN intent[a] ELSE verify[q]
        /\ UNCHANGED <<status, intent, token, copies>>
    BY <1>3 DEF Look, TypeOK, queueVars, leaseVars, worldVars
  <2> QED
    BY <2>1 DEF SendInv, FirstLooks, NothingBeforeIntent, OneHolder, HolderKnows, OneCopyOfEach
<1>4. ASSUME NEW r \in Runners, Claim(r), status[job[r]] = "APPROVED" PROVE SendInv'
  <2> DEFINE a == job[r]
  <2>1. a \in Actions /\ pc[r] = "looked"
    BY <1>4 DEF Claim, TypeOK
  <2>2. /\ \A b \in Actions : /\ status'[b] = IF b = a THEN "EXECUTING" ELSE status[b]
                              /\ intent'[b] = IF b = a THEN TRUE ELSE intent[b]
                              /\ token'[b] = IF b = a THEN {r} ELSE token[b]
        /\ \A q \in Runners : pc'[q] = IF q = r THEN "running" ELSE pc[q]
        /\ UNCHANGED <<job, verify, copies>>
    <3>1. /\ status' = [status EXCEPT ![a] = "EXECUTING"] /\ intent' = [intent EXCEPT ![a] = TRUE]
          /\ token' = [token EXCEPT ![a] = {r}] /\ pc' = [pc EXCEPT ![r] = "running"]
          /\ UNCHANGED <<job, verify, copies>>
      BY <1>4 DEF Claim, worldVars
    <3>2. DOMAIN status = Actions /\ DOMAIN intent = Actions /\ DOMAIN token = Actions /\ DOMAIN pc = Runners
      BY DEF TypeOK
    <3> HIDE DEF a
    <3> QED
      BY <3>1, <3>2
  <2>3. FirstLooks'
    BY <2>2 DEF SendInv, FirstLooks, TypeOK
  <2>4. NothingBeforeIntent' /\ OneHolder' /\ OneCopyOfEach'
    <3>1. NothingBeforeIntent' /\ OneCopyOfEach'
      BY <2>2 DEF SendInv, NothingBeforeIntent, OneCopyOfEach, Actions
    <3>2. OneHolder'
      <4> SUFFICES ASSUME NEW b \in Actions PROVE \A q, s \in token'[b] : q = s
        BY DEF OneHolder
      <4>0. token'[b] = IF b = a THEN {r} ELSE token[b]
        BY <2>2
      <4>1. CASE b = a
        <5>1. token'[b] = {r}
          BY <4>0, <4>1
        <5> QED
          BY <5>1
      <4>2. CASE b # a
        <5>1. token'[b] = token[b] /\ OneHolder
          BY <4>0, <4>2 DEF SendInv
        <5> QED
          BY <5>1 DEF OneHolder
      <4> QED
        BY <4>1, <4>2
    <3> QED
      BY <3>1, <3>2
  <2>5. a \in Sends /\ ~verify[r] => copies[a] = 0
    BY <1>4, <2>1 DEF SendInv, FirstLooks, NothingBeforeIntent
  <2>6. HolderKnows'
    <3> SUFFICES ASSUME NEW q \in Runners, job'[q] \in Sends, token'[job'[q]] = {q},
                        pc'[q] = "ready" \/ (pc'[q] = "running" /\ ~verify'[q])
                 PROVE  copies'[job'[q]] = 0
      BY DEF HolderKnows
    <3>1. CASE q = r
      BY <2>2, <2>5, <3>1
    <3>2. CASE q # r
      <4>1. job[q] # a
        BY <2>1, <2>2, <3>2
      <4>2. job[q] \in Actions /\ token[job[q]] = {q}
        BY <2>2, <4>1 DEF Actions
      <4> QED
        BY <2>2, <3>2, <4>2 DEF SendInv, HolderKnows
    <3> QED
      BY <3>1, <3>2
  <2> QED
    BY <2>3, <2>4, <2>6 DEF SendInv
<1>5. ASSUME NEW r \in Runners, Claim(r), status[job[r]] # "APPROVED" PROVE SendInv'
  <2>1. \A q \in Runners : \/ pc'[q] \in {"idle", "ticking", "done"}
                           \/ pc'[q] = pc[q] /\ job'[q] = job[q] /\ verify'[q] = verify[q]
    BY <1>5 DEF Claim, GoOn, TypeOK
  <2>2. UNCHANGED <<intent, token, copies>>
    BY <1>5 DEF Claim, leaseVars, worldVars
  <2>3. status' = status \/ Settled
    BY <1>5 DEF Claim
  <2> QED
    BY <2>1, <2>2, <2>3, SendQuiet DEF Quietly
<1>6. ASSUME NEW r \in Runners, Unit(r) PROVE SendInv'
  BY <1>6, SendQuiet DEF Unit, Quietly, queueVars, leaseVars, worldVars
<1>7. ASSUME NEW r \in Runners, Verify(r) PROVE SendInv'
  <2>1. /\ pc[r] = "running" /\ job[r] \in Sends
        /\ UNCHANGED <<status, intent, token, copies, job>>
        /\ \A q \in Runners \ {r} : pc'[q] = pc[q] /\ verify'[q] = verify[q]
        /\ pc'[r] = "done" \/ (pc'[r] = "ready" /\ (~verify[r] \/ ~(copies[job[r]] > 0)))
    <3>1. pc[r] = "running" /\ job[r] \in Sends /\ UNCHANGED <<status, intent, token, copies, job>>
      BY <1>7 DEF Verify, queueVars, leaseVars, worldVars
    <3>2. \A q \in Runners \ {r} : pc'[q] = pc[q] /\ verify'[q] = verify[q]
      BY <1>7 DEF Verify, TypeOK
    <3>3. pc'[r] = "done" \/ (pc'[r] = "ready" /\ (~verify[r] \/ ~(copies[job[r]] > 0)))
      <4>1. CASE verify[r] /\ copies[job[r]] > 0
        BY <1>7, <4>1 DEF Verify, TypeOK
      <4>2. CASE ~(verify[r] /\ copies[job[r]] > 0)
        BY <1>7, <4>2 DEF Verify, TypeOK
      <4> QED
        BY <4>1, <4>2
    <3> QED
      BY <3>1, <3>2, <3>3
  <2>2. HolderKnows'
    <3>1. copies[job[r]] \in Nat
      BY <2>1 DEF TypeOK
    <3> QED
      BY <2>1, <3>1 DEF SendInv, HolderKnows
  <2>3. FirstLooks'
    BY <2>1 DEF SendInv, FirstLooks
  <2> QED
    BY <2>1, <2>2, <2>3 DEF SendInv, NothingBeforeIntent, OneHolder, OneCopyOfEach
<1>8. ASSUME NEW r \in Runners, Deliver(r) PROVE SendInv'
  <2>1. pc[r] = "ready" /\ job[r] \in Sends
    BY <1>8 DEF Deliver, WorkOK
  <2>2. /\ UNCHANGED <<status, intent, token, job, verify>>
        /\ \A q \in Runners : pc'[q] = IF q = r THEN "done" ELSE pc[q]
    BY <1>8 DEF Deliver, TypeOK, queueVars, leaseVars
  <2>3. CASE copies' = copies
    BY <2>2, <2>3, SendQuiet DEF Quietly
  <2>4. CASE token[job[r]] = {r} /\ copies' = [copies EXCEPT ![job[r]] = @ + 1]
    <3>1. copies[job[r]] = 0
      <4>1. HolderKnows
        BY DEF SendInv
      <4> QED
        BY <2>1, <2>4, <4>1 DEF HolderKnows
    <3>2. \A a \in Sends : copies'[a] = IF a = job[r] THEN 1 ELSE copies[a]
      BY <2>4, <3>1 DEF TypeOK
    <3>3. intent[job[r]]
      BY <2>1, <2>4 DEF SendInv, NothingBeforeIntent
    <3>4. OneCopyOfEach' /\ NothingBeforeIntent'
      BY <2>2, <3>2, <3>3 DEF SendInv, OneCopyOfEach, NothingBeforeIntent
    <3>5. HolderKnows'
      BY <2>2, <2>4, <3>2 DEF SendInv, HolderKnows
    <3>6. FirstLooks' /\ OneHolder'
      BY <2>2 DEF SendInv, FirstLooks, OneHolder
    <3> QED
      BY <3>4, <3>5, <3>6 DEF SendInv
  <2> QED
    BY <1>8, <2>3, <2>4 DEF Deliver, Guarded, worldVars
<1>9. ASSUME NEW r \in Runners, Record(r) PROVE SendInv'
  <2>1. /\ Settled /\ job[r] \in Actions /\ UNCHANGED <<intent, copies>>
        /\ token' = [token EXCEPT ![job[r]] = @ \ {r}]
    BY <1>9 DEF Record, RecordSent, RecordUnsent, TypeOK, Executing, worldVars
  <2>2. \A a \in Actions : token'[a] = IF a = job[r] THEN token[a] \ {r} ELSE token[a]
    BY <2>1 DEF TypeOK
  <2>3. \A q \in Runners : \/ pc'[q] \in {"idle", "ticking"}
                           \/ q # r /\ pc'[q] = pc[q] /\ job'[q] = job[q] /\ verify'[q] = verify[q]
    BY <1>9 DEF Record, GoOn, TypeOK
  <2>4. FirstLooks'
    BY <2>1, <2>3 DEF FirstLooks, Settled
  <2>5. NothingBeforeIntent' /\ OneHolder' /\ OneCopyOfEach'
    BY <2>1, <2>2 DEF SendInv, NothingBeforeIntent, OneHolder, OneCopyOfEach, Actions
  <2>6. HolderKnows'
    <3>1. \A a \in Actions : \A q \in Runners : token'[a] = {q} => token[a] = {q}
      BY <2>2 DEF SendInv, OneHolder
    <3> QED
      BY <2>1, <2>3, <3>1 DEF SendInv, HolderKnows, Actions
  <2> QED
    BY <2>4, <2>5, <2>6 DEF SendInv
<1>10. CASE SetLimit \/ SetPaused \/ Tick \/ UNCHANGED vars
  BY <1>10, SendQuiet DEF Quietly, SetLimit, SetPaused, Tick, vars, queueVars, leaseVars,
     executionVars, worldVars
<1>11. ASSUME NEW p \in Processes, Crash(p) PROVE SendInv'
  <2>1. \A q \in Runners : \/ pc'[q] \in {"idle", "ticking", "done"}
                           \/ pc'[q] = pc[q] /\ job'[q] = job[q] /\ verify'[q] = verify[q]
    BY <1>11 DEF Crash
  <2>2. UNCHANGED <<intent, token, copies>>
    BY <1>11 DEF Crash, queueVars, leaseVars, worldVars
  <2>3. status' = status \/ Settled
    BY <1>11 DEF Crash, queueVars
  <2> QED
    BY <2>1, <2>2, <2>3, SendQuiet DEF Quietly
<1> QED
  BY <1>1, <1>2, <1>3, <1>4, <1>5, <1>6, <1>7, <1>8, <1>9, <1>10, <1>11 DEF Next

\* An action that is executed again because its execution outlived the lease, by whichever process,
\* is sent once (recover_stale, ensure_outbound_intent, still_owner).
THEOREM OverlappingExecutionsSendOnce == Spec => []OneCopyOfEach
<1>1. Spec => [](Sound /\ SendInv)
  BY SoundInit, SoundNext, SendInit, SendNext, PTL DEF Spec, Sound
<1> QED
  BY <1>1, PTL DEF SendInv

-----------------------------------------------------------------------------
(* The pause                                                               *)

\* The executions that the ticks under way may still start, having read that nothing is paused.
Slots ==
  {s \in Runners \X (1..PerTick) :
     /\ pc[s[1]] # "idle" /\ ~pauseRead[s[1]]
     /\ s[2] <= left[s[1]] - (IF pc[s[1]] \in Executing THEN 1 ELSE 0)}

\* What was started since the pause, and what may still be, fit into one tick of every runner.
PauseInv ==
  /\ \A r \in Runners : pc[r] = "looked" => ~pauseRead[r]
  /\ paused => sincePause + Cardinality(Slots) <= PerTick * Cardinality(Runners)

LEMMA SlotsBounded ==
  /\ IsFiniteSet(Slots) /\ Cardinality(Slots) \in Nat
  /\ Cardinality(Runners) \in Nat
  /\ Cardinality(Slots) <= PerTick * Cardinality(Runners)
<1> DEFINE all == Runners \X (1..PerTick)
<1>1. IsFiniteSet(1..PerTick) /\ Cardinality(1..PerTick) = PerTick
  BY FS_Interval, UsageCapsAssumption
<1>2. IsFiniteSet(all) /\ Cardinality(all) = Cardinality(Runners) * PerTick
  BY <1>1, FS_Product, UsageCapsAssumption
<1>3. Slots \subseteq all
  BY DEF Slots
<1>4. IsFiniteSet(Slots) /\ Cardinality(Slots) <= Cardinality(all)
  BY <1>2, <1>3, FS_Subset
<1>5. Cardinality(Slots) \in Nat /\ Cardinality(Runners) \in Nat
  BY <1>4, FS_CardinalityType, UsageCapsAssumption
<1>6. Cardinality(Runners) * PerTick = PerTick * Cardinality(Runners)
  BY <1>5, UsageCapsAssumption
<1> QED
  BY <1>2, <1>4, <1>5, <1>6

\* Steps that start nothing and give no tick more to start.
LEMMA PauseQuiet ==
  ASSUME PauseInv, TypeOK, paused' = paused, sincePause' = sincePause, Slots' \subseteq Slots,
         \A r \in Runners : pc'[r] = "looked" => ~pauseRead'[r]
  PROVE  PauseInv'
<1>1. IsFiniteSet(Slots') /\ Cardinality(Slots') <= Cardinality(Slots)
  BY SlotsBounded, FS_Subset
<1>2. Cardinality(Slots') \in Nat
  BY <1>1, FS_CardinalityType
<1>3. sincePause \in Nat /\ PerTick * Cardinality(Runners) \in Nat
  BY SlotsBounded, UsageCapsAssumption DEF TypeOK
<1>4. paused' => sincePause' + Cardinality(Slots') <= PerTick * Cardinality(Runners)
  BY <1>1, <1>2, <1>3, SlotsBounded DEF PauseInv
<1> QED
  BY <1>4 DEF PauseInv

\* Going on with results allowed no more than before.
LEMMA GoOnSlots ==
  ASSUME Typed, NEW r \in Runners, NEW C, NEW n \in 0..PerTick, GoOn(r, C, n),
         UNCHANGED pauseRead, pc[r] # "idle",
         n <= left[r] - (IF pc[r] \in Executing THEN 1 ELSE 0)
  PROVE  /\ Slots' \subseteq Slots
         /\ \A q \in Runners : pc'[q] = "looked" => pc[q] = "looked" /\ q # r
<1>1. \A q \in Runners \ {r} : pc'[q] = pc[q] /\ left'[q] = left[q]
  BY DEF GoOn, Typed, TypeOK
<1>2. /\ pc'[r] = "idle" \/ (pc'[r] = "ticking" /\ left'[r] = n)
      /\ pc'[r] \notin Executing
  BY DEF GoOn, Typed, TypeOK, Executing
<1>3. \A s \in Slots' : s \in Slots
  <2> SUFFICES ASSUME NEW s \in Slots' PROVE s \in Slots
    OBVIOUS
  <2>1. s \in Runners \X (1..PerTick) /\ s[1] \in Runners /\ s[2] \in 1..PerTick
    BY DEF Slots
  <2>2. CASE s[1] # r
    BY <1>1, <2>1, <2>2 DEF Slots
  <2>3. CASE s[1] = r
    <3>1. pc'[r] = "ticking" /\ left'[r] = n /\ s[2] <= n /\ ~pauseRead[r]
      BY <1>2, <2>3 DEF Slots
    <3>2. n \in Int /\ s[2] \in Int /\ left[r] \in Int
      BY <2>1, UsageCapsAssumption DEF Typed, TypeOK
    <3> QED
      BY <2>1, <2>3, <3>1, <3>2 DEF Slots
  <2> QED
    BY <2>2, <2>3
<1>4. \A q \in Runners : pc'[q] = "looked" => pc[q] = "looked" /\ q # r
  BY <1>1, <1>2
<1> QED
  BY <1>3, <1>4

LEMMA PauseInit == Init => PauseInv
BY DEF Init, PauseInv

LEMMA PauseNext == Sound /\ PauseInv /\ [Next]_vars => PauseInv'
<1> SUFFICES ASSUME Sound, PauseInv, [Next]_vars PROVE PauseInv'
  OBVIOUS
<1>0. Typed /\ TypeOK /\ WorkOK
  BY DEF Sound, Typed
<1>1. ASSUME NEW r \in Runners, StartTick(r) PROVE PauseInv'
  <2>1. /\ pc[r] = "idle" /\ UNCHANGED <<paused, sincePause>>
        /\ \A q \in Runners \ {r} : pc'[q] = pc[q] /\ left'[q] = left[q] /\ pauseRead'[q] = pauseRead[q]
        /\ pc'[r] \in {"idle", "ticking"} /\ pauseRead'[r] = paused
    BY <1>0, <1>1 DEF StartTick, ReadRuntime, GoOn, TypeOK, runtimeVars, historyVars
  <2>2. CASE paused
    <3>1. \A s \in Slots' : s \in Slots
      BY <2>1, <2>2 DEF Slots
    <3> QED
      BY <1>0, <2>1, <3>1, PauseQuiet DEF PauseInv
  <2>3. CASE ~paused
    BY <2>1, <2>3 DEF PauseInv
  <2> QED
    BY <1>0, <2>2, <2>3 DEF TypeOK
<1>2. ASSUME NEW r \in Runners, NEW a \in Actions, PassOver(r, a) PROVE PauseInv'
  <2>1. /\ GoOn(r, todo[r] \ {a}, left[r]) /\ pc[r] = "ticking" /\ left[r] \in 0..PerTick
        /\ UNCHANGED <<paused, sincePause, pauseRead>>
    BY <1>0, <1>2 DEF PassOver, TypeOK, runtimeVars, historyVars
  <2>2. left[r] <= left[r] - (IF pc[r] \in Executing THEN 1 ELSE 0)
    BY <2>1, UsageCapsAssumption DEF Executing
  <2> QED
    BY <1>0, <2>1, <2>2, GoOnSlots, PauseQuiet DEF PauseInv
<1>3. ASSUME NEW r \in Runners, NEW a \in Actions, Look(r, a) PROVE PauseInv'
  <2>1. /\ pc[r] = "ticking" /\ ~pauseRead[r] /\ UNCHANGED <<paused, sincePause, pauseRead, left>>
        /\ \A q \in Runners : pc'[q] = IF q = r THEN "looked" ELSE pc[q]
    BY <1>0, <1>3 DEF Look, TypeOK, runtimeVars, historyVars
  <2>2. \A s \in Slots' : s \in Slots
    BY <2>1 DEF Slots, Executing
  <2> QED
    BY <1>0, <2>1, <2>2, PauseQuiet DEF PauseInv
<1>4. ASSUME NEW r \in Runners, Claim(r), status[job[r]] = "APPROVED" PROVE PauseInv'
  <2> DEFINE first == <<r, left[r]>>
  <2>1. /\ pc[r] = "looked" /\ UNCHANGED <<paused, pauseRead, left>>
        /\ sincePause' = IF paused THEN sincePause + 1 ELSE 0
        /\ \A q \in Runners : pc'[q] = IF q = r THEN "running" ELSE pc[q]
    BY <1>0, <1>4 DEF Claim, TypeOK, runtimeVars
  <2>2. /\ left[r] \in 1..PerTick /\ ~pauseRead[r]
        /\ \A q \in Runners : left[q] \in 0..PerTick
    <3>1. \A q \in Runners : left[q] \in 0..PerTick
      BY <1>0 DEF TypeOK
    <3>2. left[r] > 0 /\ ~pauseRead[r]
      BY <1>0, <2>1 DEF WorkOK, PauseInv
    <3> QED
      BY <3>1, <3>2, UsageCapsAssumption
  <2>3. first \in Slots
    BY <2>1, <2>2 DEF Slots, Executing
  <2>4. \A s \in Slots' : s \in Slots \ {first}
    <3> SUFFICES ASSUME NEW s \in Slots' PROVE s \in Slots /\ s # first
      OBVIOUS
    <3>1. s \in Runners \X (1..PerTick) /\ s[1] \in Runners /\ s[2] \in 1..PerTick
      BY DEF Slots
    <3>2. CASE s[1] = r
      <4>1. s[2] <= left[r] - 1
        BY <2>1, <3>1, <3>2 DEF Slots, Executing
      <4> QED
        BY <2>1, <2>2, <3>1, <3>2, <4>1 DEF Slots, Executing
    <3>3. CASE s[1] # r
      BY <2>1, <3>1, <3>3 DEF Slots
    <3> QED
      BY <3>2, <3>3
  <2>5. /\ IsFiniteSet(Slots \ {first}) /\ Cardinality(Slots \ {first}) = Cardinality(Slots) - 1
    BY <2>3, SlotsBounded, FS_RemoveElement
  <2>6. IsFiniteSet(Slots') /\ Cardinality(Slots') <= Cardinality(Slots) - 1
    BY <2>4, <2>5, FS_Subset
  <2>7. Cardinality(Slots') \in Nat /\ sincePause \in Nat /\ PerTick * Cardinality(Runners) \in Nat
    BY <1>0, <2>6, FS_CardinalityType, SlotsBounded, UsageCapsAssumption DEF TypeOK
  <2>8. paused' => sincePause' + Cardinality(Slots') <= PerTick * Cardinality(Runners)
    BY <2>1, <2>6, <2>7, SlotsBounded DEF PauseInv
  <2> QED
    BY <2>1, <2>8 DEF PauseInv
<1>5. ASSUME NEW r \in Runners, Claim(r), status[job[r]] # "APPROVED" PROVE PauseInv'
  <2>1. /\ GoOn(r, todo[r], left[r]) /\ pc[r] = "looked" /\ left[r] \in 0..PerTick
        /\ UNCHANGED <<paused, sincePause, pauseRead>>
    BY <1>0, <1>5 DEF Claim, TypeOK, runtimeVars, historyVars
  <2>2. left[r] <= left[r] - (IF pc[r] \in Executing THEN 1 ELSE 0)
    BY <2>1, UsageCapsAssumption DEF Executing
  <2> QED
    BY <1>0, <2>1, <2>2, GoOnSlots, PauseQuiet DEF PauseInv
<1>6. ASSUME NEW r \in Runners, Unit(r) \/ Verify(r) \/ Deliver(r) PROVE PauseInv'
  <2>1. /\ UNCHANGED <<paused, sincePause, pauseRead, left>>
        /\ \A q \in Runners : \/ pc'[q] = pc[q]
                              \/ pc[q] \in Executing /\ pc'[q] \in Executing
    BY <1>0, <1>6 DEF Unit, Verify, Deliver, TypeOK, runtimeVars, historyVars, tickVars, Executing
  <2>2. \A s \in Slots' : s \in Slots
    BY <2>1 DEF Slots, Executing
  <2> QED
    BY <1>0, <2>1, <2>2, PauseQuiet DEF PauseInv, Executing
<1>7. ASSUME NEW r \in Runners, Record(r) PROVE PauseInv'
  <2>1. /\ GoOn(r, todo[r], left[r] - 1) /\ pc[r] \in Executing /\ pc[r] # "idle"
        /\ UNCHANGED <<paused, sincePause, pauseRead>>
    BY <1>7 DEF Record, RecordSent, RecordUnsent, runtimeVars, historyVars, Executing
  <2>2. left[r] - 1 \in 0..PerTick /\ left[r] - 1 <= left[r] - (IF pc[r] \in Executing THEN 1 ELSE 0)
    BY <1>0, <2>1, UsageCapsAssumption DEF TypeOK, WorkOK
  <2> QED
    BY <1>0, <2>1, <2>2, GoOnSlots, PauseQuiet DEF PauseInv
<1>8. CASE SetPaused
  <2>1. sincePause' = 0 /\ UNCHANGED <<pc, pauseRead, left>>
    BY <1>8 DEF SetPaused, tickVars
  <2>2. Slots' = Slots
    BY <2>1 DEF Slots
  <2> QED
    BY <2>1, <2>2, SlotsBounded DEF PauseInv
<1>9. ASSUME NEW p \in Processes, Crash(p) PROVE PauseInv'
  <2>1. /\ UNCHANGED <<paused, sincePause, pauseRead>>
        /\ \A q \in Runners : pc'[q] = "idle" \/ (pc'[q] = pc[q] /\ left'[q] = left[q])
    BY <1>9 DEF Crash, runtimeVars, historyVars
  <2>2. \A s \in Slots' : s \in Slots
    BY <2>1 DEF Slots
  <2> QED
    BY <1>0, <2>1, <2>2, PauseQuiet DEF PauseInv
<1>10. CASE SetLimit \/ Tick \/ UNCHANGED vars
  <2>1. UNCHANGED <<paused, sincePause, pauseRead, pc, left>>
    BY <1>10 DEF SetLimit, Tick, vars, runtimeVars, historyVars, tickVars
  <2>2. Slots' = Slots
    BY <2>1 DEF Slots
  <2> QED
    BY <1>0, <2>1, <2>2, PauseQuiet DEF PauseInv
<1> QED
  BY <1>1, <1>2, <1>3, <1>4, <1>5, <1>6, <1>7, <1>8, <1>9, <1>10 DEF Next

\* After the pause is switched on, the ticks under way start no more actions than they were
\* allowed in all: max_actions_per_tick for each (Orchestrator.tick, RuntimeControl.set_paused).
THEOREM PauseStopsTicks == Spec => []PauseHolds
<1>1. PauseInv /\ Sound => PauseHolds
  <2> SUFFICES ASSUME PauseInv, Sound, paused PROVE PauseHolds
    BY DEF PauseHolds
  <2>1. sincePause \in Nat /\ PerTick * Cardinality(Runners) \in Nat
    BY SlotsBounded, UsageCapsAssumption DEF Sound, Typed, TypeOK
  <2> QED
    BY <2>1, SlotsBounded DEF PauseInv, PauseHolds
<1> QED
  BY <1>1, SoundInit, SoundNext, PauseInit, PauseNext, PTL DEF Spec

-----------------------------------------------------------------------------
(* Sends per hour and their spacing                                        *)

\* The moment of a message; of one under way it is the present.
When(b) == IF delivered[b] = Never THEN now ELSE delivered[b]

\* Messages delivered, and those that an execution holding the conversation may still deliver.
Afoot ==
  {b \in Sends :
     \/ delivered[b] # Never
     \/ \E q \in Runners : pc[q] \in {"running", "ready"} /\ job[q] = b /\ token[b] = {q}}

\* The ledger is written after the delivery; a message reported or found in the thread was delivered.
Recorded ==
  /\ \A b \in Sends : delivered[b] # Never => delivered[b] <= now
  /\ \A b \in Sends :
       counted[b] # Never => delivered[b] # Never /\ delivered[b] <= counted[b] /\ counted[b] <= now
  /\ \A b \in Sends : copies[b] > 0 => delivered[b] # Never
  /\ \A r \in Runners :
       pc[r] = "done" /\ res[r] \in {"sent", "found"}
         => job[r] \in Sends /\ delivered[job[r]] # Never

\* Who is about to claim has counted less than the cap, and of the other messages all but those in
\* flight or uncounted are Spacing away, and in the count or more than an hour old.
CheckKnows ==
  \A r \in Runners :
    pc[r] = "looked" /\ job[r] \in Sends =>
      /\ Cardinality(snap[r]) < capRead[r]
      /\ peers[r] \subseteq snap[r]
      /\ \A b \in Afoot \ {job[r]} :
           \/ b \in peers[r] \cup slipped[r]
           \/ /\ When(b) + Spacing <= now
              /\ b \in snap[r] \/ When(b) + HOUR < now

\* The claim of every message counted less than the cap.
GrantKept == \A a \in Afoot : Cardinality(counting[a]) < grant[a]

Near(D) == \A a, b \in D : When(a) <= When(b) + HOUR

\* Of the messages of an hour, the claim of one knew of all the others, or could not count them:
\* the last claim.
Chained ==
  \A D \in SUBSET Afoot :
    D # {} /\ Near(D) => \E z \in D : D \ {z} \subseteq counting[z] \cup missing[z]

\* Two messages are spaced, or the claim of one found the other in flight or could not see it.
Spaced(a, b) ==
  \/ When(a) + Spacing <= When(b)
  \/ When(b) + Spacing <= When(a)
  \/ a \in alongside[b] \cup missing[b]
  \/ b \in alongside[a] \cup missing[a]

AllSpaced == \A a, b \in Afoot : a # b => Spaced(a, b)

CountInv == Recorded /\ CheckKnows /\ GrantKept /\ Chained /\ AllSpaced

LEMMA CountInit == Init => CountInv
<1> SUFFICES ASSUME Init PROVE CountInv
  OBVIOUS
<1>1. Afoot = {}
  BY DEF Init, Afoot
<1>2. Recorded /\ CheckKnows
  BY DEF Init, Recorded, CheckKnows
<1>3. GrantKept /\ AllSpaced /\ Chained
  BY <1>1 DEF GrantKept, AllSpaced, Chained
<1> QED
  BY <1>2, <1>3 DEF CountInv

LEMMA MomentsTyped ==
  ASSUME TypeOK
  PROVE  /\ now \in Nat /\ now <= MaxTime /\ MaxTime \in Nat /\ Never = MaxTime + 1
         /\ HOUR \in Nat /\ Spacing \in Nat
         /\ \A b \in Sends : delivered[b] \in Nat /\ counted[b] \in Nat /\ When(b) \in Nat
BY UsageCapsAssumption DEF TypeOK, Times, Never, When

LEMMA NothingNewAfoot ==
  ASSUME \A b \in Sends : delivered'[b] = delivered[b],
         \A q \in Runners : pc'[q] \in {"running", "ready"}
                              => pc[q] \in {"running", "ready"} /\ job'[q] = job[q],
         \A b \in Sends : \A q \in Runners : token'[b] = {q} => token[b] = {q}
  PROVE  Afoot' \subseteq Afoot
BY DEF Afoot

\* Steps that neither send nor claim.
LEMMA CountQuiet ==
  ASSUME TypeOK, CountInv, Recorded', Afoot' \subseteq Afoot,
         \A b \in Sends : When(b)' = When(b),
         UNCHANGED <<now, grant, counting, alongside, missing>>,
         \A r \in Runners :
           pc'[r] = "looked" =>
             /\ pc[r] = "looked" /\ job'[r] = job[r] /\ snap'[r] = snap[r] /\ peers'[r] = peers[r]
             /\ capRead'[r] = capRead[r] /\ slipped[r] \subseteq slipped'[r]
  PROVE  CountInv'
<1>1. \A b \in Afoot : When(b)' = When(b)
  BY DEF Afoot
<1>2. GrantKept'
  BY DEF CountInv, GrantKept
<1>3. CheckKnows'
  BY <1>1 DEF CountInv, CheckKnows
<1>4. Chained'
  <2> SUFFICES ASSUME NEW D \in SUBSET Afoot', D # {}, Near(D)'
               PROVE  \E z \in D : D \ {z} \subseteq counting[z] \cup missing[z]
    BY DEF Chained
  <2>1. D \in SUBSET Afoot /\ Near(D)
    BY <1>1 DEF Near
  <2> QED
    BY <2>1 DEF CountInv, Chained
<1>5. AllSpaced'
  BY <1>1 DEF CountInv, AllSpaced, Spaced
<1> QED
  BY <1>2, <1>3, <1>4, <1>5 DEF CountInv

\* The gate counts every other message: in flight, in the ledger, or known not to be counted.
LEMMA GateCounts ==
  ASSUME TypeOK, Recorded, NEW r \in Runners, NEW a \in Sends, WaitsUntil(r, a) = {},
         NEW b \in Afoot, b # a
  PROVE  \/ b \in InFlight(a) \cup Uncounted
         \/ /\ When(b) + Spacing <= now
            /\ b \in SentLastHour \/ When(b) + HOUR < now
<1>1. b \in Sends
  BY DEF Afoot
<1>2. CASE status[b] = "EXECUTING"
  BY <1>1, <1>2 DEF InFlight
<1>3. CASE status[b] # "EXECUTING" /\ counted[b] = Never
  BY <1>1, <1>3 DEF Afoot, Uncounted, Executing
<1>4. CASE counted[b] # Never
  <2>1. /\ delivered[b] # Never /\ delivered[b] <= counted[b] /\ counted[b] <= now
        /\ When(b) = delivered[b]
    BY <1>1, <1>4 DEF Recorded, When
  <2>2. ~(now < counted[b] + Spacing)
    <3>1. counted[b] + Spacing \in UntilSpaced(a)
      BY <1>1, <2>1 DEF UntilSpaced, LastSends
    <3> QED
      BY <3>1 DEF WaitsUntil
  <2>3. When(b) + Spacing <= now
    BY <1>1, <2>1, <2>2, MomentsTyped
  <2>4. b \in SentLastHour \/ When(b) + HOUR < now
    BY <1>1, <2>1, MomentsTyped DEF SentLastHour
  <2> QED
    BY <2>3, <2>4
<1> QED
  BY <1>2, <1>3, <1>4

\* What an allowed send counted is below the cap that was read.
LEMMA GateKeepsCap ==
  ASSUME TypeOK, NEW r \in Runners, NEW a \in Sends, WaitsUntil(r, a) = {}
  PROVE  Cardinality(SentLastHour \cup InFlight(a)) < capRead[r]
<1>1. IsFiniteSet(Sends)
  BY FS_Subset, UsageCapsAssumption DEF Actions
<1>2. SentLastHour \subseteq Sends /\ InFlight(a) \subseteq Sends
  BY DEF SentLastHour, InFlight
<1>3. IsFiniteSet(SentLastHour) /\ IsFiniteSet(InFlight(a))
  BY <1>1, <1>2, FS_Subset
<1>4. /\ IsFiniteSet(SentLastHour \cup InFlight(a))
      /\ Cardinality(SentLastHour \cup InFlight(a))
           = Cardinality(SentLastHour) + Cardinality(InFlight(a))
             - Cardinality(SentLastHour \cap InFlight(a))
  BY <1>3, FS_Union
<1>5. IsFiniteSet(SentLastHour \cap InFlight(a))
  BY <1>3, FS_Subset
<1>6. /\ Cardinality(SentLastHour) \in Nat /\ Cardinality(InFlight(a)) \in Nat
      /\ Cardinality(SentLastHour \cap InFlight(a)) \in Nat
  BY <1>3, <1>5, FS_CardinalityType
<1>7. ~(CountedFor(a) >= capRead[r])
  BY DEF WaitsUntil, UntilCap
<1>8. capRead[r] \in Nat
  <2>1. capRead[r] \in Caps
    BY DEF TypeOK
  <2> QED
    BY <2>1, UsageCapsAssumption
<1> QED
  BY <1>4, <1>6, <1>7, <1>8 DEF CountedFor

LEMMA RecordedQuiet ==
  ASSUME Recorded, UNCHANGED <<now, delivered, counted, copies>>,
         \A q \in Runners : pc'[q] = "done" =>
           pc[q] = "done" /\ job'[q] = job[q] /\ res'[q] = res[q]
  PROVE  Recorded'
BY DEF Recorded

LEMMA RecordedNext == Sound /\ Recorded /\ [Next]_vars => Recorded'
<1> SUFFICES ASSUME Typed, TypeOK, WorkOK, Recorded, [Next]_vars PROVE Recorded'
  BY DEF Sound, Typed
<1>1. ASSUME NEW r \in Runners, StartTick(r) PROVE Recorded'
  <2>1. /\ UNCHANGED <<now, delivered, counted, copies, job, res>>
        /\ \A q \in Runners : pc'[q] = "done" => pc[q] = "done"
    BY <1>1 DEF StartTick, GoOn, TypeOK, clockVars, ledgerVars, worldVars, executionVars
  <2> QED
    BY <2>1, RecordedQuiet
<1>2. ASSUME NEW r \in Runners, NEW a \in Actions, PassOver(r, a) PROVE Recorded'
  <2>1. /\ UNCHANGED <<now, delivered, counted, copies, job, res>>
        /\ \A q \in Runners : pc'[q] = "done" => pc[q] = "done"
    BY <1>2 DEF PassOver, GoOn, TypeOK, clockVars, ledgerVars, worldVars, executionVars
  <2> QED
    BY <2>1, RecordedQuiet
<1>3. ASSUME NEW r \in Runners, NEW a \in Actions, Look(r, a) PROVE Recorded'
  <2>1. /\ UNCHANGED <<now, delivered, counted, copies, res>>
        /\ \A q \in Runners : pc'[q] = "done" => pc[q] = "done" /\ job'[q] = job[q]
    BY <1>3 DEF Look, TypeOK, clockVars, ledgerVars, worldVars
  <2> QED
    BY <2>1, RecordedQuiet
<1>4. ASSUME NEW r \in Runners, Claim(r) PROVE Recorded'
  <2>1. UNCHANGED <<now, delivered, counted, copies, res>>
    BY <1>4 DEF Claim, clockVars, ledgerVars, worldVars
  <2>2. \A q \in Runners : pc'[q] = "done" => pc[q] = "done" /\ job'[q] = job[q]
    BY <1>4 DEF Claim, GoOn, TypeOK
  <2> QED
    BY <2>1, <2>2, RecordedQuiet
<1>5. ASSUME NEW r \in Runners, Unit(r) PROVE Recorded'
  BY <1>5, RecordedQuiet DEF Unit, clockVars, worldVars
<1>6. ASSUME NEW r \in Runners, Verify(r) PROVE Recorded'
  <2>1. /\ UNCHANGED <<now, delivered, counted, copies, job>> /\ job[r] \in Sends
        /\ \A q \in Runners \ {r} : pc'[q] = pc[q] /\ res'[q] = res[q]
        /\ pc'[r] = "done" => copies[job[r]] > 0
    BY <1>6 DEF Verify, TypeOK, clockVars, ledgerVars, worldVars
  <2> QED
    BY <2>1 DEF Recorded
<1>7. ASSUME NEW r \in Runners, Deliver(r) PROVE Recorded'
  <2>1. /\ UNCHANGED <<now, counted, job>> /\ pc[r] = "ready" /\ job[r] \in Sends
        /\ \A q \in Runners : pc'[q] = IF q = r THEN "done" ELSE pc[q]
        /\ \A q \in Runners \ {r} : res'[q] = res[q]
    BY <1>7 DEF Deliver, TypeOK, WorkOK, clockVars, ledgerVars
  <2>2. CASE res' = [res EXCEPT ![r] = "conflict"] /\ UNCHANGED worldVars
    <3>1. res'[r] = "conflict"
      BY <2>2 DEF TypeOK
    <3> QED
      BY <2>1, <2>2, <3>1 DEF Recorded, worldVars
  <2>3. CASE /\ copies' = [copies EXCEPT ![job[r]] = @ + 1]
             /\ delivered' = [delivered EXCEPT ![job[r]] = IF @ = Never THEN now ELSE @]
    <3>1. \A b \in Sends :
            /\ delivered'[b] = IF b = job[r] /\ delivered[b] = Never THEN now ELSE delivered[b]
            /\ b # job[r] => copies'[b] = copies[b]
      BY <2>1, <2>3 DEF TypeOK
    <3>2. now # Never /\ now <= now
      BY MomentsTyped
    <3>3. \A b \in Sends : /\ delivered[b] # Never => delivered'[b] = delivered[b]
                           /\ delivered'[b] # Never => delivered'[b] <= now
                           /\ copies'[b] > 0 => delivered'[b] # Never
      BY <3>1, <3>2 DEF Recorded
    <3>4. delivered'[job[r]] # Never
      BY <2>1, <3>1, <3>2
    <3> QED
      BY <2>1, <3>3, <3>4 DEF Recorded
  <2> QED
    BY <1>7, <2>2, <2>3 DEF Deliver
<1>8. ASSUME NEW r \in Runners, Record(r) PROVE Recorded'
  <2>1. /\ UNCHANGED <<now, delivered, copies>>
        /\ \A q \in Runners : pc'[q] = "done" =>
             pc[q] = "done" /\ job'[q] = job[q] /\ res'[q] = res[q]
    BY <1>8 DEF Record, GoOn, TypeOK, clockVars, worldVars
  <2>2. CASE counted' = counted
    BY <2>1, <2>2, RecordedQuiet
  <2>3. CASE RecordSent(r)
    <3>1. job[r] \in Sends /\ delivered[job[r]] # Never
      BY <2>3 DEF RecordSent, Recorded
    <3>2. \A b \in Sends :
            counted'[b] = IF b = job[r] /\ counted[b] = Never THEN now ELSE counted[b]
      BY <2>3 DEF RecordSent, TypeOK
    <3>3. \A b \in Sends :
            counted'[b] # Never
              => delivered[b] # Never /\ delivered[b] <= counted'[b] /\ counted'[b] <= now
      BY <3>1, <3>2, MomentsTyped DEF Recorded
    <3> QED
      BY <2>1, <3>3 DEF Recorded
  <2> QED
    BY <1>8, <2>2, <2>3 DEF Record, RecordUnsent, ledgerVars
<1>9. CASE Tick
  <2>1. /\ now' = now + 1 /\ UNCHANGED <<delivered, counted, copies, pc, job, res>>
    BY <1>9 DEF Tick, ledgerVars, worldVars, executionVars
  <2>2. \A b \in Sends : /\ delivered[b] <= now => delivered[b] <= now'
                         /\ counted[b] <= now => counted[b] <= now'
    BY <2>1, MomentsTyped
  <2> QED
    BY <2>1, <2>2 DEF Recorded
<1>10. CASE SetLimit \/ SetPaused \/ UNCHANGED vars
  BY <1>10, RecordedQuiet DEF SetLimit, SetPaused, vars, clockVars, ledgerVars, worldVars,
     executionVars
<1>11. ASSUME NEW p \in Processes, Crash(p) PROVE Recorded'
  <2>1. /\ UNCHANGED <<now, delivered, counted, copies>>
        /\ \A q \in Runners :
             pc'[q] = "done" => pc[q] = "done" /\ job'[q] = job[q] /\ res'[q] = res[q]
    BY <1>11 DEF Crash, clockVars, ledgerVars, worldVars
  <2> QED
    BY <2>1, RecordedQuiet
<1> QED
  BY <1>1, <1>2, <1>3, <1>4, <1>5, <1>6, <1>7, <1>8, <1>9, <1>10, <1>11 DEF Next

\* The claim of a message that was not sent before: it is the last of all that are afoot.
LEMMA CountClaim ==
  ASSUME TypeOK, CountInv, NEW r \in Runners, Claim(r), status[job[r]] = "APPROVED",
         job[r] \in Sends, delivered[job[r]] = Never, Recorded'
  PROVE  CountInv'
<1> DEFINE a == job[r]
<1>1. /\ pc[r] = "looked" /\ a \in Sends
      /\ UNCHANGED <<now, delivered, job, capRead>>
      /\ \A q \in Runners : pc'[q] = IF q = r THEN "running" ELSE pc[q]
      /\ \A q \in Runners \ {r} : /\ snap'[q] = snap[q] /\ peers'[q] = peers[q]
                                  /\ pc[q] = "looked" => slipped'[q] = slipped[q] \cup ({a} \cap Sends)
      /\ \A b \in Sends : token'[b] = IF b = a THEN {r} ELSE token[b]
  <2>1. pc[r] = "looked" /\ a \in Sends /\ UNCHANGED <<now, delivered, job, capRead>>
    BY DEF Claim, clockVars, worldVars
  <2>2. \A q \in Runners : pc'[q] = IF q = r THEN "running" ELSE pc[q]
    BY DEF Claim, TypeOK
  <2>3. \A q \in Runners \ {r} :
          /\ snap'[q] = snap[q] /\ peers'[q] = peers[q]
          /\ pc[q] = "looked" => slipped'[q] = slipped[q] \cup ({a} \cap Sends)
    BY DEF Claim, TypeOK
  <2>4. \A b \in Sends : token'[b] = IF b = a THEN {r} ELSE token[b]
    BY DEF Claim, TypeOK, Actions
  <2> QED
    BY <2>1, <2>2, <2>3, <2>4
<1>2. /\ \A b \in Sends : /\ grant'[b] = IF b = a THEN capRead[r] ELSE grant[b]
                          /\ counting'[b] = IF b = a THEN snap[r] ELSE counting[b]
                          /\ alongside'[b] = IF b = a THEN peers[r] ELSE alongside[b]
                          /\ missing'[b] = IF b = a THEN slipped[r] ELSE missing[b]
  <2>1. /\ grant' = [grant EXCEPT ![a] = capRead[r]] /\ counting' = [counting EXCEPT ![a] = snap[r]]
        /\ alongside' = [alongside EXCEPT ![a] = peers[r]]
        /\ missing' = [missing EXCEPT ![a] = slipped[r]]
    BY <1>1 DEF Claim
  <2> QED
    BY <2>1 DEF TypeOK
<1>3. (\A b : When(b)' = When(b)) /\ When(a) = now
  BY <1>1 DEF When
<1>4. Afoot' \subseteq Afoot \cup {a}
  BY <1>1 DEF Afoot
<1>5. /\ Cardinality(snap[r]) < capRead[r] /\ peers[r] \subseteq snap[r]
      /\ \A b \in Afoot \ {a} :
           \/ b \in peers[r] \cup slipped[r]
           \/ When(b) + Spacing <= now /\ (b \in snap[r] \/ When(b) + HOUR < now)
  BY <1>1 DEF CountInv, CheckKnows
<1>6. Afoot \subseteq Sends
  BY DEF Afoot
<1>7. CheckKnows'
  <2> SUFFICES ASSUME NEW q \in Runners, pc'[q] = "looked", job[q] \in Sends
               PROVE  /\ Cardinality(snap'[q]) < capRead[q]
                      /\ peers'[q] \subseteq snap'[q]
                      /\ \A b \in Afoot' \ {job[q]} :
                           \/ b \in peers'[q] \cup slipped'[q]
                           \/ /\ When(b) + Spacing <= now
                              /\ b \in snap'[q] \/ When(b) + HOUR < now
    BY <1>1, <1>3 DEF CheckKnows
  <2>1. q # r /\ pc[q] = "looked"
    BY <1>1
  <2>2. /\ snap'[q] = snap[q] /\ peers'[q] = peers[q] /\ slipped'[q] = slipped[q] \cup {a}
    BY <1>1, <2>1
  <2> QED
    BY <1>4, <2>1, <2>2 DEF CountInv, CheckKnows
<1>8. GrantKept'
  BY <1>2, <1>4, <1>5, <1>6 DEF CountInv, GrantKept
<1>9. Chained'
  <2> SUFFICES ASSUME NEW D \in SUBSET Afoot', D # {}, Near(D)'
               PROVE  \E z \in D : D \ {z} \subseteq counting'[z] \cup missing'[z]
    BY DEF Chained
  <2>1. Near(D)
    BY <1>3 DEF Near
  <2>2. CASE a \in D
    <3>1. \A b \in D \ {a} : b \in snap[r] \cup slipped[r]
      <4> SUFFICES ASSUME NEW b \in D \ {a} PROVE b \in snap[r] \cup slipped[r]
        OBVIOUS
      <4>1. b \in Afoot \ {a} /\ b \in Sends
        BY <1>4, <1>6
      <4>2. now <= When(b) + HOUR
        BY <1>3, <2>1, <2>2 DEF Near
      <4>3. ~(When(b) + HOUR < now)
        BY <4>1, <4>2, MomentsTyped
      <4> QED
        BY <1>5, <4>1, <4>3
    <3>2. counting'[a] = snap[r] /\ missing'[a] = slipped[r]
      BY <1>1, <1>2
    <3> QED
      BY <2>2, <3>1, <3>2
  <2>3. CASE a \notin D
    <3>1. D \in SUBSET Afoot
      BY <1>4, <2>3
    <3>2. PICK z \in D : D \ {z} \subseteq counting[z] \cup missing[z]
      BY <2>1, <3>1 DEF CountInv, Chained
    <3>3. z \in Sends /\ z # a
      BY <1>6, <2>3, <3>1
    <3> QED
      BY <1>2, <3>2, <3>3
  <2> QED
    BY <2>2, <2>3
<1>10. AllSpaced'
  <2>1. \A b \in Afoot \ {a} :
          When(b) + Spacing <= When(a) \/ b \in alongside'[a] \cup missing'[a]
    BY <1>1, <1>2, <1>3, <1>5
  <2> SUFFICES ASSUME NEW b \in Afoot', NEW c \in Afoot', b # c PROVE Spaced(b, c)'
    BY DEF AllSpaced
  <2>2. CASE b = a
    BY <1>3, <1>4, <2>1, <2>2 DEF Spaced
  <2>3. CASE c = a
    BY <1>3, <1>4, <2>1, <2>3 DEF Spaced
  <2>4. CASE b # a /\ c # a
    <3>1. b \in Afoot /\ c \in Afoot /\ Spaced(b, c)
      BY <1>4, <2>4 DEF CountInv, AllSpaced
    <3>2. /\ alongside'[b] = alongside[b] /\ missing'[b] = missing[b]
          /\ alongside'[c] = alongside[c] /\ missing'[c] = missing[c]
      BY <1>2, <1>6, <2>4, <3>1
    <3> QED
      BY <1>3, <3>1, <3>2 DEF Spaced
  <2> QED
    BY <2>2, <2>3, <2>4
<1> QED
  BY <1>7, <1>8, <1>9, <1>10 DEF CountInv

\* Time brings no two messages nearer to each other.
LEMMA CountTick ==
  ASSUME TypeOK, CountInv, Tick, Recorded'
  PROVE  CountInv'
<1>1. /\ now' = now + 1 /\ Settled
      /\ UNCHANGED <<delivered, pc, job, token, grant, counting, alongside, missing>>
  BY DEF Tick, leaseVars, worldVars, executionVars, historyVars
<1>2. Afoot' = Afoot /\ Afoot \subseteq Sends
  BY <1>1 DEF Afoot
<1>3. \A b \in Sends : \/ When(b)' = When(b) /\ When(b) <= now
                       \/ When(b)' = now + 1 /\ When(b) = now
  BY <1>1 DEF When, CountInv, Recorded
<1>4. CheckKnows'
  BY <1>1 DEF CheckKnows, Settled
<1>5. GrantKept'
  BY <1>1, <1>2 DEF CountInv, GrantKept
<1>6. Chained'
  <2> SUFFICES ASSUME NEW D \in SUBSET Afoot, D # {}, Near(D)'
               PROVE  \E z \in D : D \ {z} \subseteq counting[z] \cup missing[z]
    BY <1>1, <1>2 DEF Chained
  <2>1. \A a, b \in D : When(a) <= When(b) + HOUR
    <3> SUFFICES ASSUME NEW a \in D, NEW b \in D PROVE When(a) <= When(b) + HOUR
      OBVIOUS
    <3>1. a \in Sends /\ b \in Sends /\ When(a)' <= When(b)' + HOUR
      BY <1>2 DEF Near
    <3>2. When(a) \in Nat /\ When(b) \in Nat /\ now \in Nat /\ HOUR \in Nat
      BY <3>1, MomentsTyped
    <3> QED
      BY <1>3, <3>1, <3>2
  <2> QED
    BY <2>1 DEF CountInv, Chained, Near
<1>7. AllSpaced'
  <2> SUFFICES ASSUME NEW a \in Afoot, NEW b \in Afoot, a # b PROVE Spaced(a, b)'
    BY <1>2 DEF AllSpaced
  <2>1. a \in Sends /\ b \in Sends /\ Spaced(a, b)
    BY <1>2 DEF CountInv, AllSpaced
  <2>2. When(a) \in Nat /\ When(b) \in Nat /\ now \in Nat /\ Spacing \in Nat
    BY <2>1, MomentsTyped
  <2>3. CASE \/ a \in alongside[b] \cup missing[b]
             \/ b \in alongside[a] \cup missing[a]
    BY <1>1, <2>3 DEF Spaced
  <2>4. CASE When(a) + Spacing <= When(b) \/ When(b) + Spacing <= When(a)
    <3>1. When(a)' + Spacing <= When(b)' \/ When(b)' + Spacing <= When(a)'
      BY <1>3, <2>1, <2>2, <2>4
    <3> QED
      BY <3>1 DEF Spaced
  <2> QED
    BY <2>1, <2>3, <2>4 DEF Spaced
<1> QED
  BY <1>4, <1>5, <1>6, <1>7 DEF CountInv

LEMMA CountNext == Sound /\ OneHolder /\ CountInv /\ [Next]_vars => CountInv'
<1> SUFFICES ASSUME Sound, OneHolder, CountInv, [Next]_vars PROVE CountInv'
  OBVIOUS
<1>0. Typed /\ TypeOK /\ WorkOK /\ Recorded'
  BY RecordedNext DEF Sound, Typed, CountInv
<1> DEFINE still == UNCHANGED <<now, grant, counting, alongside, missing>>
<1>1. ASSUME NEW r \in Runners, StartTick(r) PROVE CountInv'
  <2>1. still /\ UNCHANGED <<delivered, token, job>> /\ Settled
    BY <1>1 DEF StartTick, clockVars, leaseVars, worldVars, historyVars, executionVars
  <2>2. \A q \in Runners : pc'[q] \in {"idle", "ticking"} \/ pc'[q] = pc[q]
    BY <1>0, <1>1 DEF StartTick, GoOn, TypeOK
  <2>3. Afoot' \subseteq Afoot
    BY <2>1, <2>2, NothingNewAfoot
  <2> QED
    BY <1>0, <2>1, <2>2, <2>3, CountQuiet DEF When, Settled
<1>2. ASSUME NEW r \in Runners, NEW a \in Actions, PassOver(r, a) PROVE CountInv'
  <2>1. still /\ UNCHANGED <<delivered, token, job, capRead, snap, peers, slipped>>
    BY <1>2 DEF PassOver, clockVars, leaseVars, worldVars, historyVars, executionVars
  <2>2. \A q \in Runners : pc'[q] \in {"idle", "ticking"} \/ pc'[q] = pc[q]
    BY <1>0, <1>2 DEF PassOver, GoOn, TypeOK
  <2>3. Afoot' \subseteq Afoot
    BY <2>1, <2>2, NothingNewAfoot
  <2> QED
    BY <1>0, <2>1, <2>2, <2>3, CountQuiet DEF When
<1>3. ASSUME NEW r \in Runners, NEW a \in Actions, Look(r, a) PROVE CountInv'
  <2>1. still /\ UNCHANGED <<delivered, token, capRead>> /\ WaitsUntil(r, a) = {}
    BY <1>3 DEF Look, clockVars, leaseVars, worldVars, historyVars
  <2>2. \A q \in Runners :
          /\ pc'[q] = IF q = r THEN "looked" ELSE pc[q]
          /\ job'[q] = IF q = r THEN a ELSE job[q]
          /\ snap'[q] = IF q = r THEN SentLastHour \cup InFlight(a) ELSE snap[q]
          /\ peers'[q] = IF q = r THEN InFlight(a) ELSE peers[q]
          /\ slipped'[q] = IF q = r THEN Uncounted ELSE slipped[q]
    BY <1>0, <1>3 DEF Look, TypeOK
  <2>3. Afoot' \subseteq Afoot
    BY <2>1, <2>2, NothingNewAfoot
  <2>4. \A b : When(b)' = When(b)
    BY <2>1 DEF When
  <2>5. CheckKnows'
    <3> SUFFICES ASSUME NEW q \in Runners, pc'[q] = "looked", job'[q] \in Sends
                 PROVE  /\ Cardinality(snap'[q]) < capRead'[q]
                        /\ peers'[q] \subseteq snap'[q]
                        /\ \A b \in Afoot' \ {job'[q]} :
                             \/ b \in peers'[q] \cup slipped'[q]
                             \/ /\ When(b)' + Spacing <= now'
                                /\ b \in snap'[q] \/ When(b)' + HOUR < now'
      BY DEF CheckKnows
    <3>1. CASE q # r
      BY <2>1, <2>2, <2>3, <2>4, <3>1 DEF CountInv, CheckKnows
    <3>2. CASE q = r
      <4>1. a \in Sends /\ Cardinality(snap'[q]) < capRead'[q]
        BY <1>0, <2>1, <2>2, <3>2, GateKeepsCap
      <4>2. \A b \in Afoot \ {a} :
              \/ b \in InFlight(a) \cup Uncounted
              \/ When(b) + Spacing <= now /\ (b \in SentLastHour \/ When(b) + HOUR < now)
        BY <1>0, <2>1, <4>1, GateCounts DEF CountInv
      <4> QED
        BY <2>1, <2>2, <2>3, <2>4, <3>2, <4>1, <4>2
    <3> QED
      BY <3>1, <3>2
  <2>6. GrantKept' /\ Chained' /\ AllSpaced'
    <3>1. GrantKept' /\ AllSpaced'
      BY <2>1, <2>3, <2>4 DEF CountInv, GrantKept, AllSpaced, Spaced
    <3>2. Chained'
      <4> SUFFICES ASSUME NEW D \in SUBSET Afoot', D # {}, Near(D)'
                   PROVE  \E z \in D : D \ {z} \subseteq counting[z] \cup missing[z]
        BY <2>1 DEF Chained
      <4>1. D \in SUBSET Afoot /\ Near(D)
        BY <2>3, <2>4 DEF Near
      <4> QED
        BY <4>1 DEF CountInv, Chained
    <3> QED
      BY <3>1, <3>2
  <2> QED
    BY <1>0, <2>5, <2>6 DEF CountInv
<1>4. ASSUME NEW r \in Runners, Claim(r), status[job[r]] = "APPROVED" PROVE CountInv'
  <2> DEFINE a == job[r]
  <2>1. CASE a \in Sends /\ delivered[a] = Never
    BY <1>0, <1>4, <2>1, CountClaim
  <2>2. CASE ~(a \in Sends /\ delivered[a] = Never)
    <3>1. still /\ UNCHANGED <<delivered, job, capRead>>
      BY <1>4, <2>2 DEF Claim, clockVars, worldVars
    <3>2. a \in Actions /\ pc[r] = "looked"
      BY <1>0, <1>4 DEF Claim, TypeOK
    <3>3. /\ \A q \in Runners : pc'[q] = IF q = r THEN "running" ELSE pc[q]
          /\ \A b \in Sends : token'[b] = IF b = a THEN {r} ELSE token[b]
      BY <1>0, <1>4, <3>2 DEF Claim, TypeOK, Actions
    <3>4. \A q \in Runners \ {r} :
            /\ snap'[q] = snap[q] /\ peers'[q] = peers[q] /\ slipped[q] \subseteq slipped'[q]
      <4>1. snap' = [snap EXCEPT ![r] = {}] /\ peers' = [peers EXCEPT ![r] = {}]
        BY <1>4 DEF Claim
      <4>2. slipped' = [q \in Runners |-> IF q = r THEN {}
                          ELSE IF pc[q] = "looked" THEN slipped[q] \cup ({a} \cap Sends)
                          ELSE slipped[q]]
        BY <1>4 DEF Claim
      <4> QED
        BY <1>0, <4>1, <4>2 DEF TypeOK
    <3>5. Afoot' \subseteq Afoot
      BY <2>2, <3>1, <3>3 DEF Afoot
    <3> QED
      BY <1>0, <3>1, <3>3, <3>4, <3>5, CountQuiet DEF When
  <2> QED
    BY <2>1, <2>2
<1>5. ASSUME NEW r \in Runners, Claim(r), status[job[r]] # "APPROVED" PROVE CountInv'
  <2>1. still /\ UNCHANGED <<delivered, token, capRead>>
    BY <1>5 DEF Claim, clockVars, leaseVars, worldVars, historyVars
  <2>2. \A q \in Runners : \/ pc'[q] \in {"idle", "ticking"}
                           \/ /\ pc'[q] = pc[q] /\ job'[q] = job[q] /\ snap'[q] = snap[q]
                              /\ peers'[q] = peers[q] /\ slipped'[q] = slipped[q]
    BY <1>0, <1>5 DEF Claim, GoOn, TypeOK
  <2>3. Afoot' \subseteq Afoot
    BY <2>1, <2>2, NothingNewAfoot
  <2> QED
    BY <1>0, <2>1, <2>2, <2>3, CountQuiet DEF When
<1>6. ASSUME NEW r \in Runners, Unit(r) \/ Verify(r) PROVE CountInv'
  <2>1. still /\ UNCHANGED <<delivered, token, job>> /\ Settled
    BY <1>6 DEF Unit, Verify, clockVars, leaseVars, worldVars, historyVars
  <2>2. \A q \in Runners :
          \/ pc'[q] = pc[q]
          \/ pc[q] = "running" /\ pc'[q] \in {"ready", "done"}
    BY <1>0, <1>6 DEF Unit, Verify, TypeOK
  <2>3. Afoot' \subseteq Afoot
    BY <2>1, <2>2, NothingNewAfoot
  <2> QED
    BY <1>0, <2>1, <2>2, <2>3, CountQuiet DEF When, Settled
<1>7. ASSUME NEW r \in Runners, Deliver(r) PROVE CountInv'
  <2>1. still /\ UNCHANGED <<token, job>> /\ Settled /\ pc[r] = "ready" /\ job[r] \in Sends
    BY <1>0, <1>7 DEF Deliver, WorkOK, clockVars, leaseVars, historyVars
  <2>2. \A q \in Runners : pc'[q] = IF q = r THEN "done" ELSE pc[q]
    BY <1>0, <1>7 DEF Deliver, TypeOK
  <2>3. \/ delivered' = delivered
        \/ /\ token[job[r]] = {r}
           /\ \A b \in Sends :
                delivered'[b] = IF b = job[r] /\ delivered[b] = Never THEN now ELSE delivered[b]
    BY <1>0, <1>7 DEF Deliver, Guarded, TypeOK, worldVars
  <2>4. \A b \in Sends : When(b)' = When(b)
    BY <2>1, <2>3 DEF When
  <2>5. Afoot' \subseteq Afoot
    BY <2>1, <2>2, <2>3 DEF Afoot
  <2> QED
    BY <1>0, <2>1, <2>2, <2>4, <2>5, CountQuiet DEF Settled
<1>8. ASSUME NEW r \in Runners, Record(r) PROVE CountInv'
  <2>1. still /\ UNCHANGED delivered /\ Settled
    BY <1>8 DEF Record, RecordSent, RecordUnsent, clockVars, worldVars, historyVars
  <2>2. \A q \in Runners : \/ pc'[q] \in {"idle", "ticking"}
                           \/ pc'[q] = pc[q] /\ job'[q] = job[q]
    BY <1>0, <1>8 DEF Record, GoOn, TypeOK
  <2>3. \A b \in Sends : \A q \in Runners : token'[b] = {q} => token[b] = {q}
    <3>1. \A b \in Sends : token'[b] = token[b] \/ token'[b] = token[b] \ {r}
      BY <1>0, <1>8 DEF Record, TypeOK, Actions
    <3> QED
      BY <3>1 DEF OneHolder, Actions
  <2>4. Afoot' \subseteq Afoot
    BY <2>1, <2>2, <2>3, NothingNewAfoot
  <2> QED
    BY <1>0, <2>1, <2>2, <2>4, CountQuiet DEF When, Settled
<1>9. CASE Tick
  BY <1>0, <1>9, CountTick
<1>10. CASE SetLimit \/ SetPaused \/ UNCHANGED vars
  <2>1. still /\ UNCHANGED <<delivered, token, pc, job, snap, peers, slipped, capRead>>
    BY <1>10 DEF SetLimit, SetPaused, vars, clockVars, leaseVars, worldVars, historyVars,
       tickVars,
       executionVars
  <2>2. Afoot' \subseteq Afoot
    BY <2>1, NothingNewAfoot
  <2> QED
    BY <1>0, <2>1, <2>2, CountQuiet DEF When
<1>11. ASSUME NEW p \in Processes, Crash(p) PROVE CountInv'
  <2>1. still /\ UNCHANGED <<delivered, token, capRead>>
    BY <1>11 DEF Crash, clockVars, leaseVars, worldVars, historyVars
  <2>2. \A q \in Runners : \/ pc'[q] = "idle"
                           \/ /\ pc'[q] = pc[q] /\ job'[q] = job[q] /\ snap'[q] = snap[q]
                              /\ peers'[q] = peers[q] /\ slipped'[q] = slipped[q]
    BY <1>11 DEF Crash
  <2>3. Afoot' \subseteq Afoot
    BY <2>1, <2>2, NothingNewAfoot
  <2> QED
    BY <1>0, <2>1, <2>2, <2>3, CountQuiet DEF When
<1> QED
  BY <1>1, <1>2, <1>3, <1>4, <1>5, <1>6, <1>7, <1>8, <1>9, <1>10, <1>11 DEF Next

LEMMA DoneIsAfoot == Done \subseteq Afoot /\ \A a \in Done : a \in Sends /\ When(a) = delivered[a]
BY DEF Done, Afoot, When

LEMMA CountedWithinCap ==
  ASSUME TypeOK, CountInv
  PROVE  SendsWithinCap
<1> SUFFICES ASSUME NEW D \in SUBSET Done, D # {}, Within(D)
             PROVE  \E z \in D : Cardinality(D) <= grant[z] + Cardinality(missing[z] \cap D)
  BY DEF SendsWithinCap
<1>1. D \in SUBSET Afoot /\ Near(D)
  BY DoneIsAfoot DEF Within, Near
<1>2. PICK z \in D : D \ {z} \subseteq counting[z] \cup missing[z]
  BY <1>1 DEF CountInv, Chained
<1> DEFINE C == counting[z]
           M == missing[z] \cap D
<1>3. z \in Afoot /\ z \in Sends
  BY <1>1 DEF Afoot
<1>4. IsFiniteSet(Sends)
  BY FS_Subset, UsageCapsAssumption DEF Actions
<1>5. C \subseteq Sends /\ M \subseteq Sends /\ grant[z] \in Nat
  BY <1>3 DEF TypeOK
<1>6. IsFiniteSet(C) /\ IsFiniteSet(M) /\ IsFiniteSet(C \cap M)
  BY <1>4, <1>5, FS_Subset
<1>7. /\ IsFiniteSet(C \cup M)
      /\ Cardinality(C \cup M) = Cardinality(C) + Cardinality(M) - Cardinality(C \cap M)
  BY <1>6, FS_Union
<1>8. /\ IsFiniteSet((C \cup M) \cup {z})
      /\ \/ Cardinality((C \cup M) \cup {z}) = Cardinality(C \cup M)
         \/ Cardinality((C \cup M) \cup {z}) = Cardinality(C \cup M) + 1
  BY <1>7, FS_AddElement
<1>9. D \subseteq (C \cup M) \cup {z}
  BY <1>2
<1>10. IsFiniteSet(D) /\ Cardinality(D) <= Cardinality((C \cup M) \cup {z})
  BY <1>8, <1>9, FS_Subset
<1>11. /\ Cardinality(C) \in Nat /\ Cardinality(M) \in Nat /\ Cardinality(C \cap M) \in Nat
       /\ Cardinality(D) \in Nat
  BY <1>6, <1>10, FS_CardinalityType
<1>12. Cardinality(C) < grant[z]
  BY <1>3 DEF CountInv, GrantKept
<1>13. Cardinality(D) <= grant[z] + Cardinality(M)
  <2> HIDE DEF C, M
  <2> QED
    BY <1>5, <1>7, <1>8, <1>10, <1>11, <1>12
<1> QED
  BY <1>13

LEMMA LaterCounts ==
  ASSUME TypeOK, CountInv
  PROVE  LaterCountsEarlier
<1>1. ASSUME NEW a \in Done, NEW b \in Done, a # b, Within({a, b})
      PROVE  a \in counting[b] \cup missing[b] \/ b \in counting[a] \cup missing[a]
  <2>1. {a, b} \in SUBSET Afoot /\ {a, b} # {}
    BY DoneIsAfoot
  <2>2. Near({a, b})
    BY <1>1, DoneIsAfoot DEF Within, Near
  <2>3. PICK z \in {a, b} : {a, b} \ {z} \subseteq counting[z] \cup missing[z]
    BY <2>1, <2>2 DEF CountInv, Chained
  <2> QED
    BY <1>1, <2>3
<1>2. \A a \in Done : Cardinality(counting[a]) < grant[a]
  BY DoneIsAfoot DEF CountInv, GrantKept
<1> QED
  BY <1>1, <1>2 DEF LaterCountsEarlier

LEMMA SpacedAfterAll ==
  ASSUME TypeOK, CountInv
  PROVE  SpacedUnlessOverlapping
<1> SUFFICES ASSUME NEW a \in Sends, NEW b \in Sends, a # b, delivered[a] <= delivered[b],
                    delivered[b] # Never
             PROVE  \/ delivered[a] + Spacing <= delivered[b]
                    \/ a \in alongside[b] \cup missing[b]
                    \/ b \in alongside[a] \cup missing[a]
  BY DEF SpacedUnlessOverlapping
<1>1. delivered[a] \in Nat /\ delivered[b] \in Nat /\ Spacing \in Nat
  BY MomentsTyped
<1>2. delivered[a] # Never
  <2>1. delivered[b] <= now /\ now < Never
    BY MomentsTyped DEF CountInv, Recorded
  <2> QED
    BY <1>1, <2>1, MomentsTyped
<1>3. a \in Done /\ b \in Done
  BY <1>2 DEF Done
<1>4. Spaced(a, b) /\ When(a) = delivered[a] /\ When(b) = delivered[b]
  BY <1>3, DoneIsAfoot DEF CountInv, AllSpaced
<1> QED
  BY <1>1, <1>4 DEF Spaced

\* However sends, records, crashes, recoveries and changes of the limit interleave, the messages
\* of an hour exceed the cap that one of them was checked against only by those that no count
\* showed; of two messages of an hour one counted the other; and two are spaced unless one was in
\* flight or uncounted when the other was checked (facts_for, _in_flight, UsageLedger).
THEOREM LimitsOnSends == Spec => [](SendsWithinCap /\ LaterCountsEarlier /\ SpacedUnlessOverlapping)
<1>1. Sound /\ CountInv => SendsWithinCap /\ LaterCountsEarlier /\ SpacedUnlessOverlapping
  BY CountedWithinCap, LaterCounts, SpacedAfterAll DEF Sound, Typed
<1>2. SendInv => OneHolder
  BY DEF SendInv
<1> QED
  BY <1>1, <1>2, SoundInit, SoundNext, SendInit, SendNext, CountInit, CountNext, PTL DEF Spec,
     Sound

-----------------------------------------------------------------------------
(* Page views                                                              *)

\* The views that the executions under way may still make.
Granted ==
  {s \in Runners \X (1..MaxUnits) : job[s[1]] \in BrowserOnly /\ s[2] <= budget[s[1]]}

\* What was viewed within the hour, and what may still be, fit into one cap for every runner.
ViewsInv ==
  /\ \A v \in views : v.at <= now
  /\ \A r \in Runners : job[r] \in BrowserOnly => budget[r] <= UnitCap
  /\ ViewsLastHour + Cardinality(Granted) <= UnitCap * Cardinality(Runners)

\* The views granted to some of the runners.
GrantedTo(R) == {s \in Granted : s[1] \in R}

LEMMA GrantedBounded ==
  ASSUME TypeOK, LedgerFinite, \A r \in Runners : job[r] \in BrowserOnly => budget[r] <= UnitCap,
         NEW R \in SUBSET Runners
  PROVE  /\ IsFiniteSet(GrantedTo(R)) /\ Cardinality(GrantedTo(R)) \in Nat
         /\ Cardinality(R) \in Nat
         /\ Cardinality(GrantedTo(R)) <= Cardinality(R) * UnitCap
<1> DEFINE all == R \X (1..UnitCap)
<1>1. IsFiniteSet(1..UnitCap) /\ Cardinality(1..UnitCap) = UnitCap
  <2>1. UnitCap \in Nat /\ 1 \in Int /\ UnitCap \in Int
    BY UsageCapsAssumption
  <2>2. /\ IsFiniteSet(1..UnitCap)
        /\ Cardinality(1..UnitCap) = IF 1 > UnitCap THEN 0 ELSE UnitCap - 1 + 1
    BY <2>1, FS_Interval
  <2> QED
    BY <2>1, <2>2
<1>2. IsFiniteSet(R) /\ Cardinality(R) \in Nat
  BY FS_Subset, FS_CardinalityType, UsageCapsAssumption
<1>3. IsFiniteSet(all) /\ Cardinality(all) = Cardinality(R) * UnitCap
  BY <1>1, <1>2, FS_Product
<1>4. \A s \in GrantedTo(R) : s \in all
  <2> SUFFICES ASSUME NEW s \in GrantedTo(R) PROVE s \in all
    OBVIOUS
  <2>1. /\ s \in Runners \X (1..MaxUnits) /\ s[1] \in R /\ s[1] \in Runners /\ s[2] \in 1..MaxUnits
        /\ s[2] <= budget[s[1]] /\ budget[s[1]] <= UnitCap /\ s = <<s[1], s[2]>>
    BY DEF GrantedTo, Granted
  <2>2. budget[s[1]] \in Nat
    BY <2>1, UsageCapsAssumption DEF TypeOK
  <2>3. s[2] \in 1..UnitCap
    BY <2>1, <2>2, UsageCapsAssumption
  <2> QED
    BY <2>1, <2>3
<1>5. IsFiniteSet(GrantedTo(R)) /\ Cardinality(GrantedTo(R)) <= Cardinality(all)
  BY <1>3, <1>4, FS_Subset
<1> QED
  BY <1>2, <1>3, <1>5, FS_CardinalityType

LEMMA ViewsFinite ==
  ASSUME LedgerFinite
  PROVE  IsFiniteSet(LastHour) /\ ViewsLastHour \in Nat
<1>1. LastHour \subseteq views
  BY DEF LastHour
<1> QED
  BY <1>1, FS_Subset, FS_CardinalityType DEF LedgerFinite, ViewsLastHour

\* Steps that view no page and grant no views.
LEMMA ViewsQuiet ==
  ASSUME Sound, ViewsInv, LastHour' \subseteq LastHour, \A v \in views' : v.at <= now',
         \A r \in Runners : job'[r] \in BrowserOnly => job'[r] = job[r] /\ budget'[r] <= budget[r],
         \A r \in Runners : budget'[r] \in Nat
  PROVE  ViewsInv'
<1>0. TypeOK /\ LedgerFinite /\ UnitCap \in Nat
  BY UsageCapsAssumption DEF Sound, Typed
<1>1. \A r \in Runners : budget[r] \in Nat
  BY <1>0, UsageCapsAssumption DEF TypeOK
<1>2. \A r \in Runners : job'[r] \in BrowserOnly => budget'[r] <= UnitCap
  BY <1>0, <1>1 DEF ViewsInv
<1>3. \A s \in Granted' : s \in Granted
  <2> SUFFICES ASSUME NEW s \in Granted' PROVE s \in Granted
    OBVIOUS
  <2>1. /\ s \in Runners \X (1..MaxUnits) /\ s[1] \in Runners /\ s[2] \in Nat
        /\ job'[s[1]] \in BrowserOnly /\ s[2] <= budget'[s[1]]
    BY UsageCapsAssumption DEF Granted
  <2> QED
    BY <1>1, <2>1 DEF Granted
<1>4. Granted = GrantedTo(Runners)
  BY DEF Granted, GrantedTo
<1>5. IsFiniteSet(Granted) /\ Cardinality(Granted) \in Nat /\ Cardinality(Runners) \in Nat
  BY <1>0, <1>4, GrantedBounded DEF ViewsInv
<1>6. /\ IsFiniteSet(Granted') /\ Cardinality(Granted') <= Cardinality(Granted)
      /\ IsFiniteSet(LastHour') /\ Cardinality(LastHour') <= Cardinality(LastHour)
  BY <1>0, <1>3, <1>5, ViewsFinite, FS_Subset
<1>7. /\ Cardinality(Granted') \in Nat /\ Cardinality(LastHour') \in Nat
      /\ Cardinality(LastHour) \in Nat /\ UnitCap * Cardinality(Runners) \in Nat
  BY <1>0, <1>5, <1>6, ViewsFinite, FS_CardinalityType DEF ViewsLastHour
<1>8. ViewsLastHour' + Cardinality(Granted') <= UnitCap * Cardinality(Runners)
  BY <1>5, <1>6, <1>7 DEF ViewsInv, ViewsLastHour
<1> QED
  BY <1>2, <1>8 DEF ViewsInv

\* What is granted to one runner is within what the others leave of the cap.
LEMMA ViewsLook ==
  ASSUME Sound, ViewsInv, NEW r \in Runners, NEW a \in Actions, Look(r, a)
  PROVE  ViewsInv'
<1>0. TypeOK /\ LedgerFinite /\ UnitCap \in Nat /\ MaxUnits \in Nat
  BY UsageCapsAssumption DEF Sound, Typed
<1>1. PICK b \in 1..MaxUnits : MayUse(b) /\ budget' = [budget EXCEPT ![r] = b]
  BY DEF Look
<1>2. /\ views' = views /\ now' = now /\ WaitsUntil(r, a) = {}
      /\ \A q \in Runners : /\ job'[q] = IF q = r THEN a ELSE job[q]
                            /\ budget'[q] = IF q = r THEN b ELSE budget[q]
  BY <1>0, <1>1 DEF Look, TypeOK, clockVars, ledgerVars
<1>3. LastHour' = LastHour /\ ViewsLastHour' = ViewsLastHour
  BY <1>2 DEF LastHour, ViewsLastHour
<1>4. \A q \in Runners : budget[q] \in Nat /\ budget'[q] \in Nat
  BY <1>0, <1>1, <1>2 DEF TypeOK
<1> DEFINE others == GrantedTo(Runners \ {r})
           mine == {r} \X (1..b)
<1>5. \A v \in views' : v.at <= now'
  BY <1>2 DEF ViewsInv
<1>6. /\ IsFiniteSet(others) /\ Cardinality(others) \in Nat
      /\ Cardinality(others) <= Cardinality(Runners \ {r}) * UnitCap
      /\ Cardinality(Runners \ {r}) \in Nat
  BY <1>0, GrantedBounded DEF ViewsInv
<1>7. ViewsLastHour \in Nat
  BY <1>0, ViewsFinite
<1>8. CASE a \in BrowserOnly
  <2>1. ViewsLastHour < UnitCap
    <3>1. ~(ViewsLastHour >= UnitCap)
      BY <1>2, <1>8 DEF WaitsUntil, UntilViews
    <3> QED
      BY <1>0, <1>7, <3>1
  <2>2. ViewsLastHour + b <= UnitCap
    BY <1>0, <1>1, <1>7, <2>1 DEF MayUse
  <2>3. \A q \in Runners : job'[q] \in BrowserOnly => budget'[q] <= UnitCap
    BY <1>0, <1>1, <1>2, <1>7, <2>2 DEF ViewsInv
  <2>4. \A s \in Granted' : s \in others \cup mine
    <3> SUFFICES ASSUME NEW s \in Granted' PROVE s \in others \cup mine
      OBVIOUS
    <3>1. /\ s \in Runners \X (1..MaxUnits) /\ s[1] \in Runners /\ s[2] \in 1..MaxUnits
          /\ job'[s[1]] \in BrowserOnly /\ s[2] <= budget'[s[1]] /\ s = <<s[1], s[2]>>
      BY DEF Granted
    <3>2. CASE s[1] = r
      BY <1>0, <1>1, <1>2, <3>1, <3>2
    <3>3. CASE s[1] # r
      BY <1>2, <3>1, <3>3 DEF GrantedTo, Granted
    <3> QED
      BY <3>2, <3>3
  <2>5. IsFiniteSet(mine) /\ Cardinality(mine) = b
    <3>1. IsFiniteSet({r}) /\ Cardinality({r}) = 1
      BY FS_Singleton
    <3>2. IsFiniteSet(1..b) /\ Cardinality(1..b) = b
      <4>1. 1 \in Int /\ b \in Int /\ ~(1 > b) /\ b - 1 + 1 = b
        BY <1>0, <1>1
      <4> QED
        BY <4>1, FS_Interval
    <3>3. IsFiniteSet(mine) /\ Cardinality(mine) = Cardinality({r}) * Cardinality(1..b)
      BY <3>1, <3>2, FS_Product
    <3> QED
      BY <1>0, <1>1, <3>1, <3>2, <3>3
  <2>6. /\ IsFiniteSet(others \cup mine)
        /\ Cardinality(others \cup mine)
             = Cardinality(others) + Cardinality(mine) - Cardinality(others \cap mine)
    BY <1>6, <2>5, FS_Union
  <2>7. Cardinality(others \cap mine) \in Nat
    BY <1>6, FS_Subset, FS_CardinalityType
  <2>8. IsFiniteSet(Granted') /\ Cardinality(Granted') <= Cardinality(others \cup mine)
    BY <2>4, <2>6, FS_Subset
  <2>9. Cardinality(Granted') \in Nat
    BY <2>8, FS_CardinalityType
  <2>10. Cardinality(Runners \ {r}) = Cardinality(Runners) - 1 /\ Cardinality(Runners) \in Nat
    BY FS_RemoveElement, FS_CardinalityType, UsageCapsAssumption
  <2>11. ViewsLastHour + Cardinality(Granted') <= UnitCap * Cardinality(Runners)
    <3>1. ViewsLastHour + Cardinality(Granted')
            <= (Cardinality(Runners) - 1) * UnitCap + UnitCap
      <4> DEFINE g == Cardinality(Granted')
                 o == Cardinality(others)
                 m == (Cardinality(Runners) - 1) * UnitCap
      <4>1. o <= m /\ m \in Int /\ g <= o + b
        <5>1. m \in Int
          BY <1>0, <2>10
        <5>2. o <= m
          BY <1>6, <2>10
        <5>3. g <= o + b
          BY <1>1, <1>0, <1>6, <2>5, <2>6, <2>7, <2>8, <2>9
        <5> QED
          BY <5>1, <5>2, <5>3
      <4>2. o \in Nat /\ g \in Nat /\ b \in Nat
        BY <1>0, <1>1, <1>6, <2>9
      <4> HIDE DEF g, o, m
      <4>3. ViewsLastHour + g <= m + UnitCap
        BY <1>0, <1>7, <2>2, <4>1, <4>2
      <4> QED
        BY <4>3 DEF g, m
    <3>2. \A n \in Nat, u \in Nat : (n - 1) * u + u = u * n
      OBVIOUS
    <3> QED
      BY <1>0, <2>10, <3>1, <3>2
  <2> QED
    BY <1>3, <1>5, <2>3, <2>11 DEF ViewsInv
<1>9. CASE a \notin BrowserOnly
  <2>1. \A q \in Runners : job'[q] \in BrowserOnly => job'[q] = job[q] /\ budget'[q] <= budget[q]
    BY <1>2, <1>4, <1>9
  <2> QED
    BY <1>3, <1>4, <1>5, <2>1, ViewsQuiet
<1> QED
  BY <1>8, <1>9

\* A view uses up what was granted for it.
LEMMA ViewsUnit ==
  ASSUME Sound, ViewsInv, NEW r \in Runners, Unit(r), job[r] \in BrowserOnly
  PROVE  ViewsInv'
<1>0. TypeOK /\ LedgerFinite /\ UnitCap \in Nat /\ MaxUnits \in Nat
  BY UsageCapsAssumption DEF Sound, Typed
<1>1. PICK row : views' = views \cup {row} /\ row.at = now
  <2> DEFINE new == [at |-> now, number |-> Cardinality({v \in views : v.at = now}) + 1]
  <2>1. views' = views \cup {new}
    BY DEF Unit
  <2>2. new.at = now
    OBVIOUS
  <2> QED
    BY <2>1, <2>2
<1>2. /\ now' = now /\ job' = job /\ budget[r] > 0
      /\ \A q \in Runners : budget'[q] = IF q = r THEN budget[r] - 1 ELSE budget[q]
  BY <1>0 DEF Unit, TypeOK, clockVars
<1>3. \A q \in Runners : budget[q] \in 0..MaxUnits
  BY <1>0 DEF TypeOK
<1> DEFINE used == <<r, budget[r]>>
<1>4. used \in Granted
  BY <1>0, <1>2, <1>3 DEF Granted
<1>5. \A s \in Granted' : s \in Granted \ {used}
  <2> SUFFICES ASSUME NEW s \in Granted' PROVE s \in Granted /\ s # used
    OBVIOUS
  <2>1. /\ s \in Runners \X (1..MaxUnits) /\ s[1] \in Runners /\ s[2] \in 1..MaxUnits
        /\ job[s[1]] \in BrowserOnly /\ s[2] <= budget'[s[1]]
    BY <1>2 DEF Granted
  <2>2. CASE s[1] = r
    <3>1. s[2] <= budget[r] - 1
      BY <1>2, <2>1, <2>2
    <3>2. s[2] <= budget[r] /\ s[2] # budget[r]
      BY <1>0, <1>3, <2>1, <3>1
    <3> QED
      BY <2>1, <2>2, <3>2 DEF Granted
  <2>3. CASE s[1] # r
    BY <1>2, <2>1, <2>3 DEF Granted
  <2> QED
    BY <2>2, <2>3
<1>6. /\ IsFiniteSet(Granted) /\ Cardinality(Granted) \in Nat /\ Cardinality(Runners) \in Nat
  <2>1. Granted = GrantedTo(Runners)
    BY DEF Granted, GrantedTo
  <2> QED
    BY <1>0, <2>1, GrantedBounded DEF ViewsInv
<1>7. IsFiniteSet(Granted \ {used}) /\ Cardinality(Granted \ {used}) = Cardinality(Granted) - 1
  BY <1>4, <1>6, FS_RemoveElement
<1>8. IsFiniteSet(Granted') /\ Cardinality(Granted') <= Cardinality(Granted) - 1
  BY <1>5, <1>7, FS_Subset
<1>9. LastHour' \subseteq LastHour \cup {row}
  BY <1>1, <1>2 DEF LastHour
<1>10. IsFiniteSet(LastHour) /\ Cardinality(LastHour) \in Nat
  BY <1>0, ViewsFinite DEF ViewsLastHour
<1>11. /\ IsFiniteSet(LastHour \cup {row})
       /\ \/ Cardinality(LastHour \cup {row}) = Cardinality(LastHour)
          \/ Cardinality(LastHour \cup {row}) = Cardinality(LastHour) + 1
  BY <1>10, FS_AddElement
<1>12. IsFiniteSet(LastHour') /\ Cardinality(LastHour') <= Cardinality(LastHour \cup {row})
  BY <1>9, <1>11, FS_Subset
<1>13. Cardinality(Granted') \in Nat /\ Cardinality(LastHour') \in Nat
  BY <1>8, <1>12, FS_CardinalityType
<1>14. ViewsLastHour' + Cardinality(Granted') <= UnitCap * Cardinality(Runners)
  <2>1. UnitCap * Cardinality(Runners) \in Nat
    BY <1>0, <1>6
  <2>2. Cardinality(LastHour) + Cardinality(Granted) <= UnitCap * Cardinality(Runners)
    BY DEF ViewsInv, ViewsLastHour
  <2>3. Cardinality(LastHour') <= Cardinality(LastHour) + 1
    BY <1>10, <1>11, <1>12, <1>13
  <2>4. Cardinality(LastHour') + Cardinality(Granted') <= UnitCap * Cardinality(Runners)
    BY <1>6, <1>8, <1>10, <1>13, <2>1, <2>2, <2>3
  <2> QED
    BY <2>4 DEF ViewsLastHour
<1>15. \A v \in views' : v.at <= now'
  <2>1. now <= now
    BY <1>0, MomentsTyped
  <2> QED
    BY <1>1, <1>2, <2>1 DEF ViewsInv
<1>16. \A q \in Runners : job'[q] \in BrowserOnly => budget'[q] <= UnitCap
  BY <1>0, <1>2, <1>3 DEF ViewsInv
<1> QED
  BY <1>14, <1>15, <1>16 DEF ViewsInv

LEMMA ViewsInit == Init => ViewsInv
<1> SUFFICES ASSUME Init PROVE ViewsInv
  OBVIOUS
<1>1. LastHour = {} /\ Granted = {}
  <2>1. \A r \in Runners : job[r] = NoAction
    BY DEF Init
  <2> QED
    BY <2>1, UsageCapsAssumption DEF Init, LastHour, Granted
<1>2. ViewsLastHour = 0 /\ Cardinality(Granted) = 0
  BY <1>1, FS_EmptySet DEF ViewsLastHour
<1>3. UnitCap * Cardinality(Runners) \in Nat
  BY FS_CardinalityType, UsageCapsAssumption
<1>4. views = {} /\ \A r \in Runners : job[r] \notin BrowserOnly
  BY UsageCapsAssumption DEF Init
<1> QED
  BY <1>2, <1>3, <1>4 DEF ViewsInv

LEMMA ViewsNext ==
  ASSUME ApiFirst = {}
  PROVE  Sound /\ Sound' /\ ViewsInv /\ [Next]_vars => ViewsInv'
<1> SUFFICES ASSUME Sound, Sound', ViewsInv, [Next]_vars PROVE ViewsInv'
  OBVIOUS
<1>0. TypeOK /\ TypeOK'
  BY DEF Sound, Typed
<1>1. /\ \A q \in Runners : budget[q] \in Nat
      /\ \A q \in Runners : budget'[q] \in Nat
  <2>1. MaxUnits \in Nat
    BY UsageCapsAssumption
  <2>2. \A q \in Runners : budget[q] \in 0..MaxUnits
    BY <1>0 DEF TypeOK
  <2>3. \A q \in Runners : budget'[q] \in 0..MaxUnits
    BY <1>0 DEF TypeOK
  <2> QED
    BY <2>1, <2>2, <2>3
<1>2. ASSUME views' = views, now' = now,
             \A q \in Runners : job'[q] \in BrowserOnly
                                  => job'[q] = job[q] /\ budget'[q] <= budget[q]
      PROVE  ViewsInv'
  <2>1. LastHour' = LastHour /\ \A v \in views' : v.at <= now'
    BY <1>2 DEF LastHour, ViewsInv
  <2> QED
    BY <1>1, <1>2, <2>1, ViewsQuiet
<1>3. ASSUME NEW r \in Runners, StartTick(r) PROVE ViewsInv'
  <2>1. UNCHANGED <<views, now, job, budget>>
    BY <1>3 DEF StartTick, ledgerVars, clockVars, executionVars
  <2> QED
    BY <1>1, <1>2, <2>1
<1>4. ASSUME NEW r \in Runners, NEW a \in Actions, PassOver(r, a) PROVE ViewsInv'
  <2>1. UNCHANGED <<views, now, job, budget>>
    BY <1>4 DEF PassOver, ledgerVars, clockVars, executionVars
  <2> QED
    BY <1>1, <1>2, <2>1
<1>5. ASSUME NEW r \in Runners, NEW a \in Actions, Look(r, a) PROVE ViewsInv'
  BY <1>5, ViewsLook
<1>6. ASSUME NEW r \in Runners, Claim(r) PROVE ViewsInv'
  <2>1. UNCHANGED <<views, now>>
    BY <1>6 DEF Claim, ledgerVars, clockVars
  <2>2. \A q \in Runners : \/ job'[q] = job[q] /\ budget'[q] = budget[q]
                           \/ job'[q] = NoAction
    BY <1>0, <1>6 DEF Claim, TypeOK
  <2> QED
    BY <1>1, <1>2, <2>1, <2>2, UsageCapsAssumption
<1>7. ASSUME NEW r \in Runners, Unit(r) PROVE ViewsInv'
  <2>1. job[r] \in BrowserOnly
    BY <1>7 DEF Unit
  <2> QED
    BY <1>7, <2>1, ViewsUnit
<1>8. ASSUME NEW r \in Runners, Verify(r) PROVE ViewsInv'
  <2>1. UNCHANGED <<views, now, job>> /\ budget' = [budget EXCEPT ![r] = 0]
    BY <1>8 DEF Verify, ledgerVars, clockVars
  <2>2. \A q \in Runners : budget'[q] = budget[q] \/ budget'[q] = 0
    BY <1>0, <2>1 DEF TypeOK
  <2> QED
    BY <1>1, <1>2, <2>1, <2>2
<1>9. ASSUME NEW r \in Runners, Deliver(r) PROVE ViewsInv'
  <2>1. UNCHANGED <<views, now, job, budget>>
    BY <1>9 DEF Deliver, ledgerVars, clockVars
  <2> QED
    BY <1>1, <1>2, <2>1
<1>10. ASSUME NEW r \in Runners, Record(r) PROVE ViewsInv'
  <2>1. UNCHANGED <<views, now>>
    BY <1>10 DEF Record, RecordSent, RecordUnsent, ledgerVars, clockVars
  <2>2. \A q \in Runners : \/ job'[q] = job[q] /\ budget'[q] = budget[q]
                           \/ job'[q] = NoAction
    BY <1>0, <1>10 DEF Record, TypeOK
  <2> QED
    BY <1>1, <1>2, <2>1, <2>2, UsageCapsAssumption
<1>11. CASE SetLimit \/ SetPaused \/ UNCHANGED vars
  <2>1. UNCHANGED <<views, now, job, budget>>
    BY <1>11 DEF SetLimit, SetPaused, vars, ledgerVars, clockVars, executionVars
  <2> QED
    BY <1>1, <1>2, <2>1
<1>12. CASE Tick
  <2>1. UNCHANGED <<views, job, budget>> /\ now' = now + 1
    BY <1>12 DEF Tick, ledgerVars, executionVars
  <2>2. \A v \in views : v.at \in Nat /\ v.at <= now
    BY <1>0, UsageCapsAssumption DEF TypeOK, ViewRows, Times, ViewsInv
  <2>3. LastHour' \subseteq LastHour /\ \A v \in views' : v.at <= now'
    BY <1>0, <2>1, <2>2, MomentsTyped DEF LastHour
  <2> QED
    BY <1>1, <2>1, <2>3, ViewsQuiet
<1>13. ASSUME NEW p \in Processes, Crash(p) PROVE ViewsInv'
  <2>1. UNCHANGED <<views, now>>
    BY <1>13 DEF Crash, ledgerVars, clockVars
  <2>2. \A q \in Runners : \/ job'[q] = job[q] /\ budget'[q] = budget[q]
                           \/ job'[q] = NoAction
    BY <1>13 DEF Crash
  <2> QED
    BY <1>1, <1>2, <2>1, <2>2, UsageCapsAssumption
<1> QED
  BY <1>3, <1>4, <1>5, <1>6, <1>7, <1>8, <1>9, <1>10, <1>11, <1>12, <1>13 DEF Next

\* Where every action that views pages is one that only a browser can serve, as on an account
\* without the API, the page views of an hour keep to one cap for each tick that runs at once, and
\* all limits hold (facts_for, _build_request, Pacer). The gate does not look at the page views
\* for an action that the API might serve, which is why the hypothesis is needed.
THEOREM LimitsHold ==
  ASSUME ApiFirst = {}
  PROVE  Spec => []WithinLimits
<1>1. Sound /\ CountInv /\ ViewsInv => WithinLimits
  <2> SUFFICES ASSUME Sound, CountInv, ViewsInv PROVE WithinLimits
    OBVIOUS
  <2>0. TypeOK /\ LedgerFinite
    BY DEF Sound, Typed
  <2>1. Granted = GrantedTo(Runners)
    BY DEF Granted, GrantedTo
  <2>2. /\ Cardinality(Granted) \in Nat /\ ViewsLastHour \in Nat
        /\ UnitCap * Cardinality(Runners) \in Nat
    BY <2>0, <2>1, GrantedBounded, ViewsFinite, UsageCapsAssumption DEF ViewsInv
  <2>3. ViewsWithinCap
    BY <2>2 DEF ViewsInv, ViewsWithinCap
  <2> QED
    BY <2>0, <2>3, CountedWithinCap, LaterCounts, SpacedAfterAll DEF WithinLimits
<1>2. SendInv => OneHolder
  BY DEF SendInv
<1>3. Sound /\ ViewsInv /\ [Next]_vars => ViewsInv'
  BY SoundNext, ViewsNext
<1> QED
  BY <1>1, <1>2, <1>3, SoundInit, SoundNext, SendInit, SendNext, CountInit, CountNext, ViewsInit,
     PTL
     DEF Spec, Sound
=============================================================================
