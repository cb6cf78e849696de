--------------------------- MODULE OutreachProofs ---------------------------
(***************************************************************************)
(* What the send path says of its messages is true, for any number of      *)
(* processes, actions and attempts, and what becomes of an outreach.       *)
(*                                                                         *)
(* An adapter reports a delivery only of what is in the thread, and        *)
(* worker._record is the only handler that writes a success.  So the       *)
(* ledger is true; and, as long as nobody edits a text that he approves,   *)
(* the send path implements DeliveryContract: an edit after an attempt     *)
(* makes a second message of the action, which the adapters do not find in *)
(* the thread.                                                             *)
(*                                                                         *)
(* No lead is left waiting for nothing, follow-ups come in order and end   *)
(* with the prospect's answer, and the prospect gets one first message.    *)
(* The last two are about one process: between the guard and the           *)
(* irreversible step the lease of the conversation may lapse and another   *)
(* process send another draft, and two processes may record an answer and  *)
(* send at the same time.                                                  *)
(***************************************************************************)
EXTENDS SendPathProofs

(***************************************************************************)
(* Reports are true.                                                       *)
(***************************************************************************)
\* A delivery that an adapter reported, not recorded yet, is in the thread.
ReportsAreTrue ==
  \A p \in Workers :
    res[p] \in Delivered => pc[p] \in {"done", "released"} /\ sent[Mine(p)] > 0

RInv == IInv /\ ReportsAreTrue

\* Nothing is reported at the start.
LEMMA ReportsInit == Init => ReportsAreTrue
BY DEF Init, ReportsAreTrue, NoResult, Delivered

\* Steps that send nothing, after which each process reports what it did before or nothing.
LEMMA QuietReports ==
  ASSUME RInv, UNCHANGED sent,
         \A q \in Workers : \/ UNCHANGED <<pc[q], job[q], res[q], req[q]>>
                            \/ res'[q] \notin Delivered
  PROVE  ReportsAreTrue'
BY DEF RInv, ReportsAreTrue, Mine

\* A process that ends its work, or dies, forgets its report.
LEMMA IdleReports ==
  ASSUME RInv, UNCHANGED sent, NEW p \in Workers, BecomesIdle(p)
  PROVE  ReportsAreTrue'
<1>1. \A q \in Workers \ {p} : UNCHANGED <<pc[q], job[q], res[q], req[q]>>
  BY DEF BecomesIdle, RInv, IInv, TypeOK, ProcessTypeOK
<1>2. res'[p] \notin Delivered
  BY DEF BecomesIdle, RInv, IInv, TypeOK, ProcessTypeOK, NoResult, Delivered
<1> QED
  BY <1>1, <1>2, QuietReports

\* Planning and claiming start without a report.
LEMMA BeginReports ==
  ASSUME RInv, NEW p \in Workers, Plan(p) \/ Start(p)
  PROVE  ReportsAreTrue'
<1>1. ASSUME pc[p] = "idle", UNCHANGED <<sent, res>>,
             \A q \in Workers \ {p} : UNCHANGED <<pc[q], job[q], req[q]>>
      PROVE  ReportsAreTrue'
  <2>1. res'[p] \notin Delivered
    BY <1>1 DEF RInv, ReportsAreTrue
  <2> QED
    BY <1>1, <2>1, QuietReports
<1>2. ASSUME NEW a \in Actions, Compose(p, a) \/ Claim(p, a) PROVE ReportsAreTrue'
  BY <1>1, <1>2 DEF Compose, Claim, Candidate, threadVars, RInv, IInv, TypeOK, ProcessTypeOK
<1>3. CASE HandleReply(p)
  BY <1>1, <1>3 DEF HandleReply, threadVars, RInv, IInv, TypeOK, ProcessTypeOK
<1>4. CASE Queue(p) \/ CompositionFails(p) \/ HandOff(p)
  BY <1>4, IdleReports DEF Queue, CompositionFails, HandOff, threadVars
<1>5. ASSUME NEW S, StartTick(p, S) PROVE ReportsAreTrue'
  BY <1>5, QuietReports DEF StartTick, processVars, threadVars
<1>6. ASSUME NEW a \in Actions, Demote(p, a) \/ Deny(p, a) PROVE ReportsAreTrue'
  BY <1>6, QuietReports DEF Demote, Deny, processVars, threadVars
<1> QED
  BY <1>2, <1>3, <1>4, <1>5, <1>6 DEF Plan, Start

\* A step of an execution whose report, if it tells of a delivery, is true of the thread.
LEMMA OneReports ==
  ASSUME RInv, NEW p \in Workers, UNCHANGED <<sent, job, req>>,
         \A q \in Workers \ {p} : UNCHANGED <<pc[q], res[q]>>,
         res'[p] \in Delivered => pc'[p] \in {"done", "released"} /\ sent[Mine(p)] > 0
  PROVE  ReportsAreTrue'
BY DEF RInv, ReportsAreTrue, Mine

\* The executor and the adapters report a delivery only of a message that they saw.
LEMMA ExecuteReports ==
  ASSUME RInv, NEW p \in Workers, Execute(p), ~Send(p)
  PROVE  ReportsAreTrue'
<1>1. CASE Record(p)
  BY <1>1, IdleReports DEF Record, threadVars
<1>2. CASE SkipApi(p) \/ LeaseConversation(p) \/ Release(p)
  BY <1>2, OneReports DEF SkipApi, LeaseConversation, Release, threadVars, RInv,
                          ReportsAreTrue, Mine, IInv, TypeOK, ProcessTypeOK
<1>3. CASE NoChannel(p) \/ LeaseRefused(p)
  BY <1>3, OneReports DEF NoChannel, LeaseRefused, Ends, threadVars, RInv,
                          ReportsAreTrue, Delivered, IInv, TypeOK, ProcessTypeOK
<1>4. CASE FailEarly(p)
  <2>1. PICK r \in EarlyFailures(chan[p]) : EndsOrFallsBack(p, r, Unread)
    BY <1>4 DEF FailEarly
  <2>2. r \notin Delivered
    BY DEF EarlyFailures, Delivered
  <2>3. res' = [res EXCEPT ![p] = r] /\ \E x : pc' = [pc EXCEPT ![p] = x]
    BY <2>1 DEF EndsOrFallsBack, Ends
  <2> QED
    BY <1>4, <2>2, <2>3, OneReports DEF FailEarly, threadVars, RInv, IInv, TypeOK,
                                        ProcessTypeOK
<1>5. CASE ReadThread(p)
  <2>1. PICK v \in ReadVerdicts(p, Snapshot) :
          IF v = "typed" THEN pc' = [pc EXCEPT ![p] = "typed"] /\ UNCHANGED res
          ELSE pc' = [pc EXCEPT ![p] = "done"] /\ res' = [res EXCEPT ![p] = v]
    BY <1>5 DEF ReadThread, Ends
  <2>2. v \in Delivered => sent[Mine(p)] > 0
    BY DEF ReadVerdicts, Snapshot, Delivered
  <2>3. res'[p] \in Delivered => pc'[p] = "done" /\ v \in Delivered
    BY <1>5, <2>1 DEF ReadThread, RInv, ReportsAreTrue, IInv, TypeOK, ProcessTypeOK
  <2> QED
    BY <1>5, <2>1, <2>2, <2>3, OneReports DEF ReadThread, threadVars, RInv, IInv,
                                              TypeOK, ProcessTypeOK
<1>6. CASE VerifyOverApi(p)
  BY <1>6, OneReports DEF VerifyOverApi, Ends, threadVars, RInv, ReportsAreTrue, IInv,
                          TypeOK, ProcessTypeOK
<1>7. CASE CheckGuard(p)
  BY <1>7, OneReports DEF CheckGuard, Ends, threadVars, RInv, ReportsAreTrue, Delivered,
                          IInv, TypeOK, ProcessTypeOK
<1> QED
  BY <1>1, <1>2, <1>3, <1>4, <1>5, <1>6, <1>7 DEF Execute

\* A step of sending: the text was not in the thread, and is delivered or is not.
SendsOnce(p) ==
  /\ sent[Mine(p)] = 0
  /\ \/ UNCHANGED sent
     \/ sent' = [sent EXCEPT ![Mine(p)] = 1]

\* What Send does to the thread, and that it claims a delivery only if it made one.
LEMMA SendReport ==
  ASSUME RInv, NEW p \in Workers, Send(p)
  PROVE  SendsOnce(p) /\ ReportsAreTrue'
<1>1. Mine(p) \in Bubbles /\ UNCHANGED <<job, req>> /\ Mine(p)' = Mine(p)
  BY DEF Send, RInv, Mine, Bubbles, IInv, TypeOK, ProcessTypeOK, Requests, Holding
<1>2. sent[Mine(p)] = 0
  BY DEF Send, RInv, IInv, DeliveryInvariant, LooksBeforeTyping
<1>3. PICK d \in BOOLEAN :
        /\ IF d THEN Deliver(p) ELSE UNCHANGED <<sent, ourEchoes>>
        /\ \E r \in SendReports(chan[p], d) :
             \E s \in {Unread} \cup (IF r = "SUCCESS" THEN {} ELSE {saw[p]}) :
               EndsOrFallsBack(p, r, s)
  BY DEF Send
<1>4. PICK r \in SendReports(chan[p], d) : \E s : EndsOrFallsBack(p, r, s)
  BY <1>3
<1>5. r \in Delivered => d /\ ~FallsBack(p, r)
  BY DEF SendReports, EarlyFailures, Delivered, FallsBack, WriteFallback
<1>6. SendsOnce(p)
  BY <1>1, <1>2, <1>3 DEF SendsOnce, Deliver, RInv, IInv, TypeOK, ThreadTypeOK
<1>7. /\ res' = [res EXCEPT ![p] = r]
      /\ r \in Delivered => pc' = [pc EXCEPT ![p] = "done"]
      /\ \E x : pc' = [pc EXCEPT ![p] = x]
  BY <1>4, <1>5 DEF EndsOrFallsBack, Ends
<1>8. d => sent'[Mine(p)] > 0
  BY <1>1, <1>3 DEF Deliver, RInv, IInv, TypeOK, ThreadTypeOK
<1>9. ReportsAreTrue'
  <2> SUFFICES ASSUME NEW q \in Workers, res'[q] \in Delivered
               PROVE  pc'[q] \in {"done", "released"} /\ sent'[Mine(q)'] > 0
    BY DEF ReportsAreTrue
  <2>1. CASE q = p
    BY <1>1, <1>5, <1>7, <1>8, <2>1 DEF Mine, RInv, IInv, TypeOK, ProcessTypeOK
  <2>2. CASE q # p
    <3>1. res[q] \in Delivered /\ pc'[q] = pc[q]
      BY <1>7, <2>2 DEF RInv, IInv, TypeOK, ProcessTypeOK
    <3>2. pc[q] \in {"done", "released"} /\ sent[Mine(q)] > 0
      BY <3>1 DEF RInv, ReportsAreTrue
    <3>3. Mine(q) \in Bubbles /\ Mine(q)' = Mine(q)
      BY <1>1, <3>2 DEF Mine, Bubbles, RInv, IInv, TypeOK, ProcessTypeOK, Requests, Holding
    <3>4. sent'[Mine(q)] > 0
      BY <1>6, <3>2, <3>3 DEF SendsOnce, RInv, IInv, TypeOK, ThreadTypeOK
    <3> QED
      BY <3>1, <3>2, <3>3, <3>4
  <2> QED
    BY <2>1, <2>2
<1> QED
  BY <1>6, <1>9

\* Webhooks, the operator, people, crashes and time leave the reports alone.
LEMMA OutsideReports ==
  ASSUME RInv, (\E p \in Workers : Observe(p)) \/ Operate \/ Environment
  PROVE  ReportsAreTrue'
<1>1. ASSUME UNCHANGED <<sent, processVars>> PROVE ReportsAreTrue'
  BY <1>1, QuietReports DEF processVars
<1>2. ASSUME NEW p \in Workers, Observe(p) PROVE ReportsAreTrue'
  BY <1>1, <1>2 DEF Observe, InboundEvent, EchoOfOurs, EchoOfHuman, IgnoreEcho, threadVars
<1>3. CASE Operate
  BY <1>1, <1>3
     DEF Operate, ExpireApproval, Approve, Reject, SetMode, ClaimConversation, ReleaseConversation,
         Suppress, HaltLane, ResumeLane, threadVars
<1>4. CASE Environment
  <2>1. ASSUME NEW p \in Workers, Crash(p) PROVE ReportsAreTrue'
    BY <2>1, IdleReports DEF Crash, threadVars
  <2> QED
    BY <1>1, <1>4, <2>1
       DEF Environment, HumanWrites, ProspectWrites, CooldownEnds, RowAges, ReleaseHold,
           LeaseTimeout, HoldTimeout, threadVars
<1> QED
  BY <1>2, <1>3, <1>4

\* What adapters report stays true until it is recorded.
LEMMA ReportsStep == RInv /\ [Next]_vars => RInv'
<1> SUFFICES ASSUME RInv, [Next]_vars PROVE ReportsAreTrue'
  BY InvStep DEF RInv
<1>1. CASE UNCHANGED vars
  BY <1>1, QuietReports DEF vars, threadVars, processVars
<1>2. ASSUME NEW p \in Workers, Execute(p) PROVE ReportsAreTrue'
  BY <1>2, ExecuteReports, SendReport
<1> QED
  BY <1>1, <1>2, BeginReports, OutsideReports DEF Next

(***************************************************************************)
(* Final statuses stand.                                                   *)
(***************************************************************************)
\* What a step may do to the statuses: a final one stands, and only those in S succeed.
Revises(S) ==
  \A a \in Actions :
    \/ status'[a] = status[a]
    \/ status[a] \notin Final /\ (status'[a] = "SUCCEEDED" => a \in S)

\* cancel_open_outbound() touches no verdict.
LEMMA CancelRevises ==
  ASSUME NEW st \in [Actions -> Statuses], NEW S, NEW a \in Actions
  PROVE  \/ CancelOpen(st, S)[a] = st[a]
         \/ st[a] \notin Final /\ CancelOpen(st, S)[a] = "CANCELLED"
BY DEF CancelOpen, OpenOutbound, AwaitingHuman, ParkedStatuses, Parked, Final

\* Everything but the recording of an outcome: no handler revises a final status, and none
\* gives the verdict `succeeded`.
LEMMA OthersRevise ==
  ASSUME RInv, Next, ~\E p \in Workers : Send(p) \/ Record(p)
  PROVE  UNCHANGED sent /\ Revises({})
<1>1. status \in [Actions -> Statuses]
  BY DEF RInv, IInv, TypeOK, QueueTypeOK
<1>2. ASSUME NEW S, status' = CancelOpen(status, S) PROVE Revises({})
  BY <1>1, <1>2, CancelRevises DEF Revises
<1>3. ASSUME NEW a \in Actions, NEW x, status' = [status EXCEPT ![a] = x],
             status[a] \notin Final, x # "SUCCEEDED"
      PROVE  Revises({})
  BY <1>1, <1>3 DEF Revises
<1>4. ASSUME UNCHANGED status PROVE Revises({})
  BY <1>4 DEF Revises
<1>5. ASSUME NEW p \in Workers, Plan(p) PROVE UNCHANGED sent /\ Revises({})
  <2>1. UNCHANGED sent
    BY <1>5 DEF Plan, Compose, HandleReply, Queue, CompositionFails, HandOff, threadVars
  <2>2. CASE Queue(p)
    <3>1. status' = status \/ \E x : status' = [status EXCEPT ![job[p]] = x] /\ x # "SUCCEEDED"
                                     /\ status[job[p]] = "ABSENT"
      BY <2>2 DEF Queue, EntryStatus
    <3>2. job[p] \in Actions
      BY <2>2 DEF Queue, RInv, IInv, TypeOK, ProcessTypeOK
    <3> QED
      BY <2>1, <3>1, <3>2, <1>3, <1>4 DEF Final
  <2>3. Queue(p) \/ UNCHANGED status \/ status' = CancelOpen(status, Actions)
    BY <1>5 DEF Plan, Compose, HandleReply, CompositionFails, HandOff, HumanTakesOver, queueVars
  <2> QED
    BY <2>1, <2>2, <2>3, <1>2, <1>4
<1>6. ASSUME NEW p \in Workers, Start(p) PROVE UNCHANGED sent /\ Revises({})
  <2>1. UNCHANGED sent
    BY <1>6 DEF Start, StartTick, Demote, Deny, Claim, threadVars
  <2>2. ASSUME NEW S \in SUBSET Orphans, StartTick(p, S) PROVE Revises({})
    BY <1>1, <2>2 DEF StartTick, Orphans, Revises, Final
  <2>3. ASSUME NEW a \in Actions, Demote(p, a) \/ Deny(p, a) \/ Claim(p, a) PROVE Revises({})
    BY <2>3, <1>3 DEF Demote, Deny, Claim, Candidate, Final
  <2> QED
    BY <1>6, <2>1, <2>2, <2>3 DEF Start
<1>7. ASSUME NEW p \in Workers, Execute(p) PROVE UNCHANGED sent /\ Revises({})
  <2>1. UNCHANGED <<sent, status>>
    BY <1>7 DEF Execute, SkipApi, NoChannel, LeaseConversation, LeaseRefused, FailEarly,
       ReadThread,
                VerifyOverApi, CheckGuard, Release, queueVars, threadVars
  <2> QED
    BY <2>1, <1>4
<1>8. ASSUME NEW p \in Workers, Observe(p) PROVE UNCHANGED sent /\ Revises({})
  <2>1. UNCHANGED sent /\ \/ UNCHANGED status
                          \/ \E S : status' = CancelOpen(status, S)
    BY <1>8 DEF Observe, InboundEvent, QueueOnInbound, EchoOfOurs, EchoOfHuman, IgnoreEcho,
                HumanTakesOver, queueVars, threadVars
  <2> QED
    BY <2>1, <1>2, <1>4
<1>9. CASE Operate
  <2>1. UNCHANGED sent
    BY <1>9 DEF Operate, ExpireApproval, Approve, Reject, SetMode, ClaimConversation,
                ReleaseConversation, Suppress, HaltLane, ResumeLane, threadVars
  <2>2. ASSUME NEW a \in Actions, ExpireApproval(a) \/ Approve(a) \/ Reject(a) PROVE Revises({})
    BY <2>2, <1>3 DEF ExpireApproval, Approve, Reject, AwaitingHuman, Final
  <2>3. ASSUME NEW c \in Channels, ResumeLane(c) PROVE Revises({})
    BY <1>1, <2>3 DEF ResumeLane, Revises, Parked, Final
  <2>4. \/ UNCHANGED status \/ status' = CancelOpen(status, Actions)
        \/ \E a \in Actions : ExpireApproval(a) \/ Approve(a) \/ Reject(a)
        \/ \E c \in Channels : ResumeLane(c)
    BY <1>9 DEF Operate, SetMode, ClaimConversation, ReleaseConversation, HumanTakesOver,
       Suppress,
                HaltLane, queueVars
  <2> QED
    BY <2>1, <2>2, <2>3, <2>4, <1>2, <1>4
<1>10. CASE Environment
  <2>1. UNCHANGED <<sent, status>>
    BY <1>10
       DEF Environment, HumanWrites, ProspectWrites, Crash, CooldownEnds, RowAges, ReleaseHold,
           LeaseTimeout, HoldTimeout, queueVars, threadVars
  <2> QED
    BY <2>1, <1>4
<1> QED
  BY <1>5, <1>6, <1>7, <1>8, <1>9, <1>10 DEF Next

\* What an adapter reported as delivered is in the thread and has its row.
LEMMA ReportedInThread ==
  ASSUME RInv, NEW p \in Workers, pc[p] = "released"
  PROVE  /\ job[p] \in Actions /\ status[job[p]] = "EXECUTING"
         /\ res[p] \in Delivered => WasSent(job[p]) /\ row[job[p]] # "none"
<1>1. job[p] \in Actions /\ status[job[p]] = "EXECUTING"
  BY HeldStatus DEF RInv, Holding
<1>2. CASE res[p] \in Delivered
  <2>1. PICK t \in Versions : Mine(p) = <<job[p], t>>
    BY DEF Mine, RInv, IInv, TypeOK, ProcessTypeOK, Requests
  <2>2. sent[<<job[p], t>>] > 0
    BY <1>2, <2>1 DEF RInv, ReportsAreTrue
  <2>3. /\ sent[<<job[p], "drafted">>] \in Nat
        /\ sent[<<job[p], "edited">>] \in Nat
    BY <1>1 DEF RInv, IInv, TypeOK, ThreadTypeOK, Bubbles, Versions
  <2>4. WasSent(job[p])
    BY <2>2, <2>3 DEF WasSent, Copies, Versions
  <2>5. row[job[p]] # "none"
    BY <1>1, <2>2 DEF RInv, IInv, DeliveryInvariant, IntentComesFirst
  <2> QED
    BY <1>1, <2>4, <2>5
<1> QED
  BY <1>1, <1>2

\* _record gives an action in execution its verdict, and cancels open ones; a success is what
\* the adapter reported.
LEMMA RecordRevises ==
  ASSUME RInv, NEW p \in Workers, Record(p)
  PROVE  UNCHANGED sent /\ Revises({a \in {job[p]} : res[p] \in Delivered})
<1> DEFINE a == job[p]
           verdict == Verdict(res[p], chan[p], AttemptsAfter(a, res[p]))
           judged == [status EXCEPT ![a] = verdict]
<1>1. a \in Actions /\ status[a] = "EXECUTING" /\ status \in [Actions -> Statuses]
  BY HeldStatus DEF Record, RInv, Holding
<1>2. UNCHANGED sent
  BY DEF Record, threadVars
<1>3. verdict \in Statuses /\ (verdict = "SUCCEEDED" => res[p] \in Delivered)
  BY DEF Verdict, Parked, Statuses, OpenOutbound, ParkedStatuses, AwaitingHuman, Final, Channels
<1>4. judged \in [Actions -> Statuses]
  BY <1>1, <1>3
<1>5. ASSUME NEW b \in Actions
      PROVE  judged[b] = status[b] \/ (b = a /\ (judged[b] = "SUCCEEDED" => res[p] \in Delivered))
  BY <1>1, <1>3
<1>6. \/ status' = judged
      \/ status' = CancelOpen(judged, Actions)
      \/ status' = QueueOnInbound(judged)
      \/ status' = QueueOnInbound(CancelOpen(judged, Actions))
  BY DEF Record
<1> HIDE DEF judged
<1>7. ASSUME NEW b \in Actions
      PROVE  status'[b] = judged[b] \/ (judged[b] \notin Final /\ status'[b] = "CANCELLED")
  <2>1. CancelOpen(judged, Actions) \in [Actions -> Statuses]
    BY <1>4, CancelOpenType
  <2> QED
    BY <1>4, <1>6, <2>1, CancelRevises DEF QueueOnInbound, Final
<1>8. status[a] \notin Final
  BY <1>1 DEF Final
<1>9. Revises({b \in {job[p]} : res[p] \in Delivered})
  BY <1>5, <1>7, <1>8 DEF Revises
<1> QED
  BY <1>2, <1>9

(***************************************************************************)
(* The ledger.                                                             *)
(***************************************************************************)
\* Every other handler adds nothing to the ledger, makes nothing a success and leaves the row of
\* a success as it is.
LEMMA LedgerKept ==
  ASSUME LedgerIsTrue, UNCHANGED counted, \A a \in Actions : WasSent(a) => WasSent(a)',
         Revises({}),
         \A a \in Actions : status[a] = "SUCCEEDED" /\ row[a] = "SENT" => row'[a] = "SENT"
  PROVE  LedgerIsTrue'
BY DEF LedgerIsTrue, Revises, Final

\* What was sent stays sent.
LEMMA SentStays ==
  ASSUME RInv, NEW p \in Workers, Send(p), NEW a \in Actions, WasSent(a)
  PROVE  WasSent(a)'
<1>1. SendsOnce(p) /\ Mine(p) \in Bubbles
  BY SendReport DEF Send, RInv, Mine, Bubbles, IInv, TypeOK, ProcessTypeOK, Requests, Holding
<1>2. /\ sent \in [Bubbles -> Nat] /\ <<a, "drafted">> \in Bubbles /\ <<a, "edited">> \in Bubbles
  BY DEF RInv, IInv, TypeOK, ThreadTypeOK, Bubbles, Versions
<1>3. \A b \in Bubbles : sent'[b] \in Nat /\ sent'[b] >= sent[b]
  BY <1>1, <1>2 DEF SendsOnce
<1> QED
  BY <1>2, <1>3 DEF WasSent, Copies

\* The handlers that touch no outcome.
LEMMA OthersLedger ==
  ASSUME RInv, LedgerIsTrue, Next, ~\E p \in Workers : Record(p)
  PROVE  LedgerIsTrue'
<1>1. Revises({}) /\ \A a \in Actions : WasSent(a) => WasSent(a)'
  <2>1. CASE \E p \in Workers : Send(p)
    BY <2>1, SentStays DEF Send, queueVars, Revises
  <2>2. CASE ~\E p \in Workers : Send(p)
    BY <2>2, OthersRevise DEF WasSent, Copies
  <2> QED
    BY <2>1, <2>2
<1>2. row \in [Actions -> RowStates]
  BY DEF RInv, IInv, TypeOK, RowTypeOK
<1>3. ASSUME NEW p \in Workers, Plan(p) \/ Start(p) PROVE UNCHANGED <<counted, row>>
  BY <1>3 DEF Plan, Compose, HandleReply, Queue, CompositionFails, HandOff, Start, StartTick,
              Demote, Deny, Claim, rowVars
<1>4. ASSUME NEW p \in Workers, Execute(p)
      PROVE  /\ UNCHANGED counted
             /\ \/ UNCHANGED row
                \/ row' = [row EXCEPT ![job[p]] = "PENDING"] /\ pc[p] \in Holding
  BY <1>4 DEF Execute, SkipApi, NoChannel, LeaseConversation, RecordIntent, LeaseRefused,
     FailEarly,
              ReadThread, VerifyOverApi, CheckGuard, Send, Release, rowVars, Holding
<1>5. ASSUME NEW p \in Workers, Observe(p)
      PROVE  UNCHANGED counted /\ (UNCHANGED row \/ \E a : row' = [row EXCEPT ![a] = "SENT"])
  BY <1>5 DEF Observe, InboundEvent, EchoOfOurs, EchoOfHuman, IgnoreEcho, rowVars
<1>6. Operate \/ Environment => UNCHANGED <<counted, row>>
  BY DEF Operate, ExpireApproval, Approve, Reject, SetMode, ClaimConversation,
     ReleaseConversation,
         Suppress, HaltLane, ResumeLane, Environment, HumanWrites, ProspectWrites, Crash,
         CooldownEnds, RowAges, ReleaseHold, LeaseTimeout, HoldTimeout, rowVars
<1>7. UNCHANGED counted
  BY <1>3, <1>4, <1>5, <1>6 DEF Next
<1>8. ASSUME NEW a \in Actions, status[a] = "SUCCEEDED", row[a] = "SENT" PROVE row'[a] = "SENT"
  <2>1. ASSUME NEW p \in Workers, Execute(p) PROVE row'[a] = "SENT"
    <3>1. pc[p] \in Holding => job[p] # a
      BY <1>8, HeldStatus DEF RInv
    <3> QED
      BY <1>2, <1>4, <1>8, <2>1, <3>1
  <2>2. ASSUME NEW p \in Workers, Observe(p) PROVE row'[a] = "SENT"
    BY <1>2, <1>5, <1>8, <2>2
  <2> QED
    BY <1>3, <1>6, <1>8, <2>1, <2>2 DEF Next
<1> QED
  BY <1>1, <1>7, <1>8, LedgerKept

\* _record writes the ledger, the row and the status of a delivery together.
LEMMA RecordLedger ==
  ASSUME RInv, LedgerIsTrue, NEW p \in Workers, Record(p)
  PROVE  LedgerIsTrue'
<1> DEFINE a == job[p]
<1>1. /\ a \in Actions /\ status[a] = "EXECUTING"
      /\ res[p] \in Delivered => WasSent(a) /\ row[a] # "none"
  BY ReportedInThread DEF Record
<1>2. UNCHANGED sent /\ Revises({b \in {a} : res[p] \in Delivered})
  BY RecordRevises
<1>3. counted' = IF res[p] \in Delivered /\ counted[a] = 0
                 THEN [counted EXCEPT ![a] = 1] ELSE counted
  BY DEF Record
<1>4. row' = [row EXCEPT ![a] = RowAfterSend(a, res[p])]
  BY DEF Record
<1>5. counted \in [Actions -> Nat] /\ row \in [Actions -> RowStates]
  BY DEF RInv, IInv, TypeOK, RowTypeOK
<1>6. \A b \in Actions : WasSent(b)' <=> WasSent(b)
  BY <1>2 DEF WasSent, Copies
<1>7. ASSUME NEW b \in Actions PROVE counted'[b] <= 1 /\ (counted'[b] = 1 => WasSent(b)')
  BY <1>1, <1>3, <1>5, <1>6 DEF LedgerIsTrue
<1>8. ASSUME NEW b \in Actions, status'[b] = "SUCCEEDED"
      PROVE  counted'[b] = 1 /\ row'[b] = "SENT"
  <2>1. CASE b = a /\ res[p] \in Delivered
    <3>1. row'[a] = "SENT"
      BY <1>1, <1>4, <1>5, <2>1 DEF RowAfterSend, Delivered, NotSent, NotPermitted
    <3>2. counted'[a] = 1
      BY <1>1, <1>3, <1>5, <2>1 DEF LedgerIsTrue
    <3> QED
      BY <2>1, <3>1, <3>2
  <2>2. CASE ~(b = a /\ res[p] \in Delivered)
    <3>1. status[b] = "SUCCEEDED" /\ b # a
      BY <1>1, <1>2, <1>8, <2>2 DEF Revises
    <3> QED
      BY <1>3, <1>4, <1>5, <3>1 DEF LedgerIsTrue
  <2> QED
    BY <2>1, <2>2
<1> QED
  BY <1>7, <1>8 DEF LedgerIsTrue

\* With any number of processes, actions and attempts, through crashes, retries and fallbacks:
\* the ledger that the caps are computed from counts an action at most once and only if it is in
\* the thread, and a success is counted and has its row marked as sent.
THEOREM LedgerHolds == Spec => []LedgerIsTrue
<1>1. Init => RInv /\ LedgerIsTrue
  BY TypeInit, InvInit, ReportsInit DEF RInv, IInv, Init, LedgerIsTrue
<1>2. RInv /\ LedgerIsTrue /\ [Next]_vars => (RInv /\ LedgerIsTrue)'
  <2> SUFFICES ASSUME RInv, LedgerIsTrue, [Next]_vars PROVE LedgerIsTrue'
    BY ReportsStep
  <2>1. CASE UNCHANGED vars
    BY <2>1 DEF vars, queueVars, rowVars, threadVars, LedgerIsTrue, WasSent, Copies
  <2> QED
    BY <2>1, OthersLedger, RecordLedger
<1> QED
  BY <1>1, <1>2, PTL DEF Spec

(***************************************************************************)
(* The delivery contract, without edits.                                   *)
(***************************************************************************)
CopiesOf == [a \in Actions |-> Copies(a)]

\* Without edits there is one version of every message, in the queue and in every request.
OneText ==
  /\ text = [a \in Actions |-> "drafted"]
  /\ \A p \in Workers : req[p].text = "drafted"
  /\ \A a \in Actions : sent[<<a, "edited">>] = 0

CInv == RInv /\ OneText

\* Only the operator changes a text, and a request takes its text from the queue.
LEMMA OneTextStep == Edits = FALSE /\ CInv /\ [Next]_vars => OneText'
<1> SUFFICES ASSUME Edits = FALSE, CInv, [Next]_vars PROVE OneText'
  OBVIOUS
<1>1. req \in [Workers -> Requests] /\ text \in [Actions -> Versions]
  BY DEF CInv, RInv, IInv, TypeOK, ProcessTypeOK, QueueTypeOK
<1>2. ASSUME NEW p \in Workers, NEW r, r.text = "drafted", UNCHANGED <<text, sent>>,
             req' \in {req, [req EXCEPT ![p] = r]}
      PROVE  OneText'
  BY <1>1, <1>2 DEF CInv, OneText
<1>3. ASSUME UNCHANGED <<text, sent, req>> PROVE OneText'
  BY <1>3 DEF CInv, OneText
<1>4. NoRequest.text = "drafted"
  BY DEF NoRequest
<1>5. ASSUME NEW p \in Workers, Plan(p) PROVE OneText'
  BY <1>2, <1>4, <1>5 DEF Plan, Compose, HandleReply, Queue, CompositionFails, HandOff,
     BecomesIdle,
                          queueVars, threadVars
<1>6. ASSUME NEW p \in Workers, Start(p) PROVE OneText'
  <2>1. ASSUME NEW a \in Actions, Claim(p, a) PROVE OneText'
    <3>1. PICK api \in BOOLEAN : req' = [req EXCEPT ![p] = Request(a, api)]
      BY <2>1 DEF Claim
    <3>2. Request(a, api).text = "drafted"
      BY DEF Request, CInv, OneText
    <3> QED
      BY <1>2, <2>1, <3>1, <3>2 DEF Claim, threadVars
  <2> QED
    BY <1>3, <1>6, <2>1 DEF Start, StartTick, Demote, Deny, processVars, threadVars
<1>7. ASSUME NEW p \in Workers, Execute(p) PROVE OneText'
  <2>1. CASE Record(p)
    BY <1>2, <1>4, <2>1 DEF Record, BecomesIdle, threadVars
  <2>2. CASE Send(p)
    <3>1. SendsOnce(p) /\ Mine(p) = <<job[p], "drafted">>
      BY <2>2, SendReport DEF CInv, OneText, Mine
    <3>2. \A a \in Actions : <<a, "edited">> \in Bubbles /\ <<a, "edited">> # Mine(p)
      BY <3>1 DEF Bubbles, Versions
    <3>3. \A a \in Actions : sent'[<<a, "edited">>] = sent[<<a, "edited">>]
      BY <3>1, <3>2 DEF SendsOnce, CInv, RInv, IInv, TypeOK, ThreadTypeOK
    <3> QED
      BY <2>2, <3>3 DEF Send, queueVars, CInv, OneText
  <2> QED
    BY <1>3, <1>7, <2>1, <2>2
       DEF Execute, SkipApi, NoChannel, LeaseConversation, LeaseRefused, FailEarly, ReadThread,
           VerifyOverApi, CheckGuard, Release, queueVars, threadVars
<1>8. ASSUME NEW p \in Workers, Observe(p) PROVE OneText'
  BY <1>3, <1>8 DEF Observe, InboundEvent, EchoOfOurs, EchoOfHuman, IgnoreEcho, queueVars,
                    processVars, threadVars
<1>9. CASE Operate
  <2>1. ASSUME NEW a \in Actions, Approve(a) PROVE UNCHANGED text
    BY <1>1, <2>1 DEF Approve
  <2> QED
    BY <1>3, <1>9, <2>1
       DEF Operate, ExpireApproval, Approve, Reject, SetMode, ClaimConversation,
           ReleaseConversation, Suppress, HaltLane, ResumeLane, queueVars, processVars, threadVars
<1>10. CASE Environment
  <2>1. ASSUME NEW p \in Workers, Crash(p) PROVE OneText'
    BY <1>2, <1>4, <2>1 DEF Crash, BecomesIdle, queueVars, threadVars
  <2> QED
    BY <1>3, <1>10, <2>1
       DEF Environment, HumanWrites, ProspectWrites, CooldownEnds, RowAges, ReleaseHold,
           LeaseTimeout, HoldTimeout, queueVars, processVars, threadVars
<1>11. CASE UNCHANGED vars
  BY <1>3, <1>11 DEF vars, queueVars, processVars, threadVars
<1> QED
  BY <1>5, <1>6, <1>7, <1>8, <1>9, <1>10, <1>11 DEF Next

\* Revised statuses are a Close of the contract, or nothing that it sees.
LEMMA CloseStep ==
  ASSUME UNCHANGED sent, NEW S, Revises(S), \A a \in S : Copies(a) = 1
  PROVE  [Contract!Next]_<<ContractVerdict, CopiesOf>>
<1> DEFINE closing == {a \in Actions : ContractVerdict'[a] # ContractVerdict[a]}
           succeeding == {a \in closing : ContractVerdict'[a] = "succeeded"}
<1>1. UNCHANGED CopiesOf /\ \A a \in Actions : Copies(a)' = Copies(a)
  BY DEF CopiesOf, Copies
<1>2. \A a \in Actions : ContractVerdict[a] = "open" <=> status[a] \notin Final
  BY DEF ContractVerdict, Final
<1>3. \A a \in Actions : ContractVerdict'[a] \in {"succeeded", "dropped", "open"}
                         /\ (ContractVerdict'[a] = "succeeded" <=> status'[a] = "SUCCEEDED")
  BY DEF ContractVerdict
<1>4. \A a \in closing : /\ status'[a] # status[a]
                         /\ ContractVerdict[a] = "open"
                         /\ ContractVerdict'[a] \in {"succeeded", "dropped"}
  BY <1>2, <1>3 DEF Revises, ContractVerdict
<1>5. \A a \in succeeding : Copies(a) = 1
  BY <1>3, <1>4 DEF Revises
<1>6. ContractVerdict' = [a \in Actions |->
        IF a \in succeeding THEN "succeeded" ELSE IF a \in closing THEN "dropped"
        ELSE ContractVerdict[a]]
  BY <1>4 DEF ContractVerdict
<1>7. CASE closing = {}
  BY <1>1, <1>6, <1>7 DEF ContractVerdict
<1>8. CASE closing # {}
  <2>1. Contract!Close(closing, succeeding)
    BY <1>1, <1>4, <1>5, <1>6, <1>8 DEF Contract!Close, CopiesOf
  <2>2. closing \in SUBSET Actions /\ succeeding \in SUBSET closing
    OBVIOUS
  <2> QED
    BY <2>1, <2>2 DEF Contract!Next
<1> QED
  BY <1>7, <1>8

\* A Send is a Deliver of the contract, or nothing that it sees.
LEMMA DeliverStep ==
  ASSUME CInv, NEW p \in Workers, Send(p)
  PROVE  [Contract!Next]_<<ContractVerdict, CopiesOf>>
<1>1. Mine(p) = <<job[p], "drafted">> /\ job[p] \in Actions /\ status[job[p]] = "EXECUTING"
  BY HeldStatus DEF Send, CInv, RInv, OneText, Mine, Holding
<1>2. UNCHANGED ContractVerdict
  BY DEF Send, queueVars, ContractVerdict
<1>3. SendsOnce(p)
  BY SendReport DEF CInv
<1>4. CASE UNCHANGED sent
  BY <1>2, <1>4 DEF CopiesOf, Copies
<1>5. CASE sent' = [sent EXCEPT ![Mine(p)] = 1]
  <2>1. \A a \in Actions : /\ <<a, "drafted">> \in Bubbles /\ <<a, "edited">> \in Bubbles
                           /\ <<a, "edited">> # Mine(p)
                           /\ <<a, "drafted">> = Mine(p) => a = job[p]
    BY <1>1 DEF Bubbles, Versions
  <2>2. sent \in [Bubbles -> Nat]
    BY DEF CInv, RInv, IInv, TypeOK, ThreadTypeOK
  <2>3. sent[<<job[p], "edited">>] = 0
    BY <1>1 DEF CInv, OneText
  <2>4. Copies(job[p]) = 0 /\ \A a \in Actions : a = job[p] => Copies(a)' = 1
    BY <1>1, <1>3, <1>5, <2>1, <2>2, <2>3 DEF SendsOnce, Copies
  <2>5. \A a \in Actions \ {job[p]} : Copies(a)' = Copies(a)
    BY <1>5, <2>1, <2>2 DEF Copies
  <2>6. CopiesOf' = [CopiesOf EXCEPT ![job[p]] = 1]
    BY <1>1, <2>4, <2>5 DEF CopiesOf
  <2>7. ContractVerdict[job[p]] = "open"
    BY <1>1 DEF ContractVerdict, Final
  <2>8. Contract!Deliver(job[p])
    BY <1>1, <1>2, <2>4, <2>6, <2>7 DEF Contract!Deliver, CopiesOf
  <2> QED
    BY <1>1, <2>8 DEF Contract!Next
<1> QED
  BY <1>3, <1>4, <1>5 DEF SendsOnce

\* With any number of processes, actions and attempts, the queue, the worker and the adapters
\* keep the delivery contract of every action, if no text is edited between two attempts: it
\* arrives at most once, never after its final verdict, and `succeeded` is the truth.
THEOREM ContractKept == ASSUME Edits = FALSE PROVE Spec => ImplementsContract
<1>1. Init => CInv
  BY TypeInit, InvInit, ReportsInit
     DEF CInv, RInv, IInv, OneText, Init, NoRequest, Bubbles, Versions
<1>2. CInv /\ [Next]_vars => CInv'
  BY ReportsStep, OneTextStep DEF CInv
<1>3. Init => Contract!Init
  BY DEF Init, Contract!Init, ContractVerdict, Copies, Bubbles, Versions, Final
<1>4. CInv /\ [Next]_vars => [Contract!Next]_<<ContractVerdict, CopiesOf>>
  <2> SUFFICES ASSUME CInv, [Next]_vars PROVE [Contract!Next]_<<ContractVerdict, CopiesOf>>
    OBVIOUS
  <2>1. CASE UNCHANGED vars
    <3>1. UNCHANGED sent /\ Revises({})
      BY <2>1 DEF vars, queueVars, threadVars, Revises
    <3> QED
      BY <3>1, CloseStep
  <2>2. ASSUME NEW p \in Workers, Send(p) PROVE [Contract!Next]_<<ContractVerdict, CopiesOf>>
    BY <2>2, DeliverStep
  <2>3. ASSUME NEW p \in Workers, Record(p) PROVE [Contract!Next]_<<ContractVerdict, CopiesOf>>
    <3>1. UNCHANGED sent /\ Revises({a \in {job[p]} : res[p] \in Delivered})
      BY <2>3, RecordRevises DEF CInv
    <3>2. \A a \in {b \in {job[p]} : res[p] \in Delivered} : Copies(a) = 1
      <4> SUFFICES ASSUME res[p] \in Delivered PROVE Copies(job[p]) = 1
        OBVIOUS
      <4>1. job[p] \in Actions /\ Copies(job[p]) > 0
        BY <2>3, ReportedInThread DEF Record, CInv, WasSent
      <4>2. /\ <<job[p], "drafted">> \in Bubbles /\ sent[<<job[p], "drafted">>] \in Nat
            /\ sent[<<job[p], "edited">>] = 0
        BY <4>1 DEF Bubbles, Versions, CInv, RInv, IInv, OneText, TypeOK, ThreadTypeOK
      <4> QED
        BY <4>1, <4>2 DEF Copies, CInv, RInv, IInv, DeliveryInvariant, OneCopyOfEachText
    <3> QED
      BY <3>1, <3>2, CloseStep
  <2>4. ASSUME Next, ~\E p \in Workers : Send(p) \/ Record(p)
        PROVE  [Contract!Next]_<<ContractVerdict, CopiesOf>>
    <3>1. UNCHANGED sent /\ Revises({})
      BY <2>4, OthersRevise DEF CInv
    <3> QED
      BY <3>1, CloseStep
  <2> QED
    BY <2>1, <2>2, <2>3, <2>4
<1> QED
  BY <1>1, <1>2, <1>3, <1>4, PTL DEF Spec, ImplementsContract, Contract!Spec, CopiesOf


(***************************************************************************)
(* No lead is stranded.                                                    *)
(***************************************************************************)
\* An adapter reports a pending message request of follow-ups and replies only (the lead of a
\* first message would keep its status), and only of what it executes.
RequestsFollow ==
  \A p \in Workers : res[p] = "REQUEST_PENDING" => pc[p] \in Holding /\ job[p] \notin Initials

\* An adapter that executes an action reports of it what it may.
LEMMA OneRequest ==
  ASSUME RInv, RequestsFollow, NEW p \in Workers, pc[p] \in Holding, UNCHANGED job,
         NEW r, NEW x \in Holding, pc' = [pc EXCEPT ![p] = x],
         UNCHANGED res \/ res' = [res EXCEPT ![p] = r],
         r = "REQUEST_PENDING" => job[p] \notin Initials
  PROVE  RequestsFollow'
BY DEF RInv, IInv, TypeOK, ProcessTypeOK, RequestsFollow

\* The reports of adapters keep to that.
LEMMA RequestsStep == RInv /\ RequestsFollow /\ [Next]_vars => RequestsFollow'
<1> SUFFICES ASSUME RInv, RequestsFollow, [Next]_vars PROVE RequestsFollow'
  OBVIOUS
<1>1. pc \in [Workers -> Phases] /\ res \in [Workers -> Results \cup {NoResult}]
  BY DEF RInv, IInv, TypeOK, ProcessTypeOK
<1>2. ASSUME NEW p \in Workers, BecomesIdle(p) PROVE RequestsFollow'
  BY <1>1, <1>2 DEF BecomesIdle, RequestsFollow, NoResult, RInv, IInv, TypeOK, ProcessTypeOK
<1>3. ASSUME UNCHANGED processVars PROVE RequestsFollow'
  BY <1>3 DEF RequestsFollow, processVars
<1>4. ASSUME NEW p \in Workers, pc[p] = "idle", UNCHANGED res,
             \A q \in Workers \ {p} : UNCHANGED <<pc[q], job[q]>>
      PROVE  RequestsFollow'
  BY <1>4 DEF RequestsFollow, Holding
<1>5. ASSUME NEW p \in Workers, Plan(p) \/ Start(p) PROVE RequestsFollow'
  <2>1. ASSUME NEW a \in Actions, Compose(p, a) \/ Claim(p, a) PROVE RequestsFollow'
    BY <1>4, <2>1 DEF Compose, Claim, Candidate, RInv, IInv, TypeOK, ProcessTypeOK
  <2>2. CASE HandleReply(p)
    BY <1>4, <2>2 DEF HandleReply, RInv, IInv, TypeOK, ProcessTypeOK
  <2> QED
    BY <1>2, <1>3, <1>5, <2>1, <2>2 DEF Plan, Queue, CompositionFails, HandOff, Start, StartTick,
                                        Demote, Deny
<1>6. ASSUME NEW p \in Workers, Execute(p) PROVE RequestsFollow'
  <2>1. CASE Record(p)
    BY <1>2, <2>1 DEF Record
  <2>2. CASE ~Record(p)
    <3>1. pc[p] \in Holding /\ UNCHANGED job
      BY <1>6, <2>2 DEF Execute, SkipApi, NoChannel, LeaseConversation, LeaseRefused, FailEarly,
                        MayFailEarly, ReadThread, VerifyOverApi, CheckGuard, Send, Release, Holding
    <3>2. CASE FailEarly(p) \/ Send(p)
      <4>1. PICK r : /\ r # "REQUEST_PENDING"
                     /\ \E s : EndsOrFallsBack(p, r, s)
        BY <3>2 DEF FailEarly, Send, EarlyFailures, SendReports
      <4>2. res' = [res EXCEPT ![p] = r] /\ \E x \in Holding : pc' = [pc EXCEPT ![p] = x]
        BY <4>1 DEF EndsOrFallsBack, Ends, Holding
      <4> QED
        BY <3>1, <4>1, <4>2, OneRequest
    <3>3. CASE ReadThread(p)
      <4>1. PICK v \in ReadVerdicts(p, Snapshot) :
              \/ pc' = [pc EXCEPT ![p] = "typed"] /\ UNCHANGED res
              \/ pc' = [pc EXCEPT ![p] = "done"] /\ res' = [res EXCEPT ![p] = v]
        BY <3>3 DEF ReadThread, Ends
      <4>2. v = "REQUEST_PENDING" => job[p] \notin Initials
        BY DEF ReadVerdicts
      <4> QED
        BY <3>1, <4>1, <4>2, OneRequest DEF Holding
    <3>4. CASE NoChannel(p)
      <4>1. PICK r \in {"CAPABILITY_UNAVAILABLE", res[p]} :
              pc' = [pc EXCEPT ![p] = "done"] /\ res' = [res EXCEPT ![p] = r]
        BY <3>4 DEF NoChannel, Ends
      <4>2. r = "REQUEST_PENDING" => job[p] \notin Initials
        BY DEF RequestsFollow
      <4> QED
        BY <3>1, <4>1, <4>2, OneRequest DEF Holding
    <3>5. CASE \/ LeaseConversation(p) \/ LeaseRefused(p) \/ VerifyOverApi(p)
               \/ CheckGuard(p) \/ Release(p)
      <4>1. \E r \in {"OWNERSHIP_CONFLICT", "ALREADY_DELIVERED"}, x \in Holding :
              pc' = [pc EXCEPT ![p] = x] /\ (UNCHANGED res \/ res' = [res EXCEPT ![p] = r])
        BY <3>5 DEF LeaseConversation, LeaseRefused, VerifyOverApi, CheckGuard, Release, Ends,
                    Holding
      <4> QED
        BY <3>1, <4>1, OneRequest
    <3>6. CASE SkipApi(p)
      BY <3>6 DEF SkipApi, RequestsFollow
    <3> QED
      BY <1>6, <2>2, <3>2, <3>3, <3>4, <3>5, <3>6 DEF Execute
  <2> QED
    BY <2>1, <2>2
<1>7. ASSUME NEW p \in Workers, Observe(p) PROVE RequestsFollow'
  BY <1>3, <1>7 DEF Observe, InboundEvent, EchoOfOurs, EchoOfHuman, IgnoreEcho
<1>8. CASE Operate \/ Environment
  BY <1>2, <1>3, <1>8
     DEF Operate, ExpireApproval, Approve, Reject, SetMode, ClaimConversation, ReleaseConversation,
         Suppress, HaltLane, ResumeLane, Environment, HumanWrites, ProspectWrites, Crash,
         CooldownEnds, RowAges, ReleaseHold, LeaseTimeout, HoldTimeout
<1>9. CASE UNCHANGED vars
  BY <1>3, <1>9 DEF vars
<1> QED
  BY <1>5, <1>6, <1>7, <1>8, <1>9 DEF Next

\* An outreach action that can still move.
CanMove(s) == s \in OpenOutbound \cup {"EXECUTING"}

\* A step that leaves no lead waiting, or no outreach action less to wait for.
LEMMA KeepsMoving ==
  ASSUME NoStrandedLead,
         \/ lead' # "OUTREACH_PENDING"
         \/ /\ lead = "OUTREACH_PENDING"
            /\ \A a \in Initials : CanMove(status[a]) => CanMove(status'[a])
  PROVE  NoStrandedLead'
BY DEF NoStrandedLead, CanMove

\* Every handler that ends an outreach action moves its lead on in the same transaction.
LEMMA OthersStrandNobody ==
  ASSUME RInv, NoStrandedLead, Next, ~\E p \in Workers : Record(p)
  PROVE  NoStrandedLead'
<1>1. status \in [Actions -> Statuses] /\ lead \in LeadStatuses /\ Initials \subseteq Actions
  BY SendPathAssumption DEF RInv, IInv, TypeOK, QueueTypeOK, LeadTypeOK
<1>2. ASSUME UNCHANGED <<lead, status>> PROVE NoStrandedLead'
  BY <1>2 DEF NoStrandedLead
<1>3. ASSUME NEW a \in Actions, NEW s, CanMove(s), status' = [status EXCEPT ![a] = s],
             UNCHANGED lead
      PROVE  NoStrandedLead'
  BY <1>1, <1>3, KeepsMoving, Zenon DEF CanMove
<1>4. ASSUME NEW a \in Actions \ Initials, NEW s, status' = [status EXCEPT ![a] = s],
             UNCHANGED lead
      PROVE  NoStrandedLead'
  BY <1>1, <1>4, KeepsMoving
<1>5. \A a \in Actions : LeadAfterBlock(a) # "OUTREACH_PENDING"
  BY DEF LeadAfterBlock
<1>6. HumanTakesOver => lead' # "OUTREACH_PENDING"
  BY DEF HumanTakesOver
<1>7. ASSUME NEW p \in Workers, Plan(p) PROVE NoStrandedLead'
  <2>1. ASSUME NEW a \in Actions, Compose(p, a) PROVE NoStrandedLead'
    BY <1>2, <2>1 DEF Compose, queueVars, leadVars
  <2>2. CASE HandleReply(p)
    BY <1>2, <2>2, KeepsMoving DEF HandleReply
  <2>3. CASE Queue(p)
    <3>1. job[p] \in Actions
      BY <2>3 DEF Queue, RInv, IInv, TypeOK, ProcessTypeOK
    <3>2. \/ UNCHANGED <<status, lead>>
          \/ job[p] \in Initials /\ lead' = LeadAfterBlock(job[p])
          \/ /\ job[p] \notin Initials /\ UNCHANGED lead
             /\ \E s : status' = [status EXCEPT ![job[p]] = s]
          \/ /\ job[p] \in Initials
             /\ \E s \in {"DRAFTED", "PENDING_APPROVAL", "APPROVED"} :
                  status' = [status EXCEPT ![job[p]] = s]
      BY <2>3 DEF Queue, EntryStatus
    <3>3. ASSUME job[p] \in Initials, NEW s \in {"DRAFTED", "PENDING_APPROVAL", "APPROVED"},
                 status' = [status EXCEPT ![job[p]] = s]
          PROVE  NoStrandedLead'
      BY <1>1, <3>1, <3>3 DEF NoStrandedLead, OpenOutbound, AwaitingHuman
    <3> QED
      BY <1>2, <1>4, <1>5, <3>1, <3>2, <3>3, KeepsMoving
  <2>4. CASE CompositionFails(p)
    BY <1>2, <2>4, KeepsMoving DEF CompositionFails, queueVars
  <2>5. CASE HandOff(p)
    BY <1>6, <2>5, KeepsMoving DEF HandOff
  <2> QED
    BY <1>7, <2>1, <2>2, <2>3, <2>4, <2>5 DEF Plan
<1>8. ASSUME NEW p \in Workers, Start(p) PROVE NoStrandedLead'
  <2>1. ASSUME NEW S \in SUBSET Orphans, StartTick(p, S) PROVE NoStrandedLead'
    <3>1. \A a \in Initials : CanMove(status[a]) => CanMove(status'[a])
      BY <1>1, <2>1 DEF StartTick, CanMove, OpenOutbound
    <3> QED
      BY <2>1, <3>1, KeepsMoving DEF StartTick, leadVars
  <2>2. ASSUME NEW a \in Actions, Demote(p, a) \/ Claim(p, a) PROVE NoStrandedLead'
    BY <1>3, <2>2 DEF Demote, Claim, leadVars, CanMove, OpenOutbound, AwaitingHuman
  <2>3. ASSUME NEW a \in Actions, Deny(p, a) PROVE NoStrandedLead'
    BY <1>4, <1>5, <2>3, KeepsMoving DEF Deny
  <2> QED
    BY <1>8, <2>1, <2>2, <2>3 DEF Start
<1>9. ASSUME NEW p \in Workers, Execute(p) PROVE NoStrandedLead'
  BY <1>2, <1>9 DEF Execute, SkipApi, NoChannel, LeaseConversation, LeaseRefused, FailEarly,
                    ReadThread, VerifyOverApi, CheckGuard, Send, Release, queueVars, leadVars
<1>10. ASSUME NEW p \in Workers, Observe(p) PROVE NoStrandedLead'
  <2>1. InboundEvent(p) => lead' # "OUTREACH_PENDING"
    BY DEF InboundEvent, LeadOnInbound, OpenLead
  <2> QED
    BY <1>2, <1>6, <1>10, <2>1, KeepsMoving
       DEF Observe, EchoOfOurs, EchoOfHuman, IgnoreEcho, queueVars, leadVars
<1>11. CASE Operate
  <2>1. ASSUME NEW a \in Actions, ExpireApproval(a) \/ Reject(a) PROVE NoStrandedLead'
    BY <1>4, <2>1, KeepsMoving DEF ExpireApproval, Reject
  <2>2. ASSUME NEW a \in Actions, Approve(a) PROVE NoStrandedLead'
    BY <1>3, <2>2 DEF Approve, leadVars, CanMove, OpenOutbound
  <2>3. ASSUME NEW c \in Channels, ResumeLane(c) PROVE NoStrandedLead'
    <3>1. \A a \in Initials : CanMove(status[a]) => CanMove(status'[a])
      BY <1>1, <2>3 DEF ResumeLane, CanMove, OpenOutbound
    <3> QED
      BY <2>3, <3>1, KeepsMoving DEF ResumeLane, leadVars
  <2>4. ClaimConversation \/ Suppress => lead' # "OUTREACH_PENDING"
    BY <1>6 DEF ClaimConversation, Suppress
  <2> QED
    BY <1>2, <1>11, <2>1, <2>2, <2>3, <2>4, KeepsMoving
       DEF Operate, SetMode, ReleaseConversation, HaltLane, queueVars, leadVars
<1>12. CASE Environment
  BY <1>2, <1>12
     DEF Environment, HumanWrites, ProspectWrites, Crash, CooldownEnds, RowAges, ReleaseHold,
         LeaseTimeout, HoldTimeout, queueVars, leadVars
<1> QED
  BY <1>7, <1>8, <1>9, <1>10, <1>11, <1>12 DEF Next

\* So does the recording of an outcome, with the takeover and the answer that it may discover.
LEMMA RecordStrandsNobody ==
  ASSUME RInv, RequestsFollow, NoStrandedLead, NEW p \in Workers, Record(p)
  PROVE  NoStrandedLead'
<1> DEFINE a == job[p]
           r == res[p]
           verdict == Verdict(r, chan[p], AttemptsAfter(a, r))
           judged == [status EXCEPT ![a] = verdict]
<1> SUFFICES ASSUME lead' = "OUTREACH_PENDING" PROVE \E b \in Initials : CanMove(status'[b])
  BY DEF NoStrandedLead, CanMove
<1>1. a \in Actions /\ status \in [Actions -> Statuses] /\ Initials \subseteq Actions
  BY HeldStatus, SendPathAssumption DEF Record, RInv, Holding
<1>2. PICK known :
        /\ lead' = LeadAfterSend(a, r, verdict \in Final, known)
        /\ \/ known \in {"HANDED_OFF", LeadOnInbound("HANDED_OFF"), LeadOnInbound(lead), "CLOSED"}
           \/ known = lead /\ status' = judged
  BY DEF Record
<1>3. known = "OUTREACH_PENDING" /\ (a \in Initials => verdict \notin Final)
  <2>1. known = "OUTREACH_PENDING"
    BY <1>2 DEF LeadAfterSend, Delivered, NotPermitted
  <2>2. ASSUME a \in Initials PROVE verdict \notin Final
    <3>1. r # "REQUEST_PENDING"
      BY <2>2 DEF RequestsFollow
    <3> QED
      BY <1>2, <2>1, <2>2, <3>1 DEF LeadAfterSend, Delivered, NotPermitted
  <2> QED
    BY <2>1, <2>2
<1>4. known = lead /\ status' = judged
  BY <1>2, <1>3 DEF LeadOnInbound, OpenLead
<1>5. verdict \in Final \/ CanMove(verdict)
  BY DEF Verdict, Parked, Final, CanMove, OpenOutbound, ParkedStatuses, Channels
<1>6. PICK b \in Initials : CanMove(status[b])
  BY <1>3, <1>4 DEF NoStrandedLead, CanMove
<1> QED
  BY <1>1, <1>3, <1>4, <1>5, <1>6

\* With any number of processes, actions and attempts: a lead whose outreach is pending has an
\* outreach action that can still move, whatever rejections, takeovers, expiries, crashes,
\* denials and failures came before.
THEOREM NobodyStranded == Spec => []NoStrandedLead
<1>1. Init => RInv /\ RequestsFollow /\ NoStrandedLead
  BY TypeInit, InvInit, ReportsInit DEF RInv, IInv, Init, RequestsFollow, NoStrandedLead, NoResult
<1>2. RInv /\ RequestsFollow /\ NoStrandedLead /\ [Next]_vars
        => (RInv /\ RequestsFollow /\ NoStrandedLead)'
  <2> SUFFICES ASSUME RInv, RequestsFollow, NoStrandedLead, [Next]_vars PROVE NoStrandedLead'
    BY ReportsStep, RequestsStep
  <2>1. CASE UNCHANGED vars
    BY <2>1 DEF vars, queueVars, leadVars, NoStrandedLead
  <2> QED
    BY <2>1, OthersStrandNobody, RecordStrandsNobody
<1> QED
  BY <1>1, <1>2, PTL DEF Spec

(***************************************************************************)
(* Follow-ups in order.                                                    *)
(***************************************************************************)
\* The lead's columns only say what is in the thread: its last outbound message, and the
\* follow-ups up to the counter.
LeadIsTrue ==
  /\ lastOutbound => \E a \in Initials \cup Replies : WasSent(a)
  /\ \A g \in FollowUps : FollowUpNumber[g] <= followups => WasSent(g)

\* A follow-up in execution is the next one at most, after a message that it follows.
NextInOrder ==
  \A p \in Workers : pc[p] \in Holding /\ job[p] \in FollowUps =>
    lastOutbound /\ FollowUpNumber[job[p]] <= followups + 1

OInv == LeadIsTrue /\ NextInOrder /\ FollowUpsInOrder

\* Steps that send nothing, start no execution and leave the lead's counters alone.
LEMMA QuietOrder ==
  ASSUME OInv, UNCHANGED <<sent, lastOutbound, followups>>,
         \A q \in Workers : pc'[q] \in Holding /\ job'[q] \in FollowUps
                              => pc[q] \in Holding /\ job'[q] = job[q]
  PROVE  OInv'
<1>1. \A a : WasSent(a)' <=> WasSent(a)
  BY DEF WasSent, Copies
<1> QED
  BY <1>1 DEF OInv, LeadIsTrue, NextInOrder, FollowUpsInOrder

\* The gate lets a follow-up pass only in its turn, and nobody else starts an execution.
LEMMA OthersOrder ==
  ASSUME RInv, OInv, Next, ~\E p \in Workers : Send(p) \/ Record(p)
  PROVE  OInv'
<1>1. /\ pc \in [Workers -> Phases] /\ job \in [Workers -> Actions \cup {NoAction}]
      /\ NoAction \notin FollowUps
  BY ConversationAssumption, SendPathAssumption DEF RInv, IInv, TypeOK, ProcessTypeOK
<1>2. ASSUME UNCHANGED <<sent, lastOutbound, followups, processVars>> PROVE OInv'
  BY <1>2, QuietOrder DEF processVars
<1>3. ASSUME UNCHANGED <<sent, lastOutbound, followups>>, NEW p \in Workers, BecomesIdle(p)
      PROVE  OInv'
  BY <1>1, <1>3, QuietOrder DEF BecomesIdle, Holding
<1>4. ASSUME NEW p \in Workers, Plan(p) PROVE OInv'
  <2>1. ASSUME NEW a \in Actions, Compose(p, a) PROVE OInv'
    BY <1>1, <2>1, QuietOrder DEF Compose, leadVars, threadVars, Holding
  <2>2. CASE HandleReply(p)
    BY <1>1, <2>2, QuietOrder DEF HandleReply, threadVars, Holding
  <2> QED
    BY <1>3, <1>4, <2>1, <2>2 DEF Plan, Queue, CompositionFails, HandOff, HumanTakesOver,
       threadVars
<1>5. ASSUME NEW p \in Workers, Start(p) PROVE OInv'
  <2>1. ASSUME NEW a \in Actions, Claim(p, a) PROVE OInv'
    <3>1. a \in FollowUps => lastOutbound /\ FollowUpNumber[a] <= followups + 1
      BY <2>1, SendPathAssumption DEF Claim, Denied, FollowUpDenied, RInv, IInv, TypeOK,
         LeadTypeOK
    <3>2. UNCHANGED <<sent, lastOutbound, followups>>
      BY <2>1 DEF Claim, leadVars, threadVars
    <3>3. \A q \in Workers : pc'[q] \in Holding =>
            (pc[q] \in Holding /\ job'[q] = job[q]) \/ job'[q] = a
      BY <1>1, <2>1 DEF Claim
    <3>4. NextInOrder'
      BY <3>1, <3>2, <3>3 DEF OInv, NextInOrder
    <3>5. \A b : WasSent(b)' <=> WasSent(b)
      BY <3>2 DEF WasSent, Copies
    <3> QED
      BY <3>2, <3>4, <3>5 DEF OInv, LeadIsTrue, FollowUpsInOrder
  <2> QED
    BY <1>2, <1>5, <2>1 DEF Start, StartTick, Demote, Deny, leadVars, threadVars
<1>6. ASSUME NEW p \in Workers, Execute(p) PROVE OInv'
  <2>1. UNCHANGED <<sent, lastOutbound, followups, job>> /\ pc[p] \in Holding
    BY <1>6 DEF Execute, SkipApi, NoChannel, LeaseConversation, LeaseRefused, FailEarly,
                MayFailEarly, ReadThread, VerifyOverApi, CheckGuard, Release, leadVars, threadVars,
                Holding
  <2>2. \A q \in Workers \ {p} : pc'[q] = pc[q]
    <3>1. \E x : pc' = [pc EXCEPT ![p] = x]
      BY <1>1, <1>6 DEF Execute, SkipApi, NoChannel, LeaseConversation, LeaseRefused, FailEarly,
                EndsOrFallsBack, Ends, ReadThread, VerifyOverApi, CheckGuard, Release
    <3> QED
      BY <1>1, <3>1
  <2> QED
    BY <2>1, <2>2, QuietOrder
<1>7. ASSUME NEW p \in Workers, Observe(p) PROVE OInv'
  BY <1>2, <1>7 DEF Observe, InboundEvent, EchoOfOurs, EchoOfHuman, IgnoreEcho, HumanTakesOver,
                    leadVars, threadVars
<1>8. CASE Operate
  BY <1>2, <1>8
     DEF Operate, ExpireApproval, Approve, Reject, SetMode, ClaimConversation, ReleaseConversation,
         HumanTakesOver, Suppress, HaltLane, ResumeLane, leadVars, threadVars
<1>9. CASE Environment
  BY <1>2, <1>3, <1>9
     DEF Environment, HumanWrites, ProspectWrites, Crash, CooldownEnds, RowAges, ReleaseHold,
         LeaseTimeout, HoldTimeout, leadVars, threadVars
<1> QED
  BY <1>4, <1>5, <1>6, <1>7, <1>8, <1>9 DEF Next

\* A follow-up is sent in its turn.
LEMMA SendOrder ==
  ASSUME RInv, OInv, NEW p \in Workers, Send(p)
  PROVE  OInv'
<1>1. pc[p] \in Holding /\ job[p] \in Actions
  BY DEF Send, Holding, RInv, IInv, TypeOK, ProcessTypeOK
<1>2. \A a \in Actions : WasSent(a) => WasSent(a)'
  BY SentStays
<1>3. ASSUME NEW a \in Actions, WasSent(a)' PROVE WasSent(a) \/ a = job[p]
  <2>1. SendsOnce(p) /\ sent \in [Bubbles -> Nat]
    BY SendReport DEF RInv, IInv, TypeOK, ThreadTypeOK
  <2>2. a # job[p] => sent'[<<a, "drafted">>] = sent[<<a, "drafted">>]
                      /\ sent'[<<a, "edited">>] = sent[<<a, "edited">>]
    BY <2>1 DEF SendsOnce, Mine, Bubbles, Versions
  <2> QED
    BY <1>3, <2>2 DEF WasSent, Copies
<1>4. Initials \cup Replies \subseteq Actions /\ FollowUps \subseteq Actions
      /\ FollowUpNumber \in [FollowUps -> Nat \ {0}] /\ followups \in Nat
  BY SendPathAssumption DEF RInv, IInv, TypeOK, LeadTypeOK
<1>5. UNCHANGED <<lastOutbound, followups, job>> /\ LeadIsTrue'
  BY <1>2, <1>4 DEF Send, leadVars, OInv, LeadIsTrue
<1>6. \A q \in Workers : pc'[q] \in Holding => pc[q] \in Holding
  <2>1. \E x : pc' = [pc EXCEPT ![p] = x]
    BY DEF Send, EndsOrFallsBack, Ends
  <2> QED
    BY <1>1, <2>1 DEF RInv, IInv, TypeOK, ProcessTypeOK
<1>7. NextInOrder'
  BY <1>5, <1>6 DEF OInv, NextInOrder
<1>8. FollowUpsInOrder'
  <2> SUFFICES ASSUME NEW f \in FollowUps, WasSent(f)'
               PROVE  /\ \E a \in Initials \cup Replies : WasSent(a)'
                      /\ \A g \in FollowUps : FollowUpNumber[g] < FollowUpNumber[f] => WasSent(g)'
    BY DEF FollowUpsInOrder
  <2>1. CASE WasSent(f)
    BY <1>2, <1>4, <2>1 DEF OInv, FollowUpsInOrder
  <2>2. CASE f = job[p]
    <3>1. lastOutbound /\ FollowUpNumber[f] <= followups + 1
      BY <1>1, <2>2 DEF OInv, NextInOrder
    <3>2. \A g \in FollowUps :
            FollowUpNumber[g] < FollowUpNumber[f] => FollowUpNumber[g] <= followups
      BY <1>4, <3>1
    <3> QED
      BY <1>2, <1>4, <3>1, <3>2 DEF OInv, LeadIsTrue
  <2> QED
    BY <1>3, <1>4, <2>1, <2>2
<1> QED
  BY <1>5, <1>7, <1>8 DEF OInv

\* _record counts a follow-up only when it is in the thread.
LEMMA RecordOrder ==
  ASSUME RInv, OInv, NEW p \in Workers, Record(p)
  PROVE  OInv'
<1> DEFINE a == job[p]
<1>1. a \in Actions /\ (res[p] \in Delivered => WasSent(a))
  BY ReportedInThread DEF Record
<1>2. UNCHANGED sent /\ \A b : WasSent(b)' <=> WasSent(b)
  BY DEF Record, threadVars, WasSent, Copies
<1>3. /\ lastOutbound' = (lastOutbound \/ res[p] \in Delivered)
      /\ followups' = FollowUpsAfter(a, res[p])
  BY DEF Record
<1>4. /\ Actions = Initials \cup FollowUps \cup Replies
      /\ FollowUpNumber \in [FollowUps -> Nat \ {0}] /\ followups \in Nat
      /\ \A f, g \in FollowUps : FollowUpNumber[f] = FollowUpNumber[g] => f = g
  BY SendPathAssumption DEF RInv, IInv, TypeOK, LeadTypeOK
<1>5. lastOutbound' => \E b \in Initials \cup Replies : WasSent(b)
  BY <1>1, <1>3, <1>4 DEF OInv, LeadIsTrue, FollowUpsInOrder
<1>6. \A g \in FollowUps : FollowUpNumber[g] <= followups' => WasSent(g)
  BY <1>1, <1>3, <1>4 DEF FollowUpsAfter, OInv, LeadIsTrue, FollowUpsInOrder
<1>7. LeadIsTrue'
  BY <1>2, <1>5, <1>6 DEF LeadIsTrue
<1>8. followups' \in Nat /\ followups' >= followups
  BY <1>3, <1>4 DEF FollowUpsAfter
<1>9. \A q \in Workers : pc'[q] \in Holding => pc[q] \in Holding /\ job'[q] = job[q]
  BY DEF Record, BecomesIdle, Holding, RInv, IInv, TypeOK, ProcessTypeOK
<1>10. ASSUME NEW q \in Workers, pc'[q] \in Holding, job'[q] \in FollowUps
       PROVE  lastOutbound' /\ FollowUpNumber[job'[q]] <= followups' + 1
  <2>1. lastOutbound /\ FollowUpNumber[job'[q]] <= followups + 1
    BY <1>9, <1>10 DEF OInv, NextInOrder
  <2>2. FollowUpNumber[job'[q]] \in Nat
    BY <1>4, <1>10
  <2>3. FollowUpNumber[job'[q]] <= followups' + 1
    BY <1>4, <1>8, <2>1, <2>2
  <2> QED
    BY <1>3, <2>1, <2>3
<1> QED
  BY <1>2, <1>7, <1>10 DEF OInv, NextInOrder, FollowUpsInOrder

\* With any number of processes, follow-ups and attempts: no follow-up is in the thread before a
\* message of ours that it follows, and none before the earlier ones.
THEOREM FollowUpsOrdered == Spec => []FollowUpsInOrder
<1>1. Init => RInv /\ OInv
  <2> SUFFICES ASSUME Init PROVE OInv
    BY TypeInit, InvInit, ReportsInit DEF RInv, IInv
  <2>1. \A f \in FollowUps : ~WasSent(f)
    BY SendPathAssumption DEF Init, WasSent, Copies, Bubbles, Versions
  <2>2. \A f \in FollowUps : ~(FollowUpNumber[f] <= followups)
    BY SendPathAssumption DEF Init
  <2> QED
    BY <2>1, <2>2 DEF Init, OInv, LeadIsTrue, NextInOrder, FollowUpsInOrder, Holding
<1>2. RInv /\ OInv /\ [Next]_vars => (RInv /\ OInv)'
  <2> SUFFICES ASSUME RInv, OInv, [Next]_vars PROVE OInv'
    BY ReportsStep
  <2>1. CASE UNCHANGED vars
    BY <2>1, QuietOrder DEF vars, leadVars, threadVars, processVars
  <2> QED
    BY <2>1, OthersOrder, SendOrder, RecordOrder
<1>3. OInv => FollowUpsInOrder
  BY DEF OInv
<1> QED
  BY <1>1, <1>2, <1>3, PTL DEF Spec

(***************************************************************************)
(* One first message, with one process.                                    *)
(***************************************************************************)
NoFirstYet == \A a \in Initials : ~WasSent(a)

\* A first message is tried in the browser only, and typed only while no draft was delivered.
FirstIsAlone(q) ==
  pc[q] \in {"claimed", "leased", "typed", "armed"} /\ job[q] \in Initials =>
    chan[q] = "BROWSER" /\ (pc[q] \in {"typed", "armed"} => NoFirstYet)

FInv == OneFirstMessage /\ \A q \in Workers : FirstIsAlone(q)

\* Steps that send nothing and bring no first message closer to being sent unseen.
LEMMA QuietFirst ==
  ASSUME FInv, UNCHANGED sent,
         \A q \in Workers : UNCHANGED <<pc[q], job[q], chan[q]>> \/ FirstIsAlone(q)'
  PROVE  FInv'
BY DEF FInv, OneFirstMessage, FirstIsAlone, NoFirstYet, WasSent, Copies

\* The executor and the browser adapter: it types a first message into an empty thread only.
LEMMA ExecuteFirst ==
  ASSUME RInv, FInv, NEW p \in Workers, Execute(p), ~Send(p), ~Record(p)
  PROVE  FInv'
<1>1. /\ pc \in [Workers -> Phases] /\ chan \in [Workers -> Channels]
      /\ sent \in [Bubbles -> Nat] /\ Initials \subseteq Actions
  BY SendPathAssumption DEF RInv, IInv, TypeOK, ProcessTypeOK, ThreadTypeOK
<1>2. UNCHANGED <<sent, job>>
  BY DEF Execute, SkipApi, NoChannel, LeaseConversation, LeaseRefused, FailEarly, ReadThread,
         VerifyOverApi, CheckGuard, Release, threadVars
<1>3. ASSUME NEW x, pc' = [pc EXCEPT ![p] = x],
             UNCHANGED chan \/ \E c : chan' = [chan EXCEPT ![p] = c],
             FirstIsAlone(p)'
      PROVE  FInv'
  BY <1>1, <1>2, <1>3, QuietFirst
<1>4. CASE SkipApi(p)
  BY <1>1, <1>2, <1>4, QuietFirst DEF SkipApi, FirstIsAlone
<1>5. CASE NoChannel(p) \/ LeaseRefused(p) \/ Release(p)
  <2>1. \E x \in {"done", "released"} : pc' = [pc EXCEPT ![p] = x]
    BY <1>5 DEF NoChannel, LeaseRefused, Release, Ends
  <2>2. UNCHANGED chan \/ \E c : chan' = [chan EXCEPT ![p] = c]
    BY <1>5 DEF NoChannel, LeaseRefused, Release
  <2> QED
    BY <1>1, <1>3, <2>1, <2>2 DEF FirstIsAlone
<1>6. CASE LeaseConversation(p)
  BY <1>1, <1>2, <1>3, <1>6 DEF LeaseConversation, FInv, FirstIsAlone
<1>7. CASE FailEarly(p)
  <2>1. \/ pc' = [pc EXCEPT ![p] = "claimed"] /\ chan' = [chan EXCEPT ![p] = "BROWSER"]
        \/ pc' = [pc EXCEPT ![p] = "done"] /\ UNCHANGED chan
    BY <1>7 DEF FailEarly, EndsOrFallsBack, Ends
  <2> QED
    BY <1>1, <1>3, <2>1 DEF FirstIsAlone
<1>8. CASE ReadThread(p)
  <2>1. PICK v \in ReadVerdicts(p, Snapshot) :
          pc' = [pc EXCEPT ![p] = IF v = "typed" THEN "typed" ELSE "done"]
    BY <1>8 DEF ReadThread, Ends
  <2>2. v = "typed" /\ job[p] \in Initials => EmptyThread(Snapshot)
    BY DEF ReadVerdicts
  <2>3. EmptyThread(Snapshot) => NoFirstYet
    <3> SUFFICES ASSUME Snapshot.mine = {}, NEW a \in Initials PROVE ~WasSent(a)
      BY DEF EmptyThread, NoFirstYet
    <3>1. <<a, "drafted">> \in Bubbles /\ <<a, "edited">> \in Bubbles
      BY <1>1 DEF Bubbles, Versions
    <3>2. sent[<<a, "drafted">>] = 0 /\ sent[<<a, "edited">>] = 0
      BY <1>1, <3>1 DEF Snapshot
    <3> QED
      BY <3>2 DEF WasSent, Copies
  <2>4. NoFirstYet => NoFirstYet'
    BY <1>2 DEF NoFirstYet, WasSent, Copies
  <2>5. chan'[p] = "BROWSER" /\ UNCHANGED chan
    BY <1>8 DEF ReadThread
  <2>6. FirstIsAlone(p)'
    BY <1>1, <1>2, <2>1, <2>2, <2>3, <2>4, <2>5 DEF FirstIsAlone
  <2> QED
    BY <1>3, <2>1, <2>5, <2>6
<1>9. CASE VerifyOverApi(p)
  <2>1. job[p] \notin Initials
    BY <1>9 DEF VerifyOverApi, FInv, FirstIsAlone
  <2>2. (\E x : pc' = [pc EXCEPT ![p] = x]) /\ UNCHANGED chan
    BY <1>9 DEF VerifyOverApi, Ends
  <2> QED
    BY <1>2, <1>3, <2>1, <2>2 DEF FirstIsAlone
<1>10. CASE CheckGuard(p)
  <2>1. \E x \in {"armed", "done"} : pc' = [pc EXCEPT ![p] = x]
    BY <1>10 DEF CheckGuard, Ends
  <2>2. UNCHANGED chan /\ (NoFirstYet => NoFirstYet')
    BY <1>2, <1>10 DEF CheckGuard, NoFirstYet, WasSent, Copies
  <2>3. job[p] \in Initials => chan[p] = "BROWSER" /\ NoFirstYet
    BY <1>10 DEF CheckGuard, FInv, FirstIsAlone
  <2> QED
    BY <1>1, <1>2, <1>3, <2>1, <2>2, <2>3 DEF FirstIsAlone
<1> QED
  BY <1>4, <1>5, <1>6, <1>7, <1>8, <1>9, <1>10 DEF Execute

\* Everybody else types nothing.
LEMMA OthersFirst ==
  ASSUME RInv, FInv, Next, ~\E p \in Workers : Execute(p)
  PROVE  FInv'
<1>1. /\ pc \in [Workers -> Phases] /\ chan \in [Workers -> Channels]
      /\ job \in [Workers -> Actions \cup {NoAction}] /\ req \in [Workers -> Requests]
  BY DEF RInv, IInv, TypeOK, ProcessTypeOK
<1>2. ASSUME UNCHANGED <<sent, processVars>> PROVE FInv'
  BY <1>2, QuietFirst DEF processVars
<1>3. ASSUME UNCHANGED sent, NEW p \in Workers, BecomesIdle(p) PROVE FInv'
  BY <1>1, <1>3, QuietFirst DEF BecomesIdle, FirstIsAlone
<1>4. ASSUME NEW p \in Workers, Plan(p) PROVE FInv'
  <2>1. ASSUME NEW a \in Actions, Compose(p, a) PROVE FInv'
    BY <1>1, <2>1, QuietFirst DEF Compose, threadVars, FirstIsAlone
  <2>2. CASE HandleReply(p)
    BY <1>1, <2>2, QuietFirst DEF HandleReply, threadVars, FirstIsAlone
  <2> QED
    BY <1>3, <1>4, <2>1, <2>2 DEF Plan, Queue, CompositionFails, HandOff, threadVars
<1>5. ASSUME NEW p \in Workers, Start(p) PROVE FInv'
  <2>1. ASSUME NEW a \in Actions, Claim(p, a) PROVE FInv'
    <3>1. PICK api \in BOOLEAN : /\ api => a \notin Initials
                                 /\ chan' = [chan EXCEPT ![p] = IF api THEN "API" ELSE "BROWSER"]
      BY <2>1 DEF Claim, ApiCanServe
    <3>2. pc' = [pc EXCEPT ![p] = "claimed"] /\ job' = [job EXCEPT ![p] = a] /\ UNCHANGED sent
      BY <2>1 DEF Claim, threadVars
    <3>3. FirstIsAlone(p)'
      BY <1>1, <3>1, <3>2 DEF FirstIsAlone
    <3> QED
      BY <1>1, <3>1, <3>2, <3>3, QuietFirst
  <2> QED
    BY <1>2, <1>5, <2>1 DEF Start, StartTick, Demote, Deny, threadVars
<1>6. ASSUME NEW p \in Workers, Observe(p) PROVE FInv'
  BY <1>2, <1>6 DEF Observe, InboundEvent, EchoOfOurs, EchoOfHuman, IgnoreEcho, threadVars
<1>7. CASE Operate
  BY <1>2, <1>7
     DEF Operate, ExpireApproval, Approve, Reject, SetMode, ClaimConversation, ReleaseConversation,
         Suppress, HaltLane, ResumeLane, threadVars
<1>8. CASE Environment
  BY <1>2, <1>3, <1>8
     DEF Environment, HumanWrites, ProspectWrites, Crash, CooldownEnds, RowAges, ReleaseHold,
         LeaseTimeout, HoldTimeout, threadVars
<1> QED
  BY <1>4, <1>5, <1>6, <1>7, <1>8 DEF Next

\* The only process sends a first message into the thread that it saw empty.
LEMMA SendFirst ==
  ASSUME RInv, FInv, NEW p \in Workers, Workers = {p}, Send(p)
  PROVE  FInv'
<1>1. Initials \subseteq Actions /\ sent \in [Bubbles -> Nat] /\ pc \in [Workers -> Phases]
  BY SendPathAssumption DEF RInv, IInv, TypeOK, ThreadTypeOK, ProcessTypeOK
<1>2. ASSUME NEW a \in Initials, WasSent(a)' PROVE WasSent(a) \/ a = job[p]
  <2>1. SendsOnce(p)
    BY SendReport
  <2>2. a # job[p] => sent'[<<a, "drafted">>] = sent[<<a, "drafted">>]
                      /\ sent'[<<a, "edited">>] = sent[<<a, "edited">>]
    BY <1>1, <2>1 DEF SendsOnce, Mine, Bubbles, Versions
  <2> QED
    BY <1>2, <2>2 DEF WasSent, Copies
<1>3. job[p] \in Initials => NoFirstYet /\ chan[p] = "BROWSER"
  BY DEF Send, FInv, FirstIsAlone
<1>4. OneFirstMessage'
  BY <1>2, <1>3 DEF FInv, OneFirstMessage, NoFirstYet
<1>5. /\ UNCHANGED job
      /\ \/ pc' = [pc EXCEPT ![p] = "done"]
         \/ pc' = [pc EXCEPT ![p] = "claimed"] /\ chan[p] = "API"
  BY DEF Send, EndsOrFallsBack, FallsBack, Ends
<1>6. FirstIsAlone(p)'
  BY <1>1, <1>3, <1>5 DEF FirstIsAlone
<1> QED
  BY <1>4, <1>6 DEF FInv

\* One process, any number of drafts and attempts: however many first messages were drafted,
\* rejected, interrupted and tried again, the prospect gets one of them at most.
THEOREM OneFirstMessageHolds ==
  ASSUME \A p, q \in Workers : p = q
  PROVE  Spec => []OneFirstMessage
<1>1. Init => RInv /\ FInv
  <2> SUFFICES ASSUME Init PROVE FInv
    BY TypeInit, InvInit, ReportsInit DEF RInv, IInv
  <2>1. NoFirstYet
    BY SendPathAssumption DEF Init, NoFirstYet, WasSent, Copies, Bubbles, Versions
  <2> QED
    BY <2>1 DEF Init, FInv, OneFirstMessage, NoFirstYet, FirstIsAlone
<1>2. RInv /\ FInv /\ [Next]_vars => (RInv /\ FInv)'
  <2> SUFFICES ASSUME RInv, FInv, [Next]_vars PROVE FInv'
    BY ReportsStep
  <2>1. CASE UNCHANGED vars
    BY <2>1, QuietFirst DEF vars, threadVars, processVars
  <2>2. ASSUME NEW p \in Workers, Send(p) PROVE FInv'
    BY <2>2, SendFirst
  <2>3. ASSUME NEW p \in Workers, Record(p) PROVE FInv'
    <3>1. UNCHANGED sent /\ \A q \in Workers : FirstIsAlone(q)'
      BY <2>3 DEF Record, BecomesIdle, threadVars, FirstIsAlone, RInv, IInv, TypeOK, ProcessTypeOK
    <3> QED
      BY <3>1, QuietFirst
  <2> QED
    BY <2>1, <2>2, <2>3, ExecuteFirst, OthersFirst
<1>3. FInv => OneFirstMessage
  BY DEF FInv
<1> QED
  BY <1>1, <1>2, <1>3, PTL DEF Spec

(***************************************************************************)
(* No follow-up to somebody who has answered, with one process.            *)
(***************************************************************************)
\* The gate looks at replied_at in the transaction that claims; until the send, the process
\* that would record an answer is the one that executes.
Unanswered ==
  \A q \in Workers :
    pc[q] \in {"claimed", "leased", "typed", "armed"} /\ job[q] \in FollowUps => ~replied

\* Steps that record no answer and claim nothing.
LEMMA QuietAnswer ==
  ASSUME Unanswered, UNCHANGED replied,
         \A q \in Workers : \/ UNCHANGED <<pc[q], job[q]>>
                            \/ pc'[q] \notin {"claimed", "leased", "typed", "armed"}
                            \/ UNCHANGED job /\ pc[q] \in {"claimed", "leased", "typed", "armed"}
  PROVE  Unanswered'
BY DEF Unanswered

\* The executor and the adapters record nothing.
LEMMA ExecuteAnswer ==
  ASSUME RInv, Unanswered, NEW p \in Workers, Execute(p), ~Record(p)
  PROVE  Unanswered'
<1>1. pc \in [Workers -> Phases]
  BY DEF RInv, IInv, TypeOK, ProcessTypeOK
<1>2. UNCHANGED <<replied, job>>
  BY DEF Execute, SkipApi, NoChannel, LeaseConversation, LeaseRefused, FailEarly, ReadThread,
         VerifyOverApi, CheckGuard, Send, Release, leadVars
<1>3. ASSUME NEW x, pc' = [pc EXCEPT ![p] = x],
             \/ x \notin {"claimed", "leased", "typed", "armed"}
             \/ pc[p] \in {"claimed", "leased", "typed", "armed"}
      PROVE  Unanswered'
  BY <1>1, <1>2, <1>3, QuietAnswer
<1>4. CASE SkipApi(p)
  BY <1>1, <1>2, <1>4, QuietAnswer DEF SkipApi
<1>5. CASE NoChannel(p) \/ LeaseRefused(p) \/ Release(p)
  <2>1. \E x \in {"done", "released"} : pc' = [pc EXCEPT ![p] = x]
    BY <1>5 DEF NoChannel, LeaseRefused, Release, Ends
  <2> QED
    BY <1>3, <2>1
<1>6. CASE \/ LeaseConversation(p) \/ FailEarly(p) \/ ReadThread(p)
           \/ VerifyOverApi(p) \/ CheckGuard(p) \/ Send(p)
  <2>1. pc[p] \in {"claimed", "leased", "typed", "armed"}
    BY <1>6 DEF LeaseConversation, FailEarly, MayFailEarly, ReadThread, VerifyOverApi, CheckGuard,
                Send
  <2>2. ASSUME NEW r, NEW s, EndsOrFallsBack(p, r, s) PROVE \E x : pc' = [pc EXCEPT ![p] = x]
    BY <2>2 DEF EndsOrFallsBack, Ends
  <2>3. CASE FailEarly(p) \/ Send(p)
    BY <1>3, <2>1, <2>2, <2>3 DEF FailEarly, Send
  <2>4. CASE LeaseConversation(p) \/ ReadThread(p) \/ VerifyOverApi(p) \/ CheckGuard(p)
    <3>1. \E x : pc' = [pc EXCEPT ![p] = x]
      BY <2>4 DEF LeaseConversation, ReadThread, VerifyOverApi, CheckGuard, Ends
    <3> QED
      BY <1>3, <2>1, <3>1
  <2> QED
    BY <1>6, <2>3, <2>4
<1> QED
  BY <1>4, <1>5, <1>6 DEF Execute

\* While the only process executes, nobody records an answer, and what the process claims has
\* passed the gate.
LEMMA OthersAnswer ==
  ASSUME RInv, Unanswered, \A p, q \in Workers : p = q,
         Next, ~\E p \in Workers : Execute(p)
  PROVE  Unanswered'
<1>1. /\ pc \in [Workers -> Phases] /\ job \in [Workers -> Actions \cup {NoAction}]
  BY DEF RInv, IInv, TypeOK, ProcessTypeOK
<1>2. ASSUME UNCHANGED <<replied, pc, job>> PROVE Unanswered'
  BY <1>2, QuietAnswer
<1>3. ASSUME UNCHANGED replied, NEW p \in Workers, NEW x, x \in {"idle", "composing"},
             pc' = [pc EXCEPT ![p] = x], \E a : job' = [job EXCEPT ![p] = a]
      PROVE  Unanswered'
  BY <1>1, <1>3, QuietAnswer
<1>4. ASSUME NEW p \in Workers, Plan(p) PROVE Unanswered'
  <2>1. UNCHANGED replied
    BY <1>4
       DEF Plan, Compose, HandleReply, Queue, CompositionFails, HandOff,
           HumanTakesOver, leadVars
  <2>2. \/ UNCHANGED <<pc, job>>
        \/ \E x \in {"idle", "composing"} :
             pc' = [pc EXCEPT ![p] = x] /\ \E a : job' = [job EXCEPT ![p] = a]
    BY <1>4 DEF Plan, Compose, HandleReply, Queue, CompositionFails, HandOff, BecomesIdle
  <2> QED
    BY <1>2, <1>3, <2>1, <2>2
<1>5. ASSUME NEW p \in Workers, Start(p) PROVE Unanswered'
  <2>1. ASSUME NEW a \in Actions, Claim(p, a) PROVE Unanswered'
    <3>1. a \in FollowUps => ~replied
      BY <2>1 DEF Claim, Denied, FollowUpDenied, HasReplied
    <3>2. job' = [job EXCEPT ![p] = a] /\ UNCHANGED replied
      BY <2>1 DEF Claim, leadVars
    <3> QED
      BY <1>1, <3>1, <3>2 DEF Unanswered
  <2> QED
    BY <1>2, <1>5, <2>1 DEF Start, StartTick, Demote, Deny, leadVars, processVars
<1>6. ASSUME NEW p \in Workers, Observe(p) PROVE Unanswered'
  <2>1. pc[p] = "idle" /\ UNCHANGED <<pc, job>>
    BY <1>6 DEF Observe, InboundEvent, EchoOfOurs, EchoOfHuman, IgnoreEcho, processVars
  <2> QED
    BY <2>1 DEF Unanswered
<1>7. CASE Operate
  BY <1>2, <1>7
     DEF Operate, ExpireApproval, Approve, Reject, SetMode, ClaimConversation, ReleaseConversation,
         Suppress, HaltLane, ResumeLane, HumanTakesOver, leadVars, processVars
<1>8. CASE Environment
  <2>1. UNCHANGED replied
    BY <1>8
       DEF Environment, HumanWrites, ProspectWrites, Crash, CooldownEnds, RowAges, ReleaseHold,
           LeaseTimeout, HoldTimeout, leadVars
  <2>2. \/ UNCHANGED <<pc, job>>
        \/ \E p \in Workers : /\ pc' = [pc EXCEPT ![p] = "idle"]
                              /\ \E a : job' = [job EXCEPT ![p] = a]
    BY <1>8
       DEF Environment, HumanWrites, ProspectWrites, Crash, CooldownEnds, RowAges, ReleaseHold,
           LeaseTimeout, HoldTimeout, processVars, BecomesIdle
  <2> QED
    BY <1>2, <1>3, <2>1, <2>2
<1> QED
  BY <1>4, <1>5, <1>6, <1>7, <1>8 DEF Next

\* One process, any number of follow-ups and attempts: no follow-up goes to a prospect whose
\* answer was recorded, be it after the follow-up was planned, approved or tried.
THEOREM AnswerEndsFollowUps ==
  ASSUME \A p, q \in Workers : p = q
  PROVE  Spec => NoFollowUpOnceReplied
<1>1. Init => RInv /\ Unanswered
  BY TypeInit, InvInit, ReportsInit DEF RInv, IInv, Init, Unanswered
<1>2. RInv /\ Unanswered /\ [Next]_vars => (RInv /\ Unanswered)'
  <2> SUFFICES ASSUME RInv, Unanswered, [Next]_vars PROVE Unanswered'
    BY ReportsStep
  <2>1. CASE UNCHANGED vars
    BY <2>1, QuietAnswer DEF vars, leadVars, processVars
  <2>2. ASSUME NEW p \in Workers, Record(p) PROVE Unanswered'
    BY <2>2 DEF Record, BecomesIdle, Unanswered, RInv, IInv, TypeOK, ProcessTypeOK
  <2> QED
    BY <2>1, <2>2, ExecuteAnswer, OthersAnswer
<1>3. RInv /\ Unanswered /\ [Next]_vars => [\A f \in FollowUps : Sends(f) => ~replied]_vars
  <2> SUFFICES ASSUME RInv, Unanswered, Next, NEW f \in FollowUps, Sends(f)
               PROVE  ~replied
    BY DEF vars, Sends, threadVars
  <2>1. f \in Actions
    BY SendPathAssumption
  <2>2. PICK p \in Workers : Send(p) /\ job[p] = f
    BY <2>1, OnlySendSends DEF RInv
  <2> QED
    BY <2>2 DEF Send, Unanswered
<1> QED
  BY <1>1, <1>2, <1>3, PTL DEF Spec, NoFollowUpOnceReplied
=============================================================================
