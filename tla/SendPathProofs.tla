--------------------------- MODULE SendPathProofs ---------------------------
(***************************************************************************)
(* Proofs about the send path, for any number of processes, actions,       *)
(* follow-ups and attempts.                                                *)
(*                                                                         *)
(* First the type invariant, one lemma per group of actions; then          *)
(* DeliveryInvariant, the inductive strengthening of OneCopyOfEachText:    *)
(* an execution has one holder, the intent row precedes the typing, and an *)
(* adapter that types has looked or need not have; and from it             *)
(* what a takeover by the human leaves possible.                           *)
(***************************************************************************)
EXTENDS SendPath, TLAPS

\* The rows and the memory the system starts with are well typed.
LEMMA TypeInit == Init => TypeOK
<1> SUFFICES ASSUME Init PROVE TypeOK
  OBVIOUS
<1>1. ControlTypeOK
  BY DEF Init, ControlTypeOK, Channels, LaneStates
<1>2. QueueTypeOK
  BY SendPathAssumption DEF Init, QueueTypeOK, Statuses, Approvers, Versions
<1>3. RowTypeOK /\ StoreTypeOK
  BY DEF Init, RowTypeOK, StoreTypeOK, RowStates, Versions, InboundStates
<1>4. LeadTypeOK /\ ThreadTypeOK /\ HookTypeOK /\ HistoryTypeOK
  BY DEF Init, LeadTypeOK, LeadStatuses, ThreadTypeOK, HookTypeOK, HistoryTypeOK
<1>5. ProcessTypeOK
  BY DEF Init, ProcessTypeOK, Phases, Holding, Channels, Requests, NoRequest, Snapshots, Unread,
         Versions
<1>6. ConvTypeOK
  BY DEF Init, ConvInit, ConvTypeOK, Owners
<1> QED
  BY <1>1, <1>2, <1>3, <1>4, <1>5, <1>6 DEF Init, TypeOK

\* What a step leaves alone keeps its type.
LEMMA Frame ==
  ASSUME TypeOK
  PROVE  /\ UNCHANGED controlVars => ControlTypeOK'
         /\ UNCHANGED queueVars => QueueTypeOK'
         /\ UNCHANGED rowVars => RowTypeOK'
         /\ UNCHANGED storeVars => StoreTypeOK'
         /\ UNCHANGED leadVars => LeadTypeOK'
         /\ UNCHANGED processVars => ProcessTypeOK'
         /\ UNCHANGED threadVars => ThreadTypeOK'
         /\ UNCHANGED hookVars => HookTypeOK'
         /\ UNCHANGED historyVars => HistoryTypeOK'
         /\ UNCHANGED convVars => ConvTypeOK'
<1>1. UNCHANGED controlVars => ControlTypeOK'
  BY DEF TypeOK, controlVars, ControlTypeOK
<1>2. UNCHANGED queueVars => QueueTypeOK'
  BY DEF TypeOK, queueVars, QueueTypeOK
<1>3. UNCHANGED rowVars => RowTypeOK'
  BY DEF TypeOK, rowVars, RowTypeOK
<1>4. UNCHANGED storeVars => StoreTypeOK'
  BY DEF TypeOK, storeVars, StoreTypeOK
<1>5. UNCHANGED leadVars => LeadTypeOK'
  BY DEF TypeOK, leadVars, LeadTypeOK
<1>6. UNCHANGED processVars => ProcessTypeOK'
  BY DEF TypeOK, processVars, ProcessTypeOK
<1>7. UNCHANGED threadVars => ThreadTypeOK'
  BY DEF TypeOK, threadVars, ThreadTypeOK
<1>8. UNCHANGED hookVars => HookTypeOK'
  BY DEF TypeOK, hookVars, HookTypeOK
<1>9. UNCHANGED historyVars => HistoryTypeOK'
  BY DEF TypeOK, historyVars, HistoryTypeOK
<1>10. UNCHANGED convVars => ConvTypeOK'
  BY DEF TypeOK, convVars, ConvTypeOK
<1> QED
  BY <1>1, <1>2, <1>3, <1>4, <1>5, <1>6, <1>7, <1>8, <1>9, <1>10

\* cancel_open_outbound() leaves every action a status.
LEMMA CancelOpenType ==
  ASSUME NEW st \in [Actions -> Statuses], NEW S
  PROVE  CancelOpen(st, S) \in [Actions -> Statuses]
BY DEF CancelOpen, Statuses, Final

\* A process that ends its work, or dies, forgets everything it had in memory.
LEMMA BecomesIdleType ==
  ASSUME TypeOK, NEW p \in Workers, BecomesIdle(p)
  PROVE  ProcessTypeOK'
BY DEF TypeOK, ProcessTypeOK, BecomesIdle, Phases, Holding, Channels, Requests, NoRequest,
       Snapshots, Unread, Versions

\* take_over_by_human() writes well-typed conversation, lead and action rows.
LEMMA HumanTakesOverType ==
  ASSUME TypeOK, HumanTakesOver
  PROVE  /\ ConvTypeOK' /\ LeadTypeOK' /\ HistoryTypeOK'
         /\ status' \in [Actions -> Statuses]
<1>1. ConvTypeOK'
  BY ConversationAssumption DEF HumanTakesOver, TakeOver, ConvTypeOK, Owners
<1>2. LeadTypeOK'
  BY DEF HumanTakesOver, TypeOK, LeadTypeOK, LeadStatuses
<1>3. HistoryTypeOK'
  BY DEF HumanTakesOver, Armed, TypeOK, HistoryTypeOK, ProcessTypeOK, Holding
<1>4. status' \in [Actions -> Statuses]
  BY CancelOpenType DEF HumanTakesOver, TypeOK, QueueTypeOK
<1> QED
  BY <1>1, <1>2, <1>3, <1>4

\* _lead_after_block() always finds a lead status.
LEMMA LeadAfterBlockType == \A a \in Initials : LeadAfterBlock(a) \in LeadStatuses
BY DEF LeadAfterBlock, LeadStatuses

\* Planning (plan_outreach, plan_followups, _act_on_reply, _queue_outbound).
LEMMA PlanType ==
  ASSUME TypeOK, NEW p \in Workers, Plan(p)
  PROVE  TypeOK'
<1>1. ASSUME NEW a \in Actions, Compose(p, a) PROVE TypeOK'
  <2>1. ProcessTypeOK'
    BY <1>1 DEF Compose, TypeOK, ProcessTypeOK, Phases, Holding
  <2> QED
    BY <1>1, <2>1, Frame DEF Compose, TypeOK
<1>2. CASE HandleReply(p)
  <2>1. StoreTypeOK'
    BY <1>2 DEF HandleReply, TypeOK, StoreTypeOK, InboundStates
  <2>2. QueueTypeOK'
    BY <1>2, CancelOpenType DEF HandleReply, TypeOK, QueueTypeOK
  <2>3. LeadTypeOK'
    BY <1>2 DEF HandleReply, TypeOK, LeadTypeOK, LeadStatuses
  <2>4. ProcessTypeOK'
    BY <1>2, SendPathAssumption DEF HandleReply, TypeOK, ProcessTypeOK, Phases, Holding
  <2>5. HistoryTypeOK'
    BY <1>2 DEF HandleReply, Executing, TypeOK, HistoryTypeOK, ProcessTypeOK
  <2>6. suppressed' \in BOOLEAN
    BY <1>2 DEF HandleReply, TypeOK
  <2> QED
    BY <1>2, <2>1, <2>2, <2>3, <2>4, <2>5, <2>6, Frame DEF HandleReply, TypeOK
<1>3. CASE Queue(p)
  <2>1. ProcessTypeOK'
    BY <1>3, BecomesIdleType DEF Queue
  <2>2. QueueTypeOK'
    BY <1>3 DEF Queue, EntryStatus, TypeOK, QueueTypeOK, Statuses, OpenOutbound, AwaitingHuman,
                Final, Approvers
  <2>3. LeadTypeOK'
    BY <1>3, LeadAfterBlockType DEF Queue, TypeOK, LeadTypeOK, LeadStatuses
  <2> QED
    BY <1>3, <2>1, <2>2, <2>3, Frame DEF Queue, TypeOK
<1>4. CASE CompositionFails(p)
  <2>1. ProcessTypeOK' /\ LeadTypeOK'
    BY <1>4, BecomesIdleType DEF CompositionFails, TypeOK, LeadTypeOK, LeadStatuses
  <2> QED
    BY <1>4, <2>1, Frame DEF CompositionFails, TypeOK
<1>5. CASE HandOff(p)
  <2>1. ProcessTypeOK' /\ ConvTypeOK' /\ LeadTypeOK' /\ HistoryTypeOK'
    BY <1>5, BecomesIdleType, HumanTakesOverType DEF HandOff
  <2>2. QueueTypeOK'
    BY <1>5, HumanTakesOverType DEF HandOff, TypeOK, QueueTypeOK
  <2> QED
    BY <1>5, <2>1, <2>2, Frame DEF HandOff, TypeOK
<1> QED
  BY <1>1, <1>2, <1>3, <1>4, <1>5 DEF Plan

\* Claiming (_prepare, _build_request): the request carries well-typed data.
LEMMA ClaimType ==
  ASSUME TypeOK, NEW p \in Workers, NEW a \in Actions, Claim(p, a)
  PROVE  TypeOK'
<1>1. ProcessTypeOK'
  <2>1. PICK api \in BOOLEAN :
          /\ req' = [req EXCEPT ![p] = Request(a, api)]
          /\ chan' = [chan EXCEPT ![p] = IF api THEN "API" ELSE "BROWSER"]
    BY DEF Claim
  <2>2. Request(a, api) \in Requests
    BY DEF TypeOK, QueueTypeOK, Request, Requests, Known
  <2>3. req' \in [Workers -> Requests]
    BY <2>1, <2>2 DEF TypeOK, ProcessTypeOK
  <2>4. chan' \in [Workers -> Channels]
    BY <2>1 DEF TypeOK, ProcessTypeOK, Channels
  <2> QED
    BY <2>3, <2>4 DEF TypeOK, ProcessTypeOK, Claim, Phases, Holding
<1>2. QueueTypeOK'
  BY DEF TypeOK, QueueTypeOK, Claim, Statuses
<1> QED
  BY <1>1, <1>2, Frame DEF Claim, TypeOK

\* The start of a tick, and the gate's three answers.
LEMMA StartType ==
  ASSUME TypeOK, NEW p \in Workers, Start(p)
  PROVE  TypeOK'
<1>1. ASSUME NEW stale \in SUBSET Orphans, StartTick(p, stale) PROVE TypeOK'
  <2>1. QueueTypeOK'
    BY <1>1 DEF StartTick, TypeOK, QueueTypeOK, Statuses, OpenOutbound
  <2>2. ControlTypeOK'
    BY <1>1 DEF StartTick, TypeOK, ControlTypeOK
  <2> QED
    BY <1>1, <2>1, <2>2, Frame DEF StartTick, TypeOK
<1>2. ASSUME NEW a \in Actions, Demote(p, a) PROVE TypeOK'
  <2>1. QueueTypeOK'
    BY <1>2 DEF Demote, TypeOK, QueueTypeOK, Statuses, OpenOutbound, AwaitingHuman, Approvers
  <2> QED
    BY <1>2, <2>1, Frame DEF Demote, TypeOK
<1>3. ASSUME NEW a \in Actions, Deny(p, a) PROVE TypeOK'
  <2>1. QueueTypeOK'
    BY <1>3 DEF Deny, TypeOK, QueueTypeOK, Statuses, Final
  <2>2. LeadTypeOK'
    BY <1>3, LeadAfterBlockType DEF Deny, TypeOK, LeadTypeOK
  <2> QED
    BY <1>3, <2>1, <2>2, Frame DEF Deny, TypeOK
<1> QED
  BY <1>1, <1>2, <1>3, ClaimType DEF Start

\* Whatever an adapter reports is one of the execution statuses.
LEMMA ReportsType ==
  ASSUME NEW c \in Channels
  PROVE  /\ EarlyFailures(c) \subseteq Results
         /\ \A d \in BOOLEAN : SendReports(c, d) \subseteq Results
BY DEF EarlyFailures, SendReports, Results, NotSent, NotPermitted, Delivered

\* An execution that ends, or falls back to the browser, is still well typed.
LEMMA EndsType ==
  ASSUME TypeOK, NEW p \in Workers, pc[p] \in Holding, NEW r \in Results, NEW s \in Snapshots,
         UNCHANGED <<job, req>>,
         \/ EndsOrFallsBack(p, r, s)
         \/ Ends(p, r, s) /\ chan' \in {chan, [chan EXCEPT ![p] = "API"]}
  PROVE  ProcessTypeOK'
<1>1. chan' \in [Workers -> Channels]
  BY DEF EndsOrFallsBack, TypeOK, ProcessTypeOK, Channels
<1>2. res' \in [Workers -> Results \cup {NoResult}]
  BY DEF EndsOrFallsBack, Ends, TypeOK, ProcessTypeOK
<1>3. saw' \in [Workers -> Snapshots]
  BY DEF EndsOrFallsBack, Ends, TypeOK, ProcessTypeOK
<1>4. /\ pc' \in [Workers -> Phases]
      /\ \A q \in Workers : pc'[q] \in Holding => job'[q] \in Actions
  BY DEF EndsOrFallsBack, Ends, TypeOK, ProcessTypeOK, Phases, Holding
<1> QED
  BY <1>1, <1>2, <1>3, <1>4 DEF TypeOK, ProcessTypeOK

\* What an adapter reads from the thread is a snapshot.
LEMMA SnapshotsType == TypeOK => Snapshot \in Snapshots /\ Unread \in Snapshots
BY DEF TypeOK, ThreadTypeOK, Snapshot, Unread, Snapshots

\* Taking, being refused and giving back the conversation.
LEMMA LeaseType ==
  ASSUME TypeOK, NEW p \in Workers
  PROVE  /\ LeaseConversation(p) => TypeOK'
         /\ LeaseRefused(p) => TypeOK'
         /\ Release(p) => TypeOK'
<1>1. ASSUME LeaseConversation(p) PROVE TypeOK'
  <2>1. job[p] \in Actions /\ chan[p] \in Channels
    BY <1>1 DEF LeaseConversation, TypeOK, ProcessTypeOK, Holding
  <2>2. ProcessTypeOK'
    BY <1>1 DEF LeaseConversation, TypeOK, ProcessTypeOK, Phases, Holding
  <2>3. ConvTypeOK'
    BY <1>1, <2>1 DEF LeaseConversation, Acquire, Transfer, TypeOK, ConvTypeOK, Owners, Agents,
                      AgentOf, Channels
  <2>4. RowTypeOK'
    <3>1. req[p].text \in Versions
      BY DEF TypeOK, ProcessTypeOK, Requests
    <3>2. row' \in [Actions -> RowStates] /\ UNCHANGED rowMid
      BY <1>1 DEF LeaseConversation, RecordIntent, TypeOK, RowTypeOK, RowStates
    <3>3. rowText' \in [Actions -> Versions]
      BY <1>1, <3>1 DEF LeaseConversation, RecordIntent, TypeOK, RowTypeOK
    <3>4. rowFresh' \in [Actions -> BOOLEAN]
      BY <1>1 DEF LeaseConversation, RecordIntent, TypeOK, RowTypeOK
    <3> QED
      BY <3>2, <3>3, <3>4 DEF TypeOK, RowTypeOK
  <2> QED
    BY <1>1, <2>2, <2>3, <2>4, Frame DEF LeaseConversation, TypeOK
<1>2. ASSUME LeaseRefused(p) PROVE TypeOK'
  <2>1. ProcessTypeOK'
    BY <1>2, SnapshotsType, EndsType DEF LeaseRefused, Holding, Results, NotSent
  <2> QED
    BY <1>2, <2>1, Frame DEF LeaseRefused, TypeOK
<1>3. ASSUME Release(p) PROVE TypeOK'
  <2>1. ProcessTypeOK'
    BY <1>3 DEF Release, TypeOK, ProcessTypeOK, Phases, Holding
  <2>2. ConvTypeOK'
    BY <1>3 DEF Release, ReleaseLease, TypeOK, ConvTypeOK, convVars, Owners
  <2> QED
    BY <1>3, <2>1, <2>2, Frame DEF Release, TypeOK
<1> QED
  BY <1>1, <1>2, <1>3

\* The adapters' steps before the irreversible one.
LEMMA ReadType ==
  ASSUME TypeOK, NEW p \in Workers
  PROVE  /\ ReadThread(p) => TypeOK'
         /\ VerifyOverApi(p) => TypeOK'
         /\ CheckGuard(p) => TypeOK'
<1> DEFINE Advances(phase, s) == /\ pc' = [pc EXCEPT ![p] = phase]
                                 /\ saw' = [saw EXCEPT ![p] = s] \/ UNCHANGED saw
                                 /\ UNCHANGED <<job, chan, req, res>>
<1>1. ASSUME NEW phase \in {"typed", "armed"}, NEW s \in Snapshots, Advances(phase, s),
             pc[p] \in Holding
      PROVE  ProcessTypeOK'
  BY <1>1 DEF TypeOK, ProcessTypeOK, Phases, Holding
<1>2. ASSUME ReadThread(p) PROVE TypeOK'
  <2>1. PICK v \in ReadVerdicts(p, Snapshot) :
          IF v = "typed"
          THEN Advances("typed", Snapshot)
          ELSE /\ Ends(p, v, IF v = "UI_CHANGED" THEN Unread ELSE Snapshot)
               /\ UNCHANGED <<job, chan, req>>
    BY <1>2 DEF ReadThread
  <2>2. pc[p] \in Holding
    BY <1>2 DEF ReadThread, Holding
  <2>3. v \in Results \/ v = "typed"
    BY DEF ReadVerdicts, Results, NotSent, NotPermitted, Delivered
  <2>4. ProcessTypeOK'
    <3>1. CASE v = "typed"
      BY <3>1, <2>1, <2>2, <1>1, SnapshotsType
    <3>2. CASE v # "typed"
      BY <3>2, <2>1, <2>2, <2>3, EndsType, SnapshotsType
    <3> QED
      BY <3>1, <3>2
  <2> QED
    BY <1>2, <2>4, Frame DEF ReadThread, TypeOK
<1>3. ASSUME VerifyOverApi(p) PROVE TypeOK'
  <2>1. \/ Ends(p, "ALREADY_DELIVERED", Unread) /\ UNCHANGED <<job, chan, req>>
        \/ Advances("typed", Unread)
    BY <1>3 DEF VerifyOverApi
  <2>2. ProcessTypeOK'
    BY <1>3, <2>1, <1>1, EndsType, SnapshotsType DEF VerifyOverApi, Holding, Results, Delivered
  <2> QED
    BY <1>3, <2>2, Frame DEF VerifyOverApi, TypeOK
<1>4. ASSUME CheckGuard(p) PROVE TypeOK'
  <2>1. \/ Ends(p, "OWNERSHIP_CONFLICT", Unread) /\ UNCHANGED <<job, chan, req>>
        \/ Advances("armed", Unread)
    BY <1>4 DEF CheckGuard
  <2>2. ProcessTypeOK'
    BY <1>4, <2>1, <1>1, EndsType, SnapshotsType DEF CheckGuard, Holding, Results, NotSent
  <2> QED
    BY <1>4, <2>2, Frame DEF CheckGuard, TypeOK
<1> QED
  BY <1>2, <1>3, <1>4

\* Sending: the thread, the webhook queue and the report.
LEMMA SendType ==
  ASSUME TypeOK, NEW p \in Workers, Send(p)
  PROVE  TypeOK'
<1>1. Mine(p) \in Bubbles /\ job[p] \in Actions
  BY DEF Send, Mine, Bubbles, TypeOK, ProcessTypeOK, Holding, Requests
<1>2. PICK d \in BOOLEAN :
        /\ IF d THEN Deliver(p) ELSE UNCHANGED <<sent, ourEchoes>>
        /\ \E r \in SendReports(chan[p], d), s \in {Unread, saw[p]} : EndsOrFallsBack(p, r, s)
  BY DEF Send
<1>3. ThreadTypeOK'
  BY <1>1, <1>2 DEF Send, Deliver, TypeOK, ThreadTypeOK
<1>4. HookTypeOK'
  BY <1>1, <1>2 DEF Send, Deliver, TypeOK, HookTypeOK, RowTypeOK
<1>5. ProcessTypeOK'
  <2>1. chan[p] \in Channels /\ saw[p] \in Snapshots /\ pc[p] \in Holding
    BY DEF Send, TypeOK, ProcessTypeOK, Holding
  <2>2. PICK r \in SendReports(chan[p], d), s \in {Unread, saw[p]} : EndsOrFallsBack(p, r, s)
    BY <1>2
  <2>3. r \in Results /\ s \in Snapshots
    BY <2>1, ReportsType, SnapshotsType
  <2> QED
    BY <2>1, <2>2, <2>3, EndsType DEF Send
<1>6. HistoryTypeOK'
  BY DEF Send, TypeOK, HistoryTypeOK
<1> QED
  BY <1>3, <1>4, <1>5, <1>6, Frame DEF Send, TypeOK

\* Recording an outcome (worker._record) with all it does to five tables.
LEMMA RecordType ==
  ASSUME TypeOK, NEW p \in Workers, Record(p)
  PROVE  TypeOK'
<1> DEFINE a == job[p]
           r == res[p]
           s == saw[p]
           verdict == Verdict(r, chan[p], AttemptsAfter(a, r))
           judged == [status EXCEPT ![a] = verdict]
<1>1. /\ a \in Actions /\ r \in Results \cup {NoResult} /\ s \in Snapshots /\ chan[p] \in Channels
      /\ req[p].text \in Versions
  BY DEF Record, TypeOK, ProcessTypeOK, Holding, Requests
<1>2. ProcessTypeOK'
  BY BecomesIdleType DEF Record
<1>3. QueueTypeOK'
  <2>1. attempts' \in [Actions -> 0..MaxAttempts]
    <3>1. attempts \in [Actions -> 0..MaxAttempts] /\ MaxAttempts \in Nat
      BY SendPathAssumption DEF TypeOK, QueueTypeOK
    <3>2. AttemptsAfter(a, r) \in 0..MaxAttempts
      BY <1>1, <3>1 DEF AttemptsAfter
    <3>3. attempts' = [attempts EXCEPT ![a] = AttemptsAfter(a, r)]
      BY DEF Record
    <3> HIDE DEF a, r
    <3> QED
      BY <1>1, <3>1, <3>2, <3>3
  <2>2. verdict \in Statuses
    BY <1>1 DEF Verdict, Statuses, OpenOutbound, ParkedStatuses, Final
  <2>3. judged \in [Actions -> Statuses]
    BY <2>2 DEF TypeOK, QueueTypeOK
  <2>4. status' \in [Actions -> Statuses]
    <3>1. \/ status' = judged
          \/ status' = CancelOpen(judged, Actions)
          \/ status' = QueueOnInbound(judged)
          \/ status' = QueueOnInbound(CancelOpen(judged, Actions))
      BY DEF Record
    <3> HIDE DEF judged
    <3>2. CancelOpen(judged, Actions) \in [Actions -> Statuses]
      BY <2>3, CancelOpenType
    <3> QED
      BY <2>3, <3>1, <3>2, CancelOpenType DEF QueueOnInbound
  <2> QED
    BY <2>1, <2>4 DEF Record, TypeOK, QueueTypeOK
<1>4. ControlTypeOK'
  BY <1>1 DEF Record, LanesAfter, TypeOK, ControlTypeOK, LaneStates
<1>5. ConvTypeOK' /\ HistoryTypeOK'
  <2>1. \/ TakeOver /\ stragglers' = Armed
        \/ UNCHANGED <<convVars, stragglers>>
    BY DEF Record
  <2>2. ConvTypeOK'
    BY <2>1, ConversationAssumption DEF TakeOver, convVars, TypeOK, ConvTypeOK, Owners
  <2>3. HistoryTypeOK'
    BY <2>1 DEF Record, Armed, TypeOK, HistoryTypeOK, ProcessTypeOK, Holding
  <2> QED
    BY <2>2, <2>3
<1>6. StoreTypeOK'
  BY <1>1 DEF Record, TypeOK, StoreTypeOK, InboundStates, Snapshots
<1>7. RowTypeOK'
  <2>1. row' \in [Actions -> RowStates]
    BY <1>1 DEF Record, RowAfterSend, TypeOK, RowTypeOK, RowStates
  <2>2. rowMid' \in [Actions -> Versions \cup {"none"}]
    BY <1>1 DEF Record, TypeOK, RowTypeOK
  <2>3. rowFresh' \in [Actions -> BOOLEAN]
    BY <1>1 DEF Record, TypeOK, RowTypeOK
  <2> QED
    BY <2>1, <2>2, <2>3 DEF Record, TypeOK, RowTypeOK
<1>8. counted' \in [Actions -> Nat]
  BY <1>1 DEF Record, TypeOK
<1>9. LeadTypeOK'
  <2>1. ASSUME NEW f, NEW l \in LeadStatuses PROVE LeadAfterSend(a, r, f, l) \in LeadStatuses
    BY <1>1 DEF LeadAfterSend, LeadStatuses
  <2>2. \A l \in LeadStatuses : LeadOnInbound(l) \in LeadStatuses
    BY DEF LeadOnInbound, LeadStatuses
  <2>3. lead' \in LeadStatuses
    <3>1. PICK l \in {lead, "HANDED_OFF", LeadOnInbound(lead), LeadOnInbound("HANDED_OFF")} :
            lead' = LeadAfterSend(a, r, verdict \in Final, l)
      BY DEF Record
    <3>2. lead \in LeadStatuses /\ "HANDED_OFF" \in LeadStatuses
      BY DEF TypeOK, LeadTypeOK, LeadStatuses
    <3> QED
      BY <2>1, <2>2, <3>1, <3>2
  <2>4. followups' \in Nat
    BY SendPathAssumption DEF Record, FollowUpsAfter, TypeOK, LeadTypeOK
  <2>5. /\ contacted' \in BOOLEAN /\ lastOutbound' \in BOOLEAN
        /\ replied' \in BOOLEAN /\ followupsBlocked' \in BOOLEAN
    BY DEF Record, TypeOK, LeadTypeOK
  <2> QED
    BY <2>3, <2>4, <2>5 DEF LeadTypeOK
<1> QED
  BY <1>2, <1>3, <1>4, <1>5, <1>6, <1>7, <1>8, <1>9, Frame DEF Record, TypeOK

\* Every step of an execution.
LEMMA ExecuteType ==
  ASSUME TypeOK, NEW p \in Workers, Execute(p)
  PROVE  TypeOK'
<1>1. CASE SkipApi(p)
  <2>1. ProcessTypeOK'
    BY <1>1 DEF SkipApi, TypeOK, ProcessTypeOK, Channels
  <2> QED
    BY <1>1, <2>1, Frame DEF SkipApi, TypeOK
<1>2. CASE NoChannel(p)
  <2>1. PICK r : /\ r = IF res[p] = NoResult THEN "CAPABILITY_UNAVAILABLE" ELSE res[p]
                 /\ Ends(p, r, Unread)
                 /\ chan' \in {chan, [chan EXCEPT ![p] = "API"]}
                 /\ UNCHANGED <<job, req>>
    BY <1>2 DEF NoChannel
  <2>2. r \in Results /\ pc[p] \in Holding
    BY <1>2, <2>1 DEF NoChannel, TypeOK, ProcessTypeOK, Results, NotSent, Holding
  <2>3. ProcessTypeOK'
    BY <2>1, <2>2, EndsType, SnapshotsType
  <2> QED
    BY <1>2, <2>3, Frame DEF NoChannel, TypeOK
<1>3. CASE FailEarly(p)
  <2>1. chan[p] \in Channels /\ pc[p] \in Holding
    BY <1>3 DEF FailEarly, MayFailEarly, TypeOK, ProcessTypeOK, Holding
  <2>2. PICK r \in EarlyFailures(chan[p]) : EndsOrFallsBack(p, r, Unread)
    BY <1>3 DEF FailEarly
  <2>3. r \in Results
    BY <2>1, ReportsType
  <2>4. ProcessTypeOK'
    BY <1>3, <2>1, <2>2, <2>3, EndsType, SnapshotsType DEF FailEarly
  <2> QED
    BY <1>3, <2>4, Frame DEF FailEarly, TypeOK
<1> QED
  BY <1>1, <1>2, <1>3, LeaseType, ReadType, SendType, RecordType DEF Execute

\* Every webhook event (record_inbound, record_echo).
LEMMA ObserveType ==
  ASSUME TypeOK, NEW p \in Workers, Observe(p)
  PROVE  TypeOK'
<1>1. CASE InboundEvent(p)
  <2>1. QueueTypeOK'
    BY <1>1, CancelOpenType DEF InboundEvent, QueueOnInbound, TypeOK, QueueTypeOK
  <2>2. LeadTypeOK'
    BY <1>1 DEF InboundEvent, LeadOnInbound, TypeOK, LeadTypeOK, LeadStatuses
  <2>3. StoreTypeOK' /\ HookTypeOK'
    BY <1>1 DEF InboundEvent, TypeOK, StoreTypeOK, HookTypeOK, InboundStates
  <2> QED
    BY <1>1, <2>1, <2>2, <2>3, Frame DEF InboundEvent, TypeOK, historyVars
<1>2. ASSUME NEW e \in ourEchoes, EchoOfOurs(p, e) PROVE TypeOK'
  <2>1. e \in Bubbles \X BOOLEAN
    BY DEF TypeOK, HookTypeOK
  <2>2. e[1] \in Bubbles /\ e[1][1] \in Actions /\ e[1][2] \in Versions
    BY <2>1 DEF Bubbles
  <2>3. HookTypeOK'
    BY <1>2 DEF EchoOfOurs, TypeOK, HookTypeOK
  <2>4. RowTypeOK' /\ StoreTypeOK'
    BY <1>2, <2>2 DEF EchoOfOurs, TypeOK, RowTypeOK, RowStates, StoreTypeOK
  <2>5. CASE HumanTakesOver
    <3>1. QueueTypeOK' /\ LeadTypeOK' /\ ConvTypeOK' /\ HistoryTypeOK'
      BY <1>2, <2>5, HumanTakesOverType DEF EchoOfOurs, TypeOK, QueueTypeOK
    <3> QED
      BY <1>2, <2>3, <2>4, <3>1, Frame DEF EchoOfOurs, TypeOK
  <2>6. CASE UNCHANGED <<status, leadVars, historyVars, convVars>>
    <3>1. QueueTypeOK'
      BY <1>2, <2>6 DEF EchoOfOurs, TypeOK, QueueTypeOK
    <3> QED
      BY <1>2, <2>3, <2>4, <2>6, <3>1, Frame DEF EchoOfOurs, TypeOK
  <2> QED
    BY <1>2, <2>5, <2>6 DEF EchoOfOurs
<1>3. ASSUME NEW m \in HumanMsgs, EchoOfHuman(p, m) PROVE TypeOK'
  <2>1. HookTypeOK' /\ StoreTypeOK'
    BY <1>3 DEF EchoOfHuman, TypeOK, HookTypeOK, StoreTypeOK
  <2>2. QueueTypeOK' /\ LeadTypeOK' /\ ConvTypeOK' /\ HistoryTypeOK'
    BY <1>3, HumanTakesOverType DEF EchoOfHuman, TypeOK, QueueTypeOK
  <2> QED
    BY <1>3, <2>1, <2>2, Frame DEF EchoOfHuman, TypeOK
<1>4. CASE IgnoreEcho(p)
  <2>1. HookTypeOK'
    BY <1>4 DEF IgnoreEcho, TypeOK, HookTypeOK
  <2> QED
    BY <1>4, <2>1, Frame DEF IgnoreEcho, TypeOK
<1> QED
  BY <1>1, <1>2, <1>3, <1>4 DEF Observe

\* Every action of the operator (control.py) and the expiry of approvals.
LEMMA OperateType ==
  ASSUME TypeOK, Operate
  PROVE  TypeOK'
<1>1. ASSUME NEW a \in Actions, ExpireApproval(a) PROVE TypeOK'
  <2>1. QueueTypeOK' /\ LeadTypeOK'
    BY <1>1 DEF ExpireApproval, TypeOK, QueueTypeOK, Statuses, Final, LeadTypeOK, LeadStatuses
  <2> QED
    BY <1>1, <2>1, Frame DEF ExpireApproval, TypeOK
<1>2. ASSUME NEW a \in Actions, Approve(a) PROVE TypeOK'
  <2>1. status' \in [Actions -> Statuses] /\ approver' \in [Actions -> Approvers]
    BY <1>2 DEF Approve, TypeOK, QueueTypeOK, Statuses, OpenOutbound, Approvers
  <2>2. text' \in [Actions -> Versions]
    BY <1>2 DEF Approve, TypeOK, QueueTypeOK, Versions
  <2>3. QueueTypeOK'
    BY <1>2, <2>1, <2>2 DEF Approve, TypeOK, QueueTypeOK
  <2> QED
    BY <1>2, <2>3, Frame DEF Approve, TypeOK
<1>3. ASSUME NEW a \in Actions, Reject(a) PROVE TypeOK'
  <2>1. QueueTypeOK' /\ LeadTypeOK'
    BY <1>3 DEF Reject, TypeOK, QueueTypeOK, Statuses, Final, LeadTypeOK, LeadStatuses
  <2> QED
    BY <1>3, <2>1, Frame DEF Reject, TypeOK
<1>4. ASSUME NEW m \in Modes, SetMode(m) PROVE TypeOK'
  <2>1. ControlTypeOK'
    BY <1>4 DEF SetMode, TypeOK, ControlTypeOK
  <2> QED
    BY <1>4, <2>1, Frame DEF SetMode, TypeOK
<1>5. CASE ClaimConversation
  <2>1. QueueTypeOK' /\ LeadTypeOK' /\ ConvTypeOK' /\ HistoryTypeOK'
    BY <1>5, HumanTakesOverType DEF ClaimConversation, TypeOK, QueueTypeOK
  <2> QED
    BY <1>5, <2>1, Frame DEF ClaimConversation, TypeOK
<1>6. CASE ReleaseConversation
  <2>1. ConvTypeOK'
    BY <1>6 DEF ReleaseConversation, ReleaseToAutomation, ConvTypeOK, Owners
  <2> QED
    BY <1>6, <2>1, Frame DEF ReleaseConversation, TypeOK
<1>7. CASE Suppress
  <2>1. QueueTypeOK'
    BY <1>7, CancelOpenType DEF Suppress, TypeOK, QueueTypeOK
  <2>2. LeadTypeOK'
    BY <1>7 DEF Suppress, TypeOK, LeadTypeOK, LeadStatuses
  <2>3. HistoryTypeOK'
    BY <1>7 DEF Suppress, Executing, TypeOK, HistoryTypeOK, ProcessTypeOK
  <2>4. suppressed' \in BOOLEAN
    BY <1>7 DEF Suppress
  <2> QED
    BY <1>7, <2>1, <2>2, <2>3, <2>4, Frame DEF Suppress, TypeOK
<1>8. ASSUME NEW c \in Channels, HaltLane(c) PROVE TypeOK'
  <2>1. ControlTypeOK'
    BY <1>8 DEF HaltLane, TypeOK, ControlTypeOK, LaneStates
  <2> QED
    BY <1>8, <2>1, Frame DEF HaltLane, TypeOK
<1>9. ASSUME NEW c \in Channels, ResumeLane(c) PROVE TypeOK'
  <2>1. ControlTypeOK' /\ QueueTypeOK'
    BY <1>9 DEF ResumeLane, TypeOK, ControlTypeOK, LaneStates, QueueTypeOK, Statuses, OpenOutbound
  <2> QED
    BY <1>9, <2>1, Frame DEF ResumeLane, TypeOK
<1> QED
  BY <1>1, <1>2, <1>3, <1>4, <1>5, <1>6, <1>7, <1>8, <1>9 DEF Operate

\* Instagram, crashes and the clock.
LEMMA EnvironmentType ==
  ASSUME TypeOK, Environment
  PROVE  TypeOK'
<1>1. ASSUME NEW m \in HumanMsgs, HumanWrites(m) PROVE TypeOK'
  <2>1. ThreadTypeOK' /\ HookTypeOK'
    BY <1>1 DEF HumanWrites, TypeOK, ThreadTypeOK, HookTypeOK
  <2> QED
    BY <1>1, <2>1, Frame DEF HumanWrites, TypeOK
<1>2. CASE ProspectWrites
  <2>1. ThreadTypeOK' /\ HookTypeOK'
    BY <1>2 DEF ProspectWrites, TypeOK, ThreadTypeOK, HookTypeOK
  <2> QED
    BY <1>2, <2>1, Frame DEF ProspectWrites, TypeOK
<1>3. ASSUME NEW p \in Workers, Crash(p) PROVE TypeOK'
  <2>1. ProcessTypeOK' /\ HistoryTypeOK'
    BY <1>3, BecomesIdleType DEF Crash, TypeOK, HistoryTypeOK
  <2> QED
    BY <1>3, <2>1, Frame DEF Crash, TypeOK
<1>4. ASSUME NEW c \in Channels, CooldownEnds(c) PROVE TypeOK'
  <2>1. ControlTypeOK'
    BY <1>4 DEF CooldownEnds, TypeOK, ControlTypeOK, LaneStates
  <2> QED
    BY <1>4, <2>1, Frame DEF CooldownEnds, TypeOK
<1>5. ASSUME NEW a \in Actions, RowAges(a) PROVE TypeOK'
  <2>1. RowTypeOK'
    BY <1>5 DEF RowAges, TypeOK, RowTypeOK
  <2> QED
    BY <1>5, <2>1, Frame DEF RowAges, TypeOK
<1>6. CASE ReleaseHold
  <2>1. ConvTypeOK'
    BY <1>6 DEF ReleaseHold, ReleaseExpiredHold, ReleaseToAutomation, ConvTypeOK, Owners
  <2> QED
    BY <1>6, <2>1, Frame DEF ReleaseHold, TypeOK
<1>7. CASE LeaseTimeout
  <2>1. ConvTypeOK'
    BY <1>7 DEF LeaseTimeout, LeaseLapses, TypeOK, ConvTypeOK
  <2> QED
    BY <1>7, <2>1, Frame DEF LeaseTimeout, TypeOK
<1>8. CASE HoldTimeout
  <2>1. ConvTypeOK'
    BY <1>8 DEF HoldTimeout, HoldLapses, TypeOK, ConvTypeOK
  <2> QED
    BY <1>8, <2>1, Frame DEF HoldTimeout, TypeOK
<1> QED
  BY <1>1, <1>2, <1>3, <1>4, <1>5, <1>6, <1>7, <1>8 DEF Environment

\* The type invariant is inductive.
LEMMA TypeStep == TypeOK /\ [Next]_vars => TypeOK'
<1> SUFFICES ASSUME TypeOK, [Next]_vars PROVE TypeOK'
  OBVIOUS
<1>1. CASE Next
  BY <1>1, PlanType, StartType, ExecuteType, ObserveType, OperateType, EnvironmentType DEF Next
<1>2. CASE UNCHANGED vars
  BY <1>2, Frame DEF vars, TypeOK
<1> QED
  BY <1>1, <1>2

\* Every reachable state of the send path is well typed: every handler writes only states,
\* statuses and counters that the others expect to read.
THEOREM TypeCorrect == Spec => []TypeOK
BY TypeInit, TypeStep, PTL DEF Spec

(***************************************************************************)
(* No text is delivered twice.                                             *)
(***************************************************************************)
IInv == TypeOK /\ DeliveryInvariant

\* What a step does to an execution it does not bring any closer to typing.
NoCloser(q) ==
  pc'[q] \in Holding =>
    /\ pc[q] \in Holding
    /\ job'[q] = job[q] /\ req'[q] = req[q]
    /\ status'[job[q]] = "EXECUTING"
    /\ \/ pc'[q] = pc[q]
       \/ pc'[q] \in {"done", "released"}
       \/ pc'[q] = "claimed" /\ pc[q] \in {"leased", "typed", "armed"}
       \/ pc'[q] = "armed" /\ pc[q] = "typed"

NoRowLost == \A a \in Actions : row'[a] = "none" => row[a] = "none"

\* Nothing is in the thread and nobody executes anything at the start.
LEMMA InvInit == Init => DeliveryInvariant
BY DEF Init, DeliveryInvariant, OneCopyOfEachText, ExecutionsAreHeld, IntentComesFirst,
       LooksBeforeTyping, Holding, Bubbles

\* Most steps: nothing is sent, no row disappears, nobody comes closer to typing.
LEMMA QuietStep ==
  ASSUME IInv, UNCHANGED sent, NoRowLost, \A q \in Workers : NoCloser(q)
  PROVE  DeliveryInvariant'
<1>1. OneCopyOfEachText'
  BY DEF IInv, DeliveryInvariant, OneCopyOfEachText
<1>2. ExecutionsAreHeld'
  BY DEF IInv, DeliveryInvariant, ExecutionsAreHeld, NoCloser
<1>3. IntentComesFirst'
  <2>1. \A a \in Actions : row'[a] = "none" => \A t \in Versions : sent'[<<a, t>>] = 0
    BY DEF IInv, DeliveryInvariant, IntentComesFirst, NoRowLost
  <2>2. ASSUME NEW q \in Workers, pc'[q] \in {"leased", "typed", "armed"}
        PROVE  row'[job'[q]] # "none"
    BY <2>2 DEF IInv, TypeOK, ProcessTypeOK, DeliveryInvariant, IntentComesFirst, NoRowLost,
                NoCloser, Holding
  <2> QED
    BY <2>1, <2>2 DEF IntentComesFirst
<1>4. LooksBeforeTyping'
  BY DEF IInv, DeliveryInvariant, LooksBeforeTyping, NoCloser, Holding, Mine
<1> QED
  BY <1>1, <1>2, <1>3, <1>4 DEF DeliveryInvariant

\* An action in execution stays so when open actions are cancelled.
LEMMA CancelSparesExecuting ==
  ASSUME NEW st \in [Actions -> Statuses], NEW S, NEW a \in Actions, st[a] = "EXECUTING"
  PROVE  CancelOpen(st, S)[a] = "EXECUTING"
BY DEF CancelOpen, OpenOutbound, AwaitingHuman, ParkedStatuses, Parked

\* A process that holds an execution holds an EXECUTING action.
LEMMA HeldStatus ==
  ASSUME IInv, NEW q \in Workers, pc[q] \in Holding
  PROVE  job[q] \in Actions /\ status[job[q]] = "EXECUTING" /\ status \in [Actions -> Statuses]
BY DEF IInv, TypeOK, QueueTypeOK, ProcessTypeOK, DeliveryInvariant, ExecutionsAreHeld

\* A takeover does not take an executing action from its process either.
LEMMA TakeOverSparesExecuting ==
  ASSUME IInv, HumanTakesOver, NEW q \in Workers, pc[q] \in Holding
  PROVE  status'[job[q]] = "EXECUTING"
BY HeldStatus, CancelSparesExecuting DEF HumanTakesOver

\* A process that becomes idle comes no closer to typing, nor does any other.
LEMMA IdleComesNoCloser ==
  ASSUME IInv, NEW p \in Workers, BecomesIdle(p),
         \A q \in Workers \ {p} : pc[q] \in Holding => status'[job[q]] = "EXECUTING"
  PROVE  \A q \in Workers : NoCloser(q)
BY DEF IInv, TypeOK, ProcessTypeOK, BecomesIdle, NoCloser, Holding

\* Steps that touch no process, and the queue only outside executions.
LEMMA OutsideStep ==
  ASSUME IInv, UNCHANGED <<sent, processVars>>, NoRowLost,
         \A q \in Workers : pc[q] \in Holding => status'[job[q]] = "EXECUTING"
  PROVE  DeliveryInvariant'
<1>1. \A q \in Workers : NoCloser(q)
  BY DEF NoCloser, processVars
<1> QED
  BY <1>1, QuietStep

\* Planning only makes actions that were not there, or cancels open ones.
LEMMA PlanDelivery ==
  ASSUME IInv, NEW p \in Workers, Plan(p)
  PROVE  DeliveryInvariant'
<1>1. ASSUME NEW a \in Actions, Compose(p, a) PROVE DeliveryInvariant'
  <2>1. \A q \in Workers : NoCloser(q)
    BY <1>1, HeldStatus DEF Compose, queueVars, NoCloser, IInv, TypeOK, ProcessTypeOK, Holding
  <2> QED
    BY <1>1, <2>1, QuietStep DEF Compose, NoRowLost, rowVars, threadVars
<1>2. CASE HandleReply(p)
  <2>1. \A q \in Workers : pc[q] \in Holding => status'[job[q]] = "EXECUTING"
    BY <1>2, HeldStatus, CancelSparesExecuting DEF HandleReply
  <2>2. \A q \in Workers : NoCloser(q)
    BY <1>2, <2>1 DEF HandleReply, NoCloser, IInv, TypeOK, ProcessTypeOK, Holding
  <2> QED
    BY <1>2, <2>2, QuietStep DEF HandleReply, NoRowLost, rowVars, threadVars
<1>3. CASE Queue(p)
  <2>1. \A q \in Workers : pc[q] \in Holding => status'[job[q]] = "EXECUTING"
    BY <1>3, HeldStatus DEF Queue
  <2> QED
    BY <1>3, <2>1, IdleComesNoCloser, QuietStep DEF Queue, NoRowLost, rowVars, threadVars
<1>4. CASE CompositionFails(p)
  <2>1. \A q \in Workers : pc[q] \in Holding => status'[job[q]] = "EXECUTING"
    BY <1>4, HeldStatus DEF CompositionFails, queueVars
  <2> QED
    BY <1>4, <2>1, IdleComesNoCloser, QuietStep DEF CompositionFails, NoRowLost, rowVars,
       threadVars
<1>5. CASE HandOff(p)
  <2>1. \A q \in Workers : pc[q] \in Holding => status'[job[q]] = "EXECUTING"
    BY <1>5, TakeOverSparesExecuting DEF HandOff
  <2> QED
    BY <1>5, <2>1, IdleComesNoCloser, QuietStep DEF HandOff, NoRowLost, rowVars, threadVars
<1> QED
  BY <1>1, <1>2, <1>3, <1>4, <1>5 DEF Plan

\* The one step that starts an execution: of an action that nobody executes, with an order
\* to look into the thread unless nothing was ever written down for it.
LEMMA ClaimDelivery ==
  ASSUME IInv, NEW p \in Workers, NEW a \in Actions, Claim(p, a)
  PROVE  DeliveryInvariant'
<1>1. /\ pc[p] = "idle" /\ status[a] = "APPROVED"
      /\ UNCHANGED <<sent, row, attempts>>
      /\ pc' = [pc EXCEPT ![p] = "claimed"] /\ job' = [job EXCEPT ![p] = a]
      /\ status' = [status EXCEPT ![a] = "EXECUTING"]
  BY DEF Claim, Candidate, rowVars, threadVars
<1>2. /\ req' \in [Workers -> Requests]
      /\ \A q \in Workers \ {p} : req'[q] = req[q]
      /\ ~req'[p].verify => row[a] = "none"
  <2>1. PICK api \in BOOLEAN : req' = [req EXCEPT ![p] = Request(a, api)]
    BY DEF Claim
  <2>2. Request(a, api) \in Requests
    BY DEF IInv, TypeOK, QueueTypeOK, Request, Requests, Known
  <2>3. ~Request(a, api).verify => row[a] = "none"
    BY DEF Request
  <2> QED
    BY <2>1, <2>2, <2>3 DEF IInv, TypeOK, ProcessTypeOK
<1>3. \A q \in Workers : pc[q] \in Holding => job[q] \in Actions /\ job[q] # a
  BY <1>1, HeldStatus
<1>4. \A q \in Workers \ {p} : pc'[q] = pc[q] /\ job'[q] = job[q]
  BY <1>1 DEF IInv, TypeOK, ProcessTypeOK
<1>5. pc'[p] = "claimed" /\ job'[p] = a
  BY <1>1 DEF IInv, TypeOK, ProcessTypeOK
<1>6. ExecutionsAreHeld'
  <2>1. \A q \in Workers : pc'[q] \in Holding => status'[job'[q]] = "EXECUTING"
    BY <1>1, <1>3, <1>4, <1>5, HeldStatus DEF IInv, TypeOK, QueueTypeOK
  <2>2. \A q, o \in Workers : pc'[q] \in Holding /\ pc'[o] \in Holding /\ job'[q] = job'[o]
                                => q = o
    BY <1>3, <1>4, <1>5 DEF IInv, DeliveryInvariant, ExecutionsAreHeld
  <2> QED
    BY <2>1, <2>2 DEF ExecutionsAreHeld
<1>7. IntentComesFirst'
  BY <1>1, <1>4, <1>5 DEF IInv, DeliveryInvariant, IntentComesFirst
<1>8. LooksBeforeTyping'
  <2>1. \A t \in Versions : ~req'[p].verify => sent'[<<a, t>>] = 0
    BY <1>1, <1>2 DEF IInv, DeliveryInvariant, IntentComesFirst
  <2> QED
    BY <2>1, <1>1, <1>2, <1>4, <1>5 DEF IInv, DeliveryInvariant, LooksBeforeTyping, Mine
<1>9. OneCopyOfEachText'
  BY <1>1 DEF IInv, DeliveryInvariant, OneCopyOfEachText
<1> QED
  BY <1>6, <1>7, <1>8, <1>9 DEF DeliveryInvariant

\* Recovering the stale executions of dead processes spares the live ones.
LEMMA StartDelivery ==
  ASSUME IInv, NEW p \in Workers, Start(p)
  PROVE  DeliveryInvariant'
<1>1. ASSUME NEW stale \in SUBSET Orphans, StartTick(p, stale) PROVE DeliveryInvariant'
  <2>1. ASSUME NEW q \in Workers, pc[q] \in Holding PROVE status'[job[q]] = "EXECUTING"
    <3>1. job[q] \in Actions /\ job[q] \notin stale
      BY <2>1, HeldStatus DEF Orphans, Executing
    <3> QED
      BY <1>1, <2>1, <3>1, HeldStatus DEF StartTick
  <2> QED
    BY <1>1, <2>1, OutsideStep DEF StartTick, NoRowLost, rowVars, threadVars
<1>2. ASSUME NEW a \in Actions, Demote(p, a) PROVE DeliveryInvariant'
  <2>1. \A q \in Workers : pc[q] \in Holding => status'[job[q]] = "EXECUTING"
    BY <1>2, HeldStatus DEF Demote, Candidate
  <2> QED
    BY <1>2, <2>1, OutsideStep DEF Demote, NoRowLost, rowVars, threadVars
<1>3. ASSUME NEW a \in Actions, Deny(p, a) PROVE DeliveryInvariant'
  <2>1. \A q \in Workers : pc[q] \in Holding => status'[job[q]] = "EXECUTING"
    BY <1>3, HeldStatus DEF Deny, Candidate
  <2> QED
    BY <1>3, <2>1, OutsideStep DEF Deny, NoRowLost, rowVars, threadVars
<1> QED
  BY <1>1, <1>2, <1>3, ClaimDelivery DEF Start

\* An execution that ends, falls back or stays where it is comes no closer.
LEMMA EndsDelivery ==
  ASSUME IInv, NEW p \in Workers, NEW r, NEW s,
         pc[p] \in {"claimed", "leased", "typed", "armed"},
         \/ EndsOrFallsBack(p, r, s)
         \/ Ends(p, r, s),
         UNCHANGED <<job, req, status>>
  PROVE  \A q \in Workers : NoCloser(q)
BY HeldStatus DEF EndsOrFallsBack, Ends, NoCloser, IInv, TypeOK, ProcessTypeOK, Holding

\* The lease comes with the intent row, before anything can be typed.
LEMMA LeaseDelivery ==
  ASSUME IInv, NEW p \in Workers, LeaseConversation(p)
  PROVE  DeliveryInvariant'
<1>1. /\ pc[p] = "claimed" /\ job[p] \in Actions
      /\ UNCHANGED <<sent, status, job, req>>
      /\ pc' = [pc EXCEPT ![p] = "leased"]
      /\ row' = [row EXCEPT ![job[p]] = "PENDING"]
  BY HeldStatus DEF LeaseConversation, RecordIntent, queueVars, threadVars, Holding
<1>2. /\ pc'[p] = "leased"
      /\ \A q \in Workers \ {p} : pc'[q] = pc[q]
      /\ row'[job[p]] = "PENDING"
      /\ \A a \in Actions \ {job[p]} : row'[a] = row[a]
  BY <1>1 DEF IInv, TypeOK, ProcessTypeOK, RowTypeOK
<1>3. ExecutionsAreHeld'
  BY <1>1, <1>2 DEF IInv, DeliveryInvariant, ExecutionsAreHeld, Holding
<1>4. IntentComesFirst'
  BY <1>1, <1>2 DEF IInv, TypeOK, ProcessTypeOK, DeliveryInvariant, IntentComesFirst, Holding
<1>5. LooksBeforeTyping'
  BY <1>1, <1>2 DEF IInv, DeliveryInvariant, LooksBeforeTyping, Mine
<1>6. OneCopyOfEachText'
  BY <1>1 DEF IInv, DeliveryInvariant, OneCopyOfEachText
<1> QED
  BY <1>3, <1>4, <1>5, <1>6 DEF DeliveryInvariant

\* The adapter has looked, or need not: the text is not in the thread.
LEMMA TypedDelivery ==
  ASSUME IInv, NEW p \in Workers, pc[p] = "leased", pc' = [pc EXCEPT ![p] = "typed"],
         UNCHANGED <<sent, status, job, req, row>>, sent[Mine(p)] = 0
  PROVE  DeliveryInvariant'
<1>1. pc'[p] = "typed" /\ \A q \in Workers \ {p} : pc'[q] = pc[q]
  BY DEF IInv, TypeOK, ProcessTypeOK
<1>2. ExecutionsAreHeld'
  BY <1>1 DEF IInv, DeliveryInvariant, ExecutionsAreHeld, Holding
<1>3. IntentComesFirst'
  BY <1>1 DEF IInv, DeliveryInvariant, IntentComesFirst
<1>4. LooksBeforeTyping'
  BY <1>1 DEF IInv, DeliveryInvariant, LooksBeforeTyping, Mine
<1>5. OneCopyOfEachText'
  BY DEF IInv, DeliveryInvariant, OneCopyOfEachText
<1> QED
  BY <1>2, <1>3, <1>4, <1>5 DEF DeliveryInvariant

\* Reading the thread, verifying over the API and the guard before the send.
LEMMA ReadDelivery ==
  ASSUME IInv, NEW p \in Workers, ReadThread(p) \/ VerifyOverApi(p) \/ CheckGuard(p)
  PROVE  DeliveryInvariant'
<1>1. /\ UNCHANGED <<sent, status, job, req, row>>
      /\ NoRowLost
      /\ pc[p] \in {"leased", "typed"}
  BY DEF ReadThread, VerifyOverApi, CheckGuard, NoRowLost, queueVars, rowVars, threadVars
<1>2. Mine(p) \in Bubbles /\ sent[Mine(p)] \in Nat
  BY <1>1, HeldStatus DEF Mine, Bubbles, IInv, TypeOK, ProcessTypeOK, ThreadTypeOK, Requests,
     Holding
<1>3. CASE ReadThread(p)
  <2>1. PICK v \in ReadVerdicts(p, Snapshot) :
          IF v = "typed" THEN pc' = [pc EXCEPT ![p] = "typed"]
          ELSE Ends(p, v, IF v = "UI_CHANGED" THEN Unread ELSE Snapshot)
    BY <1>3 DEF ReadThread
  <2>2. CASE v = "typed"
    <3>1. Mine(p) \notin Snapshot.mine
      BY <2>2 DEF ReadVerdicts
    <3>2. sent[Mine(p)] = 0
      BY <1>2, <3>1 DEF Snapshot
    <3> QED
      BY <1>1, <1>3, <2>1, <2>2, <3>2, TypedDelivery DEF ReadThread
  <2>3. CASE v # "typed"
    BY <1>1, <2>1, <2>3, EndsDelivery, QuietStep
  <2> QED
    BY <2>2, <2>3
<1>4. CASE VerifyOverApi(p)
  <2>1. CASE Ends(p, "ALREADY_DELIVERED", Unread)
    BY <1>1, <2>1, EndsDelivery, QuietStep
  <2>2. CASE ~(req[p].verify /\ sent[Mine(p)] > 0)
    <3>1. sent[Mine(p)] = 0
      <4>1. CASE req[p].verify
        BY <1>2, <2>2, <4>1
      <4>2. CASE ~req[p].verify
        BY <1>4, <4>2 DEF VerifyOverApi, IInv, DeliveryInvariant, LooksBeforeTyping, Mine, TypeOK,
                          ProcessTypeOK, Requests
      <4> QED
        BY <4>1, <4>2
    <3> QED
      BY <1>1, <1>4, <2>2, <3>1, TypedDelivery DEF VerifyOverApi
  <2> QED
    BY <1>4, <2>1, <2>2 DEF VerifyOverApi
<1>5. CASE CheckGuard(p)
  <2>1. CASE Ends(p, "OWNERSHIP_CONFLICT", Unread)
    BY <1>1, <2>1, EndsDelivery, QuietStep
  <2>2. CASE pc' = [pc EXCEPT ![p] = "armed"]
    <3>1. \A q \in Workers : NoCloser(q)
      BY <1>1, <1>5, <2>2, HeldStatus DEF CheckGuard, NoCloser, IInv, TypeOK, ProcessTypeOK,
         Holding
    <3> QED
      BY <1>1, <3>1, QuietStep
  <2> QED
    BY <1>5, <2>1, <2>2 DEF CheckGuard
<1> QED
  BY <1>3, <1>4, <1>5

\* The only step that puts a bubble into the thread; it cannot be followed by another
\* attempt on the other channel, since what falls back was refused by the platform.
LEMMA SendDelivery ==
  ASSUME IInv, NEW p \in Workers, Send(p)
  PROVE  DeliveryInvariant'
<1>1. PICK d \in BOOLEAN :
        /\ IF d THEN Deliver(p) ELSE UNCHANGED <<sent, ourEchoes>>
        /\ \E r \in SendReports(chan[p], d), s \in {Unread, saw[p]} : EndsOrFallsBack(p, r, s)
  BY DEF Send
<1>2. pc[p] = "armed" /\ UNCHANGED <<status, job, req, row>>
  BY DEF Send, queueVars, rowVars
<1>3. CASE ~d
  <2>1. UNCHANGED sent /\ NoRowLost
    BY <1>1, <1>2, <1>3 DEF NoRowLost
  <2> QED
    BY <1>1, <1>2, <2>1, EndsDelivery, QuietStep
<1>4. CASE d
  <2>1. Ends(p, res'[p], saw'[p])
    <3>1. PICK r \in SendReports(chan[p], TRUE), s \in {Unread, saw[p]} : EndsOrFallsBack(p, r, s)
      BY <1>1, <1>4
    <3>2. r \notin WriteFallback
      BY DEF SendReports, WriteFallback
    <3>3. Ends(p, r, s)
      BY <3>1, <3>2 DEF EndsOrFallsBack, FallsBack
    <3> QED
      BY <3>3 DEF Ends, IInv, TypeOK, ProcessTypeOK
  <2>2. pc'[p] = "done" /\ \A q \in Workers \ {p} : pc'[q] = pc[q]
    BY <2>1 DEF Ends, IInv, TypeOK, ProcessTypeOK
  <2>3. /\ Mine(p) \in Bubbles /\ sent \in [Bubbles -> Nat]
        /\ sent[Mine(p)] = 0
        /\ sent' = [sent EXCEPT ![Mine(p)] = @ + 1]
    BY <1>1, <1>2, <1>4, HeldStatus
       DEF Deliver, Mine, Bubbles, IInv, TypeOK, ProcessTypeOK, ThreadTypeOK, Requests, Holding,
           DeliveryInvariant, LooksBeforeTyping
  <2>4. \A b \in Bubbles : sent'[b] = IF b = Mine(p) THEN 1 ELSE sent[b]
    BY <2>3
  <2>5. OneCopyOfEachText'
    BY <2>4 DEF IInv, DeliveryInvariant, OneCopyOfEachText
  <2>6. ExecutionsAreHeld'
    BY <1>2, <2>2 DEF IInv, DeliveryInvariant, ExecutionsAreHeld, Holding
  <2>7. ASSUME NEW b \in Bubbles, b[1] # job[p] PROVE sent'[b] = sent[b]
    BY <2>4, <2>7 DEF Mine
  <2>8. \A q \in Workers \ {p} : pc[q] \in Holding => job[q] \in Actions /\ job[q] # job[p]
    BY <1>2, HeldStatus DEF IInv, DeliveryInvariant, ExecutionsAreHeld, Holding
  <2>9. IntentComesFirst'
    <3>1. row[job[p]] # "none"
      BY <1>2 DEF IInv, DeliveryInvariant, IntentComesFirst
    <3>2. ASSUME NEW a \in Actions, row'[a] = "none", NEW t \in Versions PROVE sent'[<<a, t>>] = 0
      BY <1>2, <2>7, <3>1, <3>2 DEF Bubbles, IInv, DeliveryInvariant, IntentComesFirst
    <3>3. \A q \in Workers : pc'[q] \in {"leased", "typed", "armed"} => row'[job'[q]] # "none"
      BY <1>2, <2>2 DEF IInv, DeliveryInvariant, IntentComesFirst
    <3> QED
      BY <3>2, <3>3 DEF IntentComesFirst
  <2>10. LooksBeforeTyping'
    <3>1. ASSUME NEW q \in Workers \ {p}, pc[q] \in Holding, NEW t \in Versions
          PROVE  sent'[<<job[q], t>>] = sent[<<job[q], t>>]
      BY <2>7, <2>8, <3>1 DEF Bubbles
    <3>2. ASSUME NEW q \in Workers, pc'[q] \in {"claimed", "leased", "typed", "armed"}
          PROVE  q # p /\ pc'[q] = pc[q] /\ pc[q] \in Holding /\ req[q].text \in Versions
      BY <2>2, <3>2 DEF IInv, TypeOK, ProcessTypeOK, Requests, Holding
    <3> QED
      BY <1>2, <3>1, <3>2 DEF IInv, DeliveryInvariant, LooksBeforeTyping, Mine
  <2> QED
    BY <2>5, <2>6, <2>9, <2>10 DEF DeliveryInvariant
<1> QED
  BY <1>3, <1>4

\* Recording an outcome leaves the other processes their executions.
LEMMA RecordDelivery ==
  ASSUME IInv, NEW p \in Workers, Record(p)
  PROVE  DeliveryInvariant'
<1> DEFINE a == job[p]
           judged == [status EXCEPT ![a] = Verdict(res[p], chan[p], AttemptsAfter(a, res[p]))]
<1>1. pc[p] = "released" /\ a \in Actions /\ BecomesIdle(p) /\ UNCHANGED sent
  BY HeldStatus DEF Record, Holding, threadVars
<1>2. NoRowLost
  <2>1. row' = [row EXCEPT ![a] = RowAfterSend(a, res[p])]
    BY DEF Record
  <2>2. RowAfterSend(a, res[p]) = "none" => row[a] = "none"
    BY DEF RowAfterSend
  <2> QED
    BY <1>1, <2>1, <2>2 DEF NoRowLost, IInv, TypeOK, RowTypeOK
<1>3. ASSUME NEW q \in Workers \ {p}, pc[q] \in Holding PROVE status'[job[q]] = "EXECUTING"
  <2>1. job[q] \in Actions /\ job[q] # a /\ status[job[q]] = "EXECUTING"
    BY <1>1, <1>3, HeldStatus DEF IInv, DeliveryInvariant, ExecutionsAreHeld, Holding
  <2>2. judged \in [Actions -> Statuses]
    <3>1. Verdict(res[p], chan[p], AttemptsAfter(a, res[p])) \in Statuses
      BY DEF Verdict, Statuses, OpenOutbound, ParkedStatuses, Final, IInv, TypeOK, ProcessTypeOK
    <3> QED
      BY <3>1 DEF IInv, TypeOK, QueueTypeOK
  <2>3. judged[job[q]] = "EXECUTING"
    BY <2>1 DEF IInv, TypeOK, QueueTypeOK
  <2>4. \/ status' = judged
        \/ status' = CancelOpen(judged, Actions)
        \/ status' = QueueOnInbound(judged)
        \/ status' = QueueOnInbound(CancelOpen(judged, Actions))
    BY DEF Record
  <2> HIDE DEF judged
  <2>5. /\ CancelOpen(judged, Actions) \in [Actions -> Statuses]
        /\ CancelOpen(judged, Actions)[job[q]] = "EXECUTING"
    BY <2>1, <2>2, <2>3, CancelSparesExecuting, CancelOpenType
  <2> QED
    BY <2>1, <2>2, <2>3, <2>4, <2>5, CancelSparesExecuting DEF QueueOnInbound
<1> QED
  BY <1>1, <1>2, <1>3, IdleComesNoCloser, QuietStep

\* Every step of an execution preserves the invariant.
LEMMA ExecuteDelivery ==
  ASSUME IInv, NEW p \in Workers, Execute(p)
  PROVE  DeliveryInvariant'
<1>1. CASE SkipApi(p)
  BY <1>1, HeldStatus, QuietStep
     DEF SkipApi, NoCloser, NoRowLost, queueVars, rowVars, threadVars
<1>2. CASE NoChannel(p)
  <2>1. \A q \in Workers : NoCloser(q)
    BY <1>2, EndsDelivery DEF NoChannel, queueVars
  <2> QED
    BY <1>2, <2>1, QuietStep DEF NoChannel, NoRowLost, rowVars, threadVars
<1>3. CASE LeaseRefused(p)
  <2>1. \A q \in Workers : NoCloser(q)
    BY <1>3, EndsDelivery DEF LeaseRefused, queueVars
  <2> QED
    BY <1>3, <2>1, QuietStep DEF LeaseRefused, NoRowLost, rowVars, threadVars
<1>4. CASE FailEarly(p)
  <2>1. \A q \in Workers : NoCloser(q)
    BY <1>4, EndsDelivery DEF FailEarly, MayFailEarly, queueVars
  <2> QED
    BY <1>4, <2>1, QuietStep DEF FailEarly, NoRowLost, rowVars, threadVars
<1>5. CASE Release(p)
  <2>1. \A q \in Workers : NoCloser(q)
    BY <1>5, HeldStatus
       DEF Release, NoCloser, IInv, TypeOK, ProcessTypeOK, Holding, queueVars
  <2> QED
    BY <1>5, <2>1, QuietStep DEF Release, NoRowLost, rowVars, threadVars
<1> QED
  BY <1>1, <1>2, <1>3, <1>4, <1>5, LeaseDelivery, ReadDelivery, SendDelivery, RecordDelivery
     DEF Execute

\* So does every webhook event, which only cancels actions nobody executes...
LEMMA ObserveDelivery ==
  ASSUME IInv, NEW p \in Workers, Observe(p)
  PROVE  DeliveryInvariant'
<1>1. CASE InboundEvent(p)
  <2>1. \A q \in Workers : pc[q] \in Holding => status'[job[q]] = "EXECUTING"
    BY <1>1, HeldStatus, CancelSparesExecuting DEF InboundEvent, QueueOnInbound
  <2> QED
    BY <1>1, <2>1, OutsideStep DEF InboundEvent, NoRowLost, rowVars, threadVars
<1>2. ASSUME NEW e \in ourEchoes, EchoOfOurs(p, e) PROVE DeliveryInvariant'
  <2>1. NoRowLost
    BY <1>2 DEF EchoOfOurs, NoRowLost, IInv, TypeOK, RowTypeOK
  <2>2. \A q \in Workers : pc[q] \in Holding => status'[job[q]] = "EXECUTING"
    BY <1>2, HeldStatus, TakeOverSparesExecuting DEF EchoOfOurs
  <2> QED
    BY <1>2, <2>1, <2>2, OutsideStep DEF EchoOfOurs, threadVars
<1>3. ASSUME NEW m \in HumanMsgs, EchoOfHuman(p, m) PROVE DeliveryInvariant'
  BY <1>3, TakeOverSparesExecuting, OutsideStep DEF EchoOfHuman, NoRowLost, rowVars, threadVars
<1>4. CASE IgnoreEcho(p)
  BY <1>4, HeldStatus, OutsideStep DEF IgnoreEcho, NoRowLost, queueVars, rowVars, threadVars
<1> QED
  BY <1>1, <1>2, <1>3, <1>4 DEF Observe

\* ... every action of the operator, who can approve, reject and cancel only those too...
LEMMA OperateDelivery ==
  ASSUME IInv, Operate
  PROVE  DeliveryInvariant'
<1>1. UNCHANGED <<sent, processVars>> /\ NoRowLost
  BY DEF Operate, ExpireApproval, Approve, Reject, SetMode, ClaimConversation,
         ReleaseConversation, Suppress, HaltLane, ResumeLane, NoRowLost, rowVars, threadVars
<1>2. ASSUME NEW q \in Workers, pc[q] \in Holding PROVE status'[job[q]] = "EXECUTING"
  <2>1. job[q] \in Actions /\ status[job[q]] = "EXECUTING" /\ status \in [Actions -> Statuses]
    BY <1>2, HeldStatus
  <2>2. ASSUME NEW a \in Actions, ExpireApproval(a) \/ Approve(a) \/ Reject(a)
        PROVE  status'[job[q]] = "EXECUTING"
    BY <2>1, <2>2 DEF ExpireApproval, Approve, Reject, AwaitingHuman
  <2>3. ASSUME NEW m \in Modes, SetMode(m) PROVE status'[job[q]] = "EXECUTING"
    BY <2>1, <2>3 DEF SetMode, queueVars
  <2>4. CASE ClaimConversation
    BY <1>2, <2>4, TakeOverSparesExecuting DEF ClaimConversation
  <2>5. CASE ReleaseConversation
    BY <2>1, <2>5 DEF ReleaseConversation, queueVars
  <2>6. CASE Suppress
    BY <2>1, <2>6, CancelSparesExecuting DEF Suppress
  <2>7. ASSUME NEW c \in Channels, HaltLane(c) \/ ResumeLane(c)
        PROVE  status'[job[q]] = "EXECUTING"
    BY <2>1, <2>7 DEF HaltLane, ResumeLane, queueVars, Parked
  <2> QED
    BY <2>2, <2>3, <2>4, <2>5, <2>6, <2>7 DEF Operate
<1> QED
  BY <1>1, <1>2, OutsideStep

\* ... and a crash, after which the action waits for recover_stale().
LEMMA EnvironmentDelivery ==
  ASSUME IInv, Environment
  PROVE  DeliveryInvariant'
<1>1. ASSUME NEW p \in Workers, Crash(p) PROVE DeliveryInvariant'
  <2>1. \A q \in Workers : pc[q] \in Holding => status'[job[q]] = "EXECUTING"
    BY <1>1, HeldStatus DEF Crash, queueVars
  <2> QED
    BY <1>1, <2>1, IdleComesNoCloser, QuietStep DEF Crash, NoRowLost, rowVars, threadVars
<1>2. ASSUME UNCHANGED <<sent, row, processVars, status>> PROVE DeliveryInvariant'
  BY <1>2, HeldStatus, OutsideStep DEF NoRowLost
<1> QED
  BY <1>1, <1>2
     DEF Environment, HumanWrites, ProspectWrites, CooldownEnds, RowAges, ReleaseHold, LeaseTimeout,
         HoldTimeout, queueVars, rowVars, threadVars

\* Type invariant and delivery invariant are inductive together.
LEMMA InvStep == IInv /\ [Next]_vars => IInv'
<1> SUFFICES ASSUME IInv, [Next]_vars PROVE IInv'
  OBVIOUS
<1>1. TypeOK'
  BY TypeStep DEF IInv
<1>2. CASE Next
  BY <1>1, <1>2, PlanDelivery, StartDelivery, ExecuteDelivery, ObserveDelivery, OperateDelivery,
     EnvironmentDelivery DEF Next, IInv
<1>3. CASE UNCHANGED vars
  <2>1. UNCHANGED <<sent, row, processVars, status>>
    BY <1>3 DEF vars, threadVars, rowVars, queueVars
  <2> QED
    BY <1>1, <2>1, HeldStatus, OutsideStep DEF NoRowLost, IInv
<1> QED
  BY <1>2, <1>3

\* So both hold in every reachable state.
LEMMA InvCorrect == Spec => []IInv
<1>1. Init => IInv
  BY TypeInit, InvInit DEF IInv
<1> QED
  BY <1>1, InvStep, PTL DEF Spec

\* DeliveryInvariant holds in every reachable state.
THEOREM DeliveryInvariantHolds == Spec => []DeliveryInvariant
<1>1. IInv => DeliveryInvariant
  BY DEF IInv
<1> QED
  BY <1>1, InvCorrect, PTL

\* No approved text reaches the thread twice, whatever crashes, unconfirmed sends, fallbacks
\* from the API to the browser, retries and takeovers happen in between, with any number of
\* processes and actions.
THEOREM NothingIsSentTwice == Spec => []OneCopyOfEachText
<1>1. DeliveryInvariant => OneCopyOfEachText
  BY DEF DeliveryInvariant
<1> QED
  BY <1>1, DeliveryInvariantHolds, PTL

(***************************************************************************)
(* After a takeover, and after a suppression.                              *)
(***************************************************************************)
\* A send that has passed its guard while the human owns the conversation did so before he
\* took it over.
GuardedBefore == paused => Armed \subseteq stragglers

\* Steps that bring no process past its guard.
LEMMA NobodyArmed ==
  ASSUME IInv, GuardedBefore,
         \A q \in Workers : pc'[q] = "armed" => pc[q] = "armed" /\ job'[q] = job[q],
         stragglers' = Armed \/ ((paused' => paused) /\ UNCHANGED stragglers)
  PROVE  GuardedBefore'
BY DEF GuardedBefore, Armed

\* A process that has sent, or died before it could, is a straggler no more.
LEMMA StragglerGone ==
  ASSUME IInv, GuardedBefore, NEW p \in Workers, pc[p] = "armed", pc'[p] # "armed",
         \A q \in Workers \ {p} : pc'[q] = pc[q] /\ job'[q] = job[q],
         UNCHANGED paused, stragglers' = stragglers \ {job[p]}
  PROVE  GuardedBefore'
<1>1. ASSUME NEW q \in Workers, pc'[q] = "armed" PROVE job'[q] \in Armed \ {job[p]}
  BY <1>1 DEF Armed, IInv, DeliveryInvariant, ExecutionsAreHeld, Holding
<1> QED
  BY <1>1 DEF GuardedBefore, Armed

\* Executing: only the guard, which asks who owns the conversation, arms a process.
LEMMA ExecuteGuarded ==
  ASSUME IInv, GuardedBefore, NEW p \in Workers, Execute(p)
  PROVE  GuardedBefore'
<1>1. CASE CheckGuard(p)
  <2>1. CASE StillOwner(job[p])
    BY <1>1, <2>1 DEF CheckGuard, StillOwner, GuardedBefore, convVars
  <2>2. CASE ~StillOwner(job[p])
    BY <1>1, <2>2, NobodyArmed
       DEF CheckGuard, Ends, convVars, historyVars, IInv, TypeOK, ProcessTypeOK
  <2> QED
    BY <2>1, <2>2
<1>2. CASE Send(p)
  <2>1. PICK r, s : EndsOrFallsBack(p, r, s)
    BY <1>2 DEF Send
  <2>2. pc'[p] # "armed" /\ \A q \in Workers \ {p} : pc'[q] = pc[q]
    BY <2>1 DEF EndsOrFallsBack, Ends, IInv, TypeOK, ProcessTypeOK
  <2> QED
    BY <1>2, <2>2, StragglerGone DEF Send, convVars
<1>3. CASE ReadThread(p)
  <2>1. \E x \in {"typed", "done"} : pc' = [pc EXCEPT ![p] = x]
    BY <1>3 DEF ReadThread, Ends
  <2> QED
    BY <1>3, <2>1, NobodyArmed DEF ReadThread, convVars, historyVars, IInv, TypeOK, ProcessTypeOK
<1>4. CASE VerifyOverApi(p)
  <2>1. \E x \in {"typed", "done"} : pc' = [pc EXCEPT ![p] = x]
    BY <1>4 DEF VerifyOverApi, Ends
  <2> QED
    BY <1>4, <2>1, NobodyArmed DEF VerifyOverApi, convVars, historyVars, IInv, TypeOK,
       ProcessTypeOK
<1>5. CASE FailEarly(p)
  <2>1. \E x \in {"claimed", "done"} : pc' = [pc EXCEPT ![p] = x]
    BY <1>5 DEF FailEarly, EndsOrFallsBack, Ends
  <2> QED
    BY <1>5, <2>1, NobodyArmed DEF FailEarly, convVars, historyVars, IInv, TypeOK, ProcessTypeOK
<1>6. CASE LeaseConversation(p)
  <2>1. paused' => paused
    BY <1>6 DEF LeaseConversation, Acquire, Transfer
  <2> QED
    BY <1>6, <2>1, NobodyArmed DEF LeaseConversation, historyVars, IInv, TypeOK, ProcessTypeOK
<1>7. CASE Release(p)
  BY <1>7, NobodyArmed
     DEF Release, ReleaseLease, convVars, historyVars, IInv, TypeOK, ProcessTypeOK
<1>8. CASE NoChannel(p) \/ LeaseRefused(p) \/ SkipApi(p)
  <2>1. pc' = pc \/ pc' = [pc EXCEPT ![p] = "done"]
    BY <1>8 DEF NoChannel, LeaseRefused, SkipApi, Ends
  <2>2. UNCHANGED <<job, paused, stragglers>>
    BY <1>8 DEF NoChannel, LeaseRefused, SkipApi, convVars, historyVars
  <2> QED
    BY <2>1, <2>2, NobodyArmed DEF IInv, TypeOK, ProcessTypeOK
<1>9. CASE Record(p)
  <2>1. stragglers' = Armed \/ UNCHANGED <<paused, stragglers>>
    BY <1>9 DEF Record, convVars
  <2> QED
    BY <1>9, <2>1, NobodyArmed DEF Record, BecomesIdle, IInv, TypeOK, ProcessTypeOK
<1> QED
  BY <1>1, <1>2, <1>3, <1>4, <1>5, <1>6, <1>7, <1>8, <1>9 DEF Execute

\* Everybody else arms nobody, and a takeover notes who is armed.
LEMMA OthersGuarded ==
  ASSUME IInv, GuardedBefore,
         \/ \E p \in Workers : Plan(p) \/ Start(p) \/ Observe(p)
         \/ Operate
         \/ Environment
  PROVE  GuardedBefore'
<1>1. ASSUME NEW p \in Workers, Plan(p) PROVE GuardedBefore'
  <2>1. ASSUME NEW a \in Actions, Compose(p, a) PROVE GuardedBefore'
    BY <2>1, NobodyArmed DEF Compose, convVars, historyVars, IInv, TypeOK, ProcessTypeOK
  <2>2. CASE HandleReply(p)
    BY <2>2, NobodyArmed DEF HandleReply, convVars, historyVars, IInv, TypeOK, ProcessTypeOK
  <2>3. CASE Queue(p) \/ CompositionFails(p)
    BY <2>3, NobodyArmed
       DEF Queue, CompositionFails, BecomesIdle, convVars, historyVars, IInv, TypeOK, ProcessTypeOK
  <2>4. CASE HandOff(p)
    BY <2>4, NobodyArmed DEF HandOff, HumanTakesOver, BecomesIdle, IInv, TypeOK, ProcessTypeOK
  <2> QED
    BY <1>1, <2>1, <2>2, <2>3, <2>4 DEF Plan
<1>2. ASSUME NEW p \in Workers, Start(p) PROVE GuardedBefore'
  <2>1. ASSUME NEW S, StartTick(p, S) PROVE GuardedBefore'
    BY <2>1, NobodyArmed DEF StartTick, processVars, convVars, historyVars
  <2>2. ASSUME NEW a \in Actions, Demote(p, a) \/ Deny(p, a) PROVE GuardedBefore'
    BY <2>2, NobodyArmed DEF Demote, Deny, processVars, convVars, historyVars
  <2>3. ASSUME NEW a \in Actions, Claim(p, a) PROVE GuardedBefore'
    BY <2>3, NobodyArmed DEF Claim, convVars, historyVars, IInv, TypeOK, ProcessTypeOK
  <2> QED
    BY <1>2, <2>1, <2>2, <2>3 DEF Start
<1>3. ASSUME UNCHANGED processVars, stragglers' = Armed \/ UNCHANGED <<paused, stragglers>>
      PROVE  GuardedBefore'
  BY <1>3, NobodyArmed DEF processVars
<1>4. ASSUME NEW p \in Workers, Observe(p) PROVE GuardedBefore'
  BY <1>3, <1>4 DEF Observe, InboundEvent, EchoOfOurs, EchoOfHuman, IgnoreEcho, HumanTakesOver,
                    convVars, historyVars
<1>5. CASE Operate
  <2>1. CASE ReleaseConversation
    BY <2>1, NobodyArmed
       DEF ReleaseConversation, ReleaseToAutomation, processVars, historyVars
  <2> QED
    BY <1>3, <1>5, <2>1 DEF Operate, ExpireApproval, Approve, Reject, SetMode, ClaimConversation,
                            HumanTakesOver, Suppress, HaltLane, ResumeLane, convVars, historyVars
<1>6. CASE Environment
  <2>1. ASSUME NEW p \in Workers, Crash(p) PROVE GuardedBefore'
    <3>1. pc'[p] = "idle" /\ \A q \in Workers \ {p} : pc'[q] = pc[q] /\ job'[q] = job[q]
      BY <2>1 DEF Crash, BecomesIdle, IInv, TypeOK, ProcessTypeOK
    <3>2. CASE pc[p] = "armed"
      BY <2>1, <3>1, <3>2, StragglerGone DEF Crash, convVars
    <3>3. CASE pc[p] # "armed"
      BY <2>1, <3>1, <3>3, NobodyArmed DEF Crash, convVars
    <3> QED
      BY <3>2, <3>3
  <2>2. CASE ReleaseHold
    BY <2>2, NobodyArmed
       DEF ReleaseHold, ReleaseExpiredHold, ReleaseToAutomation, processVars, historyVars
  <2> QED
    BY <1>3, <1>6, <2>1, <2>2
       DEF Environment, HumanWrites, ProspectWrites, CooldownEnds, RowAges, LeaseTimeout,
           LeaseLapses, HoldTimeout, HoldLapses, convVars, historyVars
<1> QED
  BY <1>1, <1>2, <1>4, <1>5, <1>6

\* A message reaches the thread only by the Send step of the process that executes it.
LEMMA OnlySendSends ==
  ASSUME IInv, Next, NEW a \in Actions, Sends(a)
  PROVE  \E p \in Workers : Send(p) /\ job[p] = a
<1>1. sent' # sent
  BY DEF Sends, IInv, TypeOK, ThreadTypeOK, Bubbles
<1>2. PICK p \in Workers : Send(p)
  <2>1. ~Operate /\ ~Environment
    BY <1>1 DEF Operate, ExpireApproval, Approve, Reject, SetMode, ClaimConversation,
         ReleaseConversation, Suppress, HaltLane, ResumeLane, Environment, HumanWrites,
         ProspectWrites, Crash, CooldownEnds, RowAges, ReleaseHold, LeaseTimeout, HoldTimeout,
         threadVars
  <2>2. PICK q \in Workers : Plan(q) \/ Start(q) \/ Execute(q) \/ Observe(q)
    BY <2>1 DEF Next
  <2>3. ~Plan(q)
    BY <1>1 DEF Plan, Compose, HandleReply, Queue, CompositionFails, HandOff, threadVars
  <2>4. ~Start(q)
    BY <1>1 DEF Start, StartTick, Demote, Deny, Claim, threadVars
  <2>5. ~Observe(q)
    BY <1>1 DEF Observe, InboundEvent, EchoOfOurs, EchoOfHuman, IgnoreEcho, threadVars
  <2>6. Execute(q)
    BY <2>2, <2>3, <2>4, <2>5
  <2> QED
    BY <1>1, <2>6 DEF Execute, SkipApi, NoChannel, LeaseConversation, LeaseRefused, FailEarly,
         ReadThread, VerifyOverApi, CheckGuard, Release, Record, threadVars
<1>3. sent' = [sent EXCEPT ![Mine(p)] = @ + 1]
  BY <1>1, <1>2 DEF Send, Deliver
<1>4. PICK t \in Versions : sent'[<<a, t>>] > sent[<<a, t>>]
  BY DEF Sends
<1>5. <<a, t>> = Mine(p)
  BY <1>3, <1>4 DEF Bubbles, IInv, TypeOK, ThreadTypeOK
<1> QED
  BY <1>2, <1>5 DEF Mine

\* Once Rohit owns the conversation, no send reaches the thread but those whose guard had
\* passed before he took it over, with any number of processes and actions.
THEOREM OnlyStragglersSend == Spec => OnlyStragglersAfterTakeover
<1>1. Init => IInv /\ GuardedBefore
  BY TypeInit, InvInit DEF IInv, Init, ConvInit, GuardedBefore
<1>2. IInv /\ GuardedBefore /\ [Next]_vars => (IInv /\ GuardedBefore)'
  <2> SUFFICES ASSUME IInv, GuardedBefore, [Next]_vars PROVE GuardedBefore'
    BY InvStep
  <2>1. CASE Next
    BY <2>1, ExecuteGuarded, OthersGuarded DEF Next
  <2>2. CASE UNCHANGED vars
    BY <2>2, NobodyArmed DEF vars, processVars, convVars, historyVars
  <2> QED
    BY <2>1, <2>2
<1>3. IInv /\ GuardedBefore /\ [Next]_vars
        => [\A a \in Actions : Sends(a) /\ paused => a \in stragglers]_vars
  <2> SUFFICES ASSUME IInv, GuardedBefore, Next, NEW a \in Actions, Sends(a), paused
               PROVE  a \in stragglers
    BY DEF vars, Sends, threadVars
  <2>1. PICK p \in Workers : Send(p) /\ job[p] = a
    BY OnlySendSends
  <2> QED
    BY <2>1 DEF Send, GuardedBefore, Armed
<1> QED
  BY <1>1, <1>2, <1>3, PTL DEF Spec, OnlyStragglersAfterTakeover

\* An execution of a suppressed lead's action was claimed before the suppression.
ClaimedBefore == suppressed => Executing \subseteq claimedOpen

\* Steps that start no execution.
LEMMA NobodyClaims ==
  ASSUME ClaimedBefore,
         \A q \in Workers : pc'[q] \in Holding => pc[q] \in Holding /\ job'[q] = job[q],
         claimedOpen' = Executing \/ ((suppressed' => suppressed) /\ UNCHANGED claimedOpen)
  PROVE  ClaimedBefore'
BY DEF ClaimedBefore, Executing

\* A process that executes starts nothing new.
LEMMA ExecuteClaimsNothing ==
  ASSUME IInv, ClaimedBefore, NEW p \in Workers, Execute(p)
  PROVE  ClaimedBefore'
<1>1. UNCHANGED <<suppressed, claimedOpen>>
  BY DEF Execute, SkipApi, NoChannel, LeaseConversation, LeaseRefused, FailEarly, ReadThread,
         VerifyOverApi, CheckGuard, Send, Release, Record, historyVars
<1>2. CASE Record(p)
  BY <1>1, <1>2, NobodyClaims DEF Record, BecomesIdle, Holding, IInv, TypeOK, ProcessTypeOK
<1>3. CASE ~Record(p)
  <2>1. pc[p] \in Holding
    BY <1>3 DEF Execute, SkipApi, NoChannel, LeaseConversation, LeaseRefused, FailEarly,
                MayFailEarly, ReadThread, VerifyOverApi, CheckGuard, Send, Release, Holding
  <2>2. UNCHANGED job
    BY <1>3 DEF Execute, SkipApi, NoChannel, LeaseConversation, LeaseRefused, FailEarly,
                ReadThread, VerifyOverApi, CheckGuard, Send, Release
  <2>3. \A q \in Workers \ {p} : pc'[q] = pc[q]
    <3>1. \E x : pc' = [pc EXCEPT ![p] = x]
      <4>1. CASE SkipApi(p)
        BY <4>1 DEF SkipApi, IInv, TypeOK, ProcessTypeOK
      <4>2. CASE NoChannel(p) \/ LeaseConversation(p) \/ LeaseRefused(p) \/ Release(p)
        BY <4>2 DEF NoChannel, LeaseConversation, LeaseRefused, Release, Ends
      <4>3. CASE FailEarly(p) \/ Send(p)
        BY <4>3 DEF FailEarly, Send, EndsOrFallsBack, Ends
      <4>4. CASE ReadThread(p) \/ VerifyOverApi(p) \/ CheckGuard(p)
        BY <4>4 DEF ReadThread, VerifyOverApi, CheckGuard, Ends
      <4> QED
        BY <1>3, <4>1, <4>2, <4>3, <4>4 DEF Execute
    <3> QED
      BY <3>1 DEF IInv, TypeOK, ProcessTypeOK
  <2> QED
    BY <1>1, <2>1, <2>2, <2>3, NobodyClaims
<1> QED
  BY <1>2, <1>3

\* Everybody else starts nothing either, but the claim that the gate lets pass.
LEMMA OthersClaimed ==
  ASSUME IInv, ClaimedBefore,
         \/ \E p \in Workers : Plan(p) \/ Start(p) \/ Observe(p)
         \/ Operate
         \/ Environment
  PROVE  ClaimedBefore'
<1>1. ASSUME NEW p \in Workers, Plan(p) PROVE ClaimedBefore'
  <2>1. ASSUME NEW a \in Actions, Compose(p, a) PROVE ClaimedBefore'
    BY <2>1, NobodyClaims DEF Compose, historyVars, Holding, IInv, TypeOK, ProcessTypeOK
  <2>2. CASE HandleReply(p)
    BY <2>2, NobodyClaims DEF HandleReply, Holding, IInv, TypeOK, ProcessTypeOK
  <2>3. CASE Queue(p) \/ CompositionFails(p) \/ HandOff(p)
    BY <2>3, NobodyClaims
       DEF Queue, CompositionFails, HandOff, HumanTakesOver, BecomesIdle, historyVars, Holding,
           IInv, TypeOK, ProcessTypeOK
  <2> QED
    BY <1>1, <2>1, <2>2, <2>3 DEF Plan
<1>2. ASSUME NEW p \in Workers, Start(p) PROVE ClaimedBefore'
  <2>1. ASSUME NEW S, StartTick(p, S) PROVE ClaimedBefore'
    BY <2>1, NobodyClaims DEF StartTick, processVars, historyVars
  <2>2. ASSUME NEW a \in Actions, Demote(p, a) \/ Deny(p, a) PROVE ClaimedBefore'
    BY <2>2, NobodyClaims DEF Demote, Deny, processVars, historyVars
  <2>3. ASSUME NEW a \in Actions, Claim(p, a) PROVE ClaimedBefore'
    BY <2>3 DEF Claim, Denied, ClaimedBefore
  <2> QED
    BY <1>2, <2>1, <2>2, <2>3 DEF Start
<1>3. ASSUME UNCHANGED processVars, claimedOpen' = Executing \/ UNCHANGED <<suppressed, claimedOpen>>
      PROVE  ClaimedBefore'
  BY <1>3, NobodyClaims DEF processVars
<1>4. ASSUME NEW p \in Workers, Observe(p) PROVE ClaimedBefore'
  BY <1>3, <1>4 DEF Observe, InboundEvent, EchoOfOurs, EchoOfHuman, IgnoreEcho, HumanTakesOver,
                    historyVars
<1>5. CASE Operate
  BY <1>3, <1>5 DEF Operate, ExpireApproval, Approve, Reject, SetMode, ClaimConversation,
                    ReleaseConversation, HumanTakesOver, Suppress, HaltLane, ResumeLane, historyVars
<1>6. CASE Environment
  <2>1. ASSUME NEW p \in Workers, Crash(p) PROVE ClaimedBefore'
    BY <2>1, NobodyClaims DEF Crash, BecomesIdle, Holding, IInv, TypeOK, ProcessTypeOK
  <2> QED
    BY <1>3, <1>6, <2>1
       DEF Environment, HumanWrites, ProspectWrites, CooldownEnds, RowAges, LeaseTimeout,
           HoldTimeout, ReleaseHold, historyVars
<1> QED
  BY <1>1, <1>2, <1>4, <1>5, <1>6

\* Once a lead is suppressed, nothing is sent to it but by executions claimed before, with
\* any number of processes and actions.
THEOREM OnlyClaimedSend == Spec => OnlyClaimedAfterSuppression
<1>1. Init => IInv /\ ClaimedBefore
  BY TypeInit, InvInit DEF IInv, Init, ClaimedBefore
<1>2. IInv /\ ClaimedBefore /\ [Next]_vars => (IInv /\ ClaimedBefore)'
  <2> SUFFICES ASSUME IInv, ClaimedBefore, [Next]_vars PROVE ClaimedBefore'
    BY InvStep
  <2>1. CASE Next
    BY <2>1, ExecuteClaimsNothing, OthersClaimed DEF Next
  <2>2. CASE UNCHANGED vars
    BY <2>2, NobodyClaims DEF vars, processVars, historyVars
  <2> QED
    BY <2>1, <2>2
<1>3. IInv /\ ClaimedBefore /\ [Next]_vars
        => [\A a \in Actions : Sends(a) /\ suppressed => a \in claimedOpen]_vars
  <2> SUFFICES ASSUME IInv, ClaimedBefore, Next, NEW a \in Actions, Sends(a), suppressed
               PROVE  a \in claimedOpen
    BY DEF vars, Sends, threadVars
  <2>1. PICK p \in Workers : Send(p) /\ job[p] = a
    BY OnlySendSends
  <2> QED
    BY <2>1 DEF Send, ClaimedBefore, Executing, Holding
<1> QED
  BY <1>1, <1>2, <1>3, PTL DEF Spec, OnlyClaimedAfterSuppression

====
