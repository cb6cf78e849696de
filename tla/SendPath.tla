------------------------------ MODULE SendPath ------------------------------
(***************************************************************************)
(* The path of an outbound message: planned, queued, approved, claimed by  *)
(* a worker, typed into the Instagram thread of one prospect by an         *)
(* adapter, recorded, and observed again through thread reads and webhook  *)
(* echoes.                                                                 *)
(*                                                                         *)
(* Actors: orchestrator processes (each one runs service.tick in a loop:   *)
(* maintenance, webhook events, planning, execution), the operator         *)
(* (control.py, concurrent with them), Rohit and the prospect writing in   *)
(* the Instagram app, crashes, and the clock.                              *)
(*                                                                         *)
(* A `with db.session()` block is one step.  A process gives up control at *)
(* an await, so what touches the world outside the database between two    *)
(* awaits is a step of its own.  One lead, its conversation and all its    *)
(* outbound actions are modelled; actions of different leads only share    *)
(* the lanes and the caps.                                                 *)
(***************************************************************************)
EXTENDS Naturals, FiniteSets, Conversation

CONSTANTS
  Workers,         \* orchestrator processes
  Initials,        \* SEND_OUTREACH actions: successive drafts v1, v2, ... for the lead
  FollowUps,       \* SEND_FOLLOW_UP actions
  Replies,         \* SEND_REPLY actions
  FollowUpNumber,  \* Action.followup_number
  MaxAttempts,     \* Action.max_attempts (limits.retry_max_attempts)
  MaxFollowUps,    \* limits.max_followups_per_lead
  HumanMsgs,       \* the messages Rohit may write in the app himself
  Modes,           \* operating modes the operator switches between
  Edits,           \* TRUE: the operator may edit a text when approving it
  Disturbances     \* which of the events of AllDisturbances may happen

AllDisturbances == {"crash", "claim", "reject", "expiry", "suppression", "halt", "prospect",
                    "aging"}

ASSUME SendPathAssumption ==
  /\ Actions = Initials \cup FollowUps \cup Replies
  /\ Initials \cap FollowUps = {}
  /\ Initials \cap Replies = {}
  /\ FollowUps \cap Replies = {}
  /\ FollowUpNumber \in [FollowUps -> Nat \ {0}]   \* plan_followups numbers them from 1
  /\ \A f, g \in FollowUps : FollowUpNumber[f] = FollowUpNumber[g] => f = g
  /\ MaxAttempts \in Nat \ {0}
  /\ MaxFollowUps \in Nat
  /\ Modes \subseteq {"OBSERVE", "DRAFT", "APPROVAL", "AUTONOMOUS"}
  /\ Modes # {}
  /\ Edits \in BOOLEAN
  /\ Disturbances \subseteq AllDisturbances

(***************************************************************************)
(* Values.                                                                 *)
(***************************************************************************)
Versions == {"drafted", "edited"}   \* Action.message_text, as planned or as edited
Bubbles == Actions \X Versions      \* an automation message as it appears in the thread

\* ActionStatus; a parked (NEEDS_HUMAN) action carries its executed_channel.
Parked(c) == IF c = "API" THEN "NEEDS_HUMAN_API" ELSE "NEEDS_HUMAN_BROWSER"
ParkedStatuses == {Parked(c) : c \in Channels}
AwaitingHuman == {"DRAFTED", "PENDING_APPROVAL"}
OpenOutbound == AwaitingHuman \cup {"APPROVED"} \cup ParkedStatuses
Final == {"BLOCKED", "SUCCEEDED", "FAILED", "CANCELLED", "REJECTED", "EXPIRED"}
Statuses == {"ABSENT", "EXECUTING"} \cup OpenOutbound \cup Final
Approvers == {"nobody", "auto", "human"}

RowStates == {"none", "PENDING", "SENT", "FAILED"}   \* Message.delivery_state of our row
Live == {"PENDING", "SENT"}                          \* delivery_state != "FAILED"
InboundStates == {"none", "unhandled", "handled"}
LeadStatuses == {"QUALIFIED", "OUTREACH_PENDING", "CONTACTED", "REPLIED", "HANDED_OFF", "CLOSED",
                 "DISQUALIFIED", "ANALYZED", "UNREACHABLE"}
ContactedStates == {"CONTACTED", "REPLIED", "HANDED_OFF", "CLOSED"}
LaneStates == {"ACTIVE", "COOLDOWN", "HALTED"}

\* ExecutionStatus.  BARRIER stands for the four barrier statuses, REQUEST_PENDING
\* for NOT_PERMITTED with code message_request_pending.
Retried == {"RETRYABLE_FAILURE", "UI_CHANGED", "CAPABILITY_UNAVAILABLE"}
NotPermitted == {"NOT_PERMITTED", "REQUEST_PENDING"}
NotSent == {"ALREADY_CONTACTED", "OWNERSHIP_CONFLICT", "TARGET_NOT_FOUND", "PERMANENT_FAILURE",
            "CAPABILITY_UNAVAILABLE", "UI_CHANGED"} \cup NotPermitted
\* ALREADY_DELIVERED is the API's SUCCESS with code already_delivered (it carries no message id).
Delivered == {"SUCCESS", "ALREADY_DELIVERED"}
Results == NotSent \cup Delivered \cup {"RETRYABLE_FAILURE", "RATE_LIMITED", "BARRIER"}
\* What an adapter may report before it sends; the API has no UI to change.
EarlyFailures(c) ==
  {"TARGET_NOT_FOUND", "NOT_PERMITTED", "PERMANENT_FAILURE", "RETRYABLE_FAILURE", "RATE_LIMITED",
   "BARRIER"} \cup (IF c = "API" THEN {} ELSE {"UI_CHANGED"})
WriteFallback == {"CAPABILITY_UNAVAILABLE", "NOT_PERMITTED"}

VARIABLES
  mode,       \* runtime mode, as the operator last set it
  tickMode,   \* the mode each process read at the start of its tick
  status, approver, attempts, text,     \* actions table, by action
  row, rowText, rowMid, rowFresh,       \* our message row of each action: delivery_state, text,
                                        \* the version its platform id names, created in window
  seen,       \* Rohit's messages stored as HUMAN rows
  misread,    \* our own messages stored as HUMAN rows
  inbound,    \* the prospect's message in the messages table
  counted,    \* usage events per action
  lead, contacted, lastOutbound, followups, replied, followupsBlocked,   \* the leads row
  suppressed, \* the lead is on the suppression list
  lane,       \* lane state per channel
  pc, job, chan, req, saw, res,         \* what each process is doing, in its memory
  sent,       \* copies of each bubble in the Instagram thread
  human, prospect,                      \* what Rohit and the prospect wrote there
  ourEchoes, humanEchoes, inboundHook,  \* webhook events not yet processed
  stragglers, \* history: actions past their guard when the human took over
  claimedOpen \* history: actions already claimed when the lead was suppressed

controlVars == <<mode, tickMode, lane>>
queueVars == <<status, approver, attempts, text>>
rowVars == <<row, rowText, rowMid, rowFresh>>
storeVars == <<seen, misread, inbound>>
leadVars == <<lead, contacted, lastOutbound, followups, replied, followupsBlocked>>
processVars == <<pc, job, chan, req, saw, res>>
threadVars == <<sent, human, prospect>>
hookVars == <<ourEchoes, humanEchoes, inboundHook>>
historyVars == <<stragglers, claimedOpen>>
vars == <<controlVars, queueVars, rowVars, storeVars, counted, leadVars, suppressed, processVars,
          threadVars, hookVars, historyVars, convVars>>

Phases == {"idle", "composing", "claimed", "leased", "typed", "armed", "done", "released"}
Holding == {"claimed", "leased", "typed", "armed", "done", "released"}
Requests == [text : Versions, known : SUBSET Bubbles, verify : BOOLEAN, api : BOOLEAN]
Snapshots == [read : BOOLEAN, mine : SUBSET Bubbles, human : SUBSET HumanMsgs, inbound : BOOLEAN]
NoRequest == [text |-> "drafted", known |-> {}, verify |-> FALSE, api |-> FALSE]
Unread == [read |-> FALSE, mine |-> {}, human |-> {}, inbound |-> FALSE]
NoResult == "none"

\* The type invariant, table by table: the ranges of the columns and of what each process
\* keeps in memory, where a process that holds an execution has its action.
ControlTypeOK ==
  /\ mode \in Modes
  /\ tickMode \in [Workers -> Modes]
  /\ lane \in [Channels -> LaneStates]

QueueTypeOK ==
  /\ status \in [Actions -> Statuses]
  /\ approver \in [Actions -> Approvers]
  /\ attempts \in [Actions -> 0..MaxAttempts]
  /\ text \in [Actions -> Versions]

RowTypeOK ==
  /\ row \in [Actions -> RowStates]
  /\ rowText \in [Actions -> Versions]
  /\ rowMid \in [Actions -> Versions \cup {"none"}]
  /\ rowFresh \in [Actions -> BOOLEAN]

StoreTypeOK == seen \subseteq HumanMsgs /\ misread \subseteq Bubbles /\ inbound \in InboundStates

LeadTypeOK ==
  /\ lead \in LeadStatuses
  /\ contacted \in BOOLEAN /\ lastOutbound \in BOOLEAN
  /\ followups \in Nat
  /\ replied \in BOOLEAN /\ followupsBlocked \in BOOLEAN

ProcessTypeOK ==
  /\ pc \in [Workers -> Phases]
  /\ job \in [Workers -> Actions \cup {NoAction}]
  /\ chan \in [Workers -> Channels]
  /\ req \in [Workers -> Requests]
  /\ saw \in [Workers -> Snapshots]
  /\ res \in [Workers -> Results \cup {NoResult}]
  /\ \A p \in Workers : pc[p] \in Holding => job[p] \in Actions

ThreadTypeOK == sent \in [Bubbles -> Nat] /\ human \subseteq HumanMsgs /\ prospect \in BOOLEAN

HookTypeOK ==
  /\ ourEchoes \subseteq Bubbles \X BOOLEAN
  /\ humanEchoes \subseteq HumanMsgs
  /\ inboundHook \in BOOLEAN

HistoryTypeOK == stragglers \subseteq Actions /\ claimedOpen \subseteq Actions

TypeOK ==
  /\ ControlTypeOK /\ QueueTypeOK /\ RowTypeOK /\ StoreTypeOK /\ LeadTypeOK
  /\ counted \in [Actions -> Nat] /\ suppressed \in BOOLEAN
  /\ ProcessTypeOK /\ ThreadTypeOK /\ HookTypeOK /\ HistoryTypeOK /\ ConvTypeOK

\* A qualified lead nobody has written to yet, and idle processes.
Init ==
  /\ ConvInit
  /\ mode \in Modes /\ tickMode = [p \in Workers |-> mode]
  /\ status = [a \in Actions |-> "ABSENT"] /\ approver = [a \in Actions |-> "nobody"]
  /\ attempts = [a \in Actions |-> 0] /\ text = [a \in Actions |-> "drafted"]
  /\ row = [a \in Actions |-> "none"] /\ rowText = [a \in Actions |-> "drafted"]
  /\ rowMid = [a \in Actions |-> "none"] /\ rowFresh = [a \in Actions |-> TRUE]
  /\ seen = {} /\ misread = {} /\ inbound = "none"
  /\ counted = [a \in Actions |-> 0]
  /\ lead = "QUALIFIED" /\ contacted = FALSE /\ lastOutbound = FALSE
  /\ followups = 0 /\ replied = FALSE /\ followupsBlocked = FALSE
  /\ suppressed = FALSE /\ lane = [c \in Channels |-> "ACTIVE"]
  /\ pc = [p \in Workers |-> "idle"] /\ job = [p \in Workers |-> NoAction]
  /\ chan = [p \in Workers |-> "BROWSER"] /\ req = [p \in Workers |-> NoRequest]
  /\ saw = [p \in Workers |-> Unread] /\ res = [p \in Workers |-> NoResult]
  /\ sent = [b \in Bubbles |-> 0] /\ human = {} /\ prospect = FALSE
  /\ ourEchoes = {} /\ humanEchoes = {} /\ inboundHook = FALSE
  /\ stragglers = {} /\ claimedOpen = {}

(***************************************************************************)
(* Shared pieces of handlers.                                              *)
(***************************************************************************)
\* Mutant of CancelOpen: takes an action away from the process that executes it.
CancelRunning(st, S) ==
  [b \in Actions |-> IF b \in S /\ st[b] \in OpenOutbound \cup {"EXECUTING"}
                     THEN "CANCELLED" ELSE st[b]]

\* cancel_open_outbound() and its like: an action in execution is out of their reach.
CancelOpen(st, S) ==
  [b \in Actions |-> IF b \in S /\ st[b] \in OpenOutbound THEN "CANCELLED" ELSE st[b]]

Executing == {job[p] : p \in {q \in Workers : pc[q] \in Holding}}
Armed == {job[p] : p \in {q \in Workers : pc[q] = "armed"}}

\* take_over_by_human(): the conversation, the lead and the open actions.
HumanTakesOver ==
  /\ TakeOver
  /\ lead' = IF lead = "CLOSED" THEN lead ELSE "HANDED_OFF"
  /\ status' = CancelOpen(status, Actions)
  /\ stragglers' = Armed
  /\ UNCHANGED <<contacted, lastOutbound, followups, replied, followupsBlocked, claimedOpen>>

OpenLead == {"CONTACTED", "OUTREACH_PENDING", "QUALIFIED"}

\* Mutant of LeadOnInbound: the message's state written to the lead.
LeadUnhandled(l) == IF l \in OpenLead THEN "unhandled" ELSE l

\* _on_new_inbound(), as functions of the lead and the queue it finds.
LeadOnInbound(l) == IF l \in OpenLead THEN "REPLIED" ELSE l

QueueOnInbound(st) == CancelOpen(st, Initials \cup FollowUps)

\* What a row says about a message observed in the thread (reconcile's counters).
StoredAsOurs(b) == row[b[1]] \in Live /\ rowText[b[1]] = b[2]
Known == {b \in Bubbles : StoredAsOurs(b)}

(***************************************************************************)
(* The eligibility gate.  Mode and approval are checked by the caller; the *)
(* caps, the send window and pacing only delay an action.                  *)
(***************************************************************************)
OutboundHistory(a) ==
  \/ \E b \in Actions \ {a} : row[b] \in Live
  \/ seen # {}
  \/ misread # {}

ContactedBefore(a) == contacted \/ lead \in ContactedStates \/ OutboundHistory(a)

HasReplied == replied \/ lead = "REPLIED"

HumanOwned == paused \/ owner = "HUMAN"

InitialDenied(a) == ContactedBefore(a) \/ lead \notin {"QUALIFIED", "OUTREACH_PENDING"}

\* Mutant of FollowUpDenied: whether the prospect answered is only asked when planning.
ScheduleDenied(a) ==
  \/ followupsBlocked
  \/ followups >= MaxFollowUps
  \/ FollowUpNumber[a] # followups + 1
  \/ ~lastOutbound

FollowUpDenied(a) ==
  \/ HasReplied
  \/ followupsBlocked
  \/ lead # "CONTACTED"
  \/ followups >= MaxFollowUps
  \/ FollowUpNumber[a] # followups + 1
  \/ ~lastOutbound

\* Mutant of Denied: the suppression list is left to the proposal-time checks.
DeniedByHistory(a) ==
  \/ HumanOwned
  \/ a \in Initials /\ InitialDenied(a)
  \/ a \in FollowUps /\ FollowUpDenied(a)

Denied(a) ==
  \/ suppressed
  \/ HumanOwned
  \/ a \in Initials /\ InitialDenied(a)
  \/ a \in FollowUps /\ FollowUpDenied(a)

\* _lead_after_block() reads the verdict out of the reason's text.
LeadAfterBlock(a) ==
  CASE suppressed -> "CLOSED"
    [] ~suppressed /\ HumanOwned -> "HANDED_OFF"
    [] ~suppressed /\ ~HumanOwned /\ ContactedBefore(a) -> "CONTACTED"
    [] OTHER -> "DISQUALIFIED"

CandidateChannels(a) == IF a \in Initials THEN {"BROWSER"} ELSE Channels

(***************************************************************************)
(* A tick begins: maintenance (the stale executions, of crashed processes, *)
(* whose 900 s lease is over), then the mode the tick goes by.  A live     *)
(* execution is taken to end within its lease, and the conversation's      *)
(* 300 s lease of a dead one to be over before it.                         *)
(***************************************************************************)
Orphans == {a \in Actions : status[a] = "EXECUTING"} \ Executing

\* Mutant of StartTick: no recovery of stale executions.
StartTickOnly(p, stale) ==
  /\ pc[p] = "idle"
  /\ stale = {}
  /\ tickMode' = [tickMode EXCEPT ![p] = mode]
  /\ UNCHANGED <<mode, lane, queueVars, rowVars, storeVars, counted, leadVars, suppressed,
                 processVars, threadVars, hookVars, historyVars, convVars>>

StartTick(p, stale) ==
  /\ pc[p] = "idle"
  /\ stale \subseteq Orphans
  /\ live => token \notin stale
  /\ status' = [a \in Actions |-> IF a \in stale THEN "APPROVED" ELSE status[a]]
  /\ tickMode' = [tickMode EXCEPT ![p] = mode]
  /\ UNCHANGED <<mode, lane, approver, attempts, text, rowVars, storeVars, counted, leadVars,
                 suppressed, processVars, threadVars, hookVars, historyVars, convVars>>

\* The rest of maintenance() touches one row at a time.
ExpireApproval(a) ==
  /\ "expiry" \in Disturbances
  /\ status[a] \in AwaitingHuman
  /\ status' = [status EXCEPT ![a] = "EXPIRED"]
  /\ lead' = IF a \in Initials /\ lead = "OUTREACH_PENDING" THEN "QUALIFIED" ELSE lead
  /\ UNCHANGED <<controlVars, approver, attempts, text, rowVars, storeVars, counted, contacted,
                 lastOutbound, followups, replied, followupsBlocked, suppressed, processVars,
                 threadVars, hookVars, historyVars, convVars>>

ReleaseHold ==
  /\ ReleaseExpiredHold
  /\ UNCHANGED <<controlVars, queueVars, rowVars, storeVars, counted, leadVars, suppressed,
                 processVars, threadVars, hookVars, historyVars>>

(***************************************************************************)
(* Planning.  The text is composed (an await) from what one transaction    *)
(* read, and queued by another.                                            *)
(***************************************************************************)
PreparesOutreach(p) == tickMode[p] # "OBSERVE"

\* plan_outreach(), plan_followups(): who is due for a message.
InitialDue(a) == a \in Initials /\ lead = "QUALIFIED"

FollowUpDue(a) ==
  /\ a \in FollowUps
  /\ lead = "CONTACTED" /\ ~replied /\ ~followupsBlocked /\ lastOutbound
  /\ followups < MaxFollowUps
  /\ FollowUpNumber[a] = followups + 1
  /\ ~paused

Compose(p, a) ==
  /\ pc[p] = "idle"
  /\ PreparesOutreach(p)
  /\ status[a] = "ABSENT"
  /\ InitialDue(a) \/ FollowUpDue(a)
  /\ pc' = [pc EXCEPT ![p] = "composing"]
  /\ job' = [job EXCEPT ![p] = a]
  /\ UNCHANGED <<controlVars, queueVars, rowVars, storeVars, counted, leadVars, suppressed, chan,
                 req, saw, res, threadVars, hookVars, historyVars, convVars>>

\* _act_on_reply(): the message is committed as handled before the answer is composed.
HandleReply(p) ==
  /\ pc[p] = "idle"
  /\ inbound = "unhandled"
  /\ inbound' = "handled"
  /\ UNCHANGED <<controlVars, approver, attempts, text, rowVars, seen, misread, counted, contacted,
                 lastOutbound, followups, replied, followupsBlocked, chan, req, saw, res,
                 threadVars, hookVars, stragglers, convVars>>
  /\ \/ \* NEUTRAL: Rohit is notified
        UNCHANGED <<status, lead, suppressed, pc, job, claimedOpen>>
     \/ \* OPT_OUT, NOT_INTERESTED
        /\ suppressed' = TRUE
        /\ claimedOpen' = IF suppressed THEN claimedOpen ELSE Executing
        /\ lead' = "CLOSED"
        /\ status' = CancelOpen(status, Actions)
        /\ UNCHANGED <<pc, job>>
     \/ \* INTERESTED, QUESTION: an answer is composed, queued only if the settings allow it
        \E a \in {r \in Replies : status[r] = "ABSENT" /\ \A q \in Workers : job[q] # r}
                 \cup {NoAction} :
          /\ pc' = [pc EXCEPT ![p] = "composing"]
          /\ job' = [job EXCEPT ![p] = a]
          /\ UNCHANGED <<status, lead, suppressed, claimedOpen>>

BecomesIdle(p) ==
  /\ pc' = [pc EXCEPT ![p] = "idle"]
  /\ job' = [job EXCEPT ![p] = NoAction]
  /\ chan' = [chan EXCEPT ![p] = "BROWSER"]
  /\ req' = [req EXCEPT ![p] = NoRequest]
  /\ saw' = [saw EXCEPT ![p] = Unread]
  /\ res' = [res EXCEPT ![p] = NoResult]

\* status_for_new_outbound(): replies.autonomous is off unless the settings say otherwise.
EntryStatus(m) ==
  CASE m = "DRAFT" -> {"DRAFTED"}
    [] m = "APPROVAL" -> {"PENDING_APPROVAL"}
    [] OTHER -> {"APPROVED"}

\* _queue_outbound(), with its proposal-time gate preview; another process that composed
\* the same message may have created the action (idempotency_key) in the meantime.
Queue(p) ==
  LET a == job[p] IN
  /\ pc[p] = "composing"
  /\ a # NoAction
  /\ PreparesOutreach(p)
  /\ BecomesIdle(p)
  /\ IF status[a] # "ABSENT"
     THEN UNCHANGED <<status, approver, lead>>
     ELSE IF Denied(a)
     THEN /\ status' = [status EXCEPT ![a] = "BLOCKED"]
          /\ lead' = IF a \in Initials THEN LeadAfterBlock(a) ELSE lead
          /\ UNCHANGED approver
     ELSE /\ \E s \in EntryStatus(tickMode[p]) \cup (IF a \in Replies /\ tickMode[p] = "AUTONOMOUS"
                                                     THEN {"PENDING_APPROVAL"} ELSE {}) :
               /\ status' = [status EXCEPT ![a] = s]
               /\ approver' = [approver EXCEPT ![a] = IF s = "APPROVED" THEN "auto" ELSE "nobody"]
          /\ lead' = IF a \in Initials THEN "OUTREACH_PENDING" ELSE lead
  /\ UNCHANGED <<controlVars, attempts, text, rowVars, storeVars, counted, contacted, lastOutbound,
                 followups, replied, followupsBlocked, suppressed, threadVars, hookVars,
                 historyVars, convVars>>

\* CompositionFailed: a first message costs the lead its qualification.
CompositionFails(p) ==
  /\ pc[p] = "composing"
  /\ job[p] \in Initials \cup FollowUps
  /\ BecomesIdle(p)
  /\ lead' = IF job[p] \in Initials THEN "ANALYZED" ELSE lead
  /\ UNCHANGED <<controlVars, queueVars, rowVars, storeVars, counted, contacted, lastOutbound,
                 followups, replied, followupsBlocked, suppressed, threadVars, hookVars,
                 historyVars, convVars>>

\* replies.handoff_on_interest (the default), OBSERVE mode, or no valid answer.
HandOff(p) ==
  /\ pc[p] = "composing"
  /\ job[p] \in Replies \cup {NoAction}
  /\ BecomesIdle(p)
  /\ HumanTakesOver
  /\ UNCHANGED <<controlVars, approver, attempts, text, rowVars, storeVars, counted, suppressed,
                 threadVars, hookVars>>

(***************************************************************************)
(* Claiming (worker._prepare): the execution-time gate, then the lease.    *)
(***************************************************************************)
MaySend(p, a) == tickMode[p] \in {"APPROVAL", "AUTONOMOUS"} /\ approver[a] # "nobody"
NeedsHuman(p, a) == tickMode[p] = "APPROVAL" /\ approver[a] = "auto"
\* Mutant of Candidate: claim() does not look at the status again.
CandidateAgain(p, a) == pc[p] = "idle" /\ status[a] \in {"APPROVED", "EXECUTING"} /\ MaySend(p, a)

Candidate(p, a) == pc[p] = "idle" /\ status[a] = "APPROVED" /\ MaySend(p, a)

\* The mode now wants a human to approve it.
Demote(p, a) ==
  /\ Candidate(p, a)
  /\ NeedsHuman(p, a)
  /\ status' = [status EXCEPT ![a] = "PENDING_APPROVAL"]
  /\ approver' = [approver EXCEPT ![a] = "nobody"]
  /\ UNCHANGED <<controlVars, attempts, text, rowVars, storeVars, counted, leadVars, suppressed,
                 processVars, threadVars, hookVars, historyVars, convVars>>

Deny(p, a) ==
  /\ Candidate(p, a)
  /\ ~NeedsHuman(p, a)
  /\ Denied(a)
  /\ status' = [status EXCEPT ![a] = "CANCELLED"]
  /\ lead' = IF a \in Initials /\ lead = "OUTREACH_PENDING" THEN LeadAfterBlock(a) ELSE lead
  /\ UNCHANGED <<controlVars, approver, attempts, text, rowVars, storeVars, counted, contacted,
                 lastOutbound, followups, replied, followupsBlocked, suppressed, processVars,
                 threadVars, hookVars, historyVars, convVars>>

\* Mutant of Request: only recorded attempts count, not an interrupted one.
RequestByAttempts(a, api) ==
  [text |-> text[a], known |-> Known, verify |-> attempts[a] > 0, api |-> api]

\* _build_request(): an intent row or an earlier attempt makes the adapter look first.
Request(a, api) ==
  [text |-> text[a], known |-> Known, verify |-> attempts[a] > 0 \/ row[a] # "none", api |-> api]

\* The API can serve a reply only inside the window the prospect's message opened.
ApiCanServe(a) == a \notin Initials /\ inbound # "none"

Claim(p, a) ==
  /\ Candidate(p, a)
  /\ ~NeedsHuman(p, a)
  /\ ~Denied(a)
  /\ \E c \in CandidateChannels(a) : lane[c] = "ACTIVE"
  /\ status' = [status EXCEPT ![a] = "EXECUTING"]
  /\ \E api \in {b \in BOOLEAN : b => ApiCanServe(a)} :
       /\ req' = [req EXCEPT ![p] = Request(a, api)]
       /\ chan' = [chan EXCEPT ![p] = IF api THEN "API" ELSE "BROWSER"]
  /\ pc' = [pc EXCEPT ![p] = "claimed"]
  /\ job' = [job EXCEPT ![p] = a]
  /\ UNCHANGED <<controlVars, approver, attempts, text, rowVars, storeVars, counted, leadVars,
                 suppressed, saw, res, threadVars, hookVars, historyVars, convVars>>

(***************************************************************************)
(* Execution (executor.execute, worker.on_channel).                        *)
(***************************************************************************)
Ends(p, r, s) ==
  /\ pc' = [pc EXCEPT ![p] = "done"]
  /\ res' = [res EXCEPT ![p] = r]
  /\ saw' = [saw EXCEPT ![p] = s]

\* The result of an API attempt that the browser may try again.
FallsBack(p, r) == chan[p] = "API" /\ r \in WriteFallback

EndsOrFallsBack(p, r, s) ==
  IF FallsBack(p, r)
  THEN /\ pc' = [pc EXCEPT ![p] = "claimed"]
       /\ chan' = [chan EXCEPT ![p] = "BROWSER"]
       /\ res' = [res EXCEPT ![p] = r]
       /\ saw' = saw
  ELSE Ends(p, r, s) /\ UNCHANGED chan

SkipApi(p) ==
  /\ pc[p] = "claimed" /\ chan[p] = "API"
  /\ lane["API"] # "ACTIVE"
  /\ chan' = [chan EXCEPT ![p] = "BROWSER"]
  /\ UNCHANGED <<controlVars, queueVars, rowVars, storeVars, counted, leadVars, suppressed, pc, job,
                 req, saw, res, threadVars, hookVars, historyVars, convVars>>

\* No lane left: the last result, the API's, or CAPABILITY_UNAVAILABLE (no_channel).
NoChannel(p) ==
  /\ pc[p] = "claimed" /\ chan[p] = "BROWSER"
  /\ lane["BROWSER"] # "ACTIVE"
  /\ Ends(p, IF res[p] = NoResult THEN "CAPABILITY_UNAVAILABLE" ELSE res[p], Unread)
  /\ chan' = IF res[p] = NoResult THEN chan ELSE [chan EXCEPT ![p] = "API"]
  /\ UNCHANGED <<controlVars, queueVars, rowVars, storeVars, counted, leadVars, suppressed, job,
                 req, threadVars, hookVars, historyVars, convVars>>

\* record_automation_intent(): an existing row keeps the text and the time it was created with.
RecordIntent(p) ==
  LET a == job[p] IN
  /\ row' = [row EXCEPT ![a] = "PENDING"]
  /\ IF row[a] = "none"
     THEN /\ rowText' = [rowText EXCEPT ![a] = req[p].text]
          /\ rowFresh' = [rowFresh EXCEPT ![a] = TRUE]
     ELSE UNCHANGED <<rowText, rowFresh>>
  /\ UNCHANGED rowMid

\* A lease held for the API is handed to the browser, otherwise one is acquired.
LeaseConversation(p) ==
  /\ pc[p] = "claimed"
  /\ lane[chan[p]] = "ACTIVE"
  /\ IF res[p] = NoResult THEN Acquire(job[p], chan[p]) ELSE Transfer(job[p], chan[p])
  /\ RecordIntent(p)
  /\ pc' = [pc EXCEPT ![p] = "leased"]
  /\ UNCHANGED <<controlVars, queueVars, storeVars, counted, leadVars, suppressed, job, chan, req,
                 saw, res, threadVars, hookVars, historyVars>>

LeaseRefused(p) ==
  /\ pc[p] = "claimed"
  /\ lane[chan[p]] = "ACTIVE"
  /\ IF res[p] = NoResult THEN ~Takeable ELSE ~Transferable(job[p])
  /\ Ends(p, "OWNERSHIP_CONFLICT", Unread)
  /\ UNCHANGED <<controlVars, queueVars, rowVars, storeVars, counted, leadVars, suppressed, job,
                 chan, req, threadVars, hookVars, historyVars, convVars>>

(***************************************************************************)
(* The browser adapter (_send) and the API adapter (_send_reply).          *)
(***************************************************************************)
Snapshot == [read |-> TRUE, mine |-> {b \in Bubbles : sent[b] > 0}, human |-> human,
             inbound |-> prospect]
Mine(p) == <<job[p], req[p].text>>
EmptyThread(s) == s.mine = {} /\ s.human = {} /\ ~s.inbound

\* Opening the thread, typing into it, or (API) the request that verifies an earlier attempt.
MayFailEarly(p) ==
  \/ chan[p] = "BROWSER" /\ pc[p] \in {"leased", "typed"}
  \/ chan[p] = "API" /\ pc[p] = "leased" /\ req[p].verify

FailEarly(p) ==
  /\ MayFailEarly(p)
  /\ \E r \in EarlyFailures(chan[p]) : EndsOrFallsBack(p, r, Unread)
  /\ UNCHANGED <<controlVars, queueVars, rowVars, storeVars, counted, leadVars, suppressed, job, req,
                 threadVars, hookVars, historyVars, convVars>>

\* Mutant of ReadVerdicts: a first message may be typed into a thread that is not empty.
ReadOwnText(p, s) == IF Mine(p) \in s.mine THEN {"SUCCESS"} ELSE {"typed", "NOT_PERMITTED"}

\* What the checks before typing make of the thread; "typed" when they all pass.
ReadVerdicts(p, s) ==
  LET initial == job[p] \in Initials IN
  CASE Mine(p) \in s.mine -> {"SUCCESS"}
    [] Mine(p) \notin s.mine /\ initial /\ ~EmptyThread(s) -> {"ALREADY_CONTACTED"}
    [] Mine(p) \notin s.mine /\ ~initial /\ (s.human # {} \/ s.mine \ req[p].known # {})
         -> {"OWNERSHIP_CONFLICT"}
    [] Mine(p) \notin s.mine /\ ~initial /\ EmptyThread(s) -> {"UI_CHANGED"}
    [] OTHER -> {"typed", "NOT_PERMITTED"} \cup (IF initial THEN {} ELSE {"REQUEST_PENDING"})

ReadThread(p) ==
  /\ pc[p] = "leased" /\ chan[p] = "BROWSER"
  /\ \E v \in ReadVerdicts(p, Snapshot) :
       IF v = "typed"
       THEN /\ pc' = [pc EXCEPT ![p] = "typed"]
            /\ saw' = [saw EXCEPT ![p] = Snapshot]
            /\ UNCHANGED res
       ELSE Ends(p, v, IF v = "UI_CHANGED" THEN Unread ELSE Snapshot)
  /\ UNCHANGED <<controlVars, queueVars, rowVars, storeVars, counted, leadVars, suppressed, job,
                 chan, req, threadVars, hookVars, historyVars, convVars>>

\* The API looks only when an earlier attempt may have delivered, and only for this text.
VerifyOverApi(p) ==
  /\ pc[p] = "leased" /\ chan[p] = "API"
  /\ IF req[p].verify /\ sent[Mine(p)] > 0
     THEN Ends(p, "ALREADY_DELIVERED", Unread)
     ELSE /\ pc' = [pc EXCEPT ![p] = "typed"]
          /\ UNCHANGED <<saw, res>>
  /\ UNCHANGED <<controlVars, queueVars, rowVars, storeVars, counted, leadVars, suppressed, job,
                 chan, req, threadVars, hookVars, historyVars, convVars>>

\* Mutant of CheckGuard: the lease taken at the start is trusted.
TrustLease(p) ==
  /\ pc[p] = "typed"
  /\ pc' = [pc EXCEPT ![p] = "armed"]
  /\ UNCHANGED <<controlVars, queueVars, rowVars, storeVars, counted, leadVars, suppressed, job,
                 chan, req, saw, res, threadVars, hookVars, historyVars, convVars>>

\* ctx.guard(): awaited immediately before the irreversible step.
CheckGuard(p) ==
  /\ pc[p] = "typed"
  /\ IF StillOwner(job[p])
     THEN /\ pc' = [pc EXCEPT ![p] = "armed"]
          /\ UNCHANGED <<saw, res>>
     ELSE Ends(p, "OWNERSHIP_CONFLICT", Unread)
  /\ UNCHANGED <<controlVars, queueVars, rowVars, storeVars, counted, leadVars, suppressed, job,
                 chan, req, threadVars, hookVars, historyVars, convVars>>

\* What may be reported of a send; a failure that falls back was refused by the platform.
SendReports(c, delivered) ==
  (IF delivered THEN {"SUCCESS"} ELSE {}) \cup {"RETRYABLE_FAILURE"}
  \cup (IF c = "BROWSER" THEN {"RATE_LIMITED", "BARRIER"} ELSE {})
  \cup (IF c = "API" /\ ~delivered THEN EarlyFailures(c) ELSE {})

\* The bubble reaches the thread and its echo the webhook queue.
Deliver(p) ==
  /\ sent' = [sent EXCEPT ![Mine(p)] = @ + 1]
  /\ ourEchoes' = ourEchoes \cup {<<Mine(p), rowFresh[job[p]]>>}

Send(p) ==
  /\ pc[p] = "armed"
  /\ \E delivered \in BOOLEAN :
       /\ IF delivered THEN Deliver(p) ELSE UNCHANGED <<sent, ourEchoes>>
       /\ \E r \in SendReports(chan[p], delivered) :
            \E s \in {Unread} \cup (IF r = "SUCCESS" THEN {} ELSE {saw[p]}) :
              EndsOrFallsBack(p, r, s)
  /\ stragglers' = stragglers \ {job[p]}
  /\ UNCHANGED <<controlVars, queueVars, rowVars, storeVars, counted, leadVars, suppressed, job, req,
                 human, prospect, humanEchoes, inboundHook, claimedOpen, convVars>>

\* The finally clause of worker._execute.
Release(p) ==
  /\ pc[p] = "done"
  /\ ReleaseLease(job[p])
  /\ pc' = [pc EXCEPT ![p] = "released"]
  /\ UNCHANGED <<controlVars, queueVars, rowVars, storeVars, counted, leadVars, suppressed, job,
                 chan, req, saw, res, threadVars, hookVars, historyVars>>

(***************************************************************************)
(* Recording the outcome (worker._record, one transaction): the attempt,   *)
(* the lane, the action's verdict, the thread that was read, then the      *)
(* message row, the ledger and the lead.                                   *)
(***************************************************************************)
\* Attempts beyond MaxAttempts are all alike to the code: the counter saturates there.
AttemptsAfter(a, r) ==
  IF r = "RATE_LIMITED" \/ attempts[a] = MaxAttempts THEN attempts[a] ELSE attempts[a] + 1

\* Mutant of Verdict: a prospect we have already contacted counts as done.
VerdictOrContacted(r, c, tries) ==
  CASE r \in Delivered \cup {"ALREADY_CONTACTED"} -> "SUCCEEDED"
    [] r = "BARRIER" -> Parked(c)
    [] r = "RATE_LIMITED" -> "APPROVED"
    [] r \in Retried -> IF tries < MaxAttempts THEN "APPROVED" ELSE "FAILED"
    [] r = "OWNERSHIP_CONFLICT" -> "CANCELLED"
    [] OTHER -> "FAILED"

\* _next_state()
Verdict(r, c, tries) ==
  CASE r \in Delivered -> "SUCCEEDED"
    [] r = "BARRIER" -> Parked(c)
    [] r = "RATE_LIMITED" -> "APPROVED"
    [] r \in Retried -> IF tries < MaxAttempts THEN "APPROVED" ELSE "FAILED"
    [] r \in {"ALREADY_CONTACTED", "OWNERSHIP_CONFLICT"} -> "CANCELLED"
    [] OTHER -> "FAILED"

\* Mutant of FollowUpsAfter: follow-ups are counted when tried, not when delivered.
FollowUpsTried(a, r) ==
  IF a \in FollowUps /\ FollowUpNumber[a] > followups THEN FollowUpNumber[a] ELSE followups

\* leads.followups_sent after an outcome.
FollowUpsAfter(a, r) ==
  IF r \in Delivered /\ a \in FollowUps /\ FollowUpNumber[a] > followups
  THEN FollowUpNumber[a] ELSE followups

\* LaneService.record_result(): what counters and codes decide is left open.
LanesAfter(r, c) ==
  CASE r = "BARRIER" -> {[lane EXCEPT ![c] = "HALTED"], [d \in Channels |-> "HALTED"]}
    [] r = "RATE_LIMITED" -> {[lane EXCEPT ![c] = "COOLDOWN"], [lane EXCEPT ![c] = "HALTED"]}
    [] c = "BROWSER" /\ r \in {"UI_CHANGED", "NOT_PERMITTED"} -> {lane, [lane EXCEPT ![c] = "HALTED"]}
    [] OTHER -> {lane}

\* Mutant of LeadAfterSend: a first message that failed for good leaves the lead as it was.
LeadKeepsWaiting(a, r, final, l) == IF r \in Delivered /\ a \in Initials THEN "CONTACTED" ELSE l

\* The lead after _record_send().
LeadAfterSend(a, r, final, l) ==
  CASE r \in Delivered -> IF a \in Initials THEN "CONTACTED" ELSE l
    [] r \notin Delivered /\ ~final -> l
    [] final /\ r = "TARGET_NOT_FOUND" -> "UNREACHABLE"
    [] final /\ r \in NotPermitted ->
         IF r = "NOT_PERMITTED" /\ a \in Initials THEN "UNREACHABLE" ELSE l
    [] final /\ r = "ALREADY_CONTACTED" -> IF l = "HANDED_OFF" THEN l ELSE "CONTACTED"
    [] final /\ r = "OWNERSHIP_CONFLICT" -> IF l = "CLOSED" THEN l ELSE "HANDED_OFF"
    [] OTHER -> IF a \in Initials THEN "ANALYZED" ELSE l

\* delivery_state of the intent row; it exists once a lease was granted.
RowAfterSend(a, r) ==
  CASE row[a] = "none" -> "none"
    [] row[a] # "none" /\ r \in Delivered -> "SENT"
    [] row[a] # "none" /\ r \in NotSent -> "FAILED"
    [] OTHER -> row[a]

Record(p) ==
  LET a == job[p]
      r == res[p]
      s == saw[p]
      verdict == Verdict(r, chan[p], AttemptsAfter(a, r))
      strangers == {b \in s.mine : ~StoredAsOurs(b)} \ misread
      takesOver == s.human \ seen # {} \/ strangers # {}
      answered == s.inbound /\ inbound = "none"
      judged == [status EXCEPT ![a] = verdict]
      reconciled == IF takesOver THEN CancelOpen(judged, Actions) ELSE judged
      taken == IF takesOver /\ lead # "CLOSED" THEN "HANDED_OFF" ELSE lead
      known == IF answered THEN LeadOnInbound(taken) ELSE taken
      learned == r = "ALREADY_CONTACTED" /\ known # "HANDED_OFF"
  IN
  /\ pc[p] = "released"
  /\ BecomesIdle(p)
  /\ attempts' = [attempts EXCEPT ![a] = AttemptsAfter(a, r)]
  /\ lane' \in LanesAfter(r, chan[p])
  \* reconcile_thread()
  /\ status' = IF answered THEN QueueOnInbound(reconciled) ELSE reconciled
  /\ IF takesOver THEN TakeOver /\ stragglers' = Armed ELSE UNCHANGED <<convVars, stragglers>>
  /\ seen' = seen \cup s.human
  /\ misread' = misread \cup strangers
  /\ inbound' = IF answered THEN "unhandled" ELSE inbound
  /\ replied' = (replied \/ (answered /\ taken \in OpenLead))
  \* _record_send()
  /\ row' = [row EXCEPT ![a] = RowAfterSend(a, r)]
  /\ rowMid' = IF r = "SUCCESS" /\ chan[p] = "API" /\ rowMid[a] = "none" /\ Mine(p) \notin misread
               THEN [rowMid EXCEPT ![a] = req[p].text] ELSE rowMid
  \* a throttled action waits an hour at least, longer than the echo window
  /\ rowFresh' = IF r = "RATE_LIMITED" THEN [rowFresh EXCEPT ![a] = FALSE] ELSE rowFresh
  /\ counted' = IF r \in Delivered /\ counted[a] = 0 THEN [counted EXCEPT ![a] = 1] ELSE counted
  /\ lead' = LeadAfterSend(a, r, verdict \in Final, known)
  /\ contacted' = (contacted \/ (r \in Delivered /\ a \in Initials) \/ learned)
  /\ lastOutbound' = (lastOutbound \/ r \in Delivered)
  /\ followups' = FollowUpsAfter(a, r)
  /\ followupsBlocked' = (followupsBlocked \/ r = "REQUEST_PENDING")
  /\ UNCHANGED <<mode, tickMode, approver, text, rowText, suppressed, threadVars, hookVars,
                 claimedOpen>>

(***************************************************************************)
(* The operator (control.py).                                              *)
(***************************************************************************)
Approve(a) ==
  /\ status[a] \in AwaitingHuman
  /\ status' = [status EXCEPT ![a] = "APPROVED"]
  /\ approver' = [approver EXCEPT ![a] = "human"]
  /\ \E t \in {text[a]} \cup (IF Edits THEN {"edited"} ELSE {}) : text' = [text EXCEPT ![a] = t]
  /\ UNCHANGED <<controlVars, attempts, rowVars, storeVars, counted, leadVars, suppressed,
                 processVars, threadVars, hookVars, historyVars, convVars>>

\* With or without a fresh draft requested.
Reject(a) ==
  /\ "reject" \in Disturbances
  /\ status[a] \in AwaitingHuman \cup {"APPROVED"}
  /\ status' = [status EXCEPT ![a] = "REJECTED"]
  /\ lead' \in (IF a \in Initials THEN {"QUALIFIED", "DISQUALIFIED"} ELSE {lead})
  /\ UNCHANGED <<controlVars, approver, attempts, text, rowVars, storeVars, counted, contacted,
                 lastOutbound, followups, replied, followupsBlocked, suppressed, processVars,
                 threadVars, hookVars, historyVars, convVars>>

SetMode(m) ==
  /\ mode' = m
  /\ UNCHANGED <<tickMode, lane, queueVars, rowVars, storeVars, counted, leadVars, suppressed,
                 processVars, threadVars, hookVars, historyVars, convVars>>

\* A conversation row exists from the first queued action or observed message on.
ConversationExists ==
  \/ \E a \in Actions : status[a] # "ABSENT"
  \/ inbound # "none"
  \/ seen # {}

ClaimConversation ==
  /\ "claim" \in Disturbances
  /\ ConversationExists
  /\ HumanTakesOver
  /\ UNCHANGED <<controlVars, approver, attempts, text, rowVars, storeVars, counted, suppressed,
                 processVars, threadVars, hookVars>>

ReleaseConversation ==
  /\ "claim" \in Disturbances
  /\ ConversationExists
  /\ ReleaseToAutomation
  /\ UNCHANGED <<controlVars, queueVars, rowVars, storeVars, counted, leadVars, suppressed,
                 processVars, threadVars, hookVars, historyVars>>

Suppress ==
  /\ "suppression" \in Disturbances
  /\ ~suppressed
  /\ suppressed' = TRUE
  /\ claimedOpen' = Executing
  /\ lead' = "CLOSED"
  /\ status' = CancelOpen(status, Actions)
  /\ UNCHANGED <<controlVars, approver, attempts, text, rowVars, storeVars, counted, contacted,
                 lastOutbound, followups, replied, followupsBlocked, processVars, threadVars,
                 hookVars, stragglers, convVars>>

HaltLane(c) ==
  /\ "halt" \in Disturbances
  /\ lane' = [lane EXCEPT ![c] = "HALTED"]
  /\ UNCHANGED <<mode, tickMode, queueVars, rowVars, storeVars, counted, leadVars, suppressed,
                 processVars, threadVars, hookVars, historyVars, convVars>>

ResumeLane(c) ==
  /\ lane' = [lane EXCEPT ![c] = "ACTIVE"]
  /\ status' = [a \in Actions |-> IF status[a] = Parked(c) THEN "APPROVED" ELSE status[a]]
  /\ UNCHANGED <<mode, tickMode, approver, attempts, text, rowVars, storeVars, counted, leadVars,
                 suppressed, processVars, threadVars, hookVars, historyVars, convVars>>

(***************************************************************************)
(* Instagram: what Rohit and the prospect write, and the webhook events    *)
(* the process that drains them makes of it.  An event may never arrive.   *)
(***************************************************************************)
HumanWrites(m) ==
  /\ m \in HumanMsgs \ human
  /\ human' = human \cup {m}
  /\ humanEchoes' = humanEchoes \cup {m}
  /\ UNCHANGED <<controlVars, queueVars, rowVars, storeVars, counted, leadVars, suppressed,
                 processVars, sent, prospect, ourEchoes, inboundHook, historyVars, convVars>>

ProspectWrites ==
  /\ "prospect" \in Disturbances
  /\ ~prospect
  /\ prospect' = TRUE
  /\ inboundHook' = TRUE
  /\ UNCHANGED <<controlVars, queueVars, rowVars, storeVars, counted, leadVars, suppressed,
                 processVars, sent, human, ourEchoes, humanEchoes, historyVars, convVars>>

\* record_inbound(): a message already stored from a thread read has no id to be known by.
InboundEvent(p) ==
  /\ pc[p] = "idle"
  /\ inboundHook
  /\ inboundHook' = FALSE
  /\ inbound' = "unhandled"
  /\ lead' = LeadOnInbound(lead)
  /\ replied' = (replied \/ lead \in OpenLead)
  /\ status' = QueueOnInbound(status)
  /\ UNCHANGED <<controlVars, approver, attempts, text, rowVars, seen, misread, counted, contacted,
                 lastOutbound, followups, followupsBlocked, suppressed, processVars, threadVars,
                 ourEchoes, humanEchoes, historyVars, convVars>>

\* record_echo(): known by id, else matched by text, state and age, else the human's.
EchoMatches(a, t, fresh) ==
  row[a] \in Live /\ rowText[a] = t /\ rowMid[a] = "none" /\ fresh

EchoOfOurs(p, e) ==
  LET a == e[1][1]
      t == e[1][2] IN
  /\ pc[p] = "idle"
  /\ e \in ourEchoes
  /\ ourEchoes' = ourEchoes \ {e}
  /\ UNCHANGED <<controlVars, approver, attempts, text, rowText, rowFresh, seen, inbound, counted,
                 suppressed, processVars, threadVars, humanEchoes, inboundHook>>
  /\ \/ /\ rowMid[a] = t
        /\ UNCHANGED <<status, row, rowMid, misread, leadVars, historyVars, convVars>>
     \/ /\ rowMid[a] # t
        /\ EchoMatches(a, t, e[2])
        /\ row' = [row EXCEPT ![a] = "SENT"]
        /\ rowMid' = [rowMid EXCEPT ![a] = t]
        /\ UNCHANGED <<status, misread, leadVars, historyVars, convVars>>
     \/ /\ rowMid[a] # t
        /\ ~EchoMatches(a, t, e[2])
        /\ misread' = misread \cup {e[1]}
        /\ HumanTakesOver
        /\ UNCHANGED <<row, rowMid>>

EchoOfHuman(p, m) ==
  /\ pc[p] = "idle"
  /\ m \in humanEchoes
  /\ humanEchoes' = humanEchoes \ {m}
  /\ seen' = seen \cup {m}
  /\ HumanTakesOver
  /\ UNCHANGED <<controlVars, approver, attempts, text, rowVars, misread, inbound, counted,
                 suppressed, processVars, threadVars, ourEchoes, inboundHook>>

\* An echo whose recipient cannot be resolved belongs to no known conversation.
IgnoreEcho(p) ==
  /\ pc[p] = "idle"
  /\ \/ \E m \in humanEchoes : humanEchoes' = humanEchoes \ {m} /\ UNCHANGED ourEchoes
     \/ \E e \in ourEchoes :
          /\ ~EchoMatches(e[1][1], e[1][2], e[2])
          /\ ourEchoes' = ourEchoes \ {e}
          /\ UNCHANGED humanEchoes
  /\ UNCHANGED <<controlVars, queueVars, rowVars, storeVars, counted, leadVars, suppressed,
                 processVars, threadVars, inboundHook, historyVars, convVars>>

(***************************************************************************)
(* Crashes and time.                                                       *)
(***************************************************************************)
\* The process is gone; the rows it wrote stay, the conversation's lease among them.
Crash(p) ==
  /\ "crash" \in Disturbances
  /\ pc[p] # "idle"
  /\ BecomesIdle(p)
  /\ stragglers' = IF pc[p] = "armed" THEN stragglers \ {job[p]} ELSE stragglers
  /\ UNCHANGED <<controlVars, queueVars, rowVars, storeVars, counted, leadVars, suppressed,
                 threadVars, hookVars, claimedOpen, convVars>>

CooldownEnds(c) ==
  /\ lane[c] = "COOLDOWN"
  /\ lane' = [lane EXCEPT ![c] = "ACTIVE"]
  /\ UNCHANGED <<mode, tickMode, queueVars, rowVars, storeVars, counted, leadVars, suppressed,
                 processVars, threadVars, hookVars, historyVars, convVars>>

RowAges(a) ==
  /\ "aging" \in Disturbances
  /\ row[a] # "none" /\ rowFresh[a]
  /\ rowFresh' = [rowFresh EXCEPT ![a] = FALSE]
  /\ UNCHANGED <<controlVars, queueVars, row, rowText, rowMid, storeVars, counted, leadVars,
                 suppressed, processVars, threadVars, hookVars, historyVars, convVars>>

LeaseTimeout ==
  /\ LeaseLapses
  /\ UNCHANGED <<controlVars, queueVars, rowVars, storeVars, counted, leadVars, suppressed,
                 processVars, threadVars, hookVars, historyVars>>

HoldTimeout ==
  /\ HoldLapses
  /\ UNCHANGED <<controlVars, queueVars, rowVars, storeVars, counted, leadVars, suppressed,
                 processVars, threadVars, hookVars, historyVars>>

(***************************************************************************)
(* The system.                                                             *)
(***************************************************************************)
Plan(p) ==
  \/ \E a \in Actions : Compose(p, a)
  \/ HandleReply(p)
  \/ Queue(p)
  \/ CompositionFails(p)
  \/ HandOff(p)

Start(p) ==
  \/ \E stale \in SUBSET Orphans : StartTick(p, stale)
  \/ \E a \in Actions : Demote(p, a) \/ Deny(p, a) \/ Claim(p, a)

Execute(p) ==
  \/ SkipApi(p) \/ NoChannel(p) \/ LeaseConversation(p) \/ LeaseRefused(p)
  \/ FailEarly(p) \/ ReadThread(p) \/ VerifyOverApi(p) \/ CheckGuard(p) \/ Send(p)
  \/ Release(p) \/ Record(p)

Observe(p) ==
  \/ InboundEvent(p)
  \/ \E e \in ourEchoes : EchoOfOurs(p, e)
  \/ \E m \in HumanMsgs : EchoOfHuman(p, m)
  \/ IgnoreEcho(p)

Operate ==
  \/ \E a \in Actions : ExpireApproval(a) \/ Approve(a) \/ Reject(a)
  \/ \E m \in Modes \ {mode} : SetMode(m)
  \/ ClaimConversation \/ ReleaseConversation \/ Suppress
  \/ \E c \in Channels : HaltLane(c) \/ ResumeLane(c)

Environment ==
  \/ \E m \in HumanMsgs : HumanWrites(m)
  \/ ProspectWrites
  \/ \E p \in Workers : Crash(p)
  \/ \E c \in Channels : CooldownEnds(c)
  \/ \E a \in Actions : RowAges(a)
  \/ ReleaseHold
  \/ LeaseTimeout
  \/ HoldTimeout

Next ==
  \/ \E p \in Workers : Plan(p) \/ Start(p) \/ Execute(p) \/ Observe(p)
  \/ Operate
  \/ Environment

Spec == Init /\ [][Next]_vars

(***************************************************************************)
(* Fairness.  A process runs what it has begun (asyncio, a timeout on each *)
(* browser and HTTP call), run_forever starts tick after tick, maintenance *)
(* recovers every action whose lease is over, and leases lapse by clock.   *)
(* Nothing is assumed of people, of Instagram or of webhooks.              *)
(***************************************************************************)
Recoverable == {a \in Orphans : live => token # a}

Fairness ==
  /\ \A p \in Workers : WF_vars(Execute(p) \/ Queue(p) \/ CompositionFails(p) \/ HandOff(p))
  /\ \A p \in Workers : SF_vars(StartTick(p, Recoverable))
  /\ WF_vars(LeaseTimeout)

FairSpec == Spec /\ Fairness

(***************************************************************************)
(* Properties.                                                             *)
(***************************************************************************)
Copies(a) == sent[<<a, "drafted">>] + sent[<<a, "edited">>]
WasSent(a) == Copies(a) > 0
Sends(a) == \E t \in Versions : sent'[<<a, t>>] > sent[<<a, t>>]

\* No approved text reaches the thread twice, through crashes between sending and
\* recording, unconfirmed sends, lane barriers, API-to-browser fallback and retries.
OneCopyOfEachText == \A b \in Bubbles : sent[b] <= 1

\* Why it holds: an action in execution belongs to one process and no handler takes it away...
ExecutionsAreHeld ==
  /\ \A p \in Workers : pc[p] \in Holding => status[job[p]] = "EXECUTING"
  /\ \A p, q \in Workers : pc[p] \in Holding /\ pc[q] \in Holding /\ job[p] = job[q] => p = q

\* ... nothing is typed before the intent row is committed...
IntentComesFirst ==
  /\ \A a \in Actions : row[a] = "none" => \A t \in Versions : sent[<<a, t>>] = 0
  /\ \A p \in Workers : pc[p] \in {"leased", "typed", "armed"} => row[job[p]] # "none"

\* ... and an adapter that does not look into the thread has nothing to find there.
LooksBeforeTyping ==
  \A p \in Workers :
    /\ pc[p] \in {"claimed", "leased", "typed", "armed"} /\ ~req[p].verify
         => \A t \in Versions : sent[<<job[p], t>>] = 0
    /\ pc[p] \in {"typed", "armed"} => sent[Mine(p)] = 0

\* What every step preserves, from claim to record and across crashes: an action has one
\* executor, is written down before it is typed, and is looked for before it is typed again.
DeliveryInvariant ==
  /\ OneCopyOfEachText
  /\ ExecutionsAreHeld
  /\ IntentComesFirst
  /\ LooksBeforeTyping

\* Successive drafts of the first message (rejected, expired, blocked ones before them):
\* the prospect gets one of them at most.
OneFirstMessage == \A a, b \in Initials : WasSent(a) /\ WasSent(b) => a = b

\* Follow-ups come in order: none before a message of ours that it follows, and no later
\* one before the earlier ones have arrived.
FollowUpsInOrder ==
  \A f \in FollowUps : WasSent(f) =>
    /\ \E a \in Initials \cup Replies : WasSent(a)
    /\ \A g \in FollowUps : FollowUpNumber[g] < FollowUpNumber[f] => WasSent(g)

\* A success is in the thread, in the messages table and exactly once in the ledger
\* that the daily caps are computed from; the ledger counts nothing else.
LedgerIsTrue ==
  /\ \A a \in Actions : counted[a] <= 1 /\ (counted[a] = 1 => WasSent(a))
  /\ \A a \in Actions : status[a] = "SUCCEEDED" => counted[a] = 1 /\ row[a] = "SENT"

\* A lead whose outreach is pending has an outreach action that can still move: no chain of
\* rejections, takeovers, expiries, crashes and failures leaves it waiting for nothing.
NoStrandedLead ==
  lead = "OUTREACH_PENDING" => \E a \in Initials : status[a] \in OpenOutbound \cup {"EXECUTING"}

\* Once Rohit owns the conversation (take_over_by_human, from an echo, a thread read, the
\* console or a hand-off), only a send whose ctx.guard() had passed before he took over can
\* still reach the thread.
OnlyStragglersAfterTakeover ==
  [][\A a \in Actions : Sends(a) /\ paused => a \in stragglers]_vars

\* Once the lead is on the suppression list (the operator's suppress, an opt-out read by
\* _act_on_reply), only an execution that _prepare had claimed before can still send to it.
OnlyClaimedAfterSuppression ==
  [][\A a \in Actions : Sends(a) /\ suppressed => a \in claimedOpen]_vars

\* No follow-up is sent to a lead whose replied_at is set, also when the reply was recorded
\* after plan_followups queued it.
NoFollowUpOnceReplied == [][\A f \in FollowUps : Sends(f) => ~replied]_vars

\* The delivery contract of each action, over its whole life: what the queue, the worker and
\* the adapters do implements DeliveryContract.
ContractVerdict ==
  [a \in Actions |-> IF status[a] = "SUCCEEDED" THEN "succeeded"
                     ELSE IF status[a] \in Final THEN "dropped" ELSE "open"]

Contract == INSTANCE DeliveryContract
  WITH Messages <- Actions, verdict <- ContractVerdict, copies <- [a \in Actions |-> Copies(a)]

ImplementsContract == Contract!Spec

\* Every execution ends: recorded by its process (_record), or recovered after a crash
\* (recover_stale in maintenance).
ExecutionEnds ==
  (\E a \in Actions : status[a] = "EXECUTING") ~> (\A a \in Actions : status[a] # "EXECUTING")
=============================================================================
