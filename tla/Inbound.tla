------------------------------ MODULE Inbound ------------------------------
(***************************************************************************)
(* How what is written in an Instagram thread reaches the messages table,  *)
(* and what is done about it: the webhook inbox (webhooks.py), the events  *)
(* (pipeline.process_events), the inbox and thread reads that make up for  *)
(* missed events (handle_inbox_result, ownership.reconcile), and the       *)
(* replies (plan_replies, _act_on_reply).                                  *)
(*                                                                         *)
(* One lead already contacted, its conversation and its thread.  Several   *)
(* orchestrator processes run service.tick() at the same time; Meta        *)
(* delivers an event once or more, alone or with another, in any order.    *)
(* A `with db.session()` block is one step, an await separates two steps.  *)
(*                                                                         *)
(* A message is its position in the thread, which is also its platform id  *)
(* and its time: timestamps are compared, so the length of the thread is   *)
(* the clock.  The execution of an approved answer is one step here (gate, *)
(* send, record): SendPath has it in detail.  Modes other than the ones    *)
(* that prepare outreach only change `handOff` to TRUE.                    *)
(***************************************************************************)
EXTENDS Naturals, Sequences, FiniteSets, SequencesExt

CONSTANTS
  Runners,      \* orchestrator processes
  Intent,       \* what classify_reply makes of each word a prospect may write
  MaxRetries,   \* bound: deliveries by Meta of events it has delivered before
  Scenarios     \* what may happen: [script, handOff, troubles]

AllTroubles == {"crash", "retry", "resolver", "echoes", "API", "BROWSER"}
Channels == {"API", "BROWSER"}
Pitch == "pitch"      \* the first message, already sent
Note == "note"        \* what Rohit writes himself
Answer == "answer"    \* an answer by automation
Words == DOMAIN Intent
Sends == {"CONTACTED", "REPLIED", "HANDED_OFF", "CLOSED"}

ASSUME InboundAssumption ==
  /\ \A w \in Words : Intent[w] \in {"OPT_OUT", "INTERESTED", "NEUTRAL"}
  /\ {Pitch, Note, Answer} \cap Words = {}
  /\ MaxRetries \in Nat
  /\ \A s \in Scenarios : /\ s.script \in Seq(Words \cup {Note})
                          /\ s.handOff \in BOOLEAN
                          /\ s.troubles \subseteq AllTroubles

VARIABLES
  scenario,     \* the script, replies.handoff_on_interest, and what may go wrong
  thread,       \* the thread on Instagram: who wrote what
  said,         \* how much of the script has been written
  hooks,        \* the webhook_events table
  retries,      \* deliveries of events delivered before
  crashed,      \* a process has died
  rows,         \* the messages table; an inbound row carries its answer (a SEND_REPLY action)
  known,        \* the greatest of last_inbound_at, last_outbound_at, last_synced_at
  linked,       \* the igsid of the lead is stored
  paused,       \* Conversation.automation_paused
  stage,        \* Lead.status
  suppressed,   \* the lead is on the suppression list
  followUp,     \* a follow-up is open in the queue
  jobs,         \* approved reads in the queue: "inbox", "thread"
  pc, events, todo, job, saw, channel,   \* what each process has in its memory
  pending,      \* its notices not yet flushed: rows handed off
  told          \* the rows Rohit was told about

db == <<rows, known, linked, paused, stage, suppressed, followUp>>
world == <<scenario, thread, said, hooks, retries, crashed>>
memory == <<pc, events, todo, job, saw, channel>>
vars == <<world, db, jobs, memory, pending, told>>

Positions == 1..Len(thread)
RowIds == 1..Len(rows)
HookIds == 1..Len(hooks)
Outbound == {"automation", "rohit"}
Direction(from) == IF from \in Outbound THEN "OUT" ELSE "IN"
MaxOf(a, b) == IF a > b THEN a ELSE b
Troubles == scenario.troubles

Phases == {"idle", "events", "planning", "replies", "composing", "deciding", "work", "reading"}
Answers == {"none", "open", "sent", "cancelled", "blocked"}

Authors == {"prospect", "automation", "rohit"}
Texts == Words \cup {Pitch, Note, Answer}
Letters == [from : Authors, word : Texts]
RowRecords == [from : Authors, word : Texts, mid : Nat, copy : Nat, handled : BOOLEAN, answer : Answers]
HookRecords == [events : Seq(Nat), processed : BOOLEAN]

\* The ranges of the tables and of what a process holds.
TypeOK ==
  /\ scenario \in Scenarios /\ said \in 0..Len(scenario.script)
  /\ thread \in Seq(Letters)
  /\ hooks \in Seq(HookRecords) /\ \A k \in HookIds : Range(hooks[k].events) \subseteq Positions
  /\ retries \in Nat
  /\ rows \in Seq(RowRecords)
  /\ \A i \in RowIds : rows[i].mid \in {0} \cup Positions /\ rows[i].copy \in Positions
  /\ known \in 0..Len(thread)
  /\ stage \in Sends
  /\ {linked, paused, suppressed, followUp, crashed} \subseteq BOOLEAN
  /\ jobs \subseteq {"inbox", "thread"}
  /\ pc \in [Runners -> Phases]
  /\ events \in [Runners -> SUBSET (HookIds \X {1, 2})]
  /\ \A r \in Runners : \A e \in events[r] : e[2] \in DOMAIN hooks[e[1]].events
  /\ {todo, pending} \subseteq [Runners -> SUBSET RowIds]
  /\ job \in [Runners -> {"none", "inbox", "thread"}]
  /\ saw \in [Runners -> 0..Len(thread)]
  /\ channel \in [Runners -> Channels \cup {"none"}]
  /\ \A r \in Runners : /\ events[r] # {} <=> pc[r] = "events"
                        /\ todo[r] # {} <=> pc[r] \in {"replies", "composing"}
                        /\ job[r] # "none" <=> pc[r] = "reading"
                        /\ channel[r] # "none" <=> pc[r] = "reading"
  /\ told \subseteq RowIds

Row(from, word, mid, copy) ==
  [from |-> from, word |-> word, mid |-> mid, copy |-> copy,
   handled |-> Direction(from) = "OUT", answer |-> "none"]

Init ==
  /\ scenario \in Scenarios
  /\ thread = <<[from |-> "automation", word |-> Pitch]>>
  /\ said = 0
  /\ hooks = <<>> /\ retries = 0
  /\ crashed = FALSE
  /\ rows = <<Row("automation", Pitch, 0, 1)>>
  /\ known = 1
  /\ linked = FALSE
  /\ paused = FALSE
  /\ stage = "CONTACTED"
  /\ suppressed = FALSE
  /\ followUp = TRUE
  /\ jobs = {}
  /\ pc = [r \in Runners |-> "idle"]
  /\ events = [r \in Runners |-> {}]
  /\ todo = [r \in Runners |-> {}]
  /\ job = [r \in Runners |-> "none"]
  /\ saw = [r \in Runners |-> 0]
  /\ channel = [r \in Runners |-> "none"]
  /\ pending = [r \in Runners |-> {}]
  /\ told = {}

(***************************************************************************)
(* The Instagram app and Meta's webhooks.                                  *)
(***************************************************************************)
Write ==
  /\ said < Len(scenario.script)
  /\ LET word == scenario.script[said + 1]
     IN thread' = Append(thread, [from |-> IF word = Note THEN "rohit" ELSE "prospect", word |-> word])
  /\ said' = said + 1
  /\ UNCHANGED <<scenario, hooks, retries, crashed, db, jobs, memory, pending, told>>

\* What the app is subscribed to: the messages of the prospect, and perhaps the echoes of ours.
Events == {i \in Positions : thread[i].from = "prospect" \/ "echoes" \in Troubles}
Delivered == UNION {Range(hooks[k].events) : k \in HookIds}
Payloads == {<<i>> : i \in Events} \cup {p \in Events \X Events : p[1] # p[2]}

\* store(): a payload already stored is a retry of Meta and is dropped.
Store(payload) ==
  /\ \A k \in HookIds : hooks[k].events # payload
  /\ hooks' = Append(hooks, [events |-> payload, processed |-> FALSE])
  /\ UNCHANGED <<scenario, thread, said, crashed, db, jobs, memory, pending, told>>

\* An event Meta has not delivered yet, alone or with another one.
Deliver(i) ==
  /\ i \in Events \ Delivered
  /\ \E payload \in Payloads :
       i \in Range(payload) /\ Range(payload) \cap Delivered = {} /\ Store(payload)
  /\ UNCHANGED retries

\* An event it has delivered, because the first answer was late: alone again or in a batch.
Redeliver ==
  /\ "retry" \in Troubles /\ retries < MaxRetries
  /\ retries' = retries + 1
  /\ \E payload \in Payloads : Range(payload) \subseteq Delivered /\ Store(payload)

(***************************************************************************)
(* Storing messages (OwnershipService).                                    *)
(***************************************************************************)
Named(mid) == \E i \in RowIds : rows[i].mid = mid

Cancelled(table) ==
  [i \in DOMAIN table |-> IF table[i].answer = "open" THEN [table[i] EXCEPT !.answer = "cancelled"]
                                                      ELSE table[i]]

\* take_over_by_human(), on the table of messages it is called with.
TakeOver(table) ==
  /\ paused' = TRUE
  /\ stage' = IF stage = "CLOSED" THEN stage ELSE "HANDED_OFF"
  /\ rows' = Cancelled(table)
  /\ followUp' = FALSE
  /\ UNCHANGED suppressed

\* _on_new_inbound(): never follow up on someone who answered.
OnNewInbound ==
  /\ stage' = IF stage = "CONTACTED" THEN "REPLIED" ELSE stage
  /\ followUp' = FALSE
  /\ UNCHANGED <<paused, suppressed>>

\* Mutation: the platform id is not looked up.
RecordInboundAgain(m) ==
  /\ rows' = Append(rows, Row("prospect", thread[m].word, m, m))
  /\ known' = MaxOf(known, m)
  /\ OnNewInbound

RecordInbound(m) ==
  IF Named(m)
  THEN UNCHANGED <<rows, known, paused, stage, suppressed, followUp>>
  ELSE /\ rows' = Append(rows, Row("prospect", thread[m].word, m, m))
       /\ known' = MaxOf(known, m)
       /\ OnNewInbound

\* The rows of automation that have this text and no platform id yet.
Ours(word) == {i \in RowIds : rows[i].from = "automation" /\ rows[i].word = word /\ rows[i].mid = 0}

RecordEcho(m) ==
  LET mine == Ours(thread[m].word)
  IN CASE Named(m) -> UNCHANGED <<rows, known, paused, stage, suppressed, followUp>>
       [] ~Named(m) /\ mine # {} ->
            /\ rows' = [rows EXCEPT ![Max(mine)].mid = m]
            /\ UNCHANGED <<known, paused, stage, suppressed, followUp>>
       [] OTHER ->
            /\ known' = MaxOf(known, m)
            /\ TakeOver(Append(rows, Row("rohit", thread[m].word, m, m)))

(***************************************************************************)
(* A tick: the events first.                                               *)
(***************************************************************************)
\* drain(): the payloads are marked processed here, before any of them is.  An event in memory is
\* its payload and its place in it.
Drain(r) ==
  /\ pc[r] = "idle"
  /\ LET fresh == {e \in HookIds \X {1, 2} : ~hooks[e[1]].processed /\ e[2] \in DOMAIN hooks[e[1]].events}
     IN /\ events' = [events EXCEPT ![r] = fresh]
        /\ pc' = [pc EXCEPT ![r] = IF fresh = {} THEN "planning" ELSE "events"]
  /\ hooks' = [k \in HookIds |-> [hooks[k] EXCEPT !.processed = TRUE]]
  /\ UNCHANGED <<scenario, thread, said, retries, crashed, db, jobs, todo, job, saw, channel, pending, told>>

\* _username_for_igsid() asks the platform when no row has the igsid; the call may fail.
Resolutions == IF "resolver" \in Troubles THEN BOOLEAN ELSE {TRUE}

\* The payloads in the order of their ids, and in each the events in their order.
NextEvent(r) ==
  CHOOSE e \in events[r] : \A d \in events[r] : e[1] < d[1] \/ (e[1] = d[1] /\ e[2] <= d[2])

\* One event of process_events().  An event whose sender stays unknown is ignored.
ProcessEvent(r) ==
  /\ pc[r] = "events"
  /\ LET e == NextEvent(r)
         m == hooks[e[1]].events[e[2]]
         echo == thread[m].from \in Outbound
     IN \E resolved \in Resolutions :
          IF linked \/ resolved \/ (echo /\ Ours(thread[m].word) # {})
          THEN /\ linked' = TRUE
               /\ IF echo THEN RecordEcho(m) ELSE RecordInbound(m)
          ELSE UNCHANGED db
  /\ LET rest == events[r] \ {NextEvent(r)}
     IN /\ events' = [events EXCEPT ![r] = rest]
        /\ pc' = [pc EXCEPT ![r] = IF rest = {} THEN "planning" ELSE "events"]
  /\ UNCHANGED <<world, jobs, todo, job, saw, channel, pending, told>>

(***************************************************************************)
(* Planning: the inbox sync and the replies.                               *)
(***************************************************************************)
\* Mutation: the replies in a conversation of Rohit's are left to him.
UnhandledUnpaused == {i \in RowIds : ~rows[i].handled /\ ~paused}

\* plan_inbox_sync(), which the interval may hold back, then the rows plan_replies() reads.
Unhandled == {i \in RowIds : ~rows[i].handled}

Plan(r, sync) ==
  /\ pc[r] = "planning"
  /\ sync => /\ Troubles \cap Channels # {}
             /\ stage \in {"CONTACTED", "REPLIED"}
             /\ "inbox" \notin jobs
  /\ jobs' = IF sync THEN jobs \cup {"inbox"} ELSE jobs
  /\ todo' = [todo EXCEPT ![r] = Unhandled]
  /\ pc' = [pc EXCEPT ![r] = IF Unhandled = {} THEN "work" ELSE "replies"]
  /\ UNCHANGED <<world, db, events, job, saw, channel, pending, told>>

\* The replies in the order they came in.
Reply(r) == Min(todo[r])

NextReply(r) ==
  LET rest == todo[r] \ {Reply(r)}
  IN /\ todo' = [todo EXCEPT ![r] = rest]
     /\ pc' = [pc EXCEPT ![r] = IF rest = {} THEN "work" ELSE "replies"]

\* An opt-out or a refusal: suppressed, the queue emptied, the lead closed.
Suppress(table) ==
  /\ suppressed' = TRUE
  /\ rows' = Cancelled(table)
  /\ followUp' = FALSE
  /\ stage' = "CLOSED"
  /\ UNCHANGED <<paused, known, linked>>

\* The first transaction of _act_on_reply(); the intent was read before it (classify_reply).
ActOnReply(r) ==
  /\ pc[r] = "replies"
  /\ LET i == Reply(r)
         intent == Intent[rows[i].word]
         table == [rows EXCEPT ![i].handled = TRUE]
     IN \/ /\ intent = "OPT_OUT"
           /\ Suppress(table)
           /\ NextReply(r)
        \/ /\ intent = "NEUTRAL"
           /\ rows' = table
           /\ UNCHANGED <<known, linked, paused, stage, suppressed, followUp>>
           /\ NextReply(r)
        \/ /\ intent = "INTERESTED"
           /\ rows' = table
           /\ UNCHANGED <<known, linked, paused, stage, suppressed, followUp, todo>>
           /\ pc' = [pc EXCEPT ![r] = "composing"]
  /\ UNCHANGED <<world, jobs, events, job, saw, channel, pending, told>>

\* Mutation: the notice is forgotten.
HandOffSilently(r) ==
  /\ pc[r] = "composing"
  /\ TakeOver(rows)
  /\ NextReply(r)
  /\ UNCHANGED <<world, known, linked, jobs, events, job, saw, channel, pending, told>>

\* Composition failed, or a warm lead goes to Rohit anyway.
HandOff(r) ==
  /\ pc[r] = "composing"
  /\ TakeOver(rows)
  /\ pending' = [pending EXCEPT ![r] = @ \cup {Reply(r)}]
  /\ NextReply(r)
  /\ UNCHANGED <<world, known, linked, jobs, events, job, saw, channel, told>>

\* Mutation: the action is created without a preview of the gate.
PreviewOpen == "open"

\* _queue_outbound(): the idempotency key is the row; the gate's preview may block the action.
Preview == IF suppressed \/ paused THEN "blocked" ELSE "open"

\* Mutation: no idempotency key.
QueueAnswerAgain(r) ==
  /\ pc[r] = "composing"
  /\ ~scenario.handOff
  /\ rows' = [rows EXCEPT ![Reply(r)].answer = Preview]
  /\ NextReply(r)
  /\ UNCHANGED <<world, known, linked, paused, stage, suppressed, followUp, jobs,
                 events, job, saw, channel, pending, told>>

QueueAnswer(r) ==
  /\ pc[r] = "composing"
  /\ ~scenario.handOff
  /\ LET i == Reply(r)
     IN rows' = [rows EXCEPT ![i].answer = IF @ = "none" THEN Preview ELSE @]
  /\ NextReply(r)
  /\ UNCHANGED <<world, known, linked, paused, stage, suppressed, followUp, jobs,
                 events, job, saw, channel, pending, told>>

(***************************************************************************)
(* Execution: answers, the inbox, the thread.                              *)
(***************************************************************************)
\* What an execution records ends with the flush of the notices, here as at the end of the tick.
EndTick(r) ==
  /\ told' = told \cup pending[r]
  /\ pending' = [pending EXCEPT ![r] = {}]
  /\ job' = [job EXCEPT ![r] = "none"]
  /\ saw' = [saw EXCEPT ![r] = 0]
  /\ channel' = [channel EXCEPT ![r] = "none"]
  /\ pc' = [pc EXCEPT ![r] = "idle"]

\* An approved answer that the gate lets through; the row of our message gets its platform id
\* from the API, and not from the browser.
SendAnswer(r) ==
  /\ pc[r] = "work"
  /\ \E i \in RowIds :
       /\ rows[i].answer = "open"
       /\ ~suppressed /\ ~paused
       /\ thread' = Append(thread, [from |-> "automation", word |-> Answer])
       /\ \E mid \in {0} \cup (IF linked THEN {Len(thread')} ELSE {}) :
            rows' = Append([rows EXCEPT ![i].answer = "sent"], Row("automation", Answer, mid, Len(thread')))
  /\ known' = Len(thread')
  /\ EndTick(r)
  /\ UNCHANGED <<scenario, said, hooks, retries, crashed, linked, paused, stage, suppressed, followUp, jobs,
                 events, todo>>

\* A read is claimed and made, a thread before the inbox (their priorities); the API needs the
\* igsid for a thread.
Read(r) ==
  /\ pc[r] = "work"
  /\ jobs # {}
  /\ LET j == IF "thread" \in jobs THEN "thread" ELSE "inbox"
     IN \E c \in Troubles \cap Channels :
          /\ j = "thread" /\ c = "API" => linked
          /\ jobs' = jobs \ {j}
          /\ job' = [job EXCEPT ![r] = j]
          /\ channel' = [channel EXCEPT ![r] = c]
  /\ saw' = [saw EXCEPT ![r] = Len(thread)]
  /\ pc' = [pc EXCEPT ![r] = "reading"]
  /\ UNCHANGED <<world, db, events, todo, pending, told>>

\* handle_inbox_result(): did the thread change?  The API gives its last update, the browser a
\* preview of its last message.
Changed(r) ==
  IF channel[r] = "API" THEN saw[r] > known
  ELSE rows[Len(rows)].word # thread[saw[r]].word

HandleInbox(r) ==
  /\ pc[r] = "reading" /\ job[r] = "inbox"
  /\ jobs' = IF ~paused /\ Changed(r) THEN jobs \cup {"thread"} ELSE jobs
  /\ linked' = (linked \/ (channel[r] = "API" /\ ~paused))
  /\ EndTick(r)
  /\ UNCHANGED <<world, rows, known, paused, stage, suppressed, followUp, events, todo>>

\* reconcile(): messages are matched by platform id, the others by counts of (direction, text);
\* the browser shows no ids.
ById(r, k) == channel[r] = "API" /\ Named(k)
Same(k, l) == thread[k].word = thread[l].word /\ Direction(thread[k].from) = Direction(thread[l].from)
StoredAs(k) == {i \in RowIds : rows[i].word = thread[k].word
                               /\ Direction(rows[i].from) = Direction(thread[k].from)}
\* Mutation: a text that is stored matches any number of messages.
UnmatchedSet(r, k) ==
  /\ ~ById(r, k)
  /\ StoredAs(k) = {}
  /\ {l \in 1..(k - 1) : ~ById(r, l) /\ Same(k, l)} = {}

Unmatched(r, k) ==
  /\ ~ById(r, k)
  /\ Cardinality({l \in 1..k : ~ById(r, l) /\ Same(k, l)}) > Cardinality(StoredAs(k))

\* The i-th of some numbers, the least first.
Nth(numbers, i) == CHOOSE k \in numbers : Cardinality({l \in numbers : l <= k}) = i

NewRow(r, k) ==
  Row(IF thread[k].from = "prospect" THEN "prospect" ELSE "rohit", thread[k].word,
      IF channel[r] = "API" THEN k ELSE 0, k)

Reconcile(r) ==
  /\ pc[r] = "reading" /\ job[r] = "thread"
  /\ LET unmatched == {k \in 1..saw[r] : Unmatched(r, k)}
         table == rows \o [i \in 1..Cardinality(unmatched) |-> NewRow(r, Nth(unmatched, i))]
         authors == {thread[k].from : k \in unmatched}
     IN CASE authors \cap Outbound # {} -> TakeOver(table)
          [] authors = {"prospect"} -> rows' = table /\ OnNewInbound
          [] authors = {} -> UNCHANGED <<rows, paused, stage, suppressed, followUp>>
  /\ known' = Len(thread)
  /\ EndTick(r)
  /\ UNCHANGED <<world, linked, jobs, events, todo>>

NothingToExecute(r) ==
  /\ pc[r] = "work"
  /\ EndTick(r)
  /\ UNCHANGED <<world, db, jobs, events, todo>>

\* A process dies once and starts again; a thread read under way is recovered or not, by its attempts.
Crash(r) ==
  /\ "crash" \in Troubles /\ ~crashed
  /\ crashed' = TRUE
  /\ pc' = [pc EXCEPT ![r] = "idle"]
  /\ events' = [events EXCEPT ![r] = {}]
  /\ todo' = [todo EXCEPT ![r] = {}]
  /\ job' = [job EXCEPT ![r] = "none"]
  /\ saw' = [saw EXCEPT ![r] = 0]
  /\ channel' = [channel EXCEPT ![r] = "none"]
  /\ pending' = [pending EXCEPT ![r] = {}]
  /\ jobs' \in {jobs, jobs \cup ({job[r]} \cap {"thread"})}
  /\ UNCHANGED <<scenario, thread, said, hooks, retries, db, told>>

Tick(r) ==
  \/ Drain(r) \/ ProcessEvent(r) \/ \E sync \in BOOLEAN : Plan(r, sync)
  \/ ActOnReply(r) \/ HandOff(r) \/ QueueAnswer(r)
  \/ SendAnswer(r) \/ Read(r) \/ HandleInbox(r) \/ Reconcile(r) \/ NothingToExecute(r)

Next ==
  \/ Write
  \/ \E i \in Positions : Deliver(i)
  \/ Redeliver
  \/ \E r \in Runners : Tick(r) \/ Crash(r)

Spec == Init /\ [][Next]_vars

\* run_forever() ticks again and again and no await hangs for ever (HTTP timeouts); the interval
\* between inbox syncs elapses, and a queued read is executed; Meta retries a delivery until it
\* is answered.
FairSpec ==
  /\ Spec
  /\ \A r \in Runners : WF_vars(Tick(r)) /\ SF_vars(Plan(r, TRUE)) /\ SF_vars(Read(r))
  /\ WF_vars(\E i \in Positions : Deliver(i))

(***************************************************************************)
(* Properties.                                                             *)
(***************************************************************************)
\* A platform id names one row, however often and in whatever batches Meta delivers its event and
\* whatever thread reads saw it before (webhooks.py: "messages again by mid").
NamedOnce ==
  \A i, j \in RowIds : rows[i].mid # 0 /\ rows[i].mid = rows[j].mid => i = j

\* The tables and the processes' memory are what they should be, and no message is stored twice
\* under its id (Message.platform_message_id is unique; record_inbound looks before it adds).
Consistent == TypeOK /\ NamedOnce

\* Once the prospect has opted out, or the conversation is Rohit's, no outbound action is open:
\* not even the answer that another process was composing at that moment.
NothingOpenOnceClosed ==
  suppressed \/ paused => ~followUp /\ \A i \in RowIds : rows[i].answer # "open"

\* A message of the prospect is answered at most once, though two processes may handle it at the
\* same time and Meta may deliver it again.  (Not so after a browser read: it stores the message
\* without its id, and the webhook stores it again.)
AnswersSent == Cardinality({i \in Positions : thread[i] = [from |-> "automation", word |-> Answer]})
WarmMessages ==
  Cardinality({i \in Positions : thread[i].from = "prospect" /\ Intent[thread[i].word] = "INTERESTED"})

OneAnswerEach == "BROWSER" \notin Troubles => AnswersSent <= WarmMessages

\* After a thread read is recorded, every message it showed is in the table, repeated texts as
\* often as they were shown.  (A read through the API miscounts repeated texts: a row matched by
\* its id still counts for the next message of that text.)
Shown(r, k) == Cardinality({l \in 1..saw[r] : Same(k, l)})

ReadIsStored ==
  [][\A r \in Runners :
       pc[r] = "reading" /\ job[r] = "thread" /\ pc'[r] = "idle" /\ crashed' = crashed
         => \A k \in 1..saw[r] : channel[r] = "BROWSER" \/ Shown(r, k) = 1
                                 => Cardinality(StoredAs(k)') >= Shown(r, k)]_vars

\* An opt-out suppresses the lead, sooner or later.
StopWritten == \E i \in Positions : thread[i].from = "prospect" /\ Intent[thread[i].word] = "OPT_OUT"

OptOutsSuppressed == StopWritten ~> suppressed

\* So it is as long as no process dies and the sender of an event can be resolved.
StopHeard == scenario.troubles \cap {"crash", "resolver"} = {} /\ StopWritten ~> suppressed

\* A warm reply ends with Rohit told of it, or with an answer queued, unless the process that
\* handles it dies; whatever else happens to the conversation meanwhile.  The script is finite, so
\* that no row waits for ever is that again and again no row waits.
Waiting ==
  {i \in RowIds : /\ rows[i].handled /\ rows[i].from = "prospect"
                  /\ Intent[rows[i].word] = "INTERESTED"
                  /\ i \notin told /\ rows[i].answer = "none"}

WarmLeadReachesRohit == "crash" \notin Troubles => []<>(Waiting = {})
=============================================================================
