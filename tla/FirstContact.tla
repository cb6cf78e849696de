---------------------------- MODULE FirstContact ----------------------------
(***************************************************************************)
(* What the first message to one business says, and by which way it goes:  *)
(* the inspection of its profile and the check of its website              *)
(* (signals.py, website.py), their analysis (analyzer.py), the text        *)
(* (composer.py, validator.py) and, for someone who commented on one of    *)
(* our posts, the private reply over the Graph API with the ordinary       *)
(* message to fall back on (pipeline.py, worker.py, api/adapter.py).        *)
(*                                                                          *)
(* SendPath has the sending of an ordinary message step by step, with the   *)
(* conversation's lease and the human; here its thread check, guard and     *)
(* send are one step.  One planner and one sender run beside up to two      *)
(* executions of the inspection: one that outlives its lease is started a   *)
(* second time.                                                             *)
(***************************************************************************)
EXTENDS Naturals, Sequences, FiniteSetsExt

CONSTANTS
  Visits,       \* executions of INSPECT_PROFILE, numbered
  Comments,     \* comments under our posts, numbered as they come
  Scenes,       \* what there is at first, and what may happen, in a behaviour
  MinScore,     \* scoring.min_score_to_contact
  MaxAttempts,  \* limits.retry_max_attempts
  MaxDrafts,    \* bound: no fresh draft is asked for beyond it
  None          \* no value here

\* LinkKind, as far as it matters: what the profile links to.  A page on a website
\* builder and two domains are the business's own; "platform": WhatsApp, Linktree, ...
OwnSites == {"builder", "site", "moved"}
Links == {None, "platform"} \union OwnSites

\* WebsiteCheck: "unknown" (no answer, or one that keeps robots out), an error page, a page
\* that shows its builder, one without a mobile viewport, a good one, one with a booking widget.
Answers == {"unknown", "error", "built", "desktop", "good", "bookable"}
Loaded == {"built", "desktop", "good", "bookable"}

\* What an inspection reads, as it is stored and as it is merged with earlier ones.
Snapshots == [header : BOOLEAN, link : Links, books : BOOLEAN, busy : BOOLEAN, closed : BOOLEAN, taken : Nat]
Seen == [link : Links, books : BOOLEAN, busy : BOOLEAN, closed : BOOLEAN]

\* A scene: the profile now and after its edit, the points for niche, place, activity and size,
\* how its websites answer, the faults of each draft, and which other things happen in it.
SceneRecords ==
  [page : Seen, later : Seen, fit : Nat, answers : SUBSET Answers, faults : Nat,
   twice : BOOLEAN, partial : BOOLEAN, unreadable : BOOLEAN, checks : BOOLEAN, commenter : BOOLEAN,
   igsid : BOOLEAN, api : BOOLEAN, llm : BOOLEAN, alike : BOOLEAN, autonomous : BOOLEAN,
   operator : BOOLEAN, refused : BOOLEAN]

ASSUME FirstContactAssumption ==
  /\ Visits \in {{1}, {1, 2}} /\ Comments \subseteq Nat /\ IsFiniteSet(Comments)
  /\ Scenes \subseteq SceneRecords
  /\ MinScore \in Nat /\ MaxAttempts \in Nat \ {0} /\ MaxDrafts \in Nat \ {0}
  /\ None \notin OwnSites \union {"platform"} \union Answers \union Nat \union Snapshots

Opportunities == {"NEW_WEBSITE", "BROKEN_WEBSITE", "WEBSITE_REBUILD", "ONLINE_BOOKING", "VISUAL_SHOWCASE"}

\* A fact is a pair: what is so, and of which link.
FactKinds == {"no link", "platform", "own", "built", "error", "no widget", "booking", "posts", "comment"}
Facts == FactKinds \X Links

VARIABLES
  scene,     \* the chosen member of Scenes
  page,      \* the profile, as Instagram shows it
  visit,     \* each execution of the inspection, with the analysis after it
  snaps,     \* profile_snapshots: what each execution stored
  check,     \* Lead.website_check
  lead,      \* the other columns of the lead
  comment,   \* each comment's lead_sources row: None, or how long ago it was stored
  drafts,    \* the SEND_OUTREACH actions, each with its row in `messages`
  planned,   \* what plan_outreach() holds while a text is composed
  send,      \* what the sender holds while it executes an action
  thread,    \* the prospect's inbox: the drafts that arrived, in order
  replied,   \* the comments the platform has let us answer privately
  echoes,    \* messages of ours whose webhook echo is still to come
  observed   \* history: what inspections have shown, and how websites have answered

leadVars == <<page, visit, snaps, check>>
sendVars == <<send, thread, replied, echoes>>
vars == <<scene, leadVars, lead, comment, drafts, planned, sendVars, observed>>

-----------------------------------------------------------------------------
(* Analysis                                                                *)

\* The snapshots stored so far that tell something, by the order they were taken in.
LatestOf(S) == snaps[CHOOSE i \in S : \A j \in S : snaps[j].taken <= snaps[i].taken]
Stored == {i \in Visits : snaps[i] # None}

\* _merged_observation: a later snapshot hides only what it has a value for.
Merged ==
  LET linked == {i \in Stored : snaps[i].link # None}
      read == {i \in Stored : snaps[i].header}
  IN [link |-> IF linked = {} THEN None ELSE LatestOf(linked).link,
      books |-> read # {} /\ LatestOf(read).books,
      busy |-> LatestOf(Stored).busy,
      closed |-> LatestOf(Stored).closed]

\* The stored check is used again while it is recent and of the same link.
Reusable(obs) == check # None /\ check.url = obs.link

\* _opportunities; web is None when nothing was checked.
OpportunitiesOf(obs, web) ==
  LET own == obs.link \in OwnSites
      broken == own /\ web = "error"
      rebuild == own /\ (obs.link = "builder" \/ web \in {"built", "desktop"})
  IN (IF own THEN {} ELSE {"NEW_WEBSITE"})
     \union (IF broken THEN {"BROKEN_WEBSITE"} ELSE {})
     \union (IF rebuild THEN {"WEBSITE_REBUILD"} ELSE {})
     \union (IF obs.books /\ web # "bookable" THEN {"ONLINE_BOOKING"} ELSE {})
     \union (IF obs.busy /\ (~own \/ broken \/ rebuild) THEN {"VISUAL_SHOWCASE"} ELSE {})

Weight ==
  [o \in Opportunities |->
     CASE o = "NEW_WEBSITE" -> 30 [] o = "BROKEN_WEBSITE" -> 28 [] o = "WEBSITE_REBUILD" -> 18
       [] o = "ONLINE_BOOKING" -> 22 [] o = "VISUAL_SHOWCASE" -> 10]

Top(opps) == IF opps = {} THEN None ELSE CHOOSE o \in opps : \A x \in opps : Weight[x] <= Weight[o]

\* _score: niche, place, activity and size of the business make scene.fit.
Score(opps) ==
  IF opps = {} THEN scene.fit
  ELSE scene.fit + Min({30, Weight[Top(opps)] + (IF Cardinality(opps) > 1 THEN 5 ELSE 0)})

\* What a check of link says.
\* (mutant) No answer is an error.
CheckFactsUnknown(link, web) ==
  {<<k, link>> : k \in (IF web \in {"error", "unknown"} THEN {"error"} ELSE {})
                       \union (IF web = "built" THEN {"built"} ELSE {})
                       \union (IF web \in Loaded \ {"bookable"} THEN {"no widget"} ELSE {})}
CheckFacts(link, web) ==
  {<<k, link>> : k \in (IF web = "error" THEN {"error"} ELSE {})
                       \union (IF web = "built" THEN {"built"} ELSE {})
                       \union (IF web \in Loaded \ {"bookable"} THEN {"no widget"} ELSE {})}

\* What the profile itself says; the first is the fact sheet's website_status.
LinkFact(link) ==
  <<CASE link = None -> "no link" [] link = "platform" -> "platform"
      [] link = "builder" -> "built" [] OTHER -> "own", link>>
ProfileFacts(obs) ==
  (IF obs.books THEN {<<"booking", None>>} ELSE {}) \union (IF obs.busy THEN {<<"posts", None>>} ELSE {})

\* _facts: an error outdoes a builder, which outdoes the bare "has its own website".
FactsOf(obs, web) ==
  LET checked == IF obs.link \in OwnSites THEN CheckFacts(obs.link, web) ELSE {}
      status == {f \in checked : f[1] \in {"error", "built"}}
  IN ProfileFacts(obs) \union checked \union (IF status = {} THEN {LinkFact(obs.link)} ELSE {})

-----------------------------------------------------------------------------
(* The text                                                                *)

\* The facts that the sentence for an opportunity is made of (_observation).
SentenceFor(top) ==
  CASE top = "ONLINE_BOOKING" -> {"booking"} [] top = "BROKEN_WEBSITE" -> {"error"}
    [] top = "WEBSITE_REBUILD" -> {"built"} [] top = "VISUAL_SHOWCASE" -> {"posts"} [] OTHER -> {}

\* What a template claims: that sentence's fact, else where the bio link goes, else nothing.
TemplateClaims(p) ==
  LET backed == {f \in p.facts : f[1] \in SentenceFor(p.top)}
  IN {f \in p.facts : f[1] = "comment"}
     \union (IF backed # {} THEN backed ELSE {f \in p.facts : f[1] \in {"platform", "no link"}})

\* The texts the composer may return: the model's, when it cites facts of the sheet, or a template's.
Texts(p) == {TemplateClaims(p)} \union (IF scene.llm THEN {{f} : f \in p.facts} ELSE {})

-----------------------------------------------------------------------------
Waiting == [at |-> "waiting", got |-> None, obs |-> None, web |-> None]

LeadStatuses == {"ABSENT", "DISCOVERED", "ANALYZED", "QUALIFIED", "DISQUALIFIED", "OUTREACH_PENDING",
                 "CONTACTED", "HANDED_OFF", "UNREACHABLE"}
AwaitingPerson == {"PENDING_APPROVAL", "NEEDS_HUMAN"}
Open == AwaitingPerson \union {"APPROVED"}
Statuses == Open \union {"EXECUTING", "SUCCEEDED", "FAILED", "CANCELLED", "REJECTED", "EXPIRED", "BLOCKED"}
RowStates == {"none", "PENDING", "SENT", "FAILED"}
Live == {"PENDING", "SENT"}
NotSent == {"ALREADY_CONTACTED", "OWNERSHIP_CONFLICT", "TARGET_NOT_FOUND", "NOT_PERMITTED",
            "PERMANENT_FAILURE", "CAPABILITY_UNAVAILABLE"}
Results == NotSent \union {"SUCCESS", "RETRYABLE_FAILURE", "RATE_LIMITED", "BARRIER"}
PrivateReplyFallback == {"NOT_PERMITTED", "CAPABILITY_UNAVAILABLE", "TARGET_NOT_FOUND", "PERMANENT_FAILURE"}
Ages == 0..2   \* of a comment: a private reply may be planned, may be sent, may not be sent

VisitRecords == [at : {"waiting", "read", "stored", "checked", "done"}, got : Snapshots \union {None},
                 obs : Seen \union {None}, web : Answers \union {None}]
LeadRecords == [status : LeadStatuses, facts : SUBSET Facts, opps : SUBSET Opportunities, score : Nat,
                igsid : BOOLEAN]
DraftRecords == [comment : Comments \union {None}, claims : SUBSET Facts, attempts : 0..MaxAttempts,
                 row : RowStates, mishaps : Nat, status : Statuses]
Plans == [facts : SUBSET Facts, top : Opportunities \union {None}, comment : Comments \union {None}]
Sends == [draft : 1..MaxDrafts, leased : BOOLEAN, looks : BOOLEAN, igsid : BOOLEAN,
          saw : SUBSET (1..MaxDrafts), result : Results \union {None}]

\* The ranges of the columns, and of what the processes keep in memory.
TypeOK ==
  /\ scene \in Scenes /\ page \in Seen
  /\ visit \in [Visits -> VisitRecords] /\ snaps \in [Visits -> Snapshots \union {None}]
  /\ check \in [url : OwnSites, web : Answers] \union {None}
  /\ lead \in LeadRecords /\ comment \in [Comments -> Ages \union {None}]
  /\ drafts \in Seq(DraftRecords) /\ Len(drafts) <= MaxDrafts
  /\ planned \in Plans \union {None} /\ send \in Sends \union {None}
  /\ thread \in Seq(1..MaxDrafts) /\ replied \subseteq Comments /\ echoes \subseteq DOMAIN drafts
  /\ observed \subseteq (FactKinds \union Answers) \X Links

\* A lead that discovery has found, or nobody yet where a comment may bring one.
Init ==
  /\ scene \in Scenes
  /\ page = scene.page
  /\ visit = [i \in Visits |-> Waiting] /\ snaps = [i \in Visits |-> None] /\ check = None
  /\ lead = [status |-> IF scene.commenter THEN "ABSENT" ELSE "DISCOVERED", facts |-> {}, opps |-> {},
              score |-> 0, igsid |-> FALSE]
  /\ comment = [c \in Comments |-> None]
  /\ drafts = <<>> /\ planned = None /\ send = None
  /\ thread = <<>> /\ replied = {} /\ echoes = {} /\ observed = {}

-----------------------------------------------------------------------------
(* The profile and the inspections                                         *)

\* The business edits its profile, once in a behaviour.
PageChanges ==
  /\ page # scene.later
  /\ page' = scene.later
  /\ UNCHANGED <<scene, visit, snaps, check, lead, comment, drafts, planned, sendVars, observed>>

SnapshotFacts(s) ==
  (IF s.header THEN {LinkFact(s.link)} ELSE {}) \union ProfileFacts(s)

\* _inspect: the header with links and bio may be missing from the page, its numbers and posts not.
\* The second execution begins when the lease of the first is over.
Inspect(i) ==
  /\ visit[i].at = "waiting" /\ lead.status # "ABSENT"
  /\ i = 2 => scene.twice /\ visit[1].at = "read"
  /\ \E header \in {TRUE} \union (IF scene.partial THEN {FALSE} ELSE {}) :
       LET got == [header |-> header, link |-> IF header THEN page.link ELSE None,
                   books |-> header /\ page.books, busy |-> page.busy, closed |-> page.closed,
                   taken |-> 1 + Cardinality({j \in Visits : visit[j].got # None})]
       IN /\ visit' = [visit EXCEPT ![i].at = "read", ![i].got = got]
          /\ observed' = observed \union SnapshotFacts(got)
  /\ UNCHANGED <<scene, page, snaps, check, lead, comment, drafts, planned, sendVars>>

\* handle_inspection_result
StoreSnapshot(i) ==
  /\ visit[i].at = "read"
  /\ visit' = [visit EXCEPT ![i].at = "stored"]
  /\ snaps' = [snaps EXCEPT ![i] = visit[i].got]
  /\ UNCHANGED <<scene, page, check, lead, comment, drafts, planned, sendVars, observed>>

\* The profile was not found, or the last attempt failed.
InspectionFails(i) ==
  /\ scene.unreadable
  /\ visit[i].at = "read"
  /\ visit' = [visit EXCEPT ![i].at = "done"]
  /\ lead' = [lead EXCEPT !.status = "UNREACHABLE"]
  /\ UNCHANGED <<scene, page, snaps, check, comment, drafts, planned, sendVars, observed>>

\* analyze_lead until the website has answered: what is stored is read once, before.
CheckWebsite(i) ==
  LET obs == Merged IN
  /\ visit[i].at = "stored"
  /\ \E web \in (IF obs.link \notin OwnSites \/ ~scene.checks THEN {None}
                  ELSE IF Reusable(obs) THEN {check.web} ELSE scene.answers) :
       /\ visit' = [visit EXCEPT ![i].at = "checked", ![i].obs = obs, ![i].web = web]
       /\ observed' = observed \union (IF web = None \/ Reusable(obs) THEN {} ELSE {<<web, obs.link>>})
  /\ UNCHANGED <<scene, page, snaps, check, lead, comment, drafts, planned, sendVars>>

Judged(obs, opps, score) ==
  IF obs.closed THEN "DISQUALIFIED" ELSE IF opps # {} /\ score >= MinScore THEN "QUALIFIED" ELSE "ANALYZED"

\* The second transaction of analyze_lead; a lead in outreach keeps its status.
Judge(i) ==
  LET obs == visit[i].obs
      web == visit[i].web
      opps == OpportunitiesOf(obs, web)
      score == Score(opps)
  IN
  /\ visit[i].at = "checked"
  /\ visit' = [visit EXCEPT ![i].at = "done"]
  /\ check' = IF web = None THEN None ELSE [url |-> obs.link, web |-> web]
  /\ lead' = [lead EXCEPT
       !.facts = FactsOf(obs, web), !.opps = opps, !.score = score,
       !.status = IF @ \in {"DISCOVERED", "ANALYZED", "QUALIFIED", "DISQUALIFIED"}
                  THEN Judged(obs, opps, score) ELSE @]
  /\ UNCHANGED <<scene, page, snaps, comment, drafts, planned, sendVars, observed>>

-----------------------------------------------------------------------------
(* Comments on our own posts                                               *)

\* _on_comment: the commenter becomes a lead like any other; a redelivery stores nothing new.
CommentArrives(c) ==
  /\ scene.commenter
  /\ comment[c] = None /\ \A e \in Comments : e < c => comment[e] # None
  /\ comment' = [comment EXCEPT ![c] = 0]
  /\ lead' = [lead EXCEPT !.status = IF @ = "ABSENT" THEN "DISCOVERED" ELSE @, !.igsid = @ \/ scene.igsid]
  /\ observed' = observed \union {<<"comment", None>>}
  /\ UNCHANGED <<scene, leadVars, drafts, planned, sendVars>>

CommentAges(c) ==
  /\ comment[c] \in {0, 1} /\ \A e \in Comments : e < c => comment[e] > comment[c]
  /\ comment' = [comment EXCEPT ![c] = @ + 1]
  /\ UNCHANGED <<scene, leadVars, lead, drafts, planned, sendVars, observed>>

-----------------------------------------------------------------------------
(* Planning (plan_outreach, _queue_outbound)                               *)

Recent == {c \in Comments : comment[c] = 0}
Private(d) == drafts[d].comment # None

\* Drafts that never ran do not use up the private reply.
\* (mutant) Only one that got through does.
TriedWell == \E d \in DOMAIN drafts : Private(d) /\ drafts[d].status = "SUCCEEDED"
Tried == \E d \in DOMAIN drafts : Private(d) /\ drafts[d].attempts > 0

PlanFirstMessage ==
  /\ lead.status = "QUALIFIED" /\ planned = None /\ Len(drafts) < MaxDrafts
  /\ planned' = [facts |-> lead.facts \union (IF Recent = {} THEN {} ELSE {<<"comment", None>>}),
                 top |-> Top(lead.opps),
                 comment |-> IF Recent # {} /\ scene.api /\ ~Tried THEN Max(Recent) ELSE None]
  /\ UNCHANGED <<scene, leadVars, lead, comment, drafts, sendVars, observed>>

\* Nothing passes the validator: the write does not look at the lead's status again.
CompositionFails ==
  /\ scene.alike
  /\ planned # None
  /\ planned' = None
  /\ lead' = [lead EXCEPT !.status = "ANALYZED"]
  /\ UNCHANGED <<scene, leadVars, comment, drafts, sendVars, observed>>

\* The gate's permanent denials of draft d; _has_outbound_history leaves out its own row.
\* (mutant) Messages known to have arrived only.
HistorySent(d) == \E e \in DOMAIN drafts \ {d} : drafts[e].row = "SENT"
History(d) == \E e \in DOMAIN drafts \ {d} : drafts[e].row \in Live
ContactedBefore(d) == lead.status = "CONTACTED" \/ History(d)
Denied(d) == ContactedBefore(d) \/ lead.status \notin {"QUALIFIED", "OUTREACH_PENDING"} \/ lead.score < MinScore

\* _lead_after_block
StatusAfterBlock(d) ==
  IF lead.status = "HANDED_OFF" THEN "HANDED_OFF" ELSE IF ContactedBefore(d) THEN "CONTACTED" ELSE "DISQUALIFIED"

QueueFirstMessage ==
  LET d == Len(drafts) + 1 IN
  /\ planned # None
  /\ \E claims \in Texts(planned) :
       drafts' = Append(drafts, [comment |-> planned.comment, claims |-> claims, attempts |-> 0,
                                 row |-> "none", mishaps |-> 0,
                                 status |-> IF Denied(d) THEN "BLOCKED"
                                            ELSE IF scene.autonomous THEN "APPROVED" ELSE "PENDING_APPROVAL"])
  /\ planned' = None
  /\ lead' = [lead EXCEPT !.status = IF Denied(d) THEN StatusAfterBlock(d) ELSE "OUTREACH_PENDING"]
  /\ UNCHANGED <<scene, leadVars, comment, sendVars, observed>>

-----------------------------------------------------------------------------
(* The operator                                                            *)

WithStatus(d, s) == [drafts EXCEPT ![d].status = s]
RoomForMore == Len(drafts) + 1 < MaxDrafts

\* What take_over_by_human does to the actions.
Cancelled(ds) == [d \in DOMAIN ds |-> IF ds[d].status \in Open THEN [ds[d] EXCEPT !.status = "CANCELLED"] ELSE ds[d]]

Approve(d) ==
  /\ drafts[d].status = "PENDING_APPROVAL"
  /\ drafts' = WithStatus(d, "APPROVED")
  /\ UNCHANGED <<scene, leadVars, lead, comment, planned, sendVars, observed>>

Reject(d) ==
  /\ scene.operator
  /\ drafts[d].status \in {"PENDING_APPROVAL", "APPROVED"}
  /\ drafts' = WithStatus(d, "REJECTED")
  /\ lead' = [lead EXCEPT !.status = "DISQUALIFIED"]
  /\ UNCHANGED <<scene, leadVars, comment, planned, sendVars, observed>>

RejectAndRedraft(d) ==
  /\ scene.operator /\ RoomForMore
  /\ drafts[d].status \in {"PENDING_APPROVAL", "APPROVED"}
  /\ drafts' = WithStatus(d, "REJECTED")
  /\ lead' = [lead EXCEPT !.status = "QUALIFIED"]
  /\ UNCHANGED <<scene, leadVars, comment, planned, sendVars, observed>>

\* expire_stale_approvals and the tick's update of the lead.
Expire(d) ==
  /\ scene.operator /\ RoomForMore
  /\ drafts[d].status = "PENDING_APPROVAL"
  /\ drafts' = WithStatus(d, "EXPIRED")
  /\ lead' = [lead EXCEPT !.status = IF @ = "OUTREACH_PENDING" THEN "QUALIFIED" ELSE @]
  /\ UNCHANGED <<scene, leadVars, comment, planned, sendVars, observed>>

\* The lane is resumed, and with it what was parked there.
ResumeLane(d) ==
  /\ drafts[d].status = "NEEDS_HUMAN"
  /\ drafts' = WithStatus(d, "APPROVED")
  /\ UNCHANGED <<scene, leadVars, lead, comment, planned, sendVars, observed>>

\* The operator claims the conversation; it exists since the first draft.
TakeOver ==
  /\ scene.operator /\ drafts # <<>> /\ lead.status # "HANDED_OFF"
  /\ drafts' = Cancelled(drafts)
  /\ lead' = [lead EXCEPT !.status = "HANDED_OFF"]
  /\ UNCHANGED <<scene, leadVars, comment, planned, sendVars, observed>>

-----------------------------------------------------------------------------
(* Execution                                                               *)

\* _prepare: an earlier attempt, or a row it left, makes the adapter look before it sends.
Prepare(d) ==
  /\ send = None /\ drafts[d].status = "APPROVED"
  /\ IF Denied(d)
     THEN /\ drafts' = WithStatus(d, "CANCELLED")
          /\ lead' = [lead EXCEPT !.status = IF @ = "OUTREACH_PENDING" THEN StatusAfterBlock(d) ELSE @]
          /\ UNCHANGED send
     ELSE /\ drafts' = WithStatus(d, "EXECUTING")
          /\ send' = [draft |-> d, leased |-> FALSE, looks |-> drafts[d].attempts > 0 \/ drafts[d].row # "none",
                      igsid |-> lead.igsid, saw |-> {}, result |-> None]
          /\ UNCHANGED lead
  /\ UNCHANGED <<scene, leadVars, comment, planned, thread, replied, echoes, observed>>

Reports(r) == send' = [send EXCEPT !.result = r]
Sending == send # None /\ send.result = None
\* bound: scene.faults crashes, lost answers and failures of each draft.
Hiccups(d) == drafts[d].mishaps < scene.faults

\* private_reply_open: with a margin before the platform's seven days.
WindowOpen(d) == Private(d) => comment[drafts[d].comment] < 2

\* No lane serves it (no_channel), or the conversation's lease is refused.
TurnedAway ==
  LET d == send.draft IN
  /\ Sending /\ ~send.leased
  /\ \/ (~WindowOpen(d) \/ Hiccups(d)) /\ Reports("CAPABILITY_UNAVAILABLE")
     \/ WindowOpen(d) /\ lead.status = "HANDED_OFF" /\ Reports("OWNERSHIP_CONFLICT")
  /\ UNCHANGED <<scene, leadVars, lead, comment, drafts, planned, thread, replied, echoes, observed>>

\* on_channel: the intent is written down before anything is sent.
LeaseConversation ==
  LET d == send.draft IN
  /\ Sending /\ ~send.leased
  /\ WindowOpen(d) /\ lead.status # "HANDED_OFF"
  /\ send' = [send EXCEPT !.leased = TRUE]
  /\ drafts' = [drafts EXCEPT ![d].row = "PENDING"]
  /\ UNCHANGED <<scene, leadVars, lead, comment, planned, thread, replied, echoes, observed>>

\* The message arrives; the answer that says so may be lost.
Delivered(d) ==
  /\ thread' = Append(thread, d)
  /\ echoes' = echoes \union {d}
  /\ \E r \in {"SUCCESS"} \union (IF Hiccups(d) THEN {"RETRYABLE_FAILURE"} ELSE {}) : Reports(r)

NotDelivered(refusals) ==
  /\ \E r \in refusals \union (IF Hiccups(send.draft) THEN {"RETRYABLE_FAILURE", "RATE_LIMITED", "BARRIER"} ELSE {}) :
       Reports(r)
  /\ UNCHANGED <<thread, echoes>>

InThread(d) == \E k \in DOMAIN thread : thread[k] = d

\* _private_reply.  The thread can be read only when the prospect's id is known; the platform
\* lets one private reply to a comment through.
ReplyPrivately ==
  LET d == send.draft
      c == drafts[d].comment
  IN
  /\ Sending /\ send.leased /\ Private(d)
  /\ IF send.looks /\ send.igsid /\ InThread(d)
     THEN Reports("SUCCESS") /\ UNCHANGED <<thread, replied, echoes>>
     ELSE IF lead.status = "HANDED_OFF"
     THEN Reports("OWNERSHIP_CONFLICT") /\ UNCHANGED <<thread, replied, echoes>>
     ELSE \/ c \notin replied /\ Delivered(d) /\ replied' = replied \union {c}
          \/ /\ NotDelivered({"NOT_PERMITTED"} \union (IF scene.refused THEN PrivateReplyFallback ELSE {}))
             /\ scene.refused \/ c \in replied
             /\ UNCHANGED replied
  /\ UNCHANGED <<scene, leadVars, lead, comment, drafts, planned, observed>>

\* The browser's _send: what is in the thread already decides.
Message ==
  LET d == send.draft IN
  /\ Sending /\ send.leased /\ ~Private(d)
  /\ IF InThread(d)
     THEN Reports("SUCCESS") /\ UNCHANGED <<thread, echoes>>
     ELSE IF thread # <<>>
     THEN /\ send' = [send EXCEPT !.result = "ALREADY_CONTACTED", !.saw = {thread[k] : k \in DOMAIN thread}]
          /\ UNCHANGED <<thread, echoes>>
     ELSE IF lead.status = "HANDED_OFF"
     THEN Reports("OWNERSHIP_CONFLICT") /\ UNCHANGED <<thread, echoes>>
     ELSE Delivered(d) \/ (Hiccups(d) /\ NotDelivered({"NOT_PERMITTED", "TARGET_NOT_FOUND"}))
  /\ UNCHANGED <<scene, leadVars, lead, comment, drafts, planned, replied, observed>>

\* _next_state
NextStatus(d, r, tries) ==
  CASE r = "SUCCESS" -> "SUCCEEDED"
    [] r = "BARRIER" -> "NEEDS_HUMAN"
    [] r = "RATE_LIMITED" -> "APPROVED"
    [] r = "CAPABILITY_UNAVAILABLE" /\ Private(d) -> "FAILED"
    [] r = "RETRYABLE_FAILURE" \/ (r = "CAPABILITY_UNAVAILABLE" /\ ~Private(d)) ->
         IF tries < MaxAttempts THEN "APPROVED" ELSE "FAILED"
    [] r \in {"ALREADY_CONTACTED", "OWNERSHIP_CONFLICT"} -> "CANCELLED"
    [] OTHER -> "FAILED"

\* _record_send, for the lead; was: its status once the thread that was read is reconciled.
LeadAfter(d, r, final, was) ==
  CASE r = "SUCCESS" -> "CONTACTED"
    [] r # "SUCCESS" /\ ~final -> was
    [] final /\ Private(d) /\ r \in PrivateReplyFallback ->
         IF was = "OUTREACH_PENDING" THEN "QUALIFIED" ELSE was
    [] final /\ ~Private(d) /\ r \in {"TARGET_NOT_FOUND", "NOT_PERMITTED"} -> "UNREACHABLE"
    [] final /\ r = "ALREADY_CONTACTED" -> IF was = "HANDED_OFF" THEN was ELSE "CONTACTED"
    [] final /\ r = "OWNERSHIP_CONFLICT" -> "HANDED_OFF"
    [] OTHER -> "ANALYZED"

\* A message in our name that no row accounts for is taken for Rohit's.
Strangers(S) == {e \in S : drafts[e].row \notin Live}

Record ==
  LET d == send.draft
      r == send.result
      tries == IF r = "RATE_LIMITED" THEN drafts[d].attempts ELSE Min({MaxAttempts, drafts[d].attempts + 1})
      next == NextStatus(d, r, tries)
      row == IF drafts[d].row = "none" THEN "none"
             ELSE CASE r = "SUCCESS" -> "SENT" [] r \in NotSent -> "FAILED" [] OTHER -> drafts[d].row
      again == r \in {"RETRYABLE_FAILURE", "RATE_LIMITED", "BARRIER", "CAPABILITY_UNAVAILABLE"}
      mishaps == IF again THEN Min({scene.faults, drafts[d].mishaps + 1}) ELSE drafts[d].mishaps
      recorded == [drafts EXCEPT ![d].attempts = tries, ![d].status = next, ![d].row = row,
                                 ![d].mishaps = mishaps]
      human == Strangers(send.saw) # {}
      was == IF human THEN "HANDED_OFF" ELSE lead.status
  IN
  /\ send # None /\ send.result # None
  /\ drafts' = IF human THEN Cancelled(recorded) ELSE recorded
  /\ lead' = [lead EXCEPT !.status = LeadAfter(d, r, next \notin Open, was),
                          !.igsid = @ \/ (r = "SUCCESS" /\ Private(d))]
  /\ send' = None
  /\ UNCHANGED <<scene, leadVars, comment, planned, thread, replied, echoes, observed>>

\* The program stops while it executes; the action's lease is over before it is started again.
\* (Leads has the program stopping during an inspection.)
Crash ==
  /\ send # None /\ Hiccups(send.draft)
  /\ \A i \in Visits : visit[i].at \in {"waiting", "done"}
  /\ send' = None /\ planned' = None
  /\ drafts' = [drafts EXCEPT ![send.draft].status = "APPROVED", ![send.draft].mishaps = @ + 1]
  /\ UNCHANGED <<scene, leadVars, lead, comment, thread, replied, echoes, observed>>

\* A webhook tells of a message from our account, and whom it went to.
Echo(d) ==
  /\ d \in echoes
  /\ echoes' = echoes \ {d}
  /\ IF drafts[d].row \in Live
     THEN /\ drafts' = [drafts EXCEPT ![d].row = "SENT"]
          /\ lead' = [lead EXCEPT !.igsid = TRUE]
     ELSE /\ drafts' = Cancelled(drafts)
          /\ lead' = [lead EXCEPT !.igsid = TRUE, !.status = "HANDED_OFF"]
  /\ UNCHANGED <<scene, leadVars, comment, planned, send, thread, replied, observed>>

-----------------------------------------------------------------------------
Plan == PlanFirstMessage \/ QueueFirstMessage
Execute == TurnedAway \/ LeaseConversation \/ ReplyPrivately \/ Message \/ Record

Next ==
  \/ PageChanges
  \/ \E i \in Visits : Inspect(i) \/ StoreSnapshot(i) \/ InspectionFails(i) \/ CheckWebsite(i) \/ Judge(i)
  \/ \E c \in Comments : CommentArrives(c) \/ CommentAges(c)
  \/ Plan \/ CompositionFails \/ TakeOver
  \/ \E d \in DOMAIN drafts :
       \/ Approve(d) \/ Reject(d) \/ RejectAndRedraft(d) \/ Expire(d) \/ ResumeLane(d)
       \/ Prepare(d) \/ Echo(d)
  \/ Execute \/ Crash

Spec == Init /\ [][Next]_vars

\* The orchestrator goes on: it plans, takes up what is approved and finishes it.
FairSpec ==
  /\ Spec
  /\ WF_vars(Plan)
  /\ WF_vars(\E d \in DOMAIN drafts : Prepare(d))
  /\ WF_vars(Execute)

-----------------------------------------------------------------------------
(* Properties                                                              *)

\* Whatever is claimed in a first message was seen: on the profile by one of the inspections,
\* or as the answer of the very link it is claimed of; a site that did not answer is never
\* called broken ("no link" is left out: see the README).  Analyses overlap, the profile
\* changes, checks are used again and drafts are made from what is stored.
Backed(f) ==
  \/ f \in observed
  \/ f[1] = "no widget" /\ \E web \in Loaded \ {"bookable"} : <<web, f[2]>> \in observed

ClaimsObserved ==
  \A d \in DOMAIN drafts : \A f \in drafts[d].claims : f[1] # "no link" => Backed(f)

\* No prospect gets two first messages: neither a private reply and an ordinary one, nor a reply
\* to each of two comments, when answers are lost, the program stops, windows close, drafts
\* expire or are asked for anew.  (But for one case: the row of a message that arrived is written
\* off as FAILED when the execution that follows a crash is turned away; see the README.)
WrittenOff(d) == drafts[d].row = "FAILED"

ReachedOnce == \A k \in DOMAIN thread : k < Len(thread) => WrittenOff(thread[k])

\* A business that qualifies does not stay in the queue of drafts: it is contacted or given up,
\* or its draft waits for a person; a refused private reply is not planned again for ever.
ContactSettles ==
  lead.status = "QUALIFIED"
    ~> \/ lead.status \notin {"QUALIFIED", "OUTREACH_PENDING"}
       \/ \E d \in DOMAIN drafts : drafts[d].status \in AwaitingPerson
=============================================================================
