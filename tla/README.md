# A TLA+ model of insta-outreach

`insta-outreach` finds businesses on Instagram, writes each of them a first
message, follows up, reads the answers and hands warm leads to a human (Rohit).
It acts through a browser and through Instagram's Graph API, keeps everything in
one SQL database, and may be stopped, restarted or taken over at any moment. What
can go wrong is therefore mostly not in one function but between them: a message
sent twice after a crash, a follow-up to somebody who has answered, a message
typed into a thread the human has taken over, an opt-out that is not heard.

This directory holds TLA+ modules that model that behaviour, TLC configurations
that check it on small instances, and TLAPS proofs of the central properties for
every instance. Paths below are relative to `src/src/insta_outreach/`; "README"
and `docs/` in quotations are the program's own.

    tlc -workers 2 -config Reply.cfg MCSendPath
    tlc -workers 2 -config LaneLogin.cfg MCLanes
    tlc -workers 2 -config UsageCaps.cfg MCUsageCaps
    tlc -workers 2 -config Inbound.cfg MCInbound
    tlc -workers 2 -config Leads.cfg MCLeads
    tlc -workers 2 -config GoLive.cfg MCGoLive
    tlc -workers 2 -config FirstContact.cfg MCFirstContact
    tlapm SendPathProofs.tla      (and OutreachProofs, LanesProofs, UsageCapsProofs, LeadsProofs,
                                   GoLiveProofs, FirstContactProofs, InboundProofs)

## 1. Inventory

### The parts and what each keeps

| Part | State | Operations | Module |
|---|---|---|---|
| Orchestrator loop (`orchestrator/service.py`) | none; reads mode, pause and limits once per tick | `tick`: maintenance, events, planning, replies, execution | all |
| Pipeline (`orchestrator/pipeline.py`) | `leads` rows, `discovery_runs`, `lead_sources` | discovery, inspection, analysis, outreach, follow-ups, events, replies, inbox sync | `Leads`, `FirstContact`, `SendPath`, `Inbound` |
| Action queue (`orchestrator/actions.py`) | `actions` rows: status, approver, attempts, text, lease, `not_before` | `create` (idempotency key), `claim`, `recover_stale`, `expire_stale_approvals` | `SendPath`, `UsageCaps`, `Leads` |
| Eligibility gate (`policy/gate.py`) | none; a function of everything stored | `preview` when proposing, `check` when executing: allow, defer or deny | `SendPath`, `UsageCaps`, `Leads` |
| Send worker (`orchestrator/worker.py`) | one execution in memory | `_prepare`, `_execute`, `_record` | `SendPath`, `UsageCaps`, `FirstContact` |
| Conversation ownership (`conversations/ownership.py`) | `conversations` row: owner, pause, lease token and expiry; `messages` rows | acquire, transfer, release, `take_over_by_human`, intent rows, echo matching, reconciliation | `Conversation`, `SendPath`, `Inbound` |
| Executor (`execution/executor.py`) | pacing, one semaphore per lane | channel choice, lane check, API-to-browser fallback | `SendPath`, `Lanes` |
| Browser and API adapters (`execution/browser`, `execution/api`) | a page, an HTTP client | read the thread, verify an earlier attempt, ask the guard, send, confirm; profiles, inbox | `SendPath`, `FirstContact`, `Inbound` |
| Lanes (`policy/lanes.py`) | per account and channel: ACTIVE, COOLDOWN, HALTED, counters | `record_result`, halt, resume (which re-queues parked actions) | `Lanes` |
| Login jobs (`orchestrator/accounts.py`) | jobs in memory | halt the lane, log in, resume, check | `Lanes` |
| Incidents and notices (`policy/incidents.py`) | open incidents; notices queued until `flush()` | open, resolve, alert | `Lanes`, `Inbound` |
| Usage ledger (`policy/usage.py`) | one event per send and per page view | caps per hour, spacing, view budget | `UsageCaps` |
| Webhook inbox (`webhooks.py`) | stored deliveries, `processed_at` | `store` (deduplicates), `drain` | `Inbound` |
| Discovery (`discovery/strategies.py`) | the newest run of each query | plan, rotate, cool down, seed from leads | `Leads` |
| Duplicates (`intelligence/dedupe.py`) | `lead_identities` | register, find an earlier lead of the same business | `Leads` |
| Suppression (`policy/suppression.py`) | keys that may never be contacted | add, match | `Leads`, `Inbound`, `SendPath` |
| Analysis (`intelligence/signals.py`, `website.py`, `analyzer.py`) | snapshots, website check, facts | observe, check, judge | `FirstContact` |
| Composition (`personalization/composer.py`) | none | the text and the facts it claims | `FirstContact` |
| Settings (`config.py`, `editable_settings.py`, `runtime.py`) | settings file, overlay file, environment variables; mode, pause and limit overrides in the database | load, apply, restart; set mode, set and clear limits | `GoLive`, `UsageCaps` |
| Readiness and test mode (`orchestrator/readiness.py`, `setup.py`) | none | go-live checks, test-mode preset | `GoLive` |
| Operator console (`orchestrator/control.py`, `api/server.py`, `cli.py`) | none | approve, reject, redraft, mode, pause, claim, release, suppress, halt, resume, add a lead; `run` and `tick` with their startup guard, `serve` without | `SendPath`, `Lanes`, `GoLive`, `FirstContact` |
| Reporting, verification, page recognition, simulator, voice agent | views, scripts, heuristics | no part in the protocol (section 8) | - |

### How they interact

Everything shared is in the database; a `with db.session()` block is one
transaction. A tick runs maintenance, the webhook events, planning and the
worker one after the other in one coroutine, but each `await` (composing a text,
an HTTP call, a browser step that may take minutes) lets the web console and other
ticks (`POST /api/tick` starts one beside the loop) change any row.
`insta-outreach tick` or `run` started beside the server is a second process on the
same database. `insta-outreach serve` is the page and the webhooks without the loop: it ticks when the page asks. The adapters act on Instagram, which answers with what is in the
thread, with echoes of everything the account sends (by us or by Rohit in the app)
and with the prospect's messages, late, twice or never. The settings page's handlers
run in threads; commands in a terminal load the settings for themselves.

### What is hard, and what makes each part correct

The hazards, each at the line where it bites, are listed in `PROJECT.json`. By part:

* **Worker, adapters, queue** (crash between send and record; unconfirmed sends;
  fallback; an execution that outlives its lease; two processes): one executor per
  action, at most one copy of a text, a verdict that is true and final, one ledger
  entry per delivered message, every execution ends.
* **Ownership** (takeover while a send is under way, a lease that lapses): after a
  takeover only a send past its guard can still arrive.
* **Pipeline and gate** (state read before an await, statuses written by ten
  handlers): one first message, follow-ups in order and never after a recorded answer,
  no lead left waiting for nothing, silence after suppression.
* **Lanes, login jobs**: parked actions leave with the lane that parked them, a login
  window is alone on its lane, barriers are alerted.
* **Usage, pause** (sends counted when recorded, limits read once per tick): what is
  sent exceeds a cap only by what no count could show; a pause stops all but what is
  left of the tick.
* **Webhooks, replies** (redelivery, three sources for one message, a crash after
  the commit): each message stored and answered once, opt-outs heard, warm leads told.
* **Discovery, duplicates, suppression** (double analysis, branches found in any order):
  the daily cap, one claim per business, an opt-out that covers all its handles, every
  lead judged, every query run again.
* **Analysis and text** (snapshots that overlap, a stored website check, drafts made
  from both): a message claims only what was seen.
* **Settings, mode** (read-modify-write of files and rows, three sources): the saved
  file starts, what is set runs, AUTONOMOUS on the live account only after the checks, or as `serve` finds it.

## 2. Plan

| # | Module | Abstract specification or reference | Status |
|---|---|---|---|
| 1 | `Conversation`, `SendPath` (composes it with queue, gate, worker, adapters, pipeline, operator, webhooks) | `DeliveryContract` | done |
| 2 | `SendPathProofs`; `OutreachProofs` (ledger, `DeliveryContract`, first messages, follow-ups, stranded leads), which extends it | `DeliveryContract` | done, all of its safety properties proved |
| 3 | `Lanes` (lane service, executor's lane look and semaphores, login jobs, incidents), `LanesProofs` | - | done, all of its safety properties proved |
| 4 | `UsageCaps` (ledger, sends in flight, caps, spacing, page views, pause, leases that run out, two processes), `UsageCapsProofs` | what was delivered, against what each check could count | done, all of its properties proved |
| 5 | `Inbound` (webhook store and drain, processing, inbox and thread reads with the multiset difference, replies, hand-off, crashes), `InboundProofs` | the thread on Instagram | done, all of its safety properties proved |
| 6 | `Leads` (discovery, inspection, duplicates, suppression keys), `LeadsProofs` | - | done, all of its safety properties proved |
| 7 | `FirstContact` (website check, analysis, claims of a text, comments and private replies), `FirstContactProofs` | what was observed | done, all of its safety properties proved |
| 8 | `GoLive` (settings, mode, readiness, startup guard, test mode), `GoLiveProofs` | - | done, all of its properties proved |

Bounds throughout: one lead or one business with two handles, one or two processes, one or
two actions of a kind, two attempts. Modules meant for proofs use no RECURSIVE operator and
take all parameters as CONSTANTS with a named assumption. The modules are not composed
into one: each leaves to another what that one has in detail (the header of every module says
what), and replaces it by one step or a choice that allows at least as much, but where
section 3 says otherwise.

## 3. The modules

**`Conversation`** is one `conversations` row and each operation of
`OwnershipService` on it, one definition per method. A lease token is identified
with the action whose execution it was handed to: tokens are fresh, live in one
execution's memory only, and an action has one execution at a time
(`ExecutionsAreHeld`, proved). Two flags stand for the clock:
`live` (`lock_expires_at > now`) and `hold` (`pause_until`), which time may flip at
any moment.

**`SendPath`** is the life of the outbound messages of one lead.

| Variables | Code |
|---|---|
| `status`, `approver`, `attempts`, `text` | `actions` rows |
| `row`, `rowText`, `rowMid`, `rowFresh` | our row in `messages` for each action: delivery state, text, platform id, whether it was created inside the echo window |
| `seen`, `misread`, `inbound` | rows stored as HUMAN that are Rohit's, rows stored as HUMAN that are ours, the prospect's row |
| `counted` | `usage_events` per action |
| `lead`, `contacted`, `lastOutbound`, `followups`, `replied`, `followupsBlocked` | the `leads` row |
| `owner`, `paused`, `token`, `live`, `hold` | the `conversations` row |
| `suppressed`, `lane`, `mode`, `tickMode` | suppression list, `lanes`, runtime mode, the mode read at the start of the tick |
| `pc`, `job`, `chan`, `req`, `saw`, `res` | what each process has in memory |
| `sent`, `human`, `prospect` | what really is in the Instagram thread |
| `ourEchoes`, `humanEchoes`, `inboundHook` | webhook events not yet processed |
| `stragglers`, `claimedOpen` | history for two properties |

A process goes through these phases; each arrow is one transaction or one
awaited step, so that the other actors act between them:

    idle --Claim--> claimed --LeaseConversation--> leased --ReadThread, VerifyOverApi--> typed
         --CheckGuard--> armed --Send--> done --Release--> released --Record--> idle

`FailEarly`, `LeaseRefused`, `NoChannel` and the checks of `ReadThread` leave it
for `done`; a refused API attempt returns to `claimed` on the browser; `Crash`
leaves it from anywhere. `Record` is the whole of `worker._record`: attempts,
lane, verdict, reconciliation of the thread that was read (with the takeover and
the reply handling it triggers), message row, ledger, lead.
The other actions are the handlers of the pipeline (`Compose`, `Queue`,
`CompositionFails`, `HandleReply`, `HandOff`, `InboundEvent`, `EchoOfOurs`,
`EchoOfHuman`, `IgnoreEcho`), of maintenance (`StartTick`, `ExpireApproval`,
`ReleaseHold`), of the gate's verdicts when executing (`Deny`, `Demote`, `Claim`),
of the operator (`Approve`, `Reject`, `SetMode`, `ClaimConversation`,
`ReleaseConversation`, `Suppress`, `HaltLane`, `ResumeLane`), and the world's
(`HumanWrites`, `ProspectWrites`, `RowAges`, `LeaseTimeout`, `HoldTimeout`,
`CooldownEnds`). Successive drafts of the first message are actions of their own,
as in the code (`outreach:...:v1`, `v2`).

Abstractions, each an over-approximation unless noted: texts are "drafted" or
"edited", distinct between actions and from what Rohit writes (an exact copy typed
by hand is indistinguishable for the code too); the lanes' counters are replaced by
a choice; DEFER for caps, pacing and hours may delay an action arbitrarily, hence
is only an action not taken yet; the four barrier statuses are one. `attempts`
saturates at `MaxAttempts`. Under-approximations: a live execution ends within its 900 s lease (`UsageCaps`
lets it run out), and the 300 s conversation lease of a dead process is over before its action is
recovered (`StartTick`'s second guard); the API's reading of the thread is exact;
the prospect writes once; a throttled action comes back after the echo window (the
cooldown is 60 minutes at least by default, the window 15); no private replies
(`FirstContact` has them), no inbox syncs (`Inbound`), no global pause (`UsageCaps`).

**`DeliveryContract`** is what the system promises of each message: delivered at
most once, never after its final verdict, a verdict never revised, and "succeeded"
only if it is in the thread. `Contract` in `SendPath` is the instance under the
refinement mapping that reads the verdict from `status` and the copies from `sent`.

**`Lanes`** is one process and the channels of the brand account. `SendPath` sees a
lane only as open, cooling down or halted, by choice; here is what decides it, and
what the users of a lane do to each other. Its users (`Runners`) are the ticks of
the orchestrator, several at once because `POST /api/tick` starts one beside the
loop and nothing keeps them apart, and `Desk`, Mission Control's login check.

| Variables | Code |
|---|---|
| `state`, `until`, `reason`, `signals`, `drift` | the `lanes` row: `rate_limit_events`, `consecutive_ui_changed`; the reason by what wrote it |
| `incidents`, `alerts` | open `incidents` by lane and kind; severities handed to the notifier since the lane was last resumed |
| `task`, `taskLane` | `actions.status`, `actions.executed_channel` |
| `step`, `item`, `at`, `res`, `resLane` | a call of `executor.execute()`: where it is, its action, the index of the channel, `last` |
| `users` | who holds a permit of each lane's semaphore (`executor._semaphores`) |
| `job`, `jobLane`, `stoppedHere` | the login or check job of `accounts.py` |
| `now` | the clock |
| `stragglers`, `throttled` | history for two properties |

    idle --Claim--> routing --Admit--> queued --Enter--> running --Leave--> done --Record--> idle
                      |  ^                                  |
                 PassOver (next lane, or no channel)    fallback to the next lane

The login job goes `starting` (`StartLogin`), `waiting` (`StopForLogin` has halted the
lane if it was open), `window` (`OpenWindow` has the permit), then ends (`CloseWindow`,
`CancelLogin`: the lane it had halted is resumed) or goes on to the check, which
is `Desk` going through the same steps as an action. `RecordResult` is the whole of
`record_result()` with `_halt` and the incident it opens. The four barrier statuses are
`BARRIER` and `RESTRICTED` with one kind of incident. Texts, titles and evidence are
left out.

Abstractions, over-approximations unless noted: an action's remaining attempts
and `not_before` are left open (a failed action may be retried at any time or never);
the semaphore lets anybody in, not the first in line; the drift counter stops one
above its limit, beyond which every further drift halts anyway. Bounds: `MaxTime`
moments, `MaxSignals` rate limits per lane on record. Under-approximations: a live execution
ends within its 900 s lease; resuming a lane is the only way an incident is
resolved; a deployment is one process (a second one, on the same database, would
have semaphores of its own); the notifier delivers what it is handed.

**`UsageCaps`** is the limits: what the gate counts when a worker takes an action, and what was
really sent. Runners are ticks; those of one process share an event loop, so that check and claim, which
have no await between them, are one step for each other (`Alone`), while ticks of two processes
may both check before either claims.

| Variables | Code |
|---|---|
| `status`, `notBefore`, `lease` | `actions` rows |
| `intent`, `token` | a message row of the action exists; whose execution holds the conversation |
| `counted`, `views` | `usage_events` of sends (by the time they were recorded) and of page views |
| `cap`, `paused`; `capRead`, `pauseRead` | runtime limits and pause; what a tick read at its start |
| `pc`, `todo`, `left`, `job`, `budget`, `verify`, `res` | a tick in memory: candidates, results allowed, the execution |
| `copies`, `delivered`, `now`, `home` | the thread, the clock, the process of each runner |
| `snap`, `peers`, `slipped`, `grant`, `counting`, `alongside`, `missing`, `sincePause` | history: what each check counted, and what it could not know of |

    idle --StartTick--> ticking --Look--> looked --Claim--> running --Verify--> ready --Deliver--> done --Record--> ticking
                          PassOver                   Unit (page views)

`StartTick` recovers whatever is past its lease, also while its first execution is still running: two
executions of one action then go on side by side, and the conversation's token decides which may
send. Under-approximations: between the check of one process and its claim only other checks and
claims happen (`Settled`; the window is a few statements); guard and send are one step
(`SendPath` has them apart); maintenance and `run_once` are one step; FAILED stands for every other final
status. The daily caps, the send window and the jitter only delay, and are left out. `views` is the set of the
ledger's rows of page views, numbered within a moment. Bounds: `MaxTime` moments.

**`Inbound`** is how what is written in the thread reaches the `messages` table and what is done about it. A
message is its position in the thread, which is also its platform id and its time.

| Variables | Code |
|---|---|
| `thread`, `said` | Instagram: who wrote what |
| `hooks`, `retries` | `webhook_events` with `processed_at`; Meta's redeliveries |
| `rows` | `messages`; an inbound row carries its answer, a SEND_REPLY action (its key holds the row's id) |
| `known` | greatest of `last_inbound_at`, `last_outbound_at`, `last_synced_at` |
| `linked`, `paused`, `stage`, `suppressed`, `followUp`, `jobs` | igsid, pause, lead status, suppression, open follow-up, open reads |
| `pc`, `events`, `todo`, `job`, `saw`, `channel` | a tick in memory |
| `pending`, `told` | notices queued until `flush()`, notices that reached Rohit |

    idle --Drain--> events --ProcessEvent*--> planning --Plan--> replies --ActOnReply--> composing --HandOff, QueueAnswer--> ...
                                                            work --SendAnswer, Read--> reading --HandleInbox, Reconcile--> idle

Three sources bring the same message: its webhook (with an id, perhaps twice, perhaps in a batch with another),
a thread read through the API (with ids) and one through the browser (texts only, matched by counts). What a tick has drained, or has to answer, is a set that it takes
from in the order of the code (`NextEvent`, `Reply`). Left out: two leads, merging of rows, the sending of the answer (`SendPath`). Bound: `MaxRetries` redeliveries; a process dies once.

**`Leads`** is discovery, inspection, duplicates, the first draft and the opt-out, for several handles of which some
are one business. Two processes tick; `Table` is the `leads` table in the order of ids.

| Variables | Code |
|---|---|
| `id` (0: no row), `status`, `drafts`, `open`, `contacted` | `leads` rows and their SEND_OUTREACH actions |
| `inspect`, `tries` | the lead's INSPECT_PROFILE action |
| `registered` | `lead_identities` |
| `left` | `suppressions` |
| `hunts`, `ledger` | newest DISCOVER action and `discovery_runs` row of each query; today's DISCOVERY_RUN events |
| `pc`, `job`, `batch` | a tick in memory; `batch` is what `plan_outreach` read before it composed |
| `judgedBefore`, `lost`, `optedOut` | history: which of two leads was judged first, leads whose analysis died with its process, opt-outs |

The verdict of an analysis is a choice (`Verdict`); `FirstContact` has it in detail. What a profile shows
besides the website, phones and e-mails does not matter here. Bounds: `MaxCrashes`; at most one crash
in a run. `not_before` is left out: any approved action may be next.

**`FirstContact`** follows one business from the pages to the words: what two overlapping inspections saw of a
profile that changes, what the website answered, what is stored, merged and judged, what the text claims
of it, and by which way it goes (a private reply to a comment, or an ordinary message).

| Variables | Code |
|---|---|
| `page` | the profile as Instagram shows it |
| `visit` | executions of INSPECT_PROFILE with the analysis after it (`handle_inspection_result`, `analyze_lead`) |
| `snaps`, `check` | `profile_snapshots`, `leads.website_check` |
| `lead` | status, facts, opportunities, score, igsid |
| `comment` | `lead_sources` rows of comments, with their age |
| `drafts` | SEND_OUTREACH actions, each with its `messages` row and what its text claims |
| `planned`, `send` | what `plan_outreach` and the worker hold in memory |
| `thread`, `replied`, `echoes` | the prospect's inbox, the comments answered, webhook echoes |
| `observed` | history: what was ever shown |

A fact is a pair, what is so and of which link, so that a stored check of an old website is not taken for one
of the new. What a niche, a place or a size is worth is one number, `scene.fit`. The model's text may cite any
fact of the sheet; wording is left out. `FirstContactAssumption` says of `scene` no more than its ranges
(`SceneRecords`). The thread check, the guard and the send are one step, and campaign,
duplicates, suppression, edits of a draft, the lanes' own state and caps are other modules'. Bounds: `MaxDrafts` drafts, and
`scene.faults` mishaps per draft (crash, lost answer, failure): one, and two in the scene of an unknown recipient. "No link" claims
are left out of `ClaimsObserved`: a header that was not read stores an empty website, and the composer
calls that no website (section 6).

**`GoLive`** is how the program comes to send by itself on the real account.

| Variables | Code |
|---|---|
| `scene` | `settings.yaml`, environment variables, the token, what is asked in a behaviour |
| `overlay` | `settings.dashboard.yaml`, which `SettingsEditor.apply` reads, changes and replaces |
| `run` | the program: up, its settings object, how far its startup guard is, or that it has none |
| `job` | what each settings request, and a terminal command, is in the middle of |
| `rows` | `runtime_settings` of each database (`Database`): mode, limit overrides |
| `account` | what the go-live checks look at: the age of the browser session, open trouble, approved sends |
| `cleared`, `overlapped`, `preset` | history for the properties |

Each read and its write are two steps (`AskChange`/`Apply`, `AskLimit`/`WriteLimits`, `AskMode`/`WriteMode`), since
requests run in threads and commands in other processes. `overlapped` stays on once two of them have overlapped: from
then on one may have undone the other, which is the present behaviour (section 6).

The program comes up in two ways. `Start` is `insta-outreach run`: the guard looks at mode and checks
(`StartupGuard`, `StepDown`) before anything is served. `Serve` is `insta-outreach serve` (`cli.py:484-497`), the same
program without the loop and without the guard: its page takes the same requests, and `POST /api/tick` (`api/server.py:369`) works
in the mode it finds. What one leaves behind the other starts from. One of them is up at a time: a second page finds the port taken.
`serve` beside `run --no-api` is left out; there a setting saved on the page would reach the
other only at its next start. `insta-outreach tick` has the same
guard as `run` and is not an actor of its own. Each environment has its database, as is the default, or
`database_url` (`config.py:462`) names one for both (`scene.shared`): then a mode or a limit written in LOCAL is the
live account's, too. `cleared` is how the mode of the live account was last set or looked at: with the checks, without
because LOCAL was meant, not AUTONOMOUS at all, or not since `serve` found it. Unconfirmed requests change nothing and are left out; incidents and
halted lanes are one flag (`account.trouble`); the API lane is off.

**`MC*`** modules give the constants' values for TLC. Definitions marked "Mutant of", "(mutant)", "Mutation:" or "Slip:"
are never used by a specification: they are broken variants of the definition after them, kept
to show that each property notices.

## 4. The runs

Deadlock is checked except in `first_contact`, where a contact that has settled leaves nothing to do.
Times are for two TLC workers on an idle machine.

| Run | Instance | Distinct states | Shows |
|---|---|---|---|
| `first_message` | 1 process, 2 drafts, Rohit's message, APPROVAL, crash, claim, reject, expiry, suppression | 441k, 45 s | `OneFirstMessage`, `NoStrandedLead` |
| `modes` | 1 process, 1 first message, all four modes, edits, halt, expiry, ageing, prospect, crash | 1.2M, 75 s | `TypeOK`, `LedgerIsTrue` |
| `reply` | 2 interchangeable processes, 1 reply over API and browser, 2 attempts, Rohit, holds that lapse, the prospect, suppression, crash | 450k, 55 s | `OneCopyOfEachText`, `OnlyStragglersAfterTakeover`, `OnlyClaimedAfterSuppression`, `ImplementsContract` |
| `follow_ups` | 1 process, first message and 2 follow-ups, 1 attempt each, crash, prospect, fair | 391k, 115 s | `FollowUpsInOrder`, `NoFollowUpOnceReplied`, `ExecutionEnds` |
| `lane_login` | 2 interchangeable ticks, 2 actions on an API and a browser lane, barriers, login, check, operator | 960k, 70 s | `WindowIsAlone`, `OnlyStragglersOnHaltedLane`, `ParkedBehindHaltedLane`, `LoginLeavesNoHalt`, `BarrierIsAlerted` |
| `lane_limits` | 1 tick, 1 action, rate limits, restriction, missing buttons, login, check, crash, 3 moments, fair | 382k, 45 s | `TypeOK`, `RepeatedSignalsHalt`, `LoginGetsTheLane` |
| `usage_caps` | 2 runners in 1 or 2 processes; 2 sends with crashes, or with cap 2; 2 profile reads; a pause; a changed limit; 3 moments | 628k, 60 s | `TypeOK`, `WithinLimits`, `OneCopyOfEach`, `PauseHolds` |
| `inbound` | 2 ticks; five scripts: interest then opt-out with redelivery; opt-out with a crash; a text twice read by the browser; Rohit's message with echoes, redelivery and browser reads; interest with API reads and a resolver that fails; fair | 86k, 35 s | `Consistent`, `NothingOpenOnceClosed`, `OneAnswerEach`, `ReadIsStored`, `StopHeard`, `WarmLeadReachesRohit` |
| `leads` | 2 ticks, 2 handles of one business found in either way, 2 queries and seeds; slow executions, failures, crash, failed compositions, opt-out, late days (one or two per case), fair | 23k, 105 s | `ClaimsInOrder`, `HuntsWithinCap`, `OptOutCoversBusiness`, `EveryLeadJudged`, `RotationCovers` |
| `go_live` | 2 threads and a terminal; one scene with environments, modes, checks, `run` and `serve`, the same with one database for both environments and fewer requests, four with saved fields (token or none, an environment variable or none), test mode against limit overrides, with two databases and with one | 2.1M, 85 s | `StartsFromSaved`, `RunsAsSet`, `NeverUnchecked` |
| `first_contact` | 2 overlapping inspections of 8 profiles that change, all answers of the website; 2 comments, API or not known recipient, refusals, with and without an operator; an ordinary message; 3 drafts, 1 or 2 mishaps per draft, fair | 1.3M, 120 s | `ClaimsObserved`, `ReachedOnce`, `ContactSettles` |
| `opt_out_lost` | the smallest instance of the finding | - | `OptOutsSuppressed` is violated (section 6) |

`lane_login` has no crash and no rate limit because two of its properties are
statements without them: a crash leaves the halt of a login window standing until
the operator resumes the lane, and a rate limit may replace a halt (section 6). In
`lane_limits` the cooldown (1) is shorter than the window in which signals count (2);
the defaults are equal (24 h), with which a second signal inside the window
needs two steps that overlap, or a cooldown somebody has shortened.

Why the bounds are enough to be interesting: two attempts are the least that give
"an attempt may have delivered, the next one must find out" and a final failure; two
drafts the least that could both arrive; two follow-ups the least that can be out
of order; two processes the least that can collide; two messages of one text the least that
a count can tell from a set; two handles the least that are one business, and the order in which they are
found and judged is free; two inspections the least that overlap; two requests the least that can
lose a change. Every disturbance of every module is on in some run, every passing
property is broken by the mutant of the code that `PROJECT.json` pairs it with, and
every action fires in some run. On the lanes, two ticks are the least of whom one can be
running and one waiting when the login is asked for, and two lanes the least with a
fallback. `NoFollowUpOnceReplied` and `ExecutionEnds` are properties of one process: with two, a
follow-up being executed by one survives the reply recorded by the other, and the
queue may be worked on without a pause.

**Fairness.** Nothing is assumed of people, of Instagram, of webhooks (but that Meta retries a
delivery until it is answered) or of the absence of crashes.

* `SendPath` (`follow_ups`): weak fairness of each process going on (asyncio resumes
  what it awaited, every browser and HTTP call has a timeout); strong fairness of a tick that
  recovers all that can be recovered (`run_forever` starts tick after tick, but a process is
  idle only now and then); weak fairness of the lapse of a lease (a clock).
* `Lanes` (`lane_limits`): weak fairness of `Leave`, because every wait of an adapter has a
  timeout and an exception is an answer too; strong fairness of `OpenWindow`, because
  `asyncio.Semaphore` serves its waiters in order. The person at the window need not ever
  close it: the property is that it opens, or the job ends.
* `Inbound`: weak fairness of each tick; strong fairness of an inbox sync and of a queued read,
  since the sync interval elapses again and again and the queue is worked off in order of priority;
  weak fairness of a first delivery by Meta.
* `Leads`: weak fairness of each tick, of maintenance (leases are finite) and of the next day.
* `FirstContact`: weak fairness of planning, of taking an approved draft and of executing it.
  Persons need not decide: a draft that waits for one counts as settled.

## 5. What is proved

Each theorem is about `Spec`, for every value of the constants that satisfies the module's
named assumptions (any sets of processes, actions, handles, lanes, any limits and clocks),
with no other hypothesis but those named below.

**`SendPathProofs`**

* `TypeCorrect`: `Spec => []TypeOK`. `TypeOK` is inductive as it stands; its least
  obvious conjunct is that a process between claim and record has an action.
* `DeliveryInvariantHolds`: `Spec => []DeliveryInvariant`, and from it
  `NothingIsSentTwice`: `Spec => []OneCopyOfEachText`. That no text is in the
  thread twice is not inductive: an armed process sends without looking
  again. The strengthening says why it may: (1) `ExecutionsAreHeld`, an action in
  execution is EXECUTING and has one process, which rests on `claim()` and on
  `recover_stale()`, cancellations and takeovers leaving live executions alone; (2)
  `IntentComesFirst`, the message row is committed before anything is typed and
  never disappears, so a later attempt knows; (3) `LooksBeforeTyping`, a request
  without the order to verify is only made when there is nothing to find, and one
  that has been verified is not in the thread. Most steps only bring nobody closer to
  typing (`QuietStep`, `OutsideStep`); `Claim`, `LeaseConversation`, the reads and
  `Send` are argued for separately. `SendDelivery` is where a fallback after an
  ambiguous API answer would break the property.
* `OnlyStragglersSend`: `Spec => OnlyStragglersAfterTakeover`, by the invariant
  `GuardedBefore` (while the human owns the conversation every armed process is a
  noted straggler).
* `OnlyClaimedSend`: `Spec => OnlyClaimedAfterSuppression`, by `ClaimedBefore`.

**`OutreachProofs`**

* `LedgerHolds`: `Spec => []LedgerIsTrue`. The strengthening is `ReportsAreTrue`: a delivery that an
  adapter has reported, and `_record` has not yet written, is in the thread. An adapter only claims
  what it sent or found (`SendReport`), and nobody else writes a success (`Revises` says which
  verdicts a step may change).
* `ContractKept`: `Spec => ImplementsContract`, if no approved text is edited (`Edits = FALSE`; section 6
  shows what an edit between two attempts does). Initial states map to initial states, a step of `Send`
  to `Deliver` or a stutter, a step that judges actions to `Close`, and every other to a stutter.
  `OneText` is what the hypothesis buys: every action has one version.
* `NobodyStranded`: `Spec => []NoStrandedLead`. What takes an action away from a pending lead moves the lead
  in the same transaction; the exception would be a pending message request, which leaves the lead as it is,
  and which is never reported of a first message (`RequestsFollow`).
* `FollowUpsOrdered`: `Spec => []FollowUpsInOrder`. `NextInOrder`: the follow-up in execution has at most the
  number after the recorded ones; `LeadIsTrue`: what the lead counts is in the thread. It needs
  that `plan_followups` numbers them from 1 (`SendPathAssumption`).
* `OneFirstMessageHolds`: `Spec => []OneFirstMessage`, for one process (`\A p, q \in Workers : p = q`) and
  any number of drafts. `FirstIsAlone`: a first message is tried in the browser only, and is being typed
  only while none was delivered, because the thread it was typed into was empty.
* `AnswerEndsFollowUps`: `Spec => NoFollowUpOnceReplied`, for one process: between the claim, which looks at
  `replied_at`, and the send, the process that would record an answer is the one that executes
  (`Unanswered`).

The runs that check these two properties have one process as well (`FirstMessage.cfg`, `FollowUps.cfg`): with
two, between the guard and the irreversible step, a lease of the conversation may lapse, and another process
send another draft or record an answer.

**`LanesProofs`**

* `LaneTypesCorrect`: `Spec => []TypeOK`. Not inductive alone: a result is recorded on
  `resLane`, which is a lane only because of what memory looks like in each step; `ShapeOK`
  says it, and `Inv` is both.
* `BarriersAreAlerted`: `Spec => []BarrierIsAlerted`. `open()` is silent about a barrier whose
  incident is open; `IncidentsOK` says why that is harmless, an open incident of a
  barrier has been alerted since the lane was last resumed. All steps are first
  reduced to the few ways in which they move lanes (`StepMoves`).
* `HaltedLanesDrain`: `Spec => []OnlyStragglersOnHaltedLane`, from two facts: whatever halts
  a lane finds its stragglers (`HaltNotesStragglers`), and only the executor's look
  admits anybody, on a lane that is not halted (`NobodyElseAdmitted`).
* `TheWindowIsAlone`: `Spec => []WindowIsAlone`, by `PermitsOK`: who runs, and the window,
  hold a permit, and a lane with one permit has one holder.
* `LoginHaltsEnd`: `Spec => []LoginLeavesNoHalt` if no process dies (`"crash" \notin Events`), by
  `LoginHaltOK`: the job whose halt it is remembers that it made it.
* `ParkedActionsHaveAHaltedLane`: `Spec => []ParkedBehindHaltedLane` if no adapter reports a
  rate limit (`"RATE_LIMITED" \notin Reported`), a hypothesis that section 6 shows to be necessary.
* `RateLimitsHalt`: `Spec => []RepeatedSignalsHalt`. The property counts the rate limits there were; the code
  counts those on record, from which it throws away what is older than a day. `SignalsInv`: of the last
  day the two are the same, and as many as the limit are there only on a halted lane. Time makes
  the recent ones fewer, and the one step that adds a signal halts when they are enough; every other step
  on the lane is one of a few moves (`SignalMove`).

**`UsageCapsProofs`**

* `UsageTypesCorrect`: `Spec => []TypeOK`. The sum over the ledger (`MayUse`) and the moments a
  candidate waits for (`Latest`, `Oldest`) need that finite sets of numbers have a least and a greatest
  element, and that the sets the gate looks at are finite.
* `OverlappingExecutionsSendOnce`: `Spec => []OneCopyOfEach`. Here an execution may be
  recovered while it runs, so that the argument of `SendPathProofs` (one executor) is not
  available. Its place is taken by `SendInv`: nothing is in the thread before the
  intent row is written; the conversation's token names one execution (`OneHolder`); and the one that
  holds it and is about to send, or will not look, has nothing to find (`HolderKnows`), because a second
  claim finds the intent and therefore looks, and takes the token from the first. `FirstLooks`
  covers the window between check and claim, where the look was decided before the claim.
* `PauseStopsTicks`: `Spec => []PauseHolds`. `Slots` are the executions that ticks under way, which had read that
  nothing is paused, may still start; what was started since the pause and the slots together never
  exceed `PerTick` for each runner (`PauseInv`), since a claim turns a slot into a start.
* `LimitsOnSends`: the cap, the counting and the spacing of messages, three of the four parts of `WithinLimits`,
  without any hypothesis. That a cap holds is not inductive, for what is in flight at a check is recorded later and
  the cap may change in between. `Chained`: of any set of messages of one hour, the claim of one, the
  last, counted all the others but those no count could show; `GrantKept`: it counted less than
  the cap it was checked against; `CheckKnows`: between a check and its claim what it knows is not outdated.
* `LimitsHold`: `Spec => []WithinLimits` if no action that views pages may be served by the API
  (`ApiFirst = {}`, the value in the run, too). The page views are a matter of credit like the pause: what was viewed within the
  hour and what the executions under way were granted are at most one cap for each runner (`ViewsInv`). The
  hypothesis is needed: the gate does not look at the page views for an action the API might serve, and
  each such action gets a view of its own though the cap is used up (section 6).

**`LeadsProofs`**

* `OptedOutLeftAlone`: `Spec => OptOutCoversBusiness`. Three facts: whoever opted out has all by
  which his business is known on the list (`OptedOutSuppressed`), nothing leaves the list (`WhoSpeaks`,
  `ListGrows`), and the gate looks at it in the step that sends (`GateLooks`), for every handle
  with an identity in common (`SameBusinessSuppressed`).
* `DiscoveryKeepsToCap`: `Spec => []HuntsWithinCap`. The gate counts what is recorded and not what is
  being executed; `HuntInv` bounds their sum, runs recorded today plus processes that are executing one,
  and the cap is therefore exceeded by less than the number of processes.
* `BusinessClaimedInOrder`: `Spec => []ClaimsInOrder`. A lead is judged knowing the earlier leads of its business
  that have been judged (`Earlier`), so that two claims need the later lead to be judged first. That this
  stays so needs more: who is in outreach is not judged again, or the judgement leaves its status alone (`LeftAlone`), no text
  that is being composed will be a new draft of it (`VersionsKnown`), and an inspection is
  with one process and judged once (`JudgedOnce`). Leases that expire (`"slow"`) break the last, failing
  compositions (`"compose"`) the first; each alone does no harm, and the property excepts the two together
  (section 6).

**`GoLiveProofs`**

* `GoLiveTypesCorrect`: `Spec => []TypeOK`.
* `SavedFileStarts`: `Spec => []StartsFromSaved`. Requests may overlap and lose each other's changes; each
  validates the whole file it writes, and what passes starts (`AcceptedBoots`).
* `NeverLiveUnchecked`: `Spec => []NeverUnchecked`, by the keys that only a restart changes
  (`RestartKeysStay`): a running program cannot come to the live account but through `Start`, which the guard follows,
  or through `Serve`, which the property excepts as long as the mode is as it was found. That a switch under way
  is for the database of its environment, unless both share one, is `SwitchesKnown`.
* `SettingsRunAsSet`: `Spec => []RunsAsSet`. The strengthening `SetInv` says, unless requests have overlapped:
  one actor at a time is between a read and its write (`OneEditor`), what it has read is
  what is saved (`ReadIsCurrent`), and test mode's one message a day is saved and hidden by no override
  (`PresetKept`), in every step of the request that puts it on.

**`FirstContactProofs`**

* `TypesCorrect`: `Spec => []TypeOK`. Inductive with how far each inspection has come and what it has by then
  (`Staged`), room for the draft that is composed, and a draft for the sender (`Typed`).
* `NothingInvented`: `Spec => []ClaimsObserved`. `ClaimsInv` follows a fact from the page to the words: whatever is
  held or stored at any place, in an inspection's memory, a snapshot, the stored website check, the lead, the plan, a draft,
  was shown before (`Sheet`), and a website's answer is kept with the link it is of (`CheckSeen`). What was
  shown only grows, so that no place is disturbed by what happens at another.
* `OneFirstMessage`: `Spec => []ReachedOnce`. `OneActive`: one draft at a time may still be sent, and while there is one no
  other is planned; `Alone`: while one is being executed, no other draft's row says that it arrived or may have;
  `ThreadKnown`: of the messages in the thread all but the last are written off, and whose draft
  is a private reply has answered its comment. The history the gate looks at, the intent row and the look into the thread
  make each of them inductive.

**`InboundProofs`**

All four rest on `Stored`: the types, and a good table (`Good`). In a good table a row with an id has the
text and the direction of the message of that id, a row of the prospect has its id unless the browser read it, and no id
names two rows. Every handler of the ownership service takes good tables to good tables and moves
rows in few ways (`Moves`): who wrote what stays, an id is added to rows of ours only, an open answer may be cancelled, rows are
added at the end. What the tables become is written with filters, sums of sequences and i-th elements; what those return for
every argument comes from the least element of a set of numbers (`LeastExists`, `NthExists`) in place of induction.

* `MessagesStoredOnce`: `Spec => []Consistent`.
* `ClosedMeansCancelled`: `Spec => []NothingOpenOnceClosed`. Who closes the conversation cancels what is open
  in the same transaction (`DbStep`), and an answer is queued after a look at both flags (`Preview`).
* `OneAnswerPerMessage`: `Spec => []OneAnswerEach`. `AsManySent`: as many rows are answered as answers are in the
  thread; `AnswersForWarm`, `ComposesWarm`: the rows are of warm messages; and without browser reads rows of the
  prospect have different ids, so that they are no more than his warm messages.
* `ReadsStored`: `Spec => ReadIsStored`, an action property. The read adds those messages of a text whose place among the
  messages of that text is beyond the number of rows that have it already (`LaterPlaces`); those rows and the
  added ones are together as many as were shown.

**Only model-checked** are the liveness properties, which hold under fairness: `ExecutionEnds`, `LoginGetsTheLane`,
`StopHeard`, `WarmLeadReachesRohit`, `EveryLeadJudged`, `RotationCovers`, `ContactSettles`. Liveness under fairness and
ENABLED are out of the prover's reach, and so are results by induction over data; no module here declares a RECURSIVE operator.
Every invariant and every action property that a passing run checks is stated by a theorem, under the hypotheses
named above: one process for `OneFirstMessage` of `SendPath` and `NoFollowUpOnceReplied`, no edits for
`ImplementsContract`, no crash for `LoginLeavesNoHalt`, no rate limits for `ParkedBehindHaltedLane`, no read by the API
for `WithinLimits`.

## 6. Where code and documents disagree

**An opt-out is lost** (run `opt_out_lost`). README:100 says opt-outs are suppressed
permanently, and `webhooks.py:1` calls its table a durable inbox. `drain()` commits `processed_at` before
`process_events()` has handled the events; a process that dies in between has lost them, and Meta,
which got its 200, does not deliver them again. A later thread read may store the message; but if the
newest message in the thread is already stored, the browser's inbox sync sees nothing new, and the
prospect is never suppressed.

The following are behaviours of the models, too, met while writing them and excepted by name
from the properties they would violate. They have no run of their own.

*Messages*

* **A second first message.** README:99 says nobody with an earlier outbound message or a thread
  with history is messaged; `docs/VERIFY.md:225` likewise. A first message is typed
  and arrives, and the process dies before recording it; the next execution is turned away (no lane
  serves it at the moment), and `worker.py:437-438` marks the row FAILED, though it may have arrived. The gate's history
  (`gate.py:387-404`) does not count such rows. Rohit rejects the draft and asks for another; a fresh
  comment makes it a private reply, which the API sends without reading the thread, having no recipient id.
  `ReachedOnce` excepts messages whose row is written off; TLC shows the path, of 24 steps, when
  the exception is removed.
* **Edited text.** `orchestrator/actions.py:159-161` says a re-queued send that did go out is
  detected instead of being sent twice. The check compares with the action's present
  text. A send in AUTONOMOUS mode is delivered but not confirmed; the mode becomes
  APPROVAL, the action is demoted, edited, approved: both versions arrive. `OneCopyOfEachText`
  is a statement about each text.
* **Our echo.** `docs/ARCHITECTURE.md:225` says the intent row attributes the echo to
  automation. A row marked FAILED as above is skipped by echo matching, and so is one created
  longer ago than the matching window: the message is stored as Rohit's (`misread` of `SendPath`) and he
  "takes over".
* **Answer after hand-off.** `docs/VERIFY.md:220` says follow-ups never come after a reply. A send
  under way when the operator claims the conversation ends by setting the lead from
  HANDED_OFF to CONTACTED; an answer that came in between did not set `replied_at`; when
  the operator releases the conversation, the follow-up goes out. `NoFollowUpOnceReplied` is
  about recorded replies.
* **Nothing sent, lead contacted.** A draft throttled by Instagram leaves a PENDING row; if Rohit rejects it
  and asks for another, the history sees the row, and the lead becomes CONTACTED though nothing was sent.
* **"No website".** `intelligence/signals.py:3-4` and `composer.py:382` promise claims that were observed. A
  profile page without its header stores an empty website, which reads as "no link in the bio".
* **Replies twice.** A message read through the browser has no id, and its webhook stores it again: it may be
  answered twice (`OneAnswerEach` excepts browser reads). A thread read through the API counts a row
  matched by id once more for its text, and may leave out a repeated one (`ReadIsStored`).
* **An event whose sender cannot be looked up** (`resolver`) is dropped, an opt-out too.
* **A warm lead unheard.** `pipeline.py:971` commits `handled=True` and then composes the suggested answer; a process that
  dies in between has told nobody, and no later tick looks at the message (`WarmLeadReachesRohit` excepts crashes).
* **An alert unsent.** Alerts wait in memory until `flush()` (`policy/incidents.py:140`); if the process dies first, the incident
  stays open, and being open it silences the next of its kind. The models end with the handing over to the notifier.

*Leads*

* **Two branches.** README:99 says branch accounts count as one business. Duplicates are looked for among lower
  ids only: if the account found later is judged first, both are contacted. `ClaimsInOrder` states
  this exception, and a second one that the proof brought to light (TLC shows it with three processes, in 33 steps):
  a failed composition sets a lead already contacted back to ANALYZED (below); an analysis that has outlived its lease
  then qualifies it anew, so that a draft is planned; a further one finds it a duplicate; and the plan made
  before that, denied by `contacted_at`, writes CONTACTED over it. Both leads are claimed, and the order of the
  judgements does not show it.
  Failing compositions alone, or expiring leases alone, do not lead there (`BusinessClaimedInOrder`).
* An opt-out suppresses the domain of a page on a website builder, and with it strangers on the same
  builder (`Suppressible`).
* A lead whose process dies between reading and judging its profile stays DISCOVERED for ever, at the head of
  the queue (`EveryLeadJudged`); a query that fails is planned first every day and starves the others of
  its strategy (`RotationCovers`).
* A failed composition writes ANALYZED without looking at the status again (`pipeline.py:588-593`), also over
  CONTACTED (`ComposeFails`, `CompositionFails`), and a text that was only too similar to recent ones
  parks the lead for good.

*Lanes*

* **Lane reopens.** `docs/ARCHITECTURE.md:141` says HALTED is until a human resumes. A step that was
  running when the lane was halted and ends RATE_LIMITED, below the threshold, turns HALTED into
  COOLDOWN (`policy/lanes.py:164`), which lapses by itself.
* **Login reopens.** `orchestrator/accounts.py:7-8` says that a lane Instagram had stopped stays
  stopped. The login halts an open lane and waits for the running step, which meets a checkpoint;
  the end of the login, successful or not, resumes the lane, resolves the incident and
  releases the actions.
* The halt for repeated rate limits finds the WARNING incident of the cooldown before it still
  open and of the same kind, so no new alert is made, and who asked to be told *Only when an
  account is stopped* (`docs/DEPLOY.md:212`) is told nothing (`KindOf`, `OpenIncidents`). A read
  throttled by the API falls back to the browser and only the browser's answer is
  recorded, so the API lane gets no cooldown from it.

*Limits and settings*

* The global pause is announced as "no executor activity" (`runtime.py:88`); a tick under way has read the flag
  and starts up to `max_actions_per_tick` more actions (`PauseHolds` counts them).
* The page-view cap is not looked at for an action that the API might serve, though the browser may have to
  (`UntilViews`); each such action still gets one view.
* Settings requests read a file, change and replace it; limit overrides are read in one
  transaction and written in another: of two that overlap, one is lost (`overlapped`).
* **`serve` is not guarded.** README:117 says AUTONOMOUS is refused by code on the live account until every go-live check
  passes, and `docs/DEPLOY.md:99` that the program steps down to APPROVAL when one fails at start. `run` and `tick` do;
  `serve` (`cli.py:484-497`) does not look, and a tick that its page asks for works in the stored or default mode. Its
  switches are checked like any other. `NeverUnchecked` excepts a program started by `serve` whose mode is as it was found.
* **One database for both environments.** With `database_url` set, a switch to AUTONOMOUS by a process that runs in LOCAL, which
  needs no checks, is the live program's mode at once; the next start by `run` looks at it. `NeverUnchecked` excepts it, where
  there is one database.
* With AUTONOMOUS as the configured default and no mode stored, a restart makes the live account AUTONOMOUS
  once the checks pass, without the confirmation that `docs/VERIFY.md:188-194` asks for (`Guarded`).
* Test mode switched on in LOCAL leaves the overrides of LIVE, which still hide its limit there (`preset`),
  unless both have one database.

## 7. What the plan leaves

* Theorems with weaker hypotheses: page views with an API lane, for which the property has to count the one view each such action
  gets (`LimitsHold`); what is left of `LoginLeavesNoHalt` when processes die.
* A refinement of the inbox: the table as an implementation of a set of messages, each stored and answered at most once.
* A property of two processes for the follow-ups; a clock in place of the flags `live` and `hold` of `SendPath`.
* Of the hazards in `PROJECT.json` five have no property, because the property would be false (section 6); others name
  in their note what their property excepts.
* `serve` beside `run --no-api`, with a settings object for each.

## 8. What is not modelled and why

* **Wording.** Texts, classification of replies, the parsing of pages, names and numbers are functions of free text or of
  a language model; the models have their outcomes: which facts a text claims, what a reply means, what a page
  shows. Their edge cases (a name that looks like a link, an opt-out with a curly apostrophe, "no longer
  interested") are matters for tests of those functions.
* **Page recognition** is heuristics over markup, modelled by its outcomes.
* **Reporting, the monitor and the dashboard's views** only read.
* **The simulator, the mock server and the verification command** are test harnesses; what of the simulator
  stands for Instagram is in the models.
* **Configuration** beyond the fields of `GoLive` is the models' constants. Deployment is packaging.
* **The voice agent** is a separate program.
