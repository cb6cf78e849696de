---------------------------- MODULE Conversation ----------------------------
(***************************************************************************)
(* One row of the `conversations` table and the operations of              *)
(* OwnershipService (conversations/ownership.py) on it: who may write to   *)
(* the prospect.  Each operation runs in one database transaction, so each *)
(* is one step.  The module only defines the operations; SendPath composes *)
(* them with the workers, the operator and the webhooks that call them.    *)
(*                                                                         *)
(* `lock_token` is modelled by the action whose execution it was handed    *)
(* to: a token lives only in one execution, and an action has one at a     *)
(* time.  Clock comparisons become two flags that time may flip at any     *)
(* moment: `live` (lock_expires_at > now) and `hold` (pause_until).        *)
(***************************************************************************)
CONSTANTS
  Actions,      \* the outbound actions of the conversation
  NoAction,     \* none of them; as a token, lock_token IS NULL
  HumanHold     \* ownership.human_hold_hours is set (default: it is not)

ASSUME ConversationAssumption ==
  /\ NoAction \notin Actions
  /\ HumanHold \in BOOLEAN

VARIABLES
  owner,        \* Conversation.owner
  paused,       \* Conversation.automation_paused
  token,        \* Conversation.lock_token
  live,         \* Conversation.lock_expires_at > now
  hold          \* Conversation.pause_until: "none", "running" or "lapsed"

convVars == <<owner, paused, token, live, hold>>

Channels == {"API", "BROWSER"}
Agents == {"API_AGENT", "BROWSER_AGENT"}
AgentOf(c) == IF c = "API" THEN "API_AGENT" ELSE "BROWSER_AGENT"
Owners == {"NONE", "HUMAN"} \cup Agents

ConvTypeOK ==
  /\ owner \in Owners
  /\ paused \in BOOLEAN
  /\ token \in Actions \cup {NoAction}
  /\ live \in BOOLEAN
  /\ hold \in {"none", "running", "lapsed"}

ConvInit ==
  /\ owner = "NONE"
  /\ paused = FALSE
  /\ token = NoAction
  /\ live = FALSE
  /\ hold = "none"

(***************************************************************************)
(* Leases.                                                                 *)
(***************************************************************************)
HoldLapsed == owner = "HUMAN" /\ hold = "lapsed"

\* The WHERE clause of acquire(), after the release_expired_holds() it runs first.
Takeable ==
  \/ HoldLapsed
  \/ /\ ~paused
     /\ owner # "HUMAN"
     /\ owner = "NONE" \/ ~live

Acquire(a, c) ==
  /\ Takeable
  /\ owner' = AgentOf(c)
  /\ token' = a
  /\ live' = TRUE
  /\ paused' = FALSE
  /\ hold' = IF HoldLapsed THEN "none" ELSE hold

\* transfer() checks the token and the pause, not the expiry: it revives a lapsed lease.
Transferable(a) == token = a /\ ~paused

Transfer(a, c) ==
  /\ Transferable(a)
  /\ owner' = AgentOf(c)
  /\ live' = TRUE
  /\ UNCHANGED <<token, paused, hold>>

ReleaseLease(a) ==
  IF token = a
  THEN /\ owner' = "NONE"
       /\ token' = NoAction
       /\ live' = FALSE
       /\ UNCHANGED <<paused, hold>>
  ELSE UNCHANGED convVars

StillOwner(a) ==
  /\ token = a
  /\ ~paused
  /\ owner \in Agents
  /\ live

(***************************************************************************)
(* The human.                                                              *)
(***************************************************************************)
TakeOver ==
  /\ owner' = "HUMAN"
  /\ paused' = TRUE
  /\ token' = NoAction
  /\ live' = FALSE
  /\ hold' = IF HumanHold THEN "running" ELSE "none"

ReleaseToAutomation ==
  /\ owner' = "NONE"
  /\ paused' = FALSE
  /\ token' = NoAction
  /\ live' = FALSE
  /\ hold' = "none"

ReleaseExpiredHold == HoldLapsed /\ ReleaseToAutomation

(***************************************************************************)
(* Time.                                                                   *)
(***************************************************************************)
LeaseLapses ==
  /\ live
  /\ live' = FALSE
  /\ UNCHANGED <<owner, paused, token, hold>>

HoldLapses ==
  /\ hold = "running"
  /\ hold' = "lapsed"
  /\ UNCHANGED <<owner, paused, token, live>>
=============================================================================
