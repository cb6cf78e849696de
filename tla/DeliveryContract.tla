-------------------------- MODULE DeliveryContract --------------------------
(***************************************************************************)
(* What the queue, the worker and the adapters together promise about each *)
(* planned message, whatever crashes, retries and takeovers happen in      *)
(* between: it reaches the thread at most once, it never reaches it after  *)
(* the system gave its final verdict on it, a verdict is never revised,    *)
(* and the verdict `succeeded` is the truth.                               *)
(***************************************************************************)
EXTENDS Naturals

CONSTANT Messages

VARIABLES
  verdict,   \* what the system says of each message
  copies     \* how often it stands in the thread

Init ==
  /\ verdict = [m \in Messages |-> "open"]
  /\ copies = [m \in Messages |-> 0]

Deliver(m) ==
  /\ verdict[m] = "open"
  /\ copies[m] = 0
  /\ copies' = [copies EXCEPT ![m] = 1]
  /\ UNCHANGED verdict

\* One handler may close several messages: a takeover cancels all that are open.
Close(closing, succeeding) ==
  /\ closing # {}
  /\ \A m \in closing : verdict[m] = "open"
  /\ \A m \in succeeding : copies[m] = 1
  /\ verdict' = [m \in Messages |->
       IF m \in succeeding THEN "succeeded" ELSE IF m \in closing THEN "dropped" ELSE verdict[m]]
  /\ UNCHANGED copies

Next ==
  \/ \E m \in Messages : Deliver(m)
  \/ \E closing \in SUBSET Messages : \E succeeding \in SUBSET closing : Close(closing, succeeding)

Spec == Init /\ [][Next]_<<verdict, copies>>
=============================================================================
