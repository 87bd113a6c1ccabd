------------------------------- MODULE Outbox -------------------------------
(***************************************************************************)
(* What execute() promises of the messages the application hands over: a   *)
(* message goes out at once or waits; what waits goes out together with    *)
(* everything else that waits, or is dropped together with it; and what    *)
(* was dropped is never sent.  When a flush or a drop happens is left open.*)
(***************************************************************************)
CONSTANT Messages

VARIABLE status   \* of each message

Status == {"new", "waiting", "sent", "dropped"}

OutboxInit == status = [m \in Messages |-> "new"]

Accept(m) ==
  /\ status[m] = "new"
  /\ \E next \in {"waiting", "sent"} : status' = [status EXCEPT ![m] = next]

(* Every message that waits ends up with the outcome. *)
Resolve(outcome) ==
  status' = [m \in Messages |-> IF status[m] = "waiting" THEN outcome ELSE status[m]]

OutboxNext ==
  \/ \E m \in Messages : Accept(m)
  \/ Resolve("sent")
  \/ Resolve("dropped")

OutboxSpec == OutboxInit /\ [][OutboxNext]_status
=============================================================================
