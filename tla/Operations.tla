----------------------------- MODULE Operations -----------------------------
(***************************************************************************)
(* What a call promises of its methods that wait for an outcome: each is   *)
(* settled at most once, with success or failure, and stays settled; one   *)
(* begun when the call is over fails at once.  How outcomes come about is  *)
(* left open.                                                              *)
(***************************************************************************)
CONSTANT Ops

VARIABLES
  over,   \* the call is ending or has ended
  phase   \* of each operation

opsVars == <<over, phase>>

Phase   == {"idle", "running", "succeeded", "failed"}
Settled == {"succeeded", "failed"}

OpsInit == over = FALSE /\ phase = [o \in Ops |-> "idle"]

(* A method is called. *)
Begin(o) ==
  /\ phase[o] = "idle"
  /\ phase' = [phase EXCEPT ![o] = IF over THEN "failed" ELSE "running"]
  /\ UNCHANGED over

(* Something happens to the call: it may be over now, and any operations may *)
(* be settled by it.                                                         *)
Progress ==
  /\ over => over'
  /\ over' \in BOOLEAN
  /\ phase' \in [Ops -> Phase]
  /\ \A o \in Ops : \/ phase'[o] = phase[o]
                    \/ phase[o] = "running" /\ phase'[o] \in Settled

OpsNext == Progress \/ \E o \in Ops : Begin(o)

OpsSpec == OpsInit /\ [][OpsNext]_opsVars
=============================================================================
