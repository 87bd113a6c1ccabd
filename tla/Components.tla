----------------------------- MODULE Components -----------------------------
(***************************************************************************)
(* The components of a Relay call (packages/common/src/relay/calling/      *)
(* components): what each kind listens to, which events complete it, which *)
(* release the method that waits for it, and how it handles one event.     *)
(* A component is a record; its handlers are functions from a component    *)
(* and an event to the component that results.                             *)
(***************************************************************************)
EXTENDS Naturals

CallState == {"none", "created", "ringing", "answered", "ending", "ended"}

(* Its place in CALL_STATES. *)
Rank(s) ==
  CASE s = "none"     -> 0
    [] s = "created"  -> 1
    [] s = "ringing"  -> 2
    [] s = "answered" -> 3
    [] s = "ending"   -> 4
    [] s = "ended"    -> 5

(* "beep" is a machine detector with wait_for_beep; "digit" detects digits.  *)
Detectors == {"detect", "beep", "digit"}
Controllables == {"play", "prompt", "record", "fax", "tap"} \cup Detectors
AllKinds ==
  {"dial", "answer", "hangup", "await", "pass", "connect", "disconnect", "refer",
   "sendDigits"} \cup Controllables

(* Kinds with a method that returns without waiting for the outcome, and     *)
(* kinds that have no other.                                                 *)
HasAsync == Controllables \cup {"connect", "refer", "sendDigits", "pass"}
OnlyAsync == {"pass"}

EventType(k) ==
  CASE k \in {"answer", "hangup", "await", "pass"} -> "state"
    [] k \in {"connect", "disconnect"}             -> "connect"
    [] k \in Detectors                             -> "detect"
    [] OTHER                                       -> k

(* Components whose controlId is the tag of the call; the others, Connect    *)
(* among them, have one of their own.                                        *)
ByTag == {"dial", "answer", "hangup", "await", "disconnect", "refer"}

(* Events the server sends.  A fax that is "finished" without success is     *)
(* "unsuccessful"; the digits a digit detector hears are "digits".           *)
Events(k) ==
  CASE k = "dial"       -> {"dialing", "answered", "failed"}
    [] k \in {"connect", "disconnect"}
                        -> {"connecting", "connected", "failed", "disconnected"}
    [] k = "play"       -> {"playing", "error", "finished"}
    [] k = "prompt"     -> {"error", "no_input", "no_match", "digit", "speech"}
    [] k = "record"     -> {"recording", "no_input", "finished"}
    [] k = "fax"        -> {"page", "error", "finished", "unsuccessful"}
    [] k = "tap"        -> {"tapping", "finished"}
    [] k = "sendDigits" -> {"finished"}
    [] k = "refer"      -> {"inProgress", "cancel", "busy", "noAnswer", "error",
                            "success"}
    [] k = "digit"      -> {"digits", "finished", "error"}
    [] k \in {"detect", "beep"}
                        -> {"MACHINE", "HUMAN", "UNKNOWN", "CED", "CNG", "READY",
                            "NOT_READY", "finished", "error"}
    [] OTHER            -> CallState

(* Events that complete a component of kind k, whatever it waits for.        *)
Final(k) ==
  CASE k = "dial"       -> {"answered", "failed"}
    [] k = "answer"     -> {"answered"}
    [] k = "hangup"     -> {"ended"}
    [] k \in {"connect", "disconnect"} -> {"connected", "failed", "disconnected"}
    [] k = "play"       -> {"error", "finished"}
    [] k = "prompt"     -> Events("prompt")
    [] k = "record"     -> {"no_input", "finished"}
    [] k = "fax"        -> {"error", "finished", "unsuccessful"}
    [] k = "tap"        -> {"finished"}
    [] k = "sendDigits" -> {"finished"}
    [] k = "refer"      -> Events("refer") \ {"inProgress"}
    [] k \in Detectors  -> {"error", "finished"}
    [] OTHER            -> {}

(* ... of which these are a success.                                         *)
Success(k) ==
  CASE k \in {"dial", "answer"} -> {"answered"}
    [] k = "hangup"     -> {"ended"}
    [] k = "connect"    -> {"connected"}
    [] k = "disconnect" -> {"disconnected"}
    [] k = "prompt"     -> {"digit", "speech"}
    [] k = "refer"      -> {"success"}
    [] OTHER            -> {"finished"}

(* Events the waiting method of kind k passes to _waitFor.                   *)
Waits(k) ==
  CASE k = "answer"     -> {"answered", "ending", "ended"}
    [] k = "connect"    -> {"failed", "connected"}
    [] k = "disconnect" -> {"failed", "disconnected"}
    [] k \in Detectors  -> {"MACHINE", "HUMAN", "UNKNOWN", "CED", "CNG"}
    [] OTHER            -> Final(k)

EventName ==
  CallState \cup
    {"dialing", "failed", "connecting", "connected", "disconnected", "playing",
     "error", "finished", "no_input", "no_match", "digit", "speech", "recording",
     "page", "unsuccessful", "tapping", "inProgress", "cancel", "busy", "noAnswer",
     "success", "digits", "MACHINE", "HUMAN", "UNKNOWN", "CED", "CNG", "READY",
     "NOT_READY"}

Component ==
  [kind : AllKinds \cup {"none"}, waits : SUBSET EventName,
   blocker : {"none", "armed", "released"}, state : EventName,
   completed : BOOLEAN, successful : BOOLEAN, beeping : BOOLEAN,
   exec : {"none", "sent", "ok", "failed", "skipped", "thrown"},
   control : {"none", "sent", "ok", "failed"}]

NoComponent ==
  [kind |-> "none", waits |-> {}, blocker |-> "none", state |-> "none",
   completed |-> FALSE, successful |-> FALSE, beeping |-> FALSE,
   exec |-> "none", control |-> "none"]

HasBlocker(c) == c.blocker # "none"

(* blocker.resolve(), if the component has one. *)
Release(c) == IF HasBlocker(c) THEN [c EXCEPT !.blocker = "released"] ELSE c

(* Mutant: terminate() that leaves the waiting method waiting. *)
TerminateQuietly(c) ==
  [c EXCEPT !.completed = TRUE, !.successful = FALSE, !.state = "failed"]

(* terminate() *)
Terminate(c) ==
  Release([c EXCEPT !.completed = TRUE, !.successful = FALSE, !.state = "failed"])

(* Mutant: a detector that does not wait for the beep. *)
DetectedAtOnce(c, e) ==
  LET d == [c EXCEPT !.state = e] IN
  IF e \in Final("detect") \/ (HasBlocker(c) /\ (c.kind = "digit" \/ e \in c.waits))
    THEN Release([d EXCEPT !.completed = TRUE, !.successful = e \notin Final("detect")])
    ELSE d

(* notificationHandler() of Detect.  Without a blocker it collects events    *)
(* until the detector finishes; with one, the first interesting event        *)
(* completes it, the beep after MACHINE when it waits for that.              *)
Detected(c, e) ==
  LET d        == [c EXCEPT !.state = e]
      complete == [d EXCEPT !.completed = TRUE,
                            !.successful = IF HasBlocker(c) THEN e \notin Final("detect")
                                                            ELSE e # "error"]
  IN  IF e \in Final("detect") THEN Release(complete)
      ELSE IF ~HasBlocker(c) THEN d
      ELSE IF c.kind = "digit" THEN Release(complete)
      ELSE IF c.beeping THEN IF e = "READY" THEN Release(complete) ELSE d
      ELSE IF c.kind = "beep" /\ e = "MACHINE" THEN [d EXCEPT !.beeping = TRUE]
      ELSE IF e \in c.waits THEN Release(complete)
      ELSE d

(* notificationHandler() of Await: nothing but what it waits for counts.     *)
Awaited(c, e) ==
  IF HasBlocker(c) /\ e \in c.waits
    THEN Release([c EXCEPT !.completed = TRUE, !.successful = TRUE])
    ELSE c

(* notificationHandler() of every other kind: note the state, complete on a  *)
(* final event, release the waiting method on an event it waits for.  Answer *)
(* notes no state; Prompt calls both "digit" and "speech" "successful".      *)
Noted(c, e) ==
  LET noted == [c EXCEPT !.state = IF c.kind = "answer" THEN @ ELSE e]
      done  == [noted EXCEPT !.completed = e \in Final(c.kind),
                             !.successful = e \in Success(c.kind)]
      next  == IF e \in Final(c.kind) THEN done ELSE noted
  IN  IF e \in c.waits THEN Release(next) ELSE next

(* component.notificationHandler(), by the kind of component.                *)
Handle(c, e) ==
  CASE c.kind \in Detectors -> Detected(c, e)
    [] c.kind = "await"     -> Awaited(c, e)
    [] c.kind = "pass"      -> c
    [] OTHER                -> Noted(c, e)
=============================================================================
