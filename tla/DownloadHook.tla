----------------------------- MODULE DownloadHook -----------------------------
(***************************************************************************)
(* The React hook useDownloadAssetsToOpfs over the calls of a page, some   *)
(* of which it makes; the others are made without it, in this page or in   *)
(* another.  What follows a settled promise runs before the next task, so  *)
(* that it is part of the step that settles it.                            *)
(***************************************************************************)
EXTENDS DownloadCalls

VARIABLES
  status,                 \* the state `status` of the hook
                          \* "unmounted" when mountedRef is false
  controller              \* controllerRef: the call of its AbortController, or None

hookVars == <<status, controller>>
allVars == <<vars, hookVars>>

Init == /\ WorkerInit /\ CallsInit
        /\ status = "idle" /\ controller = None

mounted == status # "unmounted"

(* What the hook makes of a promise that settles: the state as long as the *)
(* component is mounted, and its finally, whichever call it was.           *)
StatusOf(how) == CASE how \in {"filtered", "nothing", "completed"} -> "success"
                   [] how = "abort" -> "aborted"
                   [] OTHER -> "failure"
Follow(c) ==
  IF c \in inFlight /\ ask[c].hook /\ pc'[c] \in Settled
  THEN /\ status' = IF mounted THEN StatusOf(pc'[c]) ELSE status
       /\ controller' = None
  ELSE UNCHANGED hookVars

StartDownload(c, a) ==
  /\ a.hook /\ mounted
  /\ Begin(c, a)
  /\ status' = "pending" /\ controller' = c

(* reset: the abort settles a call that waits, whose catch runs when reset *)
(* is over, and its status stays.                                          *)
(* Mutant of Reset: the status of a call that is not yet subscribed stays. *)
ResetKeepsStatus ==
  /\ mounted
  /\ IF controller \in inFlight
     THEN Abort(controller)
     ELSE UNCHANGED vars
  /\ status' = IF controller \in inFlight /\ pc[controller] = "waiting"
               THEN "aborted" ELSE status
  /\ controller' = None
Reset ==
  /\ mounted
  /\ IF controller \in inFlight
     THEN Abort(controller)
     ELSE UNCHANGED vars
  /\ status' = IF controller \in inFlight /\ pc[controller] = "waiting"
               THEN "aborted" ELSE "idle"
  /\ controller' = None

Unmount ==
  /\ mounted
  /\ status' = "unmounted"
  /\ UNCHANGED <<vars, controller>>

Step(c) == CallStep(c) /\ Follow(c)

Next ==
  \/ Outside /\ UNCHANGED hookVars
  \/ \E c \in Calls :
       \/ Step(c)
       \/ Start(c) /\ UNCHANGED hookVars
       \/ \E a \in Asks : \/ StartDownload(c, a)
                          \/ ~a.hook /\ Begin(c, a) /\ UNCHANGED hookVars
       \/ c \in inFlight /\ ~ask[c].hook /\ Abort(c) /\ UNCHANGED hookVars
  \/ Reset \/ Unmount

(* Questions are answered or time out, messages that were sent arrive, the *)
(* worker hears of the downloads that have ended and its handlers go on.   *)
(* Nothing says that a download ends.                                      *)
HandlerGoesOn(d) ==
  (\E f \in Handled : PluginStep(d, f)) /\ Outside /\ UNCHANGED hookVars
Fairness ==
  \A c \in Calls : /\ WF_allVars(Step(c))
                   /\ WF_allVars(Start(c) /\ UNCHANGED hookVars)
                   /\ WF_allVars(HandlerGoesOn(c))

Spec == Init /\ [][Next]_allVars /\ Fairness
------------------------------------------------------------------------------
(* The type of every variable, and what the calls, the handlers and the    *)
(* messages keep of each other: no record of a download is lost on its way *)
(* to the pages, and nothing of a call is left when it has settled.        *)
DownloadInv ==
  /\ TypeOK /\ CallsInv /\ HandlersInv
  /\ status \in {"idle", "pending", "success", "failure", "aborted", "unmounted"}
  /\ controller \in Calls \cup {None}

(* While the hook shows a download as pending, reset reaches it: the       *)
(* controller is that of a call that is in flight and not aborted.         *)
PendingCanBeReset ==
  status = "pending" => controller \in inFlight \ aborted
==============================================================================
