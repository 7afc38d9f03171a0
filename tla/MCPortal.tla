------------------------------- MODULE MCPortal -------------------------------
(***************************************************************************)
(* Five small parts that share nothing, for TLC: a run looks at one of     *)
(* them at a time, the turn says at which. Windows are inserted in the     *)
(* order of their ids, which only are names.                               *)
(***************************************************************************)
EXTENDS MaintenanceWindows, Feedback, Reminders, Events, Provisioning

CONSTANTS w1, t1

VARIABLE turn

portalVars ==
  <<windowVars, feedbackVars, reminderVars, eventVars, provisioningVars, turn>>

Turns == {"windows", "feedback", "reminders", "events", "provisioning"}

MCInit ==
  /\ WindowsInit /\ FeedbackInit /\ RemindersInit /\ EventsInit /\ ProvisioningInit
  /\ turn \in Turns
  /\ wanted = IF turn = "provisioning" THEN Server ELSE {}

\* Only the part whose turn it is moves.
Others(part) ==
  /\ part = turn
  /\ part # "windows" => UNCHANGED windowVars
  /\ part # "feedback" => UNCHANGED feedbackVars
  /\ part # "reminders" => UNCHANGED reminderVars
  /\ part # "events" => UNCHANGED eventVars
  /\ part # "provisioning" => UNCHANGED provisioningVars
  /\ UNCHANGED turn

InOrder ==
  /\ (\E w \in Window : windows[w] # NoWindow) => windows[w1] # NoWindow
  /\ \A t \in Thread \ {t1} : At(t, "ready") \/ (http[t].doc.enabled /\ ~At(t, "delete"))

MCNext ==
  \/ Others("windows") /\ WindowsNext /\ InOrder'
  \/ Others("feedback") /\ FeedbackNext
  \/ Others("reminders") /\ RemindersNext
  \/ Others("events") /\ EventsNext
  \/ Others("provisioning") /\ ProvisioningNext

\* The fairness of Events and Provisioning, each in its own turn.
MCFairness ==
  /\ WF_eventVars(turn = "events" /\ Notifier)
  /\ \A s \in Server :
       /\ WF_provisioningVars(turn = "provisioning" /\ Calls(s))
       /\ SF_provisioningVars(turn = "provisioning" /\ Reconcile(s))

MCSpec == MCInit /\ [][MCNext]_portalVars /\ MCFairness

===============================================================================
