------------------------------- MODULE Feedback -------------------------------
(***************************************************************************)
(* The feedback of one user (services/feedback.go, db/mongodb/feedback.go): *)
(* no more than FeedbackLimit a day. The feedback gets its date first, the *)
(* feedback of the current day is counted next, and it is inserted last,   *)
(* with no transaction around.                                             *)
(***************************************************************************)
EXTENDS Naturals, FiniteSets

CONSTANTS
  Form,            \* the requests that may be handled at once
  FeedbackLimit,   \* 3
  MaxDay           \* bound on the calendar

ASSUME FeedbackAssumption ==
  /\ IsFiniteSet(Form)
  /\ FeedbackLimit \in Nat \ {0}
  /\ MaxDay \in Nat

VARIABLES
  given,           \* how many were stored with the date of each day
  form,            \* what each handler is about to do
  today

feedbackVars == <<given, form, today>>

Day == 0 .. MaxDay
Blank == [step |-> "ready", day |-> 0]

\* CreateFeedback, up to CreatedAt = time.Now().
Submit(f) ==
  /\ form[f].step = "ready"
  /\ form' = [form EXCEPT ![f] = [step |-> "count", day |-> today]]
  /\ UNCHANGED <<given, today>>

\* Mutant: one more than the limit.
AllowedOneMore == given[today] <= FeedbackLimit

\* FeedbackAllowed counts what the day of the check has.
Allowed == given[today] < FeedbackLimit

Count(f) ==
  /\ form[f].step = "count"
  /\ form' = [form EXCEPT ![f] = IF Allowed THEN [@ EXCEPT !.step = "insert"]
                                             ELSE Blank]
  /\ UNCHANGED <<given, today>>

InsertFeedback(f) ==
  /\ form[f].step = "insert"
  /\ given' = [given EXCEPT ![form[f].day] = @ + 1]
  /\ form' = [form EXCEPT ![f] = Blank]
  /\ UNCHANGED today

\* A call fails.
GiveUp(f) ==
  /\ form[f].step # "ready"
  /\ form' = [form EXCEPT ![f] = Blank]
  /\ UNCHANGED <<given, today>>

Midnight ==
  /\ today < MaxDay
  /\ today' = today + 1
  /\ UNCHANGED <<given, form>>

FeedbackInit ==
  /\ given = [d \in Day |-> 0]
  /\ form = [f \in Form |-> Blank]
  /\ today = 0

FeedbackNext ==
  \/ Midnight
  \/ \E f \in Form : Submit(f) \/ Count(f) \/ InsertFeedback(f) \/ GiveUp(f)

FeedbackSpec == FeedbackInit /\ [][FeedbackNext]_feedbackVars

\* The daily limit as it can be relied on: every handler at work may add one
\* when they count at once, and once more when midnight falls between the date
\* of a feedback and its count.
DailyLimitNearlyKept ==
  \A d \in Day : given[d] + 1 <= FeedbackLimit + 2 * Cardinality(Form)

===============================================================================
