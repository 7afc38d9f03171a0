-------------------------------- MODULE Events --------------------------------
(***************************************************************************)
(* The events and the program that mails them (db/mongodb/event.go,        *)
(* cmd/event-notifier, notifier/client/mail). The collection is capped:    *)
(* the oldest event makes room for a new one. A goroutine reads the        *)
(* collection with a tailable cursor, in batches, and hands the events     *)
(* over an unbuffered channel to a loop that mails an event and then marks *)
(* it as notified. The cursor, and the whole program, can end at any time; *)
(* both begin again with the oldest event.                                 *)
(***************************************************************************)
EXTENDS Naturals, Sequences, FiniteSets

CONSTANTS
  MaxEvents,    \* bound on the events
  Capacity,     \* how many events the capped collection holds
  MaxTroubles   \* bound on the failures of the program and the database

ASSUME EventsAssumption ==
  /\ MaxEvents \in Nat
  /\ Capacity \in Nat \ {0}
  /\ MaxTroubles \in Nat

VARIABLES
  events,       \* the collection "events": the ids, oldest first
  notice,       \* what the event with each id says
  cursor,       \* of WatchEvents: what was fetched and not handed over yet
  mailer,       \* what the loop of notifier is about to do
  tries,        \* not in the code: how often each event was tried to be mailed
  unknown,      \* not in the code: whose user's address could not be found
  troubles

eventVars == <<events, notice, cursor, mailer, tries, unknown, troubles>>

\* The ids, in the order of their time.
Event == 1 .. MaxEvents
NoEvent == 0

Notice(to) == [to |-> to, notified |-> FALSE]
Stored(e) == notice[e].to # "unset"
Kept(e) == \E i \in DOMAIN events : events[i] = e
Closed == [open |-> FALSE, batch |-> <<>>, last |-> NoEvent]
Waiting == [step |-> "wait", event |-> NoEvent]

\* As they are now: what the cursor fetches is not read again.
Snapshot(ids) == [i \in DOMAIN ids |-> [id |-> ids[i], notified |-> notice[ids[i]].notified]]

\* The events that were stored after e.
After(e) ==
  LET k == CHOOSE i \in DOMAIN events : events[i] = e IN SubSeq(events, k + 1, Len(events))

-------------------------------------------------------------------------------
\* NewEvent: the user is to be told, or else the administrator or, as for the
\* reminders, nobody.
NewEvent(e, to) ==
  /\ ~Stored(e) /\ \A old \in 1 .. e - 1 : Stored(old)
  /\ notice' = [notice EXCEPT ![e] = Notice(to)]
  /\ events' = Append(IF Len(events) = Capacity THEN Tail(events) ELSE events, e)
  /\ UNCHANGED <<cursor, mailer, tries, unknown, troubles>>

\* Mutant: only what is stored from now on is read.
FetchedFirstNew == SubSeq(events, Len(events), Len(events))

\* WatchEvents: a new cursor reads from the oldest event on.
FetchedFirst == events

\* A tailable cursor on an empty collection ends at once.
OpenCursor ==
  /\ ~cursor.open /\ events # <<>>
  /\ cursor' = [open |-> TRUE, batch |-> Snapshot(FetchedFirst), last |-> events[Len(events)]]
  /\ UNCHANGED <<events, notice, mailer, tries, unknown, troubles>>

\* cursor.Next waits for more; the place it stands at must not have been lost.
FetchMore ==
  /\ cursor.open /\ cursor.batch = <<>>
  /\ Kept(cursor.last) /\ After(cursor.last) # <<>>
  /\ cursor' = [cursor EXCEPT !.batch = Snapshot(After(cursor.last)),
                              !.last = events[Len(events)]]
  /\ UNCHANGED <<events, notice, mailer, tries, unknown, troubles>>

\* The database closes it; the next one is made 5 seconds later.
CursorEnds ==
  /\ cursor.open /\ cursor.batch = <<>>
  /\ cursor' = Closed
  /\ UNCHANGED <<events, notice, mailer, tries, unknown, troubles>>

\* Mutant: whatever was read is mailed.
NextStepAlways(to, notified) == IF to = "user" THEN "lookup" ELSE "mail"

\* notifier: skip if already notified; the address of the user, if needed.
NextStep(to, notified) ==
  IF notified THEN "wait" ELSE IF to = "user" THEN "lookup" ELSE "mail"

HandOver ==
  /\ cursor.batch # <<>> /\ mailer = Waiting
  /\ LET doc == Head(cursor.batch)
         step == NextStep(notice[doc.id].to, doc.notified)
     IN mailer' = IF step = "wait" THEN Waiting ELSE [step |-> step, event |-> doc.id]
  /\ cursor' = [cursor EXCEPT !.batch = Tail(@)]
  /\ UNCHANGED <<events, notice, tries, unknown, troubles>>

\* getEmailForEvent: without an address the event is left as it is.
LookUp ==
  /\ mailer.step = "lookup"
  /\ \/ mailer' = [mailer EXCEPT !.step = "mail"] /\ UNCHANGED unknown
     \/ mailer' = Waiting /\ unknown' = unknown \union {mailer.event}
  /\ UNCHANGED <<events, notice, cursor, tries, troubles>>

\* Notify: what the mail service answers, and that there is nobody to mail to,
\* is only logged.
Mail ==
  /\ mailer.step = "mail"
  /\ tries' = [tries EXCEPT ![mailer.event] = @ + 1]
  /\ mailer' = [mailer EXCEPT !.step = "mark"]
  /\ UNCHANGED <<events, notice, cursor, unknown, troubles>>

\* MarkEventAsNotified.
Mark ==
  /\ mailer.step = "mark"
  /\ notice' = [notice EXCEPT ![mailer.event].notified = Kept(mailer.event)]
  /\ mailer' = Waiting
  /\ UNCHANGED <<events, cursor, tries, unknown, troubles>>

MarkFails ==
  /\ mailer.step = "mark" /\ troubles < MaxTroubles
  /\ mailer' = Waiting
  /\ troubles' = troubles + 1
  /\ UNCHANGED <<events, notice, cursor, tries, unknown>>

\* The place the cursor stands at made room: the program ends (l.Fatal), in the
\* middle of a mail or not, and is started again.
CursorLost ==
  /\ cursor.open /\ cursor.batch = <<>> /\ ~Kept(cursor.last)
  /\ cursor' = Closed /\ mailer' = Waiting
  /\ UNCHANGED <<events, notice, tries, unknown, troubles>>

\* It also dies when the mail service cannot be reached (there is no answer to
\* look into) or the pod is stopped.
NotifierDies ==
  /\ troubles < MaxTroubles
  /\ troubles' = troubles + 1
  /\ cursor' = Closed /\ mailer' = Waiting
  /\ UNCHANGED <<events, notice, tries, unknown>>

EventsInit ==
  /\ events = <<>>
  /\ notice = [e \in Event |-> Notice("unset")]
  /\ cursor = Closed /\ mailer = Waiting
  /\ tries = [e \in Event |-> 0]
  /\ unknown = {}
  /\ troubles = 0

Notifier == OpenCursor \/ FetchMore \/ CursorLost \/ HandOver \/ LookUp \/ Mail \/ Mark

EventsNext ==
  \/ \E e \in Event, to \in {"user", "other"} : NewEvent(e, to)
  \/ Notifier \/ CursorEnds \/ MarkFails \/ NotifierDies

\* The program runs on, and is started again.
EventsFairness == WF_eventVars(Notifier)

EventsSpec == EventsInit /\ [][EventsNext]_eventVars /\ EventsFairness

-------------------------------------------------------------------------------
Note == [to : {"unset", "user", "other"}, notified : BOOLEAN]
Doc == [id : Event, notified : BOOLEAN]

\* The types of the variables, and that the cursor reads the collection in
\* order: what it fetched last is what it hands over last.
EventsTypeOK ==
  /\ events \in Seq(Event) /\ Len(events) <= Capacity
  /\ notice \in [Event -> Note]
  /\ cursor \in [open : BOOLEAN, batch : Seq(Doc), last : Event \union {NoEvent}]
  /\ cursor.batch # <<>> => cursor.batch[Len(cursor.batch)].id = cursor.last
  /\ mailer \in [step : {"wait", "lookup", "mail", "mark"}, event : Event \union {NoEvent}]
  /\ tries \in [Event -> Nat] /\ unknown \subseteq Event
  /\ troubles \in 0 .. MaxTroubles

\* What is marked as notified was tried to be mailed, wherever the program died,
\* and an event is mailed no more than twice, and once more for each time the
\* program died or could not mark: a new cursor may fetch the event that is
\* being mailed, but not the one after it.
FewCopies ==
  \A e \in Event : /\ notice[e].notified => tries[e] > 0
                   /\ tries[e] <= 2 + troubles

\* Every event is tried to be mailed, unless it had to make room before, or the
\* address of its user could not be found: then nothing comes back to it while
\* the cursor lasts.
EveryEventTried ==
  \A e \in Event : Stored(e) ~> tries[e] > 0 \/ ~Kept(e) \/ e \in unknown

===============================================================================
