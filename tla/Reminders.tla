------------------------------- MODULE Reminders -------------------------------
(***************************************************************************)
(* The notices that a service is about to expire (services/notification.go). *)
(* A ticker of the API server looks at all services once every 24 hours,   *)
(* beginning a day after the server started; an event with the same text   *)
(* in the past 24 hours stops another one. Time goes in half days.         *)
(***************************************************************************)
EXTENDS Integers, FiniteSets

CONSTANTS
  Deployment,   \* services
  Lease,        \* the days of the catalog's expiry, 5 when it says none, in half days
  LastHalfDay   \* bound on the clock

ASSUME RemindersAssumption ==
  /\ Lease \in Nat
  /\ LastHalfDay \in Nat

VARIABLES
  clock,
  deployed,     \* the services, and when they expire
  ticker,       \* half days since the ticker fired or was made
  todo,         \* the services, as listed, that this pass has not looked at yet
  reminders     \* the events that were stored, and when

reminderVars == <<clock, deployed, ticker, todo, reminders>>

everyDay == 2
pastDay == 2
HalfDays == 0 .. LastHalfDay + 2 * Lease

NotDeployed == [state |-> "none", expiry |-> 0]
Deployed(d) == deployed[d].state = "there"

-------------------------------------------------------------------------------
\* Numbers of 64 bits, as the bytes 0 to 7, the lowest first.
Times64(a, b) ==
  LET column[k \in 0 .. 7] ==
        LET part[i \in 0 .. k] == a[i] * b[k - i] + IF i = 0 THEN 0 ELSE part[i - 1]
        IN part[k]
      carried[k \in 0 .. 7] ==
        column[k] + IF k = 0 THEN 0 ELSE carried[k - 1] \div 256
  IN [k \in 0 .. 7 |-> carried[k] % 256]

\* A duration of 64 bits in half days, by its upper 16 bits, which count 2^48 ns
\* or 6.5 half days each: enough to tell two days from centuries.
InHalfDays(a) ==
  LET upper == 256 * a[7] + a[6]
  IN 6 * IF upper < 32768 THEN upper ELSE upper - 65536

Bytes(b7, b6, b5, b4, b3, b2, b1, b0) ==
  [i \in 0 .. 7 |-> CASE i = 0 -> b0 [] i = 1 -> b1 [] i = 2 -> b2 [] i = 3 -> b3
                      [] i = 4 -> b4 [] i = 5 -> b5 [] i = 6 -> b6 [] i = 7 -> b7]

Hour == Bytes(0, 0, 3, 70, 48, 184, 160, 0)                           \* 3.6e12 ns
ExpiryNotificationDuration == Bytes(0, 0, 157, 41, 34, 158, 0, 0)     \* 48 * Hour

\* raiseNotification multiplies the flag, a duration already, by an hour.
Lead == InHalfDays(Times64(ExpiryNotificationDuration, Hour))

\* The product overflows to about 200 years; all that is modelled is sooner.
ASSUME HorizonAssumption == Lead \in Nat /\ LastHalfDay + 2 * Lease < Lead

-------------------------------------------------------------------------------
Deploy(d) ==
  /\ deployed[d] = NotDeployed
  /\ deployed' = [deployed EXCEPT ![d] =
       [state |-> "there", expiry |-> clock + Lease]]
  /\ UNCHANGED <<clock, ticker, todo, reminders>>

\* An extension was approved (ServiceLifecycle).
Extend(d) ==
  /\ Deployed(d) /\ deployed[d].expiry < Lease + LastHalfDay
  /\ deployed' = [deployed EXCEPT ![d].expiry = @ + Lease]
  /\ UNCHANGED <<clock, ticker, todo, reminders>>

Undeploy(d) ==
  /\ Deployed(d)
  /\ deployed' = [deployed EXCEPT ![d].state = "gone"]
  /\ UNCHANGED <<clock, ticker, todo, reminders>>

\* A pass takes no half day, and nor does a due ticker wait.
TimePasses ==
  /\ clock < LastHalfDay /\ ticker < everyDay /\ todo = {}
  /\ clock' = clock + 1
  /\ ticker' = ticker + 1
  /\ UNCHANGED <<deployed, todo, reminders>>

\* raiseNotification: the list of services, and what it makes of each.
RaiseNotification ==
  /\ ticker = everyDay
  /\ ticker' = 0
  /\ todo' = {<<d, deployed[d].expiry>> : d \in {e \in Deployment : Deployed(e)}}
  /\ UNCHANGED <<clock, deployed, reminders>>

Notification(d, expiry) ==
  IF expiry < clock THEN [of |-> d, kind |-> "expired", expiry |-> 0, at |-> clock]
  ELSE [of |-> d, kind |-> "expiring", expiry |-> expiry, at |-> clock]

\* isNotificationSentRecently: of an event just as old as the past day, which
\* is what yesterday's pass made, one cannot say.
SentRecently(event) ==
  LET ages == {clock - old.at : old \in {r \in reminders : [r EXCEPT !.at = event.at] = event}}
  IN IF \E age \in ages : age < pastDay THEN {TRUE}
     ELSE IF pastDay \in ages THEN BOOLEAN ELSE {FALSE}

\* raiseNotification on one service, with generateEvent: the events may not be
\* there to be read, which is taken for "not sent", and the event may not be
\* stored.
GenerateEvent(d, expiry) ==
  LET event == Notification(d, expiry)
      due == expiry - Lead < clock
  IN /\ <<d, expiry>> \in todo
     /\ todo' = todo \ {<<d, expiry>>}
     /\ \E readable, storable \in BOOLEAN : \E recent \in SentRecently(event) :
          reminders' = IF due /\ ~(readable /\ recent) /\ storable
                       THEN reminders \union {event} ELSE reminders
     /\ UNCHANGED <<clock, deployed, ticker>>

\* Mutant: the first pass is made when the server starts.
RebootFires ==
  /\ ticker' = everyDay /\ todo' = {}
  /\ UNCHANGED <<clock, deployed, reminders>>

\* The server is started again, and makes a new ticker.
Reboot ==
  /\ ticker' = 0 /\ todo' = {}
  /\ UNCHANGED <<clock, deployed, reminders>>

RemindersInit ==
  /\ clock = 0
  /\ deployed = [d \in Deployment |-> NotDeployed]
  /\ ticker = 0 /\ todo = {} /\ reminders = {}

RemindersNext ==
  \/ TimePasses \/ RaiseNotification \/ Reboot
  \/ \E d \in Deployment :
       \/ Deploy(d) \/ Extend(d) \/ Undeploy(d)
       \/ \E expiry \in HalfDays : GenerateEvent(d, expiry)

RemindersSpec == RemindersInit /\ [][RemindersNext]_reminderVars

-------------------------------------------------------------------------------
\* No service gets two notices in less than a day, however often the server is
\* started again, the expiry moves or the events cannot be read.
AtMostOneNoticeADay ==
  \A r, q \in reminders :
    r.of = q.of /\ r # q => r.at - q.at >= everyDay \/ q.at - r.at >= everyDay

\* The flag: "user will start receiving expiry notifications 48 hrs before
\* service expiry". The product of the two durations does not fit 64 bits.
RemindedOnlyNearExpiry ==
  \A r \in reminders : r.kind = "expiring" => r.expiry - r.at <= 2 * everyDay

===============================================================================
