-------------------------- MODULE MaintenanceWindows --------------------------
(***************************************************************************)
(* The maintenance windows administrators announce (services/maintenance.go *)
(* and db/mongodb/maintenance.go). No two enabled windows should overlap;  *)
(* the check reads the collection in one call and the handler writes in    *)
(* another one. An update reads the window, fills in what the request      *)
(* leaves out, checks, and writes all the fields; a deletion is soft.      *)
(***************************************************************************)
EXTENDS Integers, FiniteSets

CONSTANTS
  Window,       \* the ids MongoDB can hand out
  Thread,       \* the handlers that may run at once
  MaxTime,      \* bound on the clock and on the times asked for
  Warning       \* earlyWarningHours, 24 hours

ASSUME WindowsAssumption ==
  /\ MaxTime \in Nat
  /\ Warning \in Nat \ {0}

VARIABLES
  windows,      \* the collection "maintenance_windows"
  http,         \* what each handler is about to do
  now

windowVars == <<windows, http, now>>

Time == 0 .. MaxTime
Unset == -1     \* a time the update request leaves out

NoWindow == [state |-> "none", enabled |-> FALSE, start |-> 0, end |-> 0]
Document == [state : {"none", "live", "deleted"}, enabled : BOOLEAN,
             start : Time, end : Time]

\* The windows a handler can read are those not deleted.
Live(w) == windows[w].state = "live"

\* stale is not in the code: another handler wrote after this one's check.
Ready == [step |-> "ready", ids |-> {}, doc |-> NoWindow, stale |-> FALSE]

At(t, step) == http[t].step = step
Done(t) == http' = [http EXCEPT ![t] = Ready]
Wrote(t) == http' = [u \in Thread |->
  IF u = t THEN Ready
  ELSE [http[u] EXCEPT !.stale = http[u].step \in {"insert", "write"}]]

Overlap(a, b) == a.start < b.end /\ b.start < a.end

\* GetAllMaintenanceWindows.
NotDeleted == {w \in Window : Live(w)}

\* Mutant: only the start of the new window is looked at.
FreeStart(doc, own) ==
  \A w \in NotDeleted \ own : windows[w].enabled =>
    ~(windows[w].start <= doc.start /\ doc.start < windows[w].end)

\* checkForOverlaps: whether or not the window checked is itself enabled.
Free(doc, own) ==
  \A w \in NotDeleted \ own : windows[w].enabled => ~Overlap(doc, windows[w])

\* validateTimeRange.
ValidTimeRange(doc) == doc.start < doc.end

-------------------------------------------------------------------------------
\* CreateMaintenanceWindow, up to the check, and its insert.
Create(t, doc) ==
  /\ At(t, "ready")
  /\ now <= doc.start /\ ValidTimeRange(doc)
  /\ Free(doc, {})
  /\ http' = [http EXCEPT ![t] =
       [Ready EXCEPT !.step = "insert", !.doc = doc]]
  /\ UNCHANGED <<windows, now>>

Insert(t, w) ==
  /\ At(t, "insert")
  /\ windows[w].state = "none"
  /\ windows' = [windows EXCEPT ![w] = http[t].doc]
  /\ Wrote(t)
  /\ UNCHANGED now

\* applyWindowUpdates: what the request leaves out stays.
Completed(old, enabled, start, end) ==
  [old EXCEPT !.enabled = enabled,
              !.start = IF start = Unset THEN @ ELSE start,
              !.end = IF end = Unset THEN @ ELSE end]

\* UpdateMaintenanceWindow: the window is read and the times completed; a new
\* start must not be in the past.
UpdateRead(t, w, enabled, start, end) ==
  LET old == windows[w]
      doc == Completed(old, enabled, start, end)
  IN /\ At(t, "ready")
     /\ Live(w)
     /\ doc.start # old.start => now <= doc.start
     /\ ValidTimeRange(doc)
     /\ http' = [http EXCEPT ![t] =
          [Ready EXCEPT !.step = "check", !.ids = {w}, !.doc = doc]]
     /\ UNCHANGED <<windows, now>>

UpdateCheck(t) ==
  /\ At(t, "check")
  /\ IF Free(http[t].doc, http[t].ids)
     THEN http' = [http EXCEPT ![t].step = "write"]
     ELSE Done(t)
  /\ UNCHANGED <<windows, now>>

\* Mutants: the whole document is replaced; only what changed is written.
WriteWhole(old, doc) == doc
WriteEndOnly(old, doc) ==
  [old EXCEPT !.enabled = doc.enabled, !.end = doc.end]

\* db.UpdateMaintenanceWindow: $set on the document with this id, be it
\* deleted meanwhile.
Write(old, doc) ==
  [old EXCEPT !.enabled = doc.enabled, !.start = doc.start, !.end = doc.end]

UpdateWrite(t) ==
  /\ At(t, "write")
  /\ windows' = [w \in Window |-> IF w \in http[t].ids
                                  THEN Write(windows[w], http[t].doc)
                                  ELSE windows[w]]
  /\ Wrote(t)
  /\ UNCHANGED now

\* DeleteMaintenanceWindow: looked up, then marked if it still is not deleted.
DeleteRead(t, w) ==
  /\ At(t, "ready")
  /\ Live(w)
  /\ http' = [http EXCEPT ![t] = [Ready EXCEPT !.step = "delete", !.ids = {w}]]
  /\ UNCHANGED <<windows, now>>

DeleteWrite(t) ==
  /\ At(t, "delete")
  /\ windows' = [w \in Window |-> IF w \in http[t].ids /\ Live(w)
                                  THEN [windows[w] EXCEPT !.state = "deleted"]
                                  ELSE windows[w]]
  /\ Wrote(t)
  /\ UNCHANGED now

\* The call to the database fails, or the server dies.
Abandon(t) ==
  /\ ~At(t, "ready")
  /\ Done(t)
  /\ UNCHANGED <<windows, now>>

Tick ==
  /\ now < MaxTime
  /\ now' = now + 1
  /\ UNCHANGED <<windows, http>>

-------------------------------------------------------------------------------
\* isWindowActive.
Active(w) ==
  /\ w \in NotDeleted /\ windows[w].enabled
  /\ windows[w].start - Warning < now
  /\ now < windows[w].end

\* Mutant: the window announced last.
UserViewLatest ==
  {w \in Window : Active(w) /\
     \A v \in Window : Active(v) => windows[v].start <= windows[w].start}

\* buildUserResponses: the active window that starts first is what the portal
\* shows; of two that start together, the one the database returns first.
UserView ==
  {w \in Window : Active(w) /\
     \A v \in Window : Active(v) => windows[w].start <= windows[v].start}

-------------------------------------------------------------------------------
WindowsInit ==
  /\ windows = [w \in Window |-> NoWindow]
  /\ http = [t \in Thread |-> Ready]
  /\ now = 0

Handle(t) ==
  \/ \E enabled \in BOOLEAN, start, end \in Time :
       Create(t, [state |-> "live", enabled |-> enabled, start |-> start, end |-> end])
  \/ \E w \in Window :
       \/ Insert(t, w) \/ DeleteRead(t, w)
       \/ \E enabled \in BOOLEAN, start, end \in Time \union {Unset} :
            UpdateRead(t, w, enabled, start, end)
  \/ UpdateCheck(t) \/ UpdateWrite(t) \/ DeleteWrite(t) \/ Abandon(t)

WindowsNext == Tick \/ \E t \in Thread : Handle(t)

WindowsSpec == WindowsInit /\ [][WindowsNext]_windowVars

-------------------------------------------------------------------------------
\* The types of the variables.
WindowsTypeOK ==
  /\ windows \in [Window -> Document]
  /\ http \in [Thread -> [step : {"ready", "insert", "check", "write", "delete"},
                          ids : SUBSET Window, doc : Document,
                          stale : BOOLEAN]]
  /\ now \in Time

Clash(v, w) ==
  /\ v # w
  /\ Live(v) /\ Live(w)
  /\ windows[v].enabled /\ windows[w].enabled
  /\ Overlap(windows[v], windows[w])

\* Two enabled windows come to overlap only when another handler wrote between
\* the check and the write of this one: one administrator at a time never
\* makes an overlap ("Start time overlaps with existing maintenance window").
OverlapNeedsRace ==
  [][(\E v, w \in Window : Clash(v, w)' /\ ~Clash(v, w)) =>
       \E t \in Thread : /\ http[t].step \in {"insert", "write"}
                         /\ http'[t] = Ready
                         /\ http[t].stale]_windowVars

\* Whatever two updates of one window interleave, it ends after it starts: each
\* of them writes both times, though the request may name only one.
WindowsWellFormed ==
  \A w \in Window : windows[w].state # "none" => ValidTimeRange(windows[w])

\* A deleted window stays deleted, though an update that read it before may be
\* written after.
DeletedWindowStaysDeleted ==
  [][\A w \in Window : windows[w].state = "deleted" => windows'[w].state = "deleted"]_windowVars

\* During an enabled window the portal shows that one, and not an earlier or a
\* later one, unless it overlaps with another.
CurrentWindowShown ==
  \A w \in Window :
    /\ Live(w) /\ windows[w].enabled
    /\ windows[w].start <= now /\ now < windows[w].end
    => UserView = {w} \/ \E v \in Window : Clash(v, w)

===============================================================================
