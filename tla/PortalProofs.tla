----------------------------- MODULE PortalProofs -----------------------------
(***************************************************************************)
(* Theorems about MaintenanceWindows, for any number of windows and of     *)
(* administrators at work at once; about Feedback, for any number of forms *)
(* and any limit; and about Reminders, for any services and any lease.     *)
(***************************************************************************)
EXTENDS MaintenanceWindows, Feedback, Reminders, FiniteSetTheorems, TLAPS

Steps == {"ready", "insert", "check", "write", "delete"}

Handler == [step : Steps, ids : SUBSET Window, doc : Document, stale : BOOLEAN]

\* What a handler is about to write ends after it starts.
Planned(t) == http[t].step \in {"insert", "check", "write"} => ValidTimeRange(http[t].doc)

RangeInv == WindowsWellFormed /\ \A t \in Thread : Planned(t)

\* A handler works on the one window it read, or on a new one; and unless
\* somebody wrote since its check, what it is about to write still is free.
Checked(t) ==
  /\ http[t].step \in {"check", "write"} => \E w \in Window : http[t].ids = {w}
  /\ http[t].step = "insert" => http[t].ids = {}
  /\ http[t].step \in {"insert", "write"} /\ ~http[t].stale
       => Free(http[t].doc, http[t].ids)

CheckInv == WindowsTypeOK /\ \A t \in Thread : Checked(t)

-------------------------------------------------------------------------------
LEMMA ReadyIsHandler == Ready \in Handler
  BY WindowsAssumption DEF Ready, Handler, Steps, Document, NoWindow, Time

LEMMA WroteTyped ==
  ASSUME WindowsTypeOK, NEW t \in Thread, Wrote(t)
  PROVE  http' \in [Thread -> Handler]
<1> SUFFICES ASSUME NEW u \in Thread
             PROVE  (IF u = t THEN Ready
                     ELSE [http[u] EXCEPT !.stale = http[u].step \in {"insert", "write"}])
                      \in Handler
  BY DEF Wrote
<1>1. http[u] \in Handler
  BY DEF WindowsTypeOK, Handler, Steps
<1> DEFINE outdated == http[u].step \in {"insert", "write"}
<1>2. outdated \in BOOLEAN
  OBVIOUS
<1>3. \A b \in BOOLEAN : [http[u] EXCEPT !.stale = b] \in Handler
  BY <1>1 DEF Handler
<1>4. [http[u] EXCEPT !.stale = outdated] \in Handler
  <2> HIDE DEF outdated
  <2> QED BY <1>2, <1>3
<1> QED BY <1>4, ReadyIsHandler

\* What an update completes is a document.
LEMMA CompletedTyped ==
  ASSUME NEW old \in Document, NEW enabled \in BOOLEAN,
         NEW start \in Time \union {Unset}, NEW end \in Time \union {Unset}
  PROVE  Completed(old, enabled, start, end) \in Document
  BY WindowsAssumption DEF Completed, Document, Time, Unset

LEMMA WriteTyped ==
  ASSUME NEW old \in Document, NEW doc \in Document
  PROVE  Write(old, doc) \in Document
  BY DEF Write, Document

LEMMA TypeInit == WindowsInit => WindowsTypeOK
  BY ReadyIsHandler, WindowsAssumption
     DEF WindowsInit, WindowsTypeOK, Handler, Steps, NoWindow, Document, Time

LEMMA TypeStep ==
  ASSUME WindowsTypeOK, [WindowsNext]_windowVars
  PROVE  WindowsTypeOK'
<1> USE DEF WindowsTypeOK
<1> SUFFICES /\ windows' \in [Window -> Document]
             /\ http' \in [Thread -> Handler]
             /\ now' \in Time
  BY DEF Handler, Steps
<1>0. http \in [Thread -> Handler]
  BY DEF Handler, Steps
<1>1. CASE UNCHANGED windowVars
  BY <1>0, <1>1 DEF windowVars
<1>2. CASE Tick
  BY <1>0, <1>2, WindowsAssumption DEF Tick, Time
<1>3. ASSUME NEW t \in Thread, NEW enabled \in BOOLEAN, NEW start \in Time, NEW end \in Time,
             Create(t, [state |-> "live", enabled |-> enabled, start |-> start, end |-> end])
      PROVE  WindowsTypeOK'
  <2> DEFINE doc == [state |-> "live", enabled |-> enabled, start |-> start, end |-> end]
  <2>1. doc \in Document
    BY DEF Document
  <2>2. [Ready EXCEPT !.step = "insert", !.doc = doc] \in Handler
    BY <2>1, ReadyIsHandler DEF Handler, Steps
  <2> QED BY <1>0, <1>3, <2>2 DEF Create, Handler, Steps
<1>4. ASSUME NEW t \in Thread, NEW w \in Window, Insert(t, w)
      PROVE  WindowsTypeOK'
  BY <1>4, WroteTyped DEF Insert, Handler, Steps
<1>5. ASSUME NEW t \in Thread, NEW w \in Window, DeleteRead(t, w)
      PROVE  WindowsTypeOK'
  <2>1. [Ready EXCEPT !.step = "delete", !.ids = {w}] \in Handler
    BY ReadyIsHandler DEF Handler, Steps
  <2> QED BY <1>0, <1>5, <2>1 DEF DeleteRead, Handler, Steps
<1>6. ASSUME NEW t \in Thread, NEW w \in Window, NEW enabled \in BOOLEAN,
             NEW start \in Time \union {Unset}, NEW end \in Time \union {Unset},
             UpdateRead(t, w, enabled, start, end)
      PROVE  WindowsTypeOK'
  <2> DEFINE doc == Completed(windows[w], enabled, start, end)
  <2>1. doc \in Document
    BY CompletedTyped
  <2>2. [Ready EXCEPT !.step = "check", !.ids = {w}, !.doc = doc] \in Handler
    BY <2>1, ReadyIsHandler DEF Handler, Steps
  <2> QED BY <1>0, <1>6, <2>2 DEF UpdateRead, Handler, Steps
<1>7. ASSUME NEW t \in Thread, UpdateCheck(t)
      PROVE  WindowsTypeOK'
  BY <1>0, <1>7, ReadyIsHandler DEF UpdateCheck, Done, Handler, Steps
<1>8. ASSUME NEW t \in Thread, UpdateWrite(t)
      PROVE  WindowsTypeOK'
  <2>1. windows' \in [Window -> Document]
    <3>1. http[t].doc \in Document
      BY <1>0 DEF Handler
    <3>2. \A w \in Window : Write(windows[w], http[t].doc) \in Document
      BY <3>1, WriteTyped
    <3> QED BY <1>8, <3>2 DEF UpdateWrite
  <2> QED BY <1>8, <2>1, WroteTyped DEF UpdateWrite, Handler, Steps
<1>9. ASSUME NEW t \in Thread, DeleteWrite(t)
      PROVE  WindowsTypeOK'
  <2>1. windows' \in [Window -> Document]
    BY <1>9 DEF DeleteWrite, Document
  <2> QED BY <1>9, <2>1, WroteTyped DEF DeleteWrite, Handler, Steps
<1>10. ASSUME NEW t \in Thread, Abandon(t)
       PROVE  WindowsTypeOK'
  BY <1>0, <1>10, ReadyIsHandler DEF Abandon, Done, Handler, Steps
<1> QED
  BY <1>1, <1>2, <1>3, <1>4, <1>5, <1>6, <1>7, <1>8, <1>9, <1>10
     DEF WindowsNext, Handle, Handler, Steps

\* Windows, handlers and the clock have their types in every reachable state.
THEOREM WindowsTypeCorrect == WindowsSpec => []WindowsTypeOK
  BY TypeInit, TypeStep, PTL DEF WindowsSpec

-------------------------------------------------------------------------------
(***************************************************************************)
(* A window that is not "none" is written as a whole, both times at once,  *)
(* from a document whose times were checked: ValidTimeRange of what the handlers    *)
(* carry makes WindowsWellFormed inductive.                                *)
(***************************************************************************)
LEMMA WrittenRange ==
  ASSUME NEW old \in Document, NEW doc \in Document, ValidTimeRange(doc)
  PROVE  ValidTimeRange(Write(old, doc))
  BY DEF Write, ValidTimeRange, Document

\* What others plan is not touched by a write.
LEMMA WrotePlanned ==
  ASSUME WindowsTypeOK, \A u \in Thread : Planned(u), NEW t \in Thread, Wrote(t)
  PROVE  \A u \in Thread : Planned(u)'
<1> SUFFICES ASSUME NEW u \in Thread PROVE Planned(u)'
  OBVIOUS
<1>1. http'[u].step \in {"insert", "check", "write"}
        => http'[u].step = http[u].step /\ http'[u].doc = http[u].doc
  BY DEF Wrote, Ready, WindowsTypeOK
<1> QED BY <1>1 DEF Planned, ValidTimeRange

LEMMA RangeStep ==
  ASSUME WindowsTypeOK, RangeInv, [WindowsNext]_windowVars
  PROVE  RangeInv'
<1> DEFINE Kept == (\A w \in Window : windows[w].state # "none" => ValidTimeRange(windows[w]))'
<1> SUFFICES Kept /\ \A u \in Thread : Planned(u)'
  BY DEF RangeInv, WindowsWellFormed, ValidTimeRange
<1>0. /\ \A w \in Window : windows[w].state # "none" => ValidTimeRange(windows[w])
      /\ \A u \in Thread : Planned(u)
  BY DEF RangeInv, WindowsWellFormed
<1>a. http \in [Thread -> Handler] /\ windows \in [Window -> Document]
  BY DEF WindowsTypeOK, Handler, Steps
<1>b. ASSUME windows' = windows PROVE Kept
  BY <1>0, <1>b DEF ValidTimeRange
<1>1. CASE UNCHANGED windowVars
  BY <1>0, <1>1, <1>b DEF windowVars, Planned, ValidTimeRange
<1>2. CASE Tick
  BY <1>0, <1>2, <1>b DEF Tick, Planned, ValidTimeRange
<1>3. ASSUME NEW t \in Thread, NEW enabled \in BOOLEAN, NEW start \in Time, NEW end \in Time,
             Create(t, [state |-> "live", enabled |-> enabled, start |-> start, end |-> end])
      PROVE  Kept /\ \A u \in Thread : Planned(u)'
  BY <1>0, <1>3, <1>a, <1>b DEF Create, Planned, ValidTimeRange, Ready
<1>4. ASSUME NEW t \in Thread, NEW w \in Window, Insert(t, w)
      PROVE  Kept /\ \A u \in Thread : Planned(u)'
  <2>1. Kept
    BY <1>0, <1>4, <1>a DEF Insert, At, Planned, ValidTimeRange
  <2> QED BY <1>0, <1>4, <2>1, WrotePlanned DEF Insert
<1>5. ASSUME NEW t \in Thread, NEW w \in Window, DeleteRead(t, w)
      PROVE  Kept /\ \A u \in Thread : Planned(u)'
  BY <1>0, <1>5, <1>a, <1>b DEF DeleteRead, Planned, ValidTimeRange, Ready
<1>6. ASSUME NEW t \in Thread, NEW w \in Window, NEW enabled \in BOOLEAN,
             NEW start \in Time \union {Unset}, NEW end \in Time \union {Unset},
             UpdateRead(t, w, enabled, start, end)
      PROVE  Kept /\ \A u \in Thread : Planned(u)'
  <2> DEFINE doc == Completed(windows[w], enabled, start, end)
  <2>1. ValidTimeRange(doc) /\ windows' = windows
        /\ http' = [http EXCEPT ![t] = [Ready EXCEPT !.step = "check", !.ids = {w}, !.doc = doc]]
    BY <1>6 DEF UpdateRead
  <2> HIDE DEF doc
  <2> QED BY <1>0, <2>1, <1>a, <1>b DEF Planned, ValidTimeRange, Ready
<1>7. ASSUME NEW t \in Thread, UpdateCheck(t)
      PROVE  Kept /\ \A u \in Thread : Planned(u)'
  BY <1>0, <1>7, <1>a, <1>b DEF UpdateCheck, Done, At, Planned, ValidTimeRange, Ready, Handler
<1>8. ASSUME NEW t \in Thread, UpdateWrite(t)
      PROVE  Kept /\ \A u \in Thread : Planned(u)'
  <2>1. http[t].doc \in Document /\ ValidTimeRange(http[t].doc)
    BY <1>0, <1>8, <1>a DEF UpdateWrite, At, Planned, Handler
  <2>2. \A w \in Window : ValidTimeRange(Write(windows[w], http[t].doc))
    BY <2>1, <1>a, WrittenRange
  <2>3. ASSUME NEW w \in Window, windows'[w].state # "none" PROVE ValidTimeRange(windows'[w])
    <3>1. CASE w \in http[t].ids
      BY <1>8, <2>2, <3>1 DEF UpdateWrite
    <3>2. CASE w \notin http[t].ids
      BY <1>0, <1>8, <2>3, <3>2 DEF UpdateWrite
    <3> QED BY <3>1, <3>2
  <2>4. Kept
    BY <2>3 DEF ValidTimeRange
  <2> QED BY <1>0, <1>8, <2>4, WrotePlanned DEF UpdateWrite
<1>9. ASSUME NEW t \in Thread, DeleteWrite(t)
      PROVE  Kept /\ \A u \in Thread : Planned(u)'
  <2>1. Kept
    BY <1>0, <1>9, <1>a DEF DeleteWrite, Live, ValidTimeRange, Document
  <2> QED BY <1>0, <1>9, <2>1, WrotePlanned DEF DeleteWrite
<1>10. ASSUME NEW t \in Thread, Abandon(t)
       PROVE  Kept /\ \A u \in Thread : Planned(u)'
  BY <1>0, <1>10, <1>a, <1>b DEF Abandon, Done, Planned, ValidTimeRange, Ready
<1> QED
  BY <1>1, <1>2, <1>3, <1>4, <1>5, <1>6, <1>7, <1>8, <1>9, <1>10 DEF WindowsNext, Handle

LEMMA RangeInit == WindowsInit => RangeInv
  BY DEF WindowsInit, RangeInv, WindowsWellFormed, Planned, NoWindow, Ready

\* Whatever updates of a window interleave, it ends after it starts.
THEOREM WellFormed == WindowsSpec => []WindowsWellFormed
<1>1. RangeInv => WindowsWellFormed
  BY DEF RangeInv
<1> QED BY <1>1, WindowsTypeCorrect, RangeInit, RangeStep, PTL DEF WindowsSpec

-------------------------------------------------------------------------------
\* An insert takes an id nobody had, and an update leaves the mark alone.
LEMMA DeletedStep ==
  ASSUME WindowsTypeOK, [WindowsNext]_windowVars
  PROVE  \A w \in Window : windows[w].state = "deleted" => windows'[w].state = "deleted"
<1> SUFFICES ASSUME NEW w \in Window, windows[w].state = "deleted", windows' # windows
             PROVE  windows'[w].state = "deleted"
  OBVIOUS
<1>a. windows \in [Window -> Document]
  BY DEF WindowsTypeOK
<1>1. ASSUME NEW t \in Thread, NEW v \in Window, Insert(t, v)
      PROVE  windows'[w].state = "deleted"
  BY <1>1, <1>a DEF Insert
<1>2. ASSUME NEW t \in Thread, UpdateWrite(t)
      PROVE  windows'[w].state = "deleted"
  BY <1>2, <1>a DEF UpdateWrite, Write, Document
<1>3. ASSUME NEW t \in Thread, DeleteWrite(t)
      PROVE  windows'[w].state = "deleted"
  BY <1>3, <1>a DEF DeleteWrite, Live
<1>4. \A t \in Thread :
        /\ ~UpdateCheck(t) /\ ~Abandon(t)
        /\ \A doc : ~Create(t, doc)
        /\ \A v : ~DeleteRead(t, v)
        /\ \A v, enabled, start, end : ~UpdateRead(t, v, enabled, start, end)
  BY DEF UpdateCheck, Abandon, Create, DeleteRead, UpdateRead
<1>5. WindowsNext /\ ~Tick
  BY DEF windowVars, Tick
<1> QED BY <1>1, <1>2, <1>3, <1>4, <1>5 DEF WindowsNext, Handle

\* Nothing brings a deleted window back, be it an update that read it before.
THEOREM DeletedForGood == WindowsSpec => DeletedWindowStaysDeleted
<1> DEFINE Kept == \A w \in Window :
                     windows[w].state = "deleted" => windows'[w].state = "deleted"
<1>1. WindowsTypeOK /\ [WindowsNext]_windowVars => [Kept]_windowVars
  BY DeletedStep
<1>2. WindowsSpec => [][Kept]_windowVars
  <2> HIDE DEF Kept
  <2> QED BY <1>1, WindowsTypeCorrect, PTL DEF WindowsSpec
<1> QED BY <1>2 DEF DeletedWindowStaysDeleted

-------------------------------------------------------------------------------
(***************************************************************************)
(* Overlaps. The check reads all windows at once, so when a handler's      *)
(* check passes its document is free; it stays free until somebody writes, *)
(* and every write marks the handlers that are past their check as stale.  *)
(***************************************************************************)
LEMMA CheckInit == WindowsInit => CheckInv
  BY TypeInit DEF WindowsInit, CheckInv, Checked, Ready

\* A write leaves no handler past its check but stale ones.
LEMMA WroteChecked ==
  ASSUME WindowsTypeOK, \A u \in Thread : Checked(u), NEW t \in Thread, Wrote(t)
  PROVE  \A u \in Thread : Checked(u)'
<1> SUFFICES ASSUME NEW u \in Thread PROVE Checked(u)'
  OBVIOUS
<1>1. CASE u = t
  BY <1>1 DEF Wrote, Checked, Ready
<1>2. CASE u # t
  <2>1. http'[u] = [http[u] EXCEPT !.stale = http[u].step \in {"insert", "write"}]
    BY <1>2 DEF Wrote
  <2>2. /\ http'[u].step = http[u].step /\ http'[u].ids = http[u].ids
        /\ http[u].step \in {"insert", "write"} => http'[u].stale
    BY <2>1 DEF WindowsTypeOK
  <2> QED BY <2>2 DEF Checked
<1> QED BY <1>1, <1>2

\* A step of one handler that writes nothing.
LEMMA OneHandler ==
  ASSUME \A u \in Thread : Checked(u), NEW t \in Thread, NEW h,
         http \in [Thread -> Handler],
         windows' = windows, http' = [http EXCEPT ![t] = h], Checked(t)'
  PROVE  \A u \in Thread : Checked(u)'
  BY DEF Checked, Free, NotDeleted, Live

LEMMA CheckStep ==
  ASSUME CheckInv, [WindowsNext]_windowVars
  PROVE  CheckInv'
<1> SUFFICES \A u \in Thread : Checked(u)'
  BY TypeStep DEF CheckInv
<1>0. WindowsTypeOK /\ \A u \in Thread : Checked(u)
  BY DEF CheckInv
<1>a. http \in [Thread -> Handler]
  BY <1>0 DEF WindowsTypeOK, Handler, Steps
<1>1. CASE UNCHANGED windowVars
  BY <1>0, <1>1 DEF windowVars, Checked, Free, NotDeleted, Live
<1>2. CASE Tick
  BY <1>0, <1>2 DEF Tick, Checked, Free, NotDeleted, Live
<1>3. ASSUME NEW t \in Thread, NEW enabled \in BOOLEAN, NEW start \in Time, NEW end \in Time,
             Create(t, [state |-> "live", enabled |-> enabled, start |-> start, end |-> end])
      PROVE  \A u \in Thread : Checked(u)'
  <2> DEFINE doc == [state |-> "live", enabled |-> enabled, start |-> start, end |-> end]
             h == [Ready EXCEPT !.step = "insert", !.doc = doc]
  <2>1. Free(doc, {}) /\ windows' = windows /\ http' = [http EXCEPT ![t] = h]
    BY <1>3 DEF Create
  <2>2. h.step = "insert" /\ h.ids = {} /\ h.doc = doc
    BY DEF Ready
  <2>3. http'[t] = h
    BY <2>1, <1>a
  <2>4. Checked(t)'
    <3> HIDE DEF doc, h
    <3> QED BY <2>1, <2>2, <2>3 DEF Checked, Free, NotDeleted, Live
  <2> QED BY <1>0, <1>a, <2>1, <2>4, OneHandler
<1>4. ASSUME NEW t \in Thread, NEW w \in Window, Insert(t, w)
      PROVE  \A u \in Thread : Checked(u)'
  BY <1>0, <1>4, WroteChecked DEF Insert
<1>5. ASSUME NEW t \in Thread, NEW w \in Window, DeleteRead(t, w)
      PROVE  \A u \in Thread : Checked(u)'
  <2> DEFINE h == [Ready EXCEPT !.step = "delete", !.ids = {w}]
  <2>1. windows' = windows /\ http' = [http EXCEPT ![t] = h]
    BY <1>5 DEF DeleteRead
  <2>2. Checked(t)'
    BY <2>1, <1>a DEF Checked, Ready
  <2> QED BY <1>0, <1>a, <2>1, <2>2, OneHandler
<1>6. ASSUME NEW t \in Thread, NEW w \in Window, NEW enabled \in BOOLEAN,
             NEW start \in Time \union {Unset}, NEW end \in Time \union {Unset},
             UpdateRead(t, w, enabled, start, end)
      PROVE  \A u \in Thread : Checked(u)'
  <2> DEFINE doc == Completed(windows[w], enabled, start, end)
             h == [Ready EXCEPT !.step = "check", !.ids = {w}, !.doc = doc]
  <2>1. windows' = windows /\ http' = [http EXCEPT ![t] = h]
    BY <1>6 DEF UpdateRead
  <2>2. Checked(t)'
    <3> HIDE DEF doc
    <3> QED BY <2>1, <1>a DEF Checked, Ready
  <2> QED BY <1>0, <1>a, <2>1, <2>2, OneHandler
<1>7. ASSUME NEW t \in Thread, UpdateCheck(t)
      PROVE  \A u \in Thread : Checked(u)'
  <2>1. CASE Free(http[t].doc, http[t].ids)
    <3> DEFINE h == [http[t] EXCEPT !.step = "write"]
    <3>1. windows' = windows /\ http' = [http EXCEPT ![t] = h]
      BY <1>7, <2>1 DEF UpdateCheck
    <3>2. h.step = "write" /\ h.ids = http[t].ids /\ h.doc = http[t].doc
      BY <1>a DEF Handler
    <3>3. \E w \in Window : http[t].ids = {w}
      BY <1>0, <1>7 DEF UpdateCheck, At, Checked
    <3>4. Checked(t)'
      <4> HIDE DEF h
      <4>1. http'[t] = h
        BY <3>1, <1>a
      <4> QED BY <2>1, <3>1, <3>2, <3>3, <4>1 DEF Checked, Free, NotDeleted, Live
    <3> QED BY <1>0, <1>a, <3>1, <3>4, OneHandler
  <2>2. CASE ~Free(http[t].doc, http[t].ids)
    <3>1. windows' = windows /\ http' = [http EXCEPT ![t] = Ready]
      BY <1>7, <2>2 DEF UpdateCheck, Done
    <3>2. Checked(t)'
      BY <3>1, <1>a DEF Checked, Ready
    <3> QED BY <1>0, <1>a, <3>1, <3>2, OneHandler
  <2> QED BY <2>1, <2>2
<1>8. ASSUME NEW t \in Thread, UpdateWrite(t)
      PROVE  \A u \in Thread : Checked(u)'
  BY <1>0, <1>8, WroteChecked DEF UpdateWrite
<1>9. ASSUME NEW t \in Thread, DeleteWrite(t)
      PROVE  \A u \in Thread : Checked(u)'
  BY <1>0, <1>9, WroteChecked DEF DeleteWrite
<1>10. ASSUME NEW t \in Thread, Abandon(t)
       PROVE  \A u \in Thread : Checked(u)'
  <2>1. windows' = windows /\ http' = [http EXCEPT ![t] = Ready]
    BY <1>10 DEF Abandon, Done
  <2>2. Checked(t)'
    BY <2>1, <1>a DEF Checked, Ready
  <2> QED BY <1>0, <1>a, <2>1, <2>2, OneHandler
<1> QED
  BY <1>1, <1>2, <1>3, <1>4, <1>5, <1>6, <1>7, <1>8, <1>9, <1>10 DEF WindowsNext, Handle

\* The handler that writes is done, and what it was is still known.
LEMMA WroteReady ==
  ASSUME NEW t \in Thread, Wrote(t)
  PROVE  http'[t] = Ready
  BY DEF Wrote

(***************************************************************************)
(* If window x takes the times of a document that is free apart from x     *)
(* itself and nothing else changes, x clashes with no other window.        *)
(***************************************************************************)
LEMMA FreeNoClash ==
  ASSUME NEW x \in Window, NEW w \in Window, NEW own \in SUBSET Window, NEW doc,
         Free(doc, own), w \notin own, w # x, windows'[w] = windows[w],
         windows'[x].start = doc.start, windows'[x].end = doc.end
  PROVE  ~Clash(x, w)' /\ ~Clash(w, x)'
  BY DEF Free, NotDeleted, Live, Clash, Overlap

LEMMA OverlapStep ==
  ASSUME CheckInv, [WindowsNext]_windowVars,
         NEW v \in Window, NEW w \in Window, Clash(v, w)', ~Clash(v, w)
  PROVE  \E t \in Thread : /\ http[t].step \in {"insert", "write"}
                           /\ http'[t] = Ready
                           /\ http[t].stale
<1>0. WindowsTypeOK /\ \A u \in Thread : Checked(u)
  BY DEF CheckInv
<1>a. windows \in [Window -> Document]
  BY <1>0 DEF WindowsTypeOK
<1>b. windows'[v] # windows[v] \/ windows'[w] # windows[w]
  BY DEF Clash, Live
<1>c. v # w
  BY DEF Clash
<1>1. ASSUME NEW t \in Thread, NEW x \in Window, Insert(t, x), ~http[t].stale
      PROVE  FALSE
  <2>1. Free(http[t].doc, {})
    BY <1>0, <1>1 DEF Insert, At, Checked
  <2>2. windows'[x] = http[t].doc /\ \A y \in Window \ {x} : windows'[y] = windows[y]
    BY <1>1, <1>a DEF Insert
  <2>3. \A y \in Window \ {x} : ~Clash(x, y)' /\ ~Clash(y, x)'
    BY <2>1, <2>2, FreeNoClash
  <2> QED BY <2>2, <2>3, <1>b, <1>c
<1>2. ASSUME NEW t \in Thread, UpdateWrite(t), ~http[t].stale
      PROVE  FALSE
  <2>1. Free(http[t].doc, http[t].ids)
    BY <1>0, <1>2 DEF UpdateWrite, At, Checked
  <2>2. PICK x \in Window : http[t].ids = {x}
    BY <1>0, <1>2 DEF UpdateWrite, At, Checked
  <2>3. /\ windows'[x].start = http[t].doc.start /\ windows'[x].end = http[t].doc.end
        /\ \A y \in Window \ {x} : windows'[y] = windows[y]
    BY <1>2, <1>a, <2>2 DEF UpdateWrite, Write, Document
  <2>4. \A y \in Window \ {x} : ~Clash(x, y)' /\ ~Clash(y, x)'
    BY <2>1, <2>2, <2>3, FreeNoClash
  <2> QED BY <2>3, <2>4, <1>b, <1>c
<1>3. ASSUME NEW t \in Thread, DeleteWrite(t)
      PROVE  FALSE
  <2>1. \A y \in Window : windows'[y] = windows[y] \/ windows'[y].state = "deleted"
    BY <1>3, <1>a DEF DeleteWrite, Document
  <2> QED BY <2>1, <1>b DEF Clash, Live
<1>4. \A t \in Thread :
        /\ ~UpdateCheck(t) /\ ~Abandon(t)
        /\ \A doc : ~Create(t, doc)
        /\ \A y : ~DeleteRead(t, y)
        /\ \A y, enabled, start, end : ~UpdateRead(t, y, enabled, start, end)
  BY <1>b DEF UpdateCheck, Abandon, Create, DeleteRead, UpdateRead
<1>5. WindowsNext /\ ~Tick
  BY <1>b DEF windowVars, Tick
<1>6. \E t \in Thread : UpdateWrite(t) \/ \E x \in Window : Insert(t, x)
  BY <1>3, <1>4, <1>5 DEF WindowsNext, Handle
<1>7. PICK t \in Thread : UpdateWrite(t) \/ \E x \in Window : Insert(t, x)
  BY <1>6
<1>8. http[t].step \in {"insert", "write"} /\ http'[t] = Ready
  BY <1>7, WroteReady DEF UpdateWrite, Insert, At
<1>9. http[t].stale
  BY <1>1, <1>2, <1>7
<1> QED BY <1>8, <1>9

\* Only a handler whose check is out of date makes two enabled windows overlap.
THEOREM OnlyRacesOverlap == WindowsSpec => OverlapNeedsRace
<1> DEFINE Raced == (\E v, w \in Window : Clash(v, w)' /\ ~Clash(v, w)) =>
                      \E t \in Thread : /\ http[t].step \in {"insert", "write"}
                                        /\ http'[t] = Ready
                                        /\ http[t].stale
<1>1. CheckInv /\ [WindowsNext]_windowVars => [Raced]_windowVars
  BY OverlapStep
<1>2. WindowsSpec => []CheckInv
  BY CheckInit, CheckStep, PTL DEF WindowsSpec
<1>3. WindowsSpec => [][Raced]_windowVars
  <2> HIDE DEF Raced
  <2> QED BY <1>1, <1>2, PTL DEF WindowsSpec
<1> QED BY <1>3 DEF OverlapNeedsRace


-------------------------------------------------------------------------------
(***************************************************************************)
(* What the portal shows during an enabled window that overlaps with no    *)
(* other: of the windows that are active it starts first, since one that   *)
(* started before has ended.                                               *)
(***************************************************************************)
LEMMA ShownAlone == WindowsTypeOK => CurrentWindowShown
<1> SUFFICES ASSUME WindowsTypeOK, NEW w \in Window, Live(w), windows[w].enabled,
                    windows[w].start <= now, now < windows[w].end,
                    \A v \in Window : ~Clash(v, w)
             PROVE  UserView = {w}
  BY DEF CurrentWindowShown
<1>1. /\ now \in Int /\ \A v \in Window : windows[v].start \in Int /\ windows[v].end \in Int
      /\ Warning \in Int /\ Warning > 0
  BY WindowsAssumption DEF WindowsTypeOK, Document, Time
<1>2. Active(w)
  BY <1>1 DEF Active, NotDeleted
<1>3. ASSUME NEW v \in Window \ {w}, Active(v) PROVE windows[w].start < windows[v].start
  <2>1. Live(v) /\ windows[v].enabled /\ now < windows[v].end
    BY <1>3 DEF Active, NotDeleted
  <2>2. ~Overlap(windows[v], windows[w])
    BY <2>1 DEF Clash
  <2> QED BY <1>1, <2>1, <2>2 DEF Overlap
<1>4. \A v \in Window : Active(v) => windows[w].start <= windows[v].start
  BY <1>1, <1>3
<1>5. \A v \in Window \ {w} : Active(v) => ~(windows[v].start <= windows[w].start)
  BY <1>1, <1>3
<1> QED BY <1>2, <1>4, <1>5 DEF UserView

\* During an enabled window the portal shows that one and no other, unless two
\* enabled windows overlap.
THEOREM WindowShown == WindowsSpec => []CurrentWindowShown
<1>1. WindowsSpec => []WindowsTypeOK
  BY TypeInit, TypeStep, PTL DEF WindowsSpec
<1> QED BY <1>1, ShownAlone, PTL

-------------------------------------------------------------------------------
(***************************************************************************)
(* The feedback of a day. While the day lasts, what is stored and what is  *)
(* about to be comes to no more than the limit, but for one form that was  *)
(* allowed and the others that were at work with it; what is still at work *)
(* at midnight may come on top. Nothing is dated in the future.            *)
(***************************************************************************)
Due(d) == {f \in Form : form[f].step = "insert" /\ form[f].day = d}
Open(d) == {f \in Form : form[f].step # "ready" /\ form[f].day = d}
Forms == Cardinality(Form)

FeedbackTypeOK ==
  /\ given \in [Day -> Nat]
  /\ form \in [Form -> [step : {"ready", "count", "insert"}, day : Day]]
  /\ today \in Day

LimitInv ==
  /\ FeedbackTypeOK
  /\ \A f \in Form : form[f].day <= today
  /\ \A d \in Day : d > today => given[d] = 0
  /\ given[today] + Cardinality(Due(today)) + 1 <= FeedbackLimit + Forms
  /\ \A d \in Day :
       d < today => given[d] + Cardinality(Open(d)) + 1 <= FeedbackLimit + 2 * Forms

LEMMA FormsCounted ==
  ASSUME NEW S \in SUBSET Form
  PROVE  /\ Forms \in Nat /\ Cardinality(S) \in Nat /\ Cardinality(S) <= Forms
         /\ \A T \in SUBSET S : Cardinality(T) <= Cardinality(S)
         /\ \A f \in S : Cardinality(S \ {f}) = Cardinality(S) - 1
<1>1. IsFiniteSet(Form) /\ IsFiniteSet(S)
  BY FS_Subset, FeedbackAssumption
<1> QED BY <1>1, FS_Subset, FS_CardinalityType, FS_RemoveElement DEF Forms

\* A day on which nothing is added.
LEMMA DayKept ==
  ASSUME NEW S \in SUBSET Form, NEW T \in SUBSET S, NEW n \in Nat, NEW m \in Nat,
         n + Cardinality(S) + 1 <= m
  PROVE  n + Cardinality(T) + 1 <= m
<1>1. Cardinality(T) <= Cardinality(S) /\ Cardinality(S) \in Nat
  BY FormsCounted
<1>2. Cardinality(T) \in Nat
  BY FormsCounted
<1> QED BY <1>1, <1>2

LEMMA LimitInit == FeedbackInit => LimitInv
<1> SUFFICES ASSUME FeedbackInit PROVE LimitInv
  OBVIOUS
<1>1. Due(today) = {} /\ today = 0 /\ given[today] = 0
  BY FeedbackAssumption DEF FeedbackInit, Due, Blank, Day
<1>2. Cardinality(Due(today)) = 0 /\ Forms \in Nat
  BY <1>1, FS_EmptySet, FormsCounted
<1>3. given[today] + Cardinality(Due(today)) + 1 <= FeedbackLimit + Forms
  BY <1>1, <1>2, FeedbackAssumption
<1>4. FeedbackTypeOK
  BY FeedbackAssumption DEF FeedbackInit, FeedbackTypeOK, Blank, Day
<1>5. \A f \in Form : form[f].day <= today
  BY DEF FeedbackInit, Blank
<1>6. \A d \in Day : ~(d < today) /\ given[d] = 0
  BY <1>1, FeedbackAssumption DEF FeedbackInit, Day
<1> QED BY <1>3, <1>4, <1>5, <1>6 DEF LimitInv

LEMMA LimitStep == LimitInv /\ [FeedbackNext]_feedbackVars => LimitInv'
<1> SUFFICES ASSUME LimitInv, [FeedbackNext]_feedbackVars PROVE LimitInv'
  OBVIOUS
<1>a. /\ today \in Nat /\ Day \subseteq Nat /\ FeedbackLimit \in Nat /\ FeedbackLimit > 0
      /\ Forms \in Nat /\ MaxDay \in Nat /\ Day = 0 .. MaxDay
  BY FormsCounted, FeedbackAssumption DEF LimitInv, FeedbackTypeOK, Day
<1>b. /\ given \in [Day -> Nat] /\ today \in Day
      /\ form \in [Form -> [step : {"ready", "count", "insert"}, day : Day]]
      /\ \A f \in Form : form[f].day <= today
      /\ \A d \in Day : d > today => given[d] = 0
  BY DEF LimitInv, FeedbackTypeOK
<1>c. \A d : Due(d) \in SUBSET Form /\ Open(d) \in SUBSET Form
             /\ Due(d)' \in SUBSET Form /\ Open(d)' \in SUBSET Form
  BY DEF Due, Open
<1>d. \A d : /\ Cardinality(Due(d)) \in Nat /\ Cardinality(Open(d)) \in Nat
             /\ Cardinality(Due(d)) <= Forms /\ Cardinality(Open(d)) <= Forms
             /\ Cardinality(Due(d)') \in Nat /\ Cardinality(Open(d)') \in Nat
             /\ Cardinality(Due(d)') <= Forms /\ Cardinality(Open(d)') <= Forms
  BY <1>c, FormsCounted
<1>e. given[today] + Cardinality(Due(today)) + 1 <= FeedbackLimit + Forms
  BY DEF LimitInv
<1>f. \A d \in Day : d < today => given[d] + Cardinality(Open(d)) + 1 <= FeedbackLimit + 2 * Forms
  BY DEF LimitInv
<1>g. ASSUME UNCHANGED <<given, today>>, FeedbackTypeOK', \A f \in Form : form'[f].day <= today,
             Due(today)' \subseteq Due(today), \A d \in Day : d < today => Open(d)' \subseteq Open(d)
      PROVE  LimitInv'
  <2>1. given[today] + Cardinality(Due(today)') + 1 <= FeedbackLimit + Forms
    BY <1>a, <1>b, <1>c, <1>e, <1>g, DayKept
  <2>2. ASSUME NEW d \in Day, d < today
        PROVE  given[d] + Cardinality(Open(d)') + 1 <= FeedbackLimit + 2 * Forms
    BY <1>a, <1>b, <1>c, <1>f, <1>g, <2>2, DayKept
  <2> QED BY <1>b, <1>g, <2>1, <2>2 DEF LimitInv
<1>h. ASSUME NEW d \in Day, d < today, given'[d] = given[d], Open(d)' \subseteq Open(d)
      PROVE  given'[d] + Cardinality(Open(d)') + 1 <= FeedbackLimit + 2 * Forms
  <2>1. Open(d) \in SUBSET Form /\ Open(d)' \in SUBSET Open(d)
    BY <1>c, <1>h
  <2>2. given[d] \in Nat /\ FeedbackLimit + 2 * Forms \in Nat
    BY <1>a, <1>b
  <2>3. given[d] + Cardinality(Open(d)) + 1 <= FeedbackLimit + 2 * Forms
    BY <1>f, <1>h
  <2>4. given[d] + Cardinality(Open(d)') + 1 <= FeedbackLimit + 2 * Forms
    BY <2>1, <2>2, <2>3, DayKept
  <2> QED BY <1>h, <2>4
<1>1. ASSUME UNCHANGED feedbackVars PROVE LimitInv'
  <2>1. FeedbackTypeOK' /\ \A f \in Form : form'[f].day <= today
    BY <1>1, <1>b DEF feedbackVars, FeedbackTypeOK
  <2>2. \A d : Due(d)' = Due(d) /\ Open(d)' = Open(d)
    BY <1>1 DEF feedbackVars, Due, Open
  <2>3. Due(today)' = Due(today)
    BY <1>1 DEF feedbackVars, Due
  <2> QED BY <1>1, <1>g, <2>1, <2>2, <2>3 DEF feedbackVars
<1>2. ASSUME Midnight PROVE LimitInv'
  <2>1. /\ today' = today + 1 /\ today' \in Day /\ today < MaxDay
        /\ given' = given /\ form' = form
    BY <1>2, <1>a DEF Midnight
  <2>2. FeedbackTypeOK' /\ (\A f \in Form : form[f].day <= today')
    BY <1>a, <1>b, <2>1 DEF FeedbackTypeOK
  <2>3. Due(today') = {} /\ Due(today)' = Due(today')
    BY <1>a, <1>b, <2>1 DEF Due
  <2>4. given[today'] = 0 /\ Cardinality(Due(today)') = 0
    <3>1. Cardinality({}) = 0
      BY FS_EmptySet
    <3>2. today' > today
      BY <1>a, <2>1
    <3> QED BY <1>b, <2>1, <2>3, <3>1, <3>2
  <2>5. given[today'] + Cardinality(Due(today)') + 1 <= FeedbackLimit + Forms
    BY <1>a, <2>4
  <2>6. ASSUME NEW d \in Day, d < today'
        PROVE  given[d] + Cardinality(Open(d)') + 1 <= FeedbackLimit + 2 * Forms
    <3>1. Open(d)' = Open(d)
      BY <2>1 DEF Open
    <3>2. CASE d < today
      BY <1>f, <3>1, <3>2
    <3>3. CASE d = today
      <4>1. /\ given[d] \in Nat /\ Cardinality(Open(d)) \in Nat /\ Cardinality(Open(d)) <= Forms
            /\ Cardinality(Due(d)) \in Nat
        BY <1>b, <1>d
      <4>2. given[d] + Cardinality(Due(d)) + 1 <= FeedbackLimit + Forms
        BY <1>e, <3>3
      <4> QED BY <1>a, <3>1, <4>1, <4>2
    <3> QED BY <1>a, <2>1, <2>6, <3>2, <3>3
  <2>7. \A d \in Day : d > today' => given[d] = 0
    BY <1>a, <1>b, <2>1
  <2> QED BY <2>1, <2>2, <2>5, <2>6, <2>7 DEF LimitInv
<1>3. ASSUME NEW f \in Form, Submit(f) PROVE LimitInv'
  <2>1. /\ form' = [form EXCEPT ![f] = [step |-> "count", day |-> today]]
        /\ UNCHANGED <<given, today>> /\ form[f].step = "ready"
    BY <1>3 DEF Submit
  <2>2. FeedbackTypeOK' /\ \A g \in Form : form'[g].day <= today
    BY <1>a, <1>b, <2>1 DEF FeedbackTypeOK
  <2>3. Due(today)' \subseteq Due(today)
    BY <1>b, <2>1 DEF Due
  <2>4. \A d \in Day : d < today => Open(d)' \subseteq Open(d)
    BY <1>a, <1>b, <2>1 DEF Open
  <2> QED BY <1>g, <2>1, <2>2, <2>3, <2>4
<1>4. ASSUME NEW f \in Form, Count(f) PROVE LimitInv'
  <2>1. /\ form[f].step = "count" /\ UNCHANGED <<given, today>>
        /\ form' = [form EXCEPT ![f] = IF Allowed THEN [@ EXCEPT !.step = "insert"] ELSE Blank]
    BY <1>4 DEF Count
  <2>2. FeedbackTypeOK' /\ \A g \in Form : form'[g].day <= today
    BY <1>a, <1>b, <2>1 DEF FeedbackTypeOK, Blank
  <2>3. \A d \in Day : d < today => Open(d)' \subseteq Open(d)
    BY <1>a, <1>b, <2>1 DEF Open, Blank
  <2>4. CASE Allowed
    <3>1. given[today] < FeedbackLimit /\ given[today] \in Nat
      BY <1>b, <2>4 DEF Allowed
    <3>2. given[today] + Cardinality(Due(today)') + 1 <= FeedbackLimit + Forms
      <4>1. Due(today)' \in SUBSET Form
        BY DEF Due
      <4>2. Cardinality(Due(today)') \in Nat /\ Cardinality(Due(today)') <= Forms
        BY <4>1, FormsCounted
      <4> QED BY <1>a, <3>1, <4>2
    <3>3. ASSUME NEW d \in Day, d < today
          PROVE  given[d] + Cardinality(Open(d)') + 1 <= FeedbackLimit + 2 * Forms
      BY <1>h, <2>1, <2>3, <3>3
    <3> QED BY <1>b, <2>1, <2>2, <3>2, <3>3 DEF LimitInv
  <2>5. CASE ~Allowed
    <3>1. Due(today)' \subseteq Due(today)
      BY <1>b, <2>1, <2>5 DEF Due, Blank
    <3> QED BY <1>g, <2>1, <2>2, <2>3, <3>1
  <2> QED BY <2>4, <2>5
<1>5. ASSUME NEW f \in Form, GiveUp(f) PROVE LimitInv'
  <2>1. form' = [form EXCEPT ![f] = Blank] /\ UNCHANGED <<given, today>>
    BY <1>5 DEF GiveUp
  <2>2. FeedbackTypeOK' /\ \A g \in Form : form'[g].day <= today
    BY <1>a, <1>b, <2>1 DEF FeedbackTypeOK, Blank
  <2>3. Due(today)' \subseteq Due(today)
    BY <1>b, <2>1 DEF Due, Blank
  <2>4. \A d \in Day : d < today => Open(d)' \subseteq Open(d)
    BY <1>a, <1>b, <2>1 DEF Open, Blank
  <2> QED BY <1>g, <2>1, <2>2, <2>3, <2>4
<1>6. ASSUME NEW f \in Form, InsertFeedback(f) PROVE LimitInv'
  <2> DEFINE e == form[f].day
  <2>1. /\ form[f].step = "insert" /\ form' = [form EXCEPT ![f] = Blank]
        /\ given' = [given EXCEPT ![e] = @ + 1] /\ today' = today
        /\ e \in Day /\ e <= today
    BY <1>6, <1>b DEF InsertFeedback
  <2>2. FeedbackTypeOK' /\ \A g \in Form : form'[g].day <= today
    BY <1>a, <1>b, <2>1 DEF FeedbackTypeOK, Blank
  <2>3. \A d \in Day : d > today => given'[d] = 0
    BY <1>a, <1>b, <2>1
  <2> HIDE DEF e
  <2>x. /\ form'[f].step = "ready" /\ form[f].day = e /\ form[f].step = "insert"
        /\ \A g \in Form \ {f} : form'[g] = form[g]
    BY <1>b, <2>1 DEF Blank, e
  <2>4. /\ f \in {g \in Form : form[g].step = "insert" /\ form[g].day = e}
        /\ f \in {g \in Form : form[g].step # "ready" /\ form[g].day = e}
        /\ {g \in Form : form'[g].step = "insert" /\ form'[g].day = e}
             = {g \in Form : form[g].step = "insert" /\ form[g].day = e} \ {f}
        /\ {g \in Form : form'[g].step # "ready" /\ form'[g].day = e}
             = {g \in Form : form[g].step # "ready" /\ form[g].day = e} \ {f}
    BY <2>x
  <2>5. \A d \in Day \ {e} : /\ given'[d] = given[d] /\ Due(d)' \subseteq Due(d)
                             /\ Open(d)' \subseteq Open(d)
    BY <1>b, <2>1 DEF Due, Open, Blank
  <2>6. given'[e] = given[e] + 1 /\ given[e] \in Nat
    BY <1>b, <2>1
  <2>7. \A d : d = e => /\ Cardinality(Due(d)') = Cardinality(Due(d)) - 1
                        /\ Cardinality(Open(d)') = Cardinality(Open(d)) - 1
    BY <2>4, FormsCounted DEF Due, Open
  <2>8. given'[today] + Cardinality(Due(today)') + 1 <= FeedbackLimit + Forms
    <3>1. Due(today)' \in SUBSET Form
      BY DEF Due
    <3>2. CASE e = today
      <4>1. Cardinality(Due(today)') = Cardinality(Due(today)) - 1
        <5>1. ASSUME NEW d, d = today PROVE Due(d)' = Due(today)'
          BY <5>1, <2>1 DEF Due
        <5> QED BY <2>7, <3>2, <5>1
      <4>2. given'[today] = given[today] + 1 /\ given[today] \in Nat
        BY <2>6, <3>2
      <4> QED BY <1>a, <1>d, <1>e, <4>1, <4>2
    <3>3. CASE e # today
      <4>1. given'[today] = given[today] /\ given[today] \in Nat /\ Due(today)' \subseteq Due(today)
        BY <1>b, <2>1, <2>5, <3>3 DEF Due
      <4> QED BY <1>a, <1>c, <1>e, <4>1, DayKept
    <3> QED BY <3>2, <3>3
  <2>9. ASSUME NEW d \in Day, d < today
        PROVE  given'[d] + Cardinality(Open(d)') + 1 <= FeedbackLimit + 2 * Forms
    <3>1. CASE d = e
      <4>1. Cardinality(Open(d)') = Cardinality(Open(d)) - 1 /\ given'[d] = given[d] + 1
        BY <2>6, <2>7, <3>1
      <4>2. given[d] + Cardinality(Open(d)) + 1 <= FeedbackLimit + 2 * Forms /\ given[d] \in Nat
        BY <1>b, <1>f, <2>9
      <4> QED BY <1>a, <1>d, <4>1, <4>2
    <3>2. CASE d # e
      BY <1>h, <2>5, <2>9, <3>2
    <3> QED BY <3>1, <3>2
  <2> QED BY <2>1, <2>2, <2>3, <2>8, <2>9 DEF LimitInv
<1> QED BY <1>1, <1>2, <1>3, <1>4, <1>5, <1>6 DEF FeedbackNext

\* No day has more feedback than the limit and two for each form that may be at
\* work at once, less one.
THEOREM DailyLimit == FeedbackSpec => []DailyLimitNearlyKept
<1>1. LimitInv => DailyLimitNearlyKept
  <2> SUFFICES ASSUME LimitInv, NEW d \in Day
               PROVE  given[d] + 1 <= FeedbackLimit + 2 * Forms
    BY DEF DailyLimitNearlyKept, Forms
  <2>0. Forms \in Nat /\ FeedbackLimit \in Nat /\ FeedbackLimit > 0 /\ Day \subseteq Nat
    BY FormsCounted, FeedbackAssumption DEF Day
  <2>1. /\ given[d] \in Nat /\ d \in Nat /\ today \in Nat /\ Forms \in Nat
        /\ FeedbackLimit \in Nat /\ FeedbackLimit > 0
    BY <2>0 DEF LimitInv, FeedbackTypeOK
  <2>2. \A e : /\ Due(e) \in SUBSET Form /\ Open(e) \in SUBSET Form
    BY DEF Due, Open
  <2>3. CASE d < today
    <3>1. Cardinality(Open(d)) \in Nat
      BY <2>2, FormsCounted
    <3>2. given[d] + Cardinality(Open(d)) + 1 <= FeedbackLimit + 2 * Forms
      BY <2>3 DEF LimitInv
    <3> QED BY <2>1, <3>1, <3>2
  <2>4. CASE d = today
    <3>1. Cardinality(Due(d)) \in Nat
      BY <2>2, FormsCounted
    <3>2. given[d] + Cardinality(Due(d)) + 1 <= FeedbackLimit + Forms
      BY <2>4 DEF LimitInv
    <3> QED BY <2>1, <3>1, <3>2
  <2>5. CASE d > today
    BY <2>1, <2>5 DEF LimitInv
  <2> QED BY <2>1, <2>3, <2>4, <2>5
<1> QED BY <1>1, LimitInit, LimitStep, PTL DEF FeedbackSpec


-------------------------------------------------------------------------------
(***************************************************************************)
(* The notices of an expiry. None is younger than the last tick, and a pass *)
(* is made at a tick: what it has still to look at got no notice for a day. *)
(***************************************************************************)
RemindersTypeOK ==
  /\ clock \in Nat /\ ticker \in 0 .. everyDay
  /\ deployed \in [Deployment -> [state : {"none", "there", "gone"}, expiry : Int]]
  /\ \A r \in reminders : r.at \in Nat

NoticeInv ==
  /\ RemindersTypeOK
  /\ \A r \in reminders : r.at + ticker <= clock
  /\ todo # {} => ticker = 0
  /\ \A p, q \in todo : p[1] = q[1] => p = q
  /\ \A p \in todo, r \in reminders : r.of = p[1] => r.at + everyDay <= clock
  /\ AtMostOneNoticeADay

LEMMA NoticeStep == NoticeInv /\ [RemindersNext]_reminderVars => NoticeInv'
<1> SUFFICES ASSUME NoticeInv, [RemindersNext]_reminderVars PROVE NoticeInv'
  OBVIOUS
<1> USE DEF everyDay
<1>a. /\ clock \in Nat /\ ticker \in 0 .. 2
      /\ deployed \in [Deployment -> [state : {"none", "there", "gone"}, expiry : Int]]
      /\ \A r \in reminders : r.at \in Nat /\ r.at + ticker <= clock
      /\ todo # {} => ticker = 0
      /\ \A p, q \in todo : p[1] = q[1] => p = q
      /\ \A p \in todo, r \in reminders : r.of = p[1] => r.at + 2 <= clock
  BY DEF NoticeInv, RemindersTypeOK
<1>b. AtMostOneNoticeADay
  BY DEF NoticeInv
<1>c. ASSUME UNCHANGED reminders PROVE AtMostOneNoticeADay'
  BY <1>b, <1>c DEF AtMostOneNoticeADay
<1>1. CASE UNCHANGED reminderVars
  BY <1>a, <1>c, <1>1 DEF reminderVars, NoticeInv, RemindersTypeOK
<1>2. CASE TimePasses
  BY <1>a, <1>c, <1>2 DEF TimePasses, NoticeInv, RemindersTypeOK
<1>3. CASE RaiseNotification
  <2>1. /\ clock' = clock /\ deployed' = deployed /\ reminders' = reminders /\ ticker' = 0
        /\ ticker = 2 /\ todo' = {<<d, deployed[d].expiry>> : d \in {e \in Deployment : Deployed(e)}}
    BY <1>3 DEF RaiseNotification
  <2>2. \A p, q \in todo' : p[1] = q[1] => p = q
    BY <2>1
  <2>3. \A r \in reminders : r.at + 2 <= clock /\ r.at + 0 <= clock
    BY <1>a, <2>1
  <2> QED BY <1>a, <1>c, <2>1, <2>2, <2>3 DEF NoticeInv, RemindersTypeOK
<1>4. CASE Reboot
  <2>1. \A r \in reminders : r.at + 0 <= clock
    BY <1>a
  <2> QED BY <1>a, <1>c, <1>4, <2>1 DEF Reboot, NoticeInv, RemindersTypeOK
<1>5. CASE \E d \in Deployment : Deploy(d) \/ Extend(d) \/ Undeploy(d)
  <2>1. UNCHANGED <<clock, ticker, todo, reminders>>
    BY <1>5 DEF Deploy, Extend, Undeploy
  <2>2. deployed' \in [Deployment -> [state : {"none", "there", "gone"}, expiry : Int]]
    BY <1>a, <1>5, RemindersAssumption DEF Deploy, Extend, Undeploy
  <2> QED BY <1>a, <1>c, <2>1, <2>2 DEF NoticeInv, RemindersTypeOK
<1>8. ASSUME NEW d \in Deployment, NEW expiry \in HalfDays, GenerateEvent(d, expiry)
      PROVE  NoticeInv'
  <2> PICK event : event = Notification(d, expiry)
    OBVIOUS
  <2>1. /\ <<d, expiry>> \in todo /\ todo' = todo \ {<<d, expiry>>}
        /\ clock' = clock /\ deployed' = deployed /\ ticker' = ticker
        /\ reminders' = reminders \/ reminders' = reminders \union {event}
    BY <1>8, Zenon DEF GenerateEvent
  <2>2. ticker = 0 /\ event.of = d /\ event.at = clock
    BY <1>a, <2>1 DEF Notification
  <2>3. \A p \in todo' : p \in todo /\ p[1] # d
    BY <1>a, <2>1
  <2>4. \A r \in reminders : r.of = d => r.at + 2 <= clock
    BY <1>a, <2>1
  <2>5. AtMostOneNoticeADay'
    <3> SUFFICES ASSUME NEW r \in reminders', NEW q \in reminders', r.of = q.of, r # q
                 PROVE  r.at - q.at >= 2 \/ q.at - r.at >= 2
      BY DEF AtMostOneNoticeADay
    <3>1. CASE r \in reminders /\ q \in reminders
      BY <1>b, <3>1 DEF AtMostOneNoticeADay
    <3>2. CASE r = event /\ q \in reminders
      BY <1>a, <2>2, <2>4, <3>2
    <3>3. CASE q = event /\ r \in reminders
      BY <1>a, <2>2, <2>4, <3>3
    <3> QED BY <2>1, <3>1, <3>2, <3>3
  <2>6. \A r \in reminders' : r.at \in Nat /\ r.at + ticker <= clock
    BY <1>a, <2>1, <2>2
  <2>7. \A p \in todo', r \in reminders' : r.of = p[1] => r.at + 2 <= clock
    BY <1>a, <2>1, <2>2, <2>3
  <2> QED BY <1>a, <2>1, <2>2, <2>3, <2>5, <2>6, <2>7 DEF NoticeInv, RemindersTypeOK
<1> QED BY <1>1, <1>2, <1>3, <1>4, <1>5, <1>8 DEF RemindersNext

\* No service gets two notices in less than a day: the ticker is the only thing
\* that makes them, and a new one waits a day as well.
THEOREM NoticesApart == RemindersSpec => []AtMostOneNoticeADay
<1>1. RemindersInit => NoticeInv
  BY RemindersAssumption
  DEF RemindersInit, NoticeInv, RemindersTypeOK, NotDeployed, AtMostOneNoticeADay, everyDay
<1>2. NoticeInv => AtMostOneNoticeADay
  BY DEF NoticeInv
<1> QED BY <1>1, <1>2, NoticeStep, PTL DEF RemindersSpec

===============================================================================
