----------------------------- MODULE EventsProofs -----------------------------
(***************************************************************************)
(* Theorems of Events, for any number of events, any capacity of the       *)
(* collection and any number of failures: the variables have their types,  *)
(* and no event is mailed more often than FewCopies says.                  *)
(***************************************************************************)
EXTENDS Events, SequenceTheorems, TLAPS

Distinct(q) == \A i, j \in DOMAIN q : q[i] = q[j] => i = j
Fetched(e) == \E i \in DOMAIN cursor.batch : cursor.batch[i].id = e
InBatch(e) ==
  \E i \in DOMAIN cursor.batch : cursor.batch[i].id = e /\ ~cursor.batch[i].notified
InHand(e) == mailer.event = e /\ mailer.step \in {"lookup", "mail"}
Mailed(e) == mailer.event = e /\ mailer.step = "mark"

\* The mails of e that are already certain to be tried, if nothing fails.
Due(e) == (IF InHand(e) THEN 1 ELSE 0) + (IF InBatch(e) THEN 1 ELSE 0)

\* A cursor opened now would fetch e to be mailed.
Fetchable(e) == Kept(e) /\ ~notice[e].notified

CollectionOK ==
  /\ Distinct(events)
  /\ \A e \in Event : ~Stored(e) =>
       ~Kept(e) /\ ~Fetched(e) /\ mailer.event # e /\ tries[e] = 0 /\ ~notice[e].notified

\* A batch has every event once, and while it is empty the mailer can only be
\* at work on the event the cursor stands at.
CursorOK ==
  /\ \A i, j \in DOMAIN cursor.batch : cursor.batch[i].id = cursor.batch[j].id => i = j
  /\ ~cursor.open => cursor.batch = <<>>
  /\ mailer.step # "wait" => mailer.event \in Event
  /\ cursor.open /\ cursor.batch = <<>> /\ mailer.step # "wait" => mailer.event = cursor.last

\* An event that could still be fetched was not tried more often than there
\* was trouble, but for the try that is about to be marked.
CopiesOK ==
  \A e \in Event :
    /\ Fetchable(e) => tries[e] <= troubles + (IF Mailed(e) THEN 1 ELSE 0)
    /\ tries[e] + Due(e) <= 2 + troubles
    /\ Mailed(e) \/ notice[e].notified => tries[e] > 0

Inv == EventsTypeOK /\ CollectionOK /\ CursorOK /\ CopiesOK

LEMMA InvIsFewCopies == Inv => FewCopies
<1> SUFFICES ASSUME Inv, NEW e \in Event
             PROVE  (notice[e].notified => tries[e] > 0) /\ tries[e] <= 2 + troubles
  BY DEF FewCopies
<1>1. tries[e] \in Nat /\ troubles \in Nat
  BY EventsAssumption DEF Inv, EventsTypeOK
<1>2. Due(e) \in Nat
  BY DEF Due
<1> QED BY <1>1, <1>2 DEF Inv, CopiesOK

-------------------------------------------------------------------------------
(***************************************************************************)
(* Sequences.                                                              *)
(***************************************************************************)
LEMMA TailDistinct ==
  ASSUME NEW S, NEW q \in Seq(S), q # <<>>
  PROVE  /\ Tail(q) \in Seq(S) /\ Len(Tail(q)) = Len(q) - 1
         /\ DOMAIN q = 1 .. Len(q) /\ DOMAIN Tail(q) = 1 .. Len(q) - 1
         /\ Len(q) \in Nat \ {0} /\ Head(q) = q[1]
         /\ \A i \in DOMAIN Tail(q) : i + 1 \in DOMAIN q /\ Tail(q)[i] = q[i + 1]
  BY HeadTailProperties, LenProperties, EmptySeq

LEMMA SnapshotIs ==
  ASSUME NEW ids \in Seq(Event), notice \in [Event -> Note]
  PROVE  /\ Snapshot(ids) \in Seq(Doc) /\ Len(Snapshot(ids)) = Len(ids)
         /\ DOMAIN Snapshot(ids) = DOMAIN ids
         /\ \A i \in DOMAIN ids : /\ Snapshot(ids)[i].id = ids[i]
                                  /\ Snapshot(ids)[i].notified = notice[ids[i]].notified
<1>1. Len(ids) \in Nat /\ DOMAIN ids = 1 .. Len(ids) /\ \A i \in 1 .. Len(ids) : ids[i] \in Event
  BY LenProperties, ElementOfSeq
<1>2. \A i \in 1 .. Len(ids) : [id |-> ids[i], notified |-> notice[ids[i]].notified] \in Doc
  BY <1>1 DEF Note, Doc
<1>3. Snapshot(ids) \in [1 .. Len(ids) -> Doc]
  BY <1>1, <1>2 DEF Snapshot
<1>4. Snapshot(ids) \in Seq(Doc)
  BY <1>1, <1>3, SeqDef
<1>5. DOMAIN Snapshot(ids) = DOMAIN ids
  BY <1>1, <1>3
<1>6. Len(Snapshot(ids)) = Len(ids)
  BY <1>1, <1>3, <1>4, LenProperties
<1> QED BY <1>4, <1>5, <1>6 DEF Snapshot

LEMMA AfterIs ==
  ASSUME events \in Seq(Event), Distinct(events), NEW e, Kept(e), After(e) # <<>>
  PROVE  /\ After(e) \in Seq(Event) /\ Distinct(After(e))
         /\ \A i \in DOMAIN After(e) : Kept(After(e)[i])
         /\ After(e)[Len(After(e))] = events[Len(events)]
<1> DEFINE k == CHOOSE i \in DOMAIN events : events[i] = e
<1>1. Len(events) \in Nat /\ DOMAIN events = 1 .. Len(events) /\ \A i \in 1 .. Len(events) : events[i] \in Event
  BY LenProperties, ElementOfSeq
<1>2. k \in 1 .. Len(events)
  BY <1>1 DEF Kept
<1>3. After(e) = SubSeq(events, k + 1, Len(events))
  BY DEF After
<1> HIDE DEF k
<1>4. k + 1 <= Len(events)
  BY <1>1, <1>2, <1>3, SubSeqEmpty
<1>5. /\ After(e) \in Seq(Event) /\ Len(After(e)) = Len(events) - k
      /\ \A i \in 1 .. Len(events) - k : After(e)[i] = events[k + i]
  <2>1. k + 1 \in Int /\ Len(events) \in Int /\ \A i \in (k + 1) .. Len(events) : events[i] \in Event
    BY <1>1, <1>2
  <2>2. /\ SubSeq(events, k + 1, Len(events)) \in Seq(Event)
        /\ Len(SubSeq(events, k + 1, Len(events)))
             = IF k + 1 <= Len(events) THEN Len(events) - (k + 1) + 1 ELSE 0
        /\ \A i \in 1 .. Len(events) - (k + 1) + 1 :
             SubSeq(events, k + 1, Len(events))[i] = events[(k + 1) + i - 1]
    BY <2>1, SubSeqProperties
  <2> QED BY <1>1, <1>2, <1>3, <1>4, <2>2
<1>6. DOMAIN After(e) = 1 .. Len(events) - k
  BY <1>5, LenProperties
<1>7. \A i \in DOMAIN After(e) : k + i \in DOMAIN events /\ After(e)[i] = events[k + i]
  BY <1>1, <1>2, <1>5, <1>6
<1>8. Distinct(After(e))
  <2> SUFFICES ASSUME NEW i \in DOMAIN After(e), NEW j \in DOMAIN After(e), After(e)[i] = After(e)[j]
               PROVE  i = j
    BY DEF Distinct
  <2>1. k + i = k + j
    BY <1>7 DEF Distinct
  <2> QED BY <1>1, <1>2, <1>6, <2>1
<1>9. After(e)[Len(After(e))] = events[Len(events)]
  BY <1>1, <1>2, <1>4, <1>5
<1> QED BY <1>5, <1>7, <1>8, <1>9 DEF Kept

-------------------------------------------------------------------------------
(***************************************************************************)
(* One lemma for each action.                                              *)
(***************************************************************************)
LEMMA Numbers ==
  ASSUME Inv
  PROVE  /\ troubles \in Nat
         /\ \A e \in Event : tries[e] \in Nat /\ notice[e].notified \in BOOLEAN /\ Due(e) \in {0, 1, 2}
         /\ mailer.event \in Event \union {NoEvent}
         /\ mailer.step \in {"wait", "lookup", "mail", "mark"}
         /\ cursor.batch \in Seq(Doc)
  BY EventsAssumption DEF Inv, EventsTypeOK, Note, Due

LEMMA NewEventCollection ==
  ASSUME Inv, NEW e \in Event, NEW to \in {"user", "other"}, NewEvent(e, to)
  PROVE  /\ events' \in Seq(Event) /\ Len(events') <= Capacity /\ Distinct(events)'
         /\ \A x \in Event : Kept(x)' => Kept(x) \/ x = e
<1> DEFINE q == IF Len(events) = Capacity THEN Tail(events) ELSE events
<1>a. /\ events \in Seq(Event) /\ Len(events) <= Capacity /\ Len(events) \in Nat
      /\ DOMAIN events = 1 .. Len(events)
      /\ Distinct(events) /\ ~Kept(e) /\ Capacity \in Nat \ {0}
  BY EventsAssumption, LenProperties DEF Inv, EventsTypeOK, CollectionOK, NewEvent
<1>1. /\ q \in Seq(Event) /\ Len(q) \in Nat /\ Len(q) + 1 <= Capacity
      /\ DOMAIN q = 1 .. Len(q)
      /\ Distinct(q) /\ \A i \in DOMAIN q : Kept(q[i])
  <2>1. CASE Len(events) = Capacity
    <3>1. events # <<>> /\ q = Tail(events)
      BY <1>a, <2>1, EmptySeq
    <3>2. /\ q \in Seq(Event) /\ Len(q) = Len(events) - 1
          /\ DOMAIN q = 1 .. Len(events) - 1
          /\ \A i \in DOMAIN q : i + 1 \in DOMAIN events /\ q[i] = events[i + 1]
      BY <1>a, <3>1, TailDistinct
    <3> HIDE DEF q
    <3>3. Distinct(q)
      <4> SUFFICES ASSUME NEW i \in DOMAIN q, NEW j \in DOMAIN q, q[i] = q[j] PROVE i = j
        BY DEF Distinct
      <4>1. i + 1 = j + 1
        BY <1>a, <3>2 DEF Distinct
      <4> QED BY <1>a, <3>2, <4>1
    <3>4. Len(q) \in Nat /\ Len(q) + 1 <= Capacity /\ DOMAIN q = 1 .. Len(q)
      BY <1>a, <2>1, <3>2
    <3>5. \A i \in DOMAIN q : Kept(q[i])
      BY <3>2 DEF Kept
    <3> QED BY <3>2, <3>3, <3>4, <3>5
  <2>2. CASE Len(events) # Capacity
    <3>1. q = events
      BY <2>2
    <3> HIDE DEF q
    <3>2. Len(events) + 1 <= Capacity
      <4>1. Len(events) \in Nat /\ Capacity \in Nat /\ Len(events) <= Capacity
        BY <1>a
      <4>2. \A m, n \in Nat : m <= n /\ m # n => m + 1 <= n
        OBVIOUS
      <4> QED BY <2>2, <4>1, <4>2
    <3> QED BY <1>a, <3>1, <3>2 DEF Kept
  <2> QED BY <2>1, <2>2
<1>2. events' = Append(q, e)
  BY DEF NewEvent
<1> HIDE DEF q
<1>3. /\ events' \in Seq(Event) /\ Len(events') = Len(q) + 1
      /\ \A i \in 1 .. Len(q) : events'[i] = q[i]
      /\ events'[Len(q) + 1] = e
      /\ DOMAIN events' = 1 .. Len(q) + 1
  BY <1>1, <1>2, AppendProperties, LenProperties
<1>4. \A i \in DOMAIN q : q[i] # e
  BY <1>a, <1>1
<1>5. Distinct(events)'
  BY <1>1, <1>3, <1>4 DEF Distinct
<1>6. ASSUME NEW x \in Event, Kept(x)', x # e PROVE Kept(x)
  <2> PICK i \in DOMAIN events' : events'[i] = x
    BY <1>6 DEF Kept
  <2>1. i \in DOMAIN q /\ q[i] = x
    BY <1>1, <1>3, <1>6
  <2> QED BY <1>1, <2>1
<1> QED BY <1>1, <1>3, <1>5, <1>6

LEMMA NewEventKeeps ==
  ASSUME Inv, NEW e \in Event, NEW to \in {"user", "other"}, NewEvent(e, to)
  PROVE  Inv'
<1>a. EventsTypeOK /\ CollectionOK /\ CursorOK /\ CopiesOK
  BY DEF Inv
<1>b. UNCHANGED <<cursor, mailer, tries, unknown, troubles>> /\ ~Stored(e)
  BY DEF NewEvent
<1>c. /\ Notice(to) \in Note /\ Notice(to).to # "unset" /\ ~Notice(to).notified
      /\ notice' = [notice EXCEPT ![e] = Notice(to)]
  BY DEF NewEvent, Notice, Note
<1>1. EventsTypeOK'
  BY <1>a, <1>b, <1>c, NewEventCollection DEF EventsTypeOK
<1>2. CollectionOK'
  BY <1>a, <1>b, <1>c, NewEventCollection DEF CollectionOK, EventsTypeOK, Stored, Fetched
<1>3. CursorOK'
  BY <1>a, <1>b DEF CursorOK
<1>4. ASSUME NEW x \in Event
      PROVE  /\ Fetchable(x)' => tries[x] <= troubles + (IF Mailed(x) THEN 1 ELSE 0)
             /\ notice'[x].notified => tries[x] > 0
  <2>1. CASE x = e
    BY <1>a, <1>b, <1>c, <2>1, Numbers DEF CollectionOK, EventsTypeOK
  <2>2. CASE x # e
    BY <1>a, <1>b, <1>c, <2>2, NewEventCollection DEF CopiesOK, Fetchable, EventsTypeOK
  <2> QED BY <2>1, <2>2
<1>5. CopiesOK'
  BY <1>a, <1>b, <1>4 DEF CopiesOK, Mailed, Due, InHand, InBatch
<1> QED BY <1>1, <1>2, <1>3, <1>5 DEF Inv

\* A cursor that fetches what is stored now.
LEMMA FetchKeeps ==
  ASSUME Inv, NEW ids \in Seq(Event), Distinct(ids), ids # <<>>,
         \A i \in DOMAIN ids : Kept(ids[i]), ids[Len(ids)] = events[Len(events)],
         events[Len(events)] \in Event, cursor.batch = <<>>,
         cursor' = [open |-> TRUE, batch |-> Snapshot(ids), last |-> events[Len(events)]],
         UNCHANGED <<events, notice, mailer, tries, unknown, troubles>>
  PROVE  Inv'
<1>a. EventsTypeOK /\ CollectionOK /\ CursorOK /\ CopiesOK
  BY DEF Inv
<1>1. /\ Snapshot(ids) \in Seq(Doc) /\ Len(Snapshot(ids)) = Len(ids)
      /\ DOMAIN Snapshot(ids) = DOMAIN ids
      /\ \A i \in DOMAIN ids : /\ Snapshot(ids)[i].id = ids[i]
                               /\ Snapshot(ids)[i].notified = notice[ids[i]].notified
  BY <1>a, SnapshotIs DEF EventsTypeOK
<1>2. Len(ids) \in Nat \ {0} /\ DOMAIN ids = 1 .. Len(ids) /\ \A i \in DOMAIN ids : ids[i] \in Event
  BY EmptySeq, LenProperties, ElementOfSeq
<1>3. cursor'.batch = Snapshot(ids) /\ cursor'.open /\ cursor'.last = events[Len(events)]
  OBVIOUS
<1>4. EventsTypeOK'
  <2>1. cursor' \in [open : BOOLEAN, batch : Seq(Doc), last : Event \union {NoEvent}]
    BY <1>1
  <2>2. cursor'.batch[Len(cursor'.batch)].id = cursor'.last
    BY <1>1, <1>2, <1>3
  <2> QED BY <1>a, <2>1, <2>2 DEF EventsTypeOK
<1>5. CollectionOK'
  BY <1>a, <1>1, <1>3 DEF CollectionOK, Stored, Kept, Fetched
<1>6. CursorOK'
  <2>1. cursor'.batch # <<>>
    BY <1>1, <1>2, <1>3, EmptySeq
  <2> QED BY <1>a, <1>1, <1>3, <2>1 DEF CursorOK, Distinct
<1>7. ASSUME NEW e \in Event PROVE tries[e] + Due(e)' <= 2 + troubles
  <2>1. InBatch(e)' => Fetchable(e)
    BY <1>1, <1>3 DEF InBatch, Fetchable
  <2>2. Due(e)' = (IF InHand(e) THEN 1 ELSE 0) + (IF InBatch(e)' THEN 1 ELSE 0)
    BY DEF Due, InHand
  <2>3. tries[e] \in Nat /\ troubles \in Nat
    BY Numbers
  <2>4. CASE InBatch(e)'
    <3>1. tries[e] <= troubles + (IF Mailed(e) THEN 1 ELSE 0)
      BY <1>a, <2>1, <2>4 DEF CopiesOK
    <3>2. ~(InHand(e) /\ Mailed(e))
      BY DEF InHand, Mailed
    <3> QED BY <2>2, <2>3, <2>4, <3>1, <3>2
  <2>5. CASE ~InBatch(e)'
    <3>1. tries[e] + Due(e) <= 2 + troubles /\ ~InBatch(e)
      BY <1>a, EmptySeq DEF CopiesOK, InBatch
    <3>2. Due(e)' = Due(e)
      BY <2>2, <2>5, <3>1 DEF Due
    <3> QED BY <3>1, <3>2
  <2> QED BY <2>4, <2>5
<1>8. CopiesOK'
  BY <1>a, <1>7 DEF CopiesOK, Fetchable, Kept, Mailed
<1> QED BY <1>4, <1>5, <1>6, <1>8 DEF Inv

LEMMA OpenKeeps ==
  ASSUME Inv, OpenCursor
  PROVE  Inv'
<1>1. events \in Seq(Event) /\ Distinct(events) /\ events # <<>> /\ cursor.batch = <<>>
  BY DEF Inv, EventsTypeOK, CollectionOK, CursorOK, OpenCursor
<1>2. \A i \in DOMAIN events : Kept(events[i])
  BY DEF Kept
<1>3. events[Len(events)] \in Event
  BY <1>1, EmptySeq, ElementOfSeq
<1> QED BY <1>1, <1>2, <1>3, FetchKeeps DEF OpenCursor, FetchedFirst

LEMMA FetchMoreKeeps ==
  ASSUME Inv, FetchMore
  PROVE  Inv'
<1>1. events \in Seq(Event) /\ Distinct(events) /\ cursor.batch = <<>> /\ cursor.open
      /\ cursor \in [open : BOOLEAN, batch : Seq(Doc), last : Event \union {NoEvent}]
  BY DEF Inv, EventsTypeOK, CollectionOK, FetchMore
<1> DEFINE ids == After(cursor.last)
<1>2. /\ ids \in Seq(Event) /\ Distinct(ids) /\ ids # <<>>
      /\ \A i \in DOMAIN ids : Kept(ids[i])
      /\ ids[Len(ids)] = events[Len(events)]
  BY <1>1, AfterIs DEF FetchMore
<1>3. events[Len(events)] \in Event
  BY <1>2, EmptySeq, ElementOfSeq
<1>4. cursor' = [open |-> TRUE, batch |-> Snapshot(ids), last |-> events[Len(events)]]
  BY <1>1 DEF FetchMore
<1> HIDE DEF ids
<1> QED BY <1>1, <1>2, <1>3, <1>4, FetchKeeps DEF FetchMore

\* What a closed cursor and an idle mailer forget was not due any more, or
\* cannot be fetched, or something failed.
Excused ==
  \/ troubles' = troubles + 1
  \/ troubles' = troubles /\ \A e \in Event : Mailed(e) => ~Fetchable(e)

LEMMA ForgetKeeps ==
  ASSUME Inv, cursor' = Closed, mailer' = Waiting,
         UNCHANGED <<events, notice, tries, unknown>>, troubles' \in 0 .. MaxTroubles,
         Excused
  PROVE  Inv'
<1>a. EventsTypeOK /\ CollectionOK /\ CursorOK /\ CopiesOK
  BY DEF Inv
<1>b. cursor'.batch = <<>> /\ ~cursor'.open /\ mailer'.step = "wait" /\ mailer'.event = NoEvent
  BY DEF Closed, Waiting
<1>1. EventsTypeOK'
  BY <1>a, <1>b, EmptySeq DEF EventsTypeOK, Closed, Waiting
<1>2. CollectionOK'
  BY <1>a, <1>b, EmptySeq DEF CollectionOK, Stored, Kept, Fetched, NoEvent, Event
<1>3. CursorOK'
  BY <1>b, EmptySeq DEF CursorOK
<1>4. ASSUME NEW e \in Event
      PROVE  /\ Fetchable(e) => tries[e] <= troubles'
             /\ tries[e] <= 2 + troubles'
             /\ Due(e)' = 0 /\ ~Mailed(e)'
             /\ notice[e].notified => tries[e] > 0
  <2>1. Due(e)' = 0 /\ ~Mailed(e)'
    BY <1>b, EmptySeq DEF Due, InHand, InBatch, Mailed
  <2>2. tries[e] \in Nat /\ troubles \in Nat /\ Due(e) \in {0, 1, 2}
    BY Numbers
  <2> QED BY <1>a, <2>1, <2>2 DEF CopiesOK, Excused
<1>5. CopiesOK'
  BY <1>a, <1>4, Numbers DEF CopiesOK, Fetchable, Kept
<1> QED BY <1>1, <1>2, <1>3, <1>5 DEF Inv

LEMMA LostKeeps ==
  ASSUME Inv, CursorLost
  PROVE  Inv'
<1>1. \A e \in Event : Mailed(e) => ~Fetchable(e)
  BY DEF CursorLost, Mailed, Fetchable, Inv, CursorOK
<1>2. troubles' = troubles /\ troubles' \in 0 .. MaxTroubles
  BY DEF CursorLost, Inv, EventsTypeOK
<1>3. cursor' = Closed /\ mailer' = Waiting /\ UNCHANGED <<events, notice, tries, unknown>>
  BY DEF CursorLost
<1>4. Excused
  BY <1>1, <1>2 DEF Excused
<1> QED BY <1>2, <1>3, <1>4, ForgetKeeps

LEMMA DiesKeeps ==
  ASSUME Inv, NotifierDies
  PROVE  Inv'
<1>1. troubles' \in 0 .. MaxTroubles
  BY EventsAssumption DEF NotifierDies, Inv, EventsTypeOK
<1>2. Excused
  BY DEF NotifierDies, Excused
<1>3. cursor' = Closed /\ mailer' = Waiting /\ UNCHANGED <<events, notice, tries, unknown>>
  BY DEF NotifierDies
<1> QED BY <1>1, <1>2, <1>3, ForgetKeeps

LEMMA EndsKeeps ==
  ASSUME Inv, CursorEnds
  PROVE  Inv'
<1>a. EventsTypeOK /\ CollectionOK /\ CursorOK /\ CopiesOK
  BY DEF Inv
<1>b. /\ cursor'.batch = <<>> /\ ~cursor'.open /\ cursor.batch = <<>> /\ cursor' = Closed
      /\ UNCHANGED <<events, notice, mailer, tries, unknown, troubles>>
  BY DEF CursorEnds, Closed
<1>1. EventsTypeOK'
  BY <1>a, <1>b, EmptySeq DEF EventsTypeOK, Closed
<1>2. CollectionOK'
  BY <1>a, <1>b DEF CollectionOK, Stored, Kept, Fetched
<1>3. CursorOK'
  BY <1>a, <1>b, EmptySeq DEF CursorOK
<1>4. CopiesOK'
  BY <1>a, <1>b DEF CopiesOK, Fetchable, Kept, Mailed, Due, InHand, InBatch
<1> QED BY <1>1, <1>2, <1>3, <1>4 DEF Inv

\* The head of the batch goes to the mailer, or was notified already.
LEMMA HandOverKeeps ==
  ASSUME Inv, HandOver
  PROVE  Inv'
<1>a. EventsTypeOK /\ CollectionOK /\ CursorOK /\ CopiesOK
  BY DEF Inv
<1>b. /\ cursor \in [open : BOOLEAN, batch : Seq(Doc), last : Event \union {NoEvent}]
      /\ cursor.batch \in Seq(Doc) /\ cursor.batch # <<>> /\ mailer = Waiting
      /\ UNCHANGED <<events, notice, tries, unknown, troubles>>
  BY <1>a DEF EventsTypeOK, HandOver
<1> DEFINE old == cursor.batch
           new == Tail(cursor.batch)
<1>1. /\ new \in Seq(Doc) /\ Len(new) = Len(old) - 1
      /\ DOMAIN old = 1 .. Len(old) /\ DOMAIN new = 1 .. Len(old) - 1
      /\ Len(old) \in Nat \ {0} /\ Head(old) = old[1]
      /\ \A i \in DOMAIN new : i + 1 \in DOMAIN old /\ new[i] = old[i + 1]
  BY <1>b, TailDistinct
<1>2. cursor'.batch = new /\ cursor'.open = cursor.open /\ cursor'.last = cursor.last
      /\ cursor' \in [open : BOOLEAN, batch : Seq(Doc), last : Event \union {NoEvent}]
  BY <1>b, <1>1 DEF HandOver
<1>3. cursor.batch = old
  OBVIOUS
<1> HIDE DEF old, new
<1> PICK doc : doc = old[1]
  OBVIOUS
<1>4. doc \in Doc /\ doc.id \in Event /\ doc.notified \in BOOLEAN /\ doc.id # NoEvent
  <2>1. old \in Seq(Doc) /\ 1 \in 1 .. Len(old)
    BY <1>b, <1>1, <1>3
  <2>2. doc \in Doc
    BY <2>1, ElementOfSeq
  <2>3. NoEvent \notin Event
    BY EventsAssumption DEF NoEvent, Event
  <2> QED BY <2>2, <2>3 DEF Doc
<1>5. \/ doc.notified /\ mailer' = Waiting
      \/ ~doc.notified /\ mailer' = [step |-> "lookup", event |-> doc.id]
      \/ ~doc.notified /\ mailer' = [step |-> "mail", event |-> doc.id]
  BY <1>1, <1>3, <1>4 DEF HandOver, NextStep
<1>6. \A i, j \in DOMAIN old : old[i].id = old[j].id => i = j
  BY <1>a, <1>3 DEF CursorOK
<1>7. \A i \in DOMAIN new : new[i].id # doc.id
  <2> SUFFICES ASSUME NEW i \in DOMAIN new, new[i].id = doc.id PROVE FALSE
    OBVIOUS
  <2>1. 1 \in DOMAIN old /\ i + 1 \in DOMAIN old /\ old[i + 1].id = old[1].id /\ i + 1 # 1
    BY <1>1
  <2> QED BY <1>6, <2>1
<1>8. new # <<>> => new[Len(new)].id = cursor.last
  <2> SUFFICES ASSUME new # <<>> PROVE new[Len(new)].id = cursor.last
    OBVIOUS
  <2>1. Len(new) \in DOMAIN new /\ Len(new) + 1 = Len(old)
    BY <1>1, EmptySeq
  <2>2. old # <<>> => old[Len(old)].id = cursor.last
    BY <1>a, <1>3 DEF EventsTypeOK
  <2> QED BY <1>1, <1>3, <1>b, <2>1, <2>2
<1>9. new = <<>> => doc.id = cursor.last
  <2>1. new = <<>> => Len(old) = 1
    BY <1>1, EmptySeq
  <2>2. old[Len(old)].id = cursor.last
    BY <1>a, <1>b, <1>3 DEF EventsTypeOK
  <2> QED BY <2>1, <2>2
<1>10. EventsTypeOK'
  <2>1. mailer' \in [step : {"wait", "lookup", "mail", "mark"}, event : Event \union {NoEvent}]
    BY <1>4, <1>5 DEF Waiting
  <2> QED BY <1>a, <1>b, <1>2, <1>8, <2>1 DEF EventsTypeOK
<1>11. CollectionOK'
  <2>1. \A e \in Event : Fetched(e)' => Fetched(e)
    BY <1>1, <1>2, <1>3 DEF Fetched
  <2>2. \A e \in Event : mailer'.event = e => Fetched(e)
    BY <1>1, <1>3, <1>4, <1>5 DEF Fetched, Waiting, NoEvent, Event
  <2> QED BY <1>a, <1>b, <2>1, <2>2 DEF CollectionOK, Stored, Kept
<1>12. CursorOK'
  <2>1. \A i, j \in DOMAIN new : new[i].id = new[j].id => i = j
    <3> SUFFICES ASSUME NEW i \in DOMAIN new, NEW j \in DOMAIN new, new[i].id = new[j].id
                 PROVE  i = j
      OBVIOUS
    <3>1. i + 1 = j + 1
      BY <1>1, <1>6
    <3> QED BY <1>1, <3>1
  <2>2. mailer'.step # "wait" => mailer'.event = doc.id /\ doc.id \in Event
    BY <1>4, <1>5 DEF Waiting
  <2>3. cursor.open
    BY <1>a, <1>b DEF CursorOK
  <2> QED BY <1>2, <1>9, <2>1, <2>2, <2>3 DEF CursorOK
<1>13. ASSUME NEW e \in Event
       PROVE  Due(e)' <= Due(e) /\ ~Mailed(e)' /\ ~Mailed(e) /\ Due(e)' \in Nat /\ Due(e) \in Nat
  <2>1. ~Mailed(e)' /\ ~Mailed(e) /\ ~InHand(e)
    BY <1>b, <1>5 DEF Mailed, InHand, Waiting
  <2>2. InBatch(e)' => InBatch(e)
    BY <1>1, <1>2, <1>3 DEF InBatch
  <2>3. InHand(e)' => InBatch(e) /\ ~InBatch(e)'
    <3>1. InHand(e)' => e = doc.id /\ ~doc.notified
      BY <1>5 DEF InHand, Waiting
    <3> QED BY <1>1, <1>2, <1>3, <1>7, <3>1 DEF InBatch
  <2> QED BY <2>1, <2>2, <2>3 DEF Due
<1>14. CopiesOK'
  <2> SUFFICES ASSUME NEW e \in Event
               PROVE  /\ Fetchable(e)' => tries[e] <= troubles
                      /\ tries[e] + Due(e)' <= 2 + troubles
                      /\ Mailed(e)' \/ notice[e].notified => tries[e] > 0
    BY <1>b, <1>13, Numbers DEF CopiesOK
  <2>1. tries[e] \in Nat /\ troubles \in Nat
    BY Numbers
  <2> QED BY <1>a, <1>b, <1>13, <2>1 DEF CopiesOK, Fetchable, Kept
<1> QED BY <1>10, <1>11, <1>12, <1>14 DEF Inv

\* The mailer goes on with its event, or leaves it.
LEMMA LookUpKeeps ==
  ASSUME Inv, LookUp
  PROVE  Inv'
<1>a. EventsTypeOK /\ CollectionOK /\ CursorOK /\ CopiesOK
  BY DEF Inv
<1>b. /\ UNCHANGED <<events, notice, cursor, tries, troubles>> /\ mailer.step = "lookup"
      /\ mailer \in [step : {"wait", "lookup", "mail", "mark"}, event : Event \union {NoEvent}]
  BY <1>a DEF LookUp, EventsTypeOK
<1>c. \/ mailer'.step = "mail" /\ mailer'.event = mailer.event
      \/ mailer'.step = "wait" /\ mailer'.event = NoEvent
  BY <1>b DEF LookUp, Waiting
<1>d. mailer.event \in Event
  BY <1>a, <1>b DEF CursorOK
<1>1. EventsTypeOK'
  BY <1>a, <1>b, <1>d DEF EventsTypeOK, LookUp, Waiting
<1>2. CollectionOK' /\ CursorOK'
  BY <1>a, <1>b, <1>c DEF CollectionOK, CursorOK, Stored, Kept, Fetched, NoEvent, Event
<1>3. ASSUME NEW e \in Event PROVE Due(e)' <= Due(e) /\ Due(e)' \in Nat /\ ~Mailed(e) /\ ~Mailed(e)'
  BY <1>b, <1>c DEF Due, InHand, InBatch, Mailed
<1>4. CopiesOK'
  <2> SUFFICES ASSUME NEW e \in Event
               PROVE  /\ Fetchable(e)' => tries[e] <= troubles
                      /\ tries[e] + Due(e)' <= 2 + troubles
                      /\ Mailed(e)' \/ notice[e].notified => tries[e] > 0
    BY <1>b, <1>3, Numbers DEF CopiesOK
  <2>1. tries[e] \in Nat /\ troubles \in Nat /\ Due(e) \in Nat
    BY Numbers
  <2> QED BY <1>a, <1>b, <1>3, <2>1 DEF CopiesOK, Fetchable, Kept
<1> QED BY <1>1, <1>2, <1>4 DEF Inv

LEMMA MailKeeps ==
  ASSUME Inv, Mail
  PROVE  Inv'
<1>a. EventsTypeOK /\ CollectionOK /\ CursorOK /\ CopiesOK
  BY DEF Inv
<1> PICK m \in Event : m = mailer.event
  BY <1>a DEF Mail, CursorOK
<1>b. /\ UNCHANGED <<events, notice, cursor, unknown, troubles>> /\ mailer.step = "mail"
      /\ mailer \in [step : {"wait", "lookup", "mail", "mark"}, event : Event \union {NoEvent}]
      /\ mailer'.step = "mark" /\ mailer'.event = m
      /\ tries' = [tries EXCEPT ![m] = @ + 1]
  BY <1>a DEF Mail, EventsTypeOK
<1>c. \A e \in Event : /\ tries[e] \in Nat /\ troubles \in Nat /\ Due(e) \in {0, 1, 2}
                       /\ tries'[e] = IF e = m THEN tries[e] + 1 ELSE tries[e]
  BY <1>a, <1>b, Numbers DEF EventsTypeOK
<1>1. EventsTypeOK'
  <2>1. mailer' \in [step : {"wait", "lookup", "mail", "mark"}, event : Event \union {NoEvent}]
    BY <1>b DEF Mail
  <2>2. tries' \in [Event -> Nat]
    BY <1>a, <1>b DEF EventsTypeOK
  <2> QED BY <1>a, <1>b, <2>1, <2>2 DEF EventsTypeOK
<1>2. CollectionOK' /\ CursorOK'
  BY <1>a, <1>b, <1>c DEF CollectionOK, CursorOK, Stored, Kept, Fetched
<1>3. ASSUME NEW e \in Event
      PROVE  /\ ~Mailed(e)
             /\ Mailed(e)' <=> e = m
             /\ Due(e)' = IF e = m THEN Due(e) - 1 ELSE Due(e)
  BY <1>b DEF Due, InHand, InBatch, Mailed
<1>4. ASSUME NEW e \in Event
      PROVE  /\ Fetchable(e)' => tries'[e] <= troubles + (IF e = m THEN 1 ELSE 0)
             /\ tries'[e] + Due(e)' <= 2 + troubles
             /\ e = m \/ notice[e].notified => tries'[e] > 0
  <2>1. /\ Fetchable(e) => tries[e] <= troubles
        /\ tries[e] + Due(e) <= 2 + troubles
        /\ notice[e].notified => tries[e] > 0
        /\ Fetchable(e)' <=> Fetchable(e)
    BY <1>a, <1>b, <1>c, <1>3 DEF CopiesOK, Fetchable, Kept
  <2> QED BY <1>3, <1>c, <2>1
<1>5. CopiesOK'
  BY <1>3, <1>4, <1>b DEF CopiesOK
<1> QED BY <1>1, <1>2, <1>5 DEF Inv

\* Marked or not, the mailer is done with the event.
LEMMA MarkKeeps ==
  ASSUME Inv, Mark \/ MarkFails
  PROVE  Inv'
<1>a. EventsTypeOK /\ CollectionOK /\ CursorOK /\ CopiesOK
  BY DEF Inv
<1> PICK m \in Event : m = mailer.event
  BY <1>a DEF Mark, MarkFails, CursorOK
<1>b. /\ UNCHANGED <<events, cursor, tries, unknown>> /\ mailer.step = "mark"
      /\ mailer'.step = "wait" /\ mailer' = Waiting /\ mailer'.event = NoEvent
      /\ \/ UNCHANGED troubles /\ notice' = [notice EXCEPT ![m].notified = Kept(m)]
         \/ troubles' = troubles + 1 /\ UNCHANGED notice
  BY DEF Mark, MarkFails, Waiting
<1>c. /\ troubles' \in 0 .. MaxTroubles
      /\ \A e \in Event : tries[e] \in Nat /\ troubles \in Nat /\ Due(e) \in {0, 1, 2}
  BY <1>a, Numbers, EventsAssumption DEF EventsTypeOK, Mark, MarkFails
<1>d. /\ Kept(m) \in BOOLEAN /\ notice' \in [Event -> Note]
      /\ \A e \in Event : /\ notice'[e].to = notice[e].to
                          /\ e # m => notice'[e] = notice[e]
      /\ notice'[m].notified = Kept(m) \/ (UNCHANGED notice /\ troubles' = troubles + 1)
  <2>1. Kept(m) \in BOOLEAN /\ notice \in [Event -> Note]
    BY <1>a DEF Kept, EventsTypeOK
  <2>2. CASE UNCHANGED notice /\ troubles' = troubles + 1
    BY <2>1, <2>2
  <2>3. CASE notice' = [notice EXCEPT ![m].notified = Kept(m)]
    BY <2>1, <2>3 DEF Note
  <2> QED BY <1>b, <2>2, <2>3
<1>1. EventsTypeOK'
  BY <1>a, <1>b, <1>c, <1>d DEF EventsTypeOK, Waiting
<1>2. CollectionOK'
  <2>1. Stored(m)
    BY <1>a DEF CollectionOK
  <2>2. NoEvent \notin Event
    BY EventsAssumption DEF NoEvent, Event
  <2> QED BY <1>a, <1>b, <1>d, <2>1, <2>2 DEF CollectionOK, Stored, Kept, Fetched
<1>3. CursorOK'
  BY <1>a, <1>b DEF CursorOK
<1>4. ASSUME NEW e \in Event
      PROVE  ~Mailed(e)' /\ Due(e)' = Due(e) /\ (Mailed(e) <=> e = m)
  BY <1>b DEF Due, InHand, InBatch, Mailed
<1>5. ASSUME NEW e \in Event
      PROVE  /\ Fetchable(e)' => tries[e] <= troubles'
             /\ tries[e] + Due(e) <= 2 + troubles'
             /\ notice'[e].notified => tries[e] > 0
  <2>1. /\ Fetchable(e) => tries[e] <= troubles + (IF e = m THEN 1 ELSE 0)
        /\ tries[e] + Due(e) <= 2 + troubles
        /\ e = m \/ notice[e].notified => tries[e] > 0
    BY <1>a, <1>4 DEF CopiesOK
  <2>2. Kept(e)' <=> Kept(e)
    BY <1>b DEF Kept
  <2>3. CASE e = m
    BY <1>b, <1>c, <1>d, <2>1, <2>2, <2>3 DEF Fetchable
  <2>4. CASE e # m
    BY <1>b, <1>c, <1>d, <2>1, <2>2, <2>4 DEF Fetchable
  <2> QED BY <2>3, <2>4
<1>6. CopiesOK'
  BY <1>b, <1>c, <1>4, <1>5 DEF CopiesOK
<1> QED BY <1>1, <1>2, <1>3, <1>6 DEF Inv

-------------------------------------------------------------------------------
LEMMA InvInit == EventsInit => Inv
<1> SUFFICES ASSUME EventsInit PROVE Inv
  OBVIOUS
<1> USE DEF EventsInit, Closed, Waiting
<1>1. EventsTypeOK
  BY EmptySeq, EventsAssumption DEF EventsTypeOK, Notice, Note
<1>2. CollectionOK
  BY EmptySeq, EventsAssumption DEF CollectionOK, Distinct, Kept, Fetched, NoEvent, Event, Notice
<1>3. CursorOK
  BY EmptySeq DEF CursorOK
<1>4. CopiesOK
  <2>1. \A e \in Event : Due(e) = 0 /\ ~Mailed(e) /\ ~Kept(e) /\ ~notice[e].notified /\ tries[e] = 0
    BY EmptySeq DEF Due, InHand, InBatch, Mailed, Kept, Notice
  <2> QED BY <2>1, EventsAssumption DEF CopiesOK, Fetchable
<1> QED BY <1>1, <1>2, <1>3, <1>4 DEF Inv

LEMMA InvStep == Inv /\ [EventsNext]_eventVars => Inv'
<1> SUFFICES ASSUME Inv, [EventsNext]_eventVars PROVE Inv'
  OBVIOUS
<1>1. CASE EventsNext
  BY <1>1, NewEventKeeps, OpenKeeps, FetchMoreKeeps, LostKeeps, HandOverKeeps, LookUpKeeps,
     MailKeeps, MarkKeeps, EndsKeeps, DiesKeeps DEF EventsNext, Notifier
<1>2. CASE UNCHANGED eventVars
  BY <1>2 DEF eventVars, Inv, EventsTypeOK, CollectionOK, CursorOK, CopiesOK, Stored, Kept,
              Fetched, Fetchable, Mailed, Due, InHand, InBatch, Distinct
<1> QED BY <1>1, <1>2

LEMMA InvAlways == EventsSpec => []Inv
  BY InvInit, InvStep, PTL DEF EventsSpec

\* The collection, the cursor and the mailer have their types, and a batch ends
\* with the event its cursor stands at.
THEOREM EventsTypeCorrect == EventsSpec => []EventsTypeOK
  BY InvAlways, PTL DEF Inv

\* An event is mailed no more than twice, and once more for each failure: a new
\* cursor may fetch the event that is being mailed, once it is marked no cursor
\* fetches it again, and the program only ends by itself when the event it
\* mails has left the collection.
THEOREM NoMailFlood == EventsSpec => []FewCopies
  BY InvAlways, InvIsFewCopies, PTL

===============================================================================
