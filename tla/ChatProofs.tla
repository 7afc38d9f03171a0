------------------------------ MODULE ChatProofs ------------------------------
(***************************************************************************)
(* Theorems about Chat, for any number of tabs, replies, administrators    *)
(* and conversations, and channels and queues of any size.                 *)
(***************************************************************************)
EXTENDS Chat, FiniteSetTheorems, SequenceTheorems, WellFoundedInduction, TLAPS

Document == [user : SUBSET Message, replies : SUBSET Reply, auto : Nat, ended : BOOLEAN]

SessionType ==
  [step : SessionStep, conv : Conv, ended : BOOLEAN, history : BOOLEAN,
   first : BOOLEAN, msg : Message \union {NoMessage},
   channel : 0 .. MaxOpened, deferred : 0 .. MaxOpened]

DocsOK == docs \in [Conv -> Document]

\* A session that is about to subscribe may make a channel, and one that is
\* about to store or show a message has it.
Prepared(s) ==
  /\ session[s].step \in {"readEnded", "readHistory", "hello", "nextConversation"}
       => opened[s] < MaxOpened
  /\ session[s].step \in {"nextConversation", "insert", "show"} => session[s].msg \in Message

SessionsOK == session \in [Session -> SessionType] /\ \A s \in Session : Prepared(s)

HubOK ==
  /\ opened \in [Session -> 0 .. MaxOpened]
  /\ subs \subseteq Session \X (1 .. MaxOpened)

InboxOK ==
  inbox \in [Session -> Seq(Frames)] /\ \A s \in Session : Len(inbox[s]) <= ChannelSize

PipeOK ==
  pipe \in [Watcher -> Seq(Frames)] /\ \A w \in Watcher : Len(pipe[w]) <= ChannelSize

WatchOK == watch \in [Watcher -> 0 .. MaxConv + 1]
CallsOK == call \in [Reply \union Ending -> [step : CallStep, conv : Conv]]

ProcessOK ==
  /\ queue \in Seq(Reply) /\ Len(queue) <= QueueSize
  /\ worker \in {"running", "draining", "gone"}
  /\ server \in {"up", "stopping", "down"}

FaultsOK == faults \in 0 .. MaxFaults

TypeInv ==
  /\ DocsOK /\ SessionsOK /\ HubOK /\ InboxOK /\ PipeOK /\ WatchOK /\ CallsOK
  /\ ProcessOK /\ FaultsOK

LEMMA TypeInvIsType == TypeInv => TypeOK
  BY DEF TypeInv, TypeOK, DocsOK, SessionsOK, HubOK, InboxOK, PipeOK, WatchOK, CallsOK,
         ProcessOK, FaultsOK, Document, SessionType

-------------------------------------------------------------------------------
\* A finite set of numbers that is not empty has a greatest element.
LEMMA MaxIsGreatest ==
  ASSUME NEW S \in SUBSET Nat, IsFiniteSet(S), S # {}
  PROVE  Max(S) \in S /\ \A x \in S : x <= Max(S)
<1> DEFINE HasMax(X) == \E m \in X : \A x \in X : m >= x
           Bad == {X \in SUBSET S : X # {} /\ ~HasMax(X)}
<1>1. HasMax(S)
  <2> SUFFICES ASSUME ~HasMax(S) PROVE FALSE
    OBVIOUS
  <2>1. Bad # {}
    OBVIOUS
  <2>2. Bad \subseteq FiniteSubsetsOf(S)
    BY FS_Subset DEF FiniteSubsetsOf
  <2>3. PICK X \in Bad : \A Y \in Bad : <<Y, X>> \notin StrictSubsetOrdering(S)
    <3> HIDE DEF Bad
    <3> QED BY <2>1, <2>2, WFMin, FS_StrictSubsetOrderingWellFounded
  <2>4. PICK y \in X : TRUE
    OBVIOUS
  <2>5. X \ {y} # {}
    <3> SUFFICES ASSUME X = {y} PROVE FALSE
      BY <2>4
    <3>1. y \in Nat
      BY <2>4
    <3> QED BY <3>1
  <2>6. <<X \ {y}, X>> \in StrictSubsetOrdering(S)
    BY <2>4 DEF StrictSubsetOrdering
  <2>7. HasMax(X \ {y})
    BY <2>3, <2>5, <2>6
  <2>8. PICK m \in X \ {y} : \A x \in X \ {y} : m >= x
    BY <2>7
  <2>9. m \in Nat /\ y \in Nat
    BY <2>4
  <2>10. HasMax(X)
    <3>1. CASE m >= y
      BY <2>8, <3>1
    <3>2. CASE y > m
      <4>1. \A x \in X : x \in Nat
        OBVIOUS
      <4>2. \A x \in X : y >= x
        BY <2>8, <2>9, <3>2, <4>1
      <4> QED BY <2>4, <4>2
    <3> QED BY <2>9, <3>1, <3>2
  <2> QED BY <2>10
<1>2. Max(S) \in S /\ \A x \in S : Max(S) >= x
  BY <1>1 DEF Max
<1> QED BY <1>2

LEMMA LatestTyped == Latest \in 0 .. MaxConv
<1>1. CASE Listed = {}
  BY <1>1, ChatAssumption DEF Latest
<1>2. CASE Listed # {}
  <2>1. Listed \subseteq Conv
    BY DEF Listed
  <2>2. IsFiniteSet(Conv)
    BY FS_Interval, ChatAssumption DEF Conv
  <2>3. IsFiniteSet(Listed)
    BY <2>1, <2>2, FS_Subset
  <2>4. Listed \in SUBSET Nat
    BY <2>1, ChatAssumption DEF Conv
  <2>5. Max(Listed) \in Listed
    BY <1>2, <2>3, <2>4, MaxIsGreatest
  <2>6. Max(Listed) \in 0 .. MaxConv
    <3> DEFINE m == Max(Listed)
    <3>1. m \in 1 .. MaxConv
      BY <2>1, <2>5 DEF Conv
    <3> HIDE DEF m
    <3>2. m \in 0 .. MaxConv
      BY <3>1, ChatAssumption
    <3> QED BY <3>2 DEF m
  <2>7. Latest = Max(Listed)
    BY <1>2 DEF Latest
  <2> QED BY <2>6, <2>7
<1> QED BY <1>1, <1>2

LEMMA ConversationsTyped ==
  /\ CurrentConversation \in Conv
  /\ Latest < MaxConv => NextConversation \in Conv
  BY LatestTyped, ChatAssumption DEF CurrentConversation, NextConversation, Conv

LEMMA OfferTyped ==
  ASSUME NEW channel \in Seq(Frames), Len(channel) <= ChannelSize, NEW frame \in Frames
  PROVE  Offer(channel, frame) \in Seq(Frames) /\ Len(Offer(channel, frame)) <= ChannelSize
<1>1. CASE Len(channel) < ChannelSize
  <2>1. Append(channel, frame) \in Seq(Frames) /\ Len(Append(channel, frame)) = Len(channel) + 1
    BY AppendProperties
  <2> QED BY <1>1, <2>1, LenProperties, ChatAssumption DEF Offer
<1>2. CASE ~(Len(channel) < ChannelSize)
  BY <1>2 DEF Offer
<1> QED BY <1>1, <1>2

LEMMA TabsOffered ==
  ASSUME InboxOK, NEW frame \in Frames, PublishToTabs(frame)
  PROVE  InboxOK'
  BY OfferTyped DEF InboxOK, PublishToTabs

LEMMA WatchersOffered ==
  ASSUME PipeOK, NEW frame \in Frames, NEW keys, PublishToWatchers(keys, frame)
  PROVE  PipeOK'
  BY OfferTyped DEF PipeOK, PublishToWatchers

LEMMA FramesTyped ==
  /\ \A c \in Conv : Frame(c, "ended") \in Frames
  /\ \A c \in Conv, m \in Message : Frame(c, m) \in Frames
  /\ \A c \in Conv, r \in Reply : Frame(c, r) \in Frames
  BY DEF Frame, Frames

LEMMA StoreTyped ==
  ASSUME DocsOK, NEW c \in Conv
  PROVE  /\ \A m \in Message : Store(c, "user", m) => DocsOK'
         /\ \A r \in Reply : Store(c, "replies", r) => DocsOK'
         /\ StoreEnd(c) => DocsOK'
         /\ docs' = [docs EXCEPT ![c].auto = @ + 1] => DocsOK'
<1> USE DEF DocsOK, Document
<1>1. ASSUME NEW m \in Message, Store(c, "user", m) PROVE DocsOK'
  BY <1>1 DEF Store
<1>2. ASSUME NEW r \in Reply, Store(c, "replies", r) PROVE DocsOK'
  BY <1>2 DEF Store
<1>3. ASSUME StoreEnd(c) PROVE DocsOK'
  BY <1>3 DEF StoreEnd
<1>4. ASSUME docs' = [docs EXCEPT ![c].auto = @ + 1] PROVE DocsOK'
  BY <1>4
<1> QED BY <1>1, <1>2, <1>3, <1>4

LEMMA FaultTyped == ASSUME FaultsOK, Fault PROVE FaultsOK'
  BY ChatAssumption DEF FaultsOK, Fault

LEMMA OffTyped == Off \in SessionType
  BY ChatAssumption DEF Off, SessionType, SessionStep, Conv


\* What a session, the hub and the channel are when the session ends.
LEMMA TeardownTyped ==
  ASSUME SessionsOK, HubOK, InboxOK, NEW s \in Session, Teardown(s), UNCHANGED opened
  PROVE  SessionsOK' /\ HubOK' /\ InboxOK'
<1>1. SessionsOK'
  <2>1. Off.step = "off"
    BY DEF Off
  <2> QED BY <2>1, OffTyped DEF SessionsOK, Teardown, Prepared
<1>2. HubOK'
  BY DEF HubOK, Teardown
<1>3. InboxOK'
  BY EmptySeq, ChatAssumption DEF InboxOK, Teardown
<1> QED BY <1>1, <1>2, <1>3

\* Of the variables, those an action of a tab can change are its conversation's
\* documents, its session, its channels and what waits in the administrators'.
LEMMA TabTyped ==
  ASSUME TypeInv, NEW s \in Session, Tab(s)
  PROVE  DocsOK' /\ SessionsOK' /\ HubOK' /\ InboxOK' /\ PipeOK' /\ FaultsOK'
<1> DEFINE conv == session[s].conv
<1>a. DocsOK /\ SessionsOK /\ HubOK /\ InboxOK /\ PipeOK /\ FaultsOK
  BY DEF TypeInv
<1>b. session[s] \in SessionType /\ conv \in Conv
  BY <1>a DEF SessionsOK, SessionType
<1>c. opened[s] \in 0 .. MaxOpened
  BY <1>a DEF HubOK
<1>1. CASE Connect(s)
  <2>1. SessionsOK'
    BY <1>a, <1>b, <1>c, <1>1, ConversationsTyped
       DEF SessionsOK, SessionType, SessionStep, Prepared, Connect, At
  <2> QED BY <1>a, <1>1, <2>1 DEF Connect, DocsOK, HubOK, InboxOK, PipeOK, FaultsOK, adminVars
<1>2. CASE ReadEnded(s)
  <2>0. Ended(conv) \in BOOLEAN
    BY <1>a, <1>b DEF Ended, DocsOK, Document
  <2>1. SessionsOK'
    BY <1>a, <1>b, <1>2, <2>0
       DEF SessionsOK, SessionType, SessionStep, Prepared, ReadEnded, At, Then
  <2>2. FaultsOK'
    BY <1>a, <1>2, FaultTyped DEF ReadEnded, FaultsOK
  <2> QED BY <1>a, <1>2, <2>1, <2>2 DEF ReadEnded, DocsOK, HubOK, InboxOK, PipeOK, adminVars
<1>3. CASE ReadHistory(s)
  <2>1. SessionsOK'
    BY <1>a, <1>b, <1>3
       DEF SessionsOK, SessionType, SessionStep, Prepared, ReadHistory, At, Then, HasHistory
  <2>2. FaultsOK'
    BY <1>a, <1>3, FaultTyped DEF ReadHistory, FaultsOK
  <2> QED BY <1>a, <1>3, <2>1, <2>2 DEF ReadHistory, DocsOK, HubOK, InboxOK, PipeOK, adminVars
<1>4. CASE Subscribe(s)
  <2>0. opened'[s] \in 1 .. MaxOpened /\ opened' \in [Session -> 0 .. MaxOpened]
    BY <1>a, <1>c, <1>4, ChatAssumption DEF Subscribe, SessionsOK, Prepared, At, HubOK
  <2>1. session' \in [Session -> SessionType]
    BY <1>a, <1>b, <1>4, <2>0 DEF Subscribe, SessionsOK, SessionType, SessionStep
  <2>2. \A r \in Session : Prepared(r)'
    BY <1>a, <1>b, <1>4 DEF Subscribe, SessionsOK, Prepared, SessionType, At, HubOK
  <2>3. HubOK'
    BY <1>a, <1>4, <2>0 DEF Subscribe, HubOK
  <2> QED BY <1>a, <1>4, <2>1, <2>2, <2>3
          DEF Subscribe, SessionsOK, DocsOK, InboxOK, PipeOK, FaultsOK, adminVars
<1>5. CASE HelloFails(s)
  <2>1. SessionsOK'
    BY <1>a, <1>b, <1>5
       DEF SessionsOK, SessionType, SessionStep, Prepared, HelloFails, At, Then
  <2> QED BY <1>a, <1>5, <2>1, FaultTyped
          DEF HelloFails, DocsOK, HubOK, InboxOK, PipeOK, adminVars
<1>6. CASE Disconnect(s)
  BY <1>a, <1>6, TeardownTyped DEF Disconnect, DocsOK, PipeOK, FaultsOK, adminVars
<1>7. CASE EndByUser(s)
  <2>1. SessionsOK'
    BY <1>a, <1>b, <1>7 DEF SessionsOK, SessionType, SessionStep, Prepared, EndByUser, At
  <2> QED BY <1>a, <1>7, <2>1 DEF EndByUser, DocsOK, HubOK, InboxOK, PipeOK, FaultsOK, adminVars
<1>8. CASE MarkEnded(s)
  <2>1. SessionsOK'
    BY <1>a, <1>b, <1>8 DEF SessionsOK, SessionType, SessionStep, Prepared, MarkEnded, At, Then
  <2>2. DocsOK' /\ FaultsOK'
    BY <1>a, <1>b, <1>8, StoreTyped, FaultTyped DEF MarkEnded, DocsOK, FaultsOK
  <2> QED BY <1>a, <1>8, <2>1, <2>2 DEF MarkEnded, HubOK, InboxOK, PipeOK, adminVars
<1>9. CASE TellEnded(s)
  <2>1. PipeOK'
    BY <1>a, <1>b, <1>9, FramesTyped, WatchersOffered DEF TellEnded
  <2>2. CASE Then(s, "idle") /\ UNCHANGED <<subs, inbox, faults>>
    <3>1. SessionsOK'
      BY <1>a, <1>b, <1>9, <2>2 DEF SessionsOK, SessionType, SessionStep, Prepared, TellEnded, At, Then
    <3> QED BY <1>a, <1>9, <2>1, <2>2, <3>1 DEF TellEnded, DocsOK, HubOK, InboxOK, FaultsOK
  <2>3. CASE Fault /\ Teardown(s)
    BY <1>a, <1>9, <2>1, <2>3, FaultTyped, TeardownTyped DEF TellEnded, DocsOK
  <2> QED BY <1>9, <2>2, <2>3 DEF TellEnded
<1>10. ASSUME NEW m \in Message, UserSends(s, m)
       PROVE  DocsOK' /\ SessionsOK' /\ HubOK' /\ InboxOK' /\ PipeOK' /\ FaultsOK'
  <2>1. session' \in [Session -> SessionType]
    BY <1>a, <1>b, <1>10 DEF SessionsOK, SessionType, SessionStep, UserSends
  <2>2. \A r \in Session : Prepared(r)'
    BY <1>a, <1>b, <1>10 DEF SessionsOK, SessionType, Prepared, UserSends, At
  <2> QED BY <1>a, <1>10, <2>1, <2>2
          DEF UserSends, SessionsOK, DocsOK, HubOK, InboxOK, PipeOK, FaultsOK, adminVars
<1>11. CASE BeginConversation(s)
  <2>1. CASE Fault /\ session' = [session EXCEPT ![s].step = "idle", ![s].msg = NoMessage]
             /\ UNCHANGED <<opened, subs, inbox>>
    <3>1. SessionsOK'
      BY <1>a, <1>b, <2>1 DEF SessionsOK, SessionType, SessionStep, Prepared
    <3> QED BY <1>a, <1>11, <2>1, <3>1, FaultTyped
            DEF BeginConversation, DocsOK, HubOK, InboxOK, PipeOK, adminVars
  <2>2. CASE /\ Latest < MaxConv
             /\ opened' = [opened EXCEPT ![s] = @ + 1]
             /\ session' = [session EXCEPT
                  ![s].step = "insert", ![s].conv = NextConversation,
                  ![s].ended = FALSE, ![s].first = TRUE, ![s].channel = opened'[s]]
             /\ subs' = (subs \ {<<s, session[s].channel>>}) \union {<<s, opened'[s]>>}
             /\ inbox' = [inbox EXCEPT ![s] = <<>>]
             /\ UNCHANGED faults
    <3>0. opened'[s] \in 1 .. MaxOpened /\ opened' \in [Session -> 0 .. MaxOpened]
      BY <1>a, <1>c, <1>11, <2>2, ChatAssumption
         DEF BeginConversation, SessionsOK, Prepared, At, HubOK
    <3>1. session' \in [Session -> SessionType]
      BY <1>a, <1>b, <2>2, <3>0, ConversationsTyped DEF SessionsOK, SessionType, SessionStep
    <3>2. \A r \in Session : Prepared(r)'
      BY <1>a, <1>b, <1>11, <2>2
         DEF BeginConversation, SessionsOK, Prepared, SessionType, At, HubOK
    <3>3. HubOK'
      BY <1>a, <2>2, <3>0 DEF HubOK
    <3>4. InboxOK'
      BY <1>a, <2>2, EmptySeq, ChatAssumption DEF InboxOK
    <3> QED BY <1>a, <1>11, <2>2, <3>1, <3>2, <3>3, <3>4
            DEF BeginConversation, SessionsOK, DocsOK, PipeOK, FaultsOK, adminVars
  <2> QED BY <1>11, <2>1, <2>2 DEF BeginConversation
<1>12. CASE InsertMessage(s)
  <2>1. session[s].msg \in Message
    BY <1>a, <1>12 DEF InsertMessage, SessionsOK, Prepared, At
  <2>2. DocsOK' /\ FaultsOK'
    BY <1>a, <1>b, <1>12, <2>1, StoreTyped, FaultTyped DEF InsertMessage, DocsOK, FaultsOK
  <2>3. session' \in [Session -> SessionType]
    BY <1>a, <1>b, <1>12 DEF InsertMessage, SessionsOK, SessionType, SessionStep
  <2>4. \A r \in Session : Prepared(r)'
    BY <1>a, <1>b, <1>12, <2>1 DEF InsertMessage, SessionsOK, SessionType, Prepared
  <2> QED BY <1>a, <1>12, <2>2, <2>3, <2>4
          DEF InsertMessage, SessionsOK, HubOK, InboxOK, PipeOK, adminVars
<1>13. CASE ShowMessage(s)
  <2>1. PipeOK'
    <3>1. Frame(conv, session[s].msg) \in Frames
      BY <1>a, <1>b, <1>13, FramesTyped DEF ShowMessage, SessionsOK, Prepared, At
    <3> QED BY <1>a, <1>13, <3>1, WatchersOffered DEF ShowMessage
  <2>2. CASE /\ session' = [session EXCEPT ![s].msg = NoMessage,
                  ![s].step = IF session[s].first THEN "autoReply" ELSE "idle"]
             /\ UNCHANGED <<subs, inbox, faults>>
    <3>1. SessionsOK'
      BY <1>a, <1>b, <1>13, <2>2 DEF SessionsOK, SessionType, SessionStep, Prepared, ShowMessage
    <3> QED BY <1>a, <1>13, <2>1, <2>2, <3>1 DEF ShowMessage, DocsOK, HubOK, InboxOK, FaultsOK
  <2>3. CASE Fault /\ Teardown(s)
    BY <1>a, <1>13, <2>1, <2>3, FaultTyped, TeardownTyped DEF ShowMessage, DocsOK
  <2> QED BY <1>13, <2>2, <2>3 DEF ShowMessage
<1>14. CASE SendAutoReply(s)
  <2>1. PipeOK' /\ UNCHANGED opened
    BY <1>a, <1>14 DEF SendAutoReply, PipeOK, adminVars
  <2>2. DocsOK'
    BY <1>a, <1>b, <1>14, StoreTyped DEF SendAutoReply, DocsOK
  <2>3. FaultsOK'
    BY <1>a, <1>14, FaultTyped DEF SendAutoReply, FaultsOK
  <2>4. CASE Then(s, "idle") /\ UNCHANGED <<subs, inbox>>
    <3>1. SessionsOK'
      BY <1>a, <1>b, <2>1, <2>4 DEF SessionsOK, SessionType, SessionStep, Prepared, Then
    <3> QED BY <1>a, <2>1, <2>2, <2>3, <2>4, <3>1 DEF HubOK, InboxOK
  <2>5. CASE Teardown(s)
    BY <1>a, <2>1, <2>2, <2>3, <2>5, TeardownTyped
  <2> QED BY <1>14, <2>4, <2>5 DEF SendAutoReply
<1>15. CASE Receive(s)
  <2>1. DocsOK' /\ PipeOK' /\ UNCHANGED opened /\ FaultsOK'
    BY <1>a, <1>15, FaultTyped DEF Receive, DocsOK, PipeOK, FaultsOK, adminVars
  <2>2. CASE /\ session' = [session EXCEPT ![s].ended = @ \/ Head(inbox[s]).what = "ended"]
             /\ inbox' = [inbox EXCEPT ![s] = Tail(@)]
             /\ UNCHANGED <<subs, faults>>
    <3>1. SessionsOK'
      BY <1>a, <1>b, <2>1, <2>2 DEF SessionsOK, SessionType, Prepared
    <3>2. Tail(inbox[s]) \in Seq(Frames) /\ Len(Tail(inbox[s])) <= ChannelSize
      BY <1>a, <1>15, HeadTailProperties, LenProperties, ChatAssumption DEF InboxOK, Receive
    <3>3. InboxOK'
      BY <1>a, <2>2, <3>2 DEF InboxOK
    <3> QED BY <1>a, <2>1, <2>2, <3>1, <3>3 DEF HubOK
  <2>3. CASE Fault /\ Teardown(s)
    BY <1>a, <2>1, <2>3, TeardownTyped
  <2> QED BY <1>15, <2>2, <2>3 DEF Receive
<1> QED BY <1>1, <1>2, <1>3, <1>4, <1>5, <1>6, <1>7, <1>8, <1>9, <1>10, <1>11, <1>12,
           <1>13, <1>14, <1>15 DEF Tab, Proceed

LEMMA QueueTailTyped ==
  ASSUME ProcessOK, queue # <<>>
  PROVE  Tail(queue) \in Seq(Reply) /\ Len(Tail(queue)) <= QueueSize /\ Head(queue) \in Reply
  BY HeadTailProperties, LenProperties, ChatAssumption DEF ProcessOK

LEMMA StoreHeadTyped ==
  ASSUME DocsOK, CallsOK, ProcessOK, queue # <<>>, StoreHead
  PROVE  DocsOK'
<1>1. Head(queue) \in Reply
  BY QueueTailTyped
<1>2. call[Head(queue)].conv \in Conv
  BY <1>1 DEF CallsOK
<1> QED BY <1>1, <1>2, StoreTyped DEF StoreHead

LEMMA AdminTyped ==
  ASSUME TypeInv, Admin
  PROVE  DocsOK' /\ InboxOK' /\ PipeOK' /\ WatchOK' /\ CallsOK' /\ ProcessOK' /\ FaultsOK'
<1>a. DocsOK /\ InboxOK /\ PipeOK /\ WatchOK /\ CallsOK /\ ProcessOK /\ FaultsOK
  BY DEF TypeInv
<1> DEFINE Goal == DocsOK' /\ InboxOK' /\ PipeOK' /\ WatchOK' /\ CallsOK' /\ ProcessOK' /\ FaultsOK'
<1>b. ASSUME UNCHANGED <<inbox, pipe, watch>> PROVE InboxOK' /\ PipeOK' /\ WatchOK'
  BY <1>a, <1>b DEF InboxOK, PipeOK, WatchOK
<1>c. ASSUME UNCHANGED <<queue, worker, server>> PROVE ProcessOK'
  BY <1>a, <1>c DEF ProcessOK
<1>1. ASSUME NEW r \in Reply, NEW c \in Conv, AdminReply(r, c) PROVE Goal
  <2>1. InboxOK' /\ PipeOK' /\ WatchOK'
    BY <1>b, <1>1 DEF AdminReply, tabVars, adminVars
  <2>2. CallsOK'
    BY <1>a, <1>1 DEF AdminReply, Calls, CallsOK, CallStep
  <2>3. DocsOK' /\ FaultsOK'
    BY <1>a, <1>1, StoreTyped, FaultTyped DEF AdminReply, DocsOK, FaultsOK
  <2>4. ProcessOK'
    <3>1. CASE Len(queue) < QueueSize
      <4>1. Append(queue, r) \in Seq(Reply) /\ Len(Append(queue, r)) = Len(queue) + 1
        BY <1>a, AppendProperties DEF ProcessOK
      <4> QED BY <1>a, <1>1, <3>1, <4>1, LenProperties, ChatAssumption DEF AdminReply, ProcessOK
    <3>2. CASE ~(Len(queue) < QueueSize)
      BY <1>c, <1>1, <3>2 DEF AdminReply
    <3> QED BY <3>1, <3>2
  <2> QED BY <2>1, <2>2, <2>3, <2>4
<1>2. ASSUME NEW a \in Ending, NEW c \in Conv, AdminEnd(a, c) PROVE Goal
  <2>1. CallsOK'
    BY <1>a, <1>2 DEF AdminEnd, Calls, CallsOK, CallStep
  <2>2. DocsOK' /\ FaultsOK'
    BY <1>a, <1>2, StoreTyped, FaultTyped DEF AdminEnd, DocsOK, FaultsOK
  <2> QED BY <1>b, <1>c, <1>2, <2>1, <2>2 DEF AdminEnd, tabVars, adminVars, processVars
<1>3. ASSUME NEW r \in Reply, PushReply(r) PROVE Goal
  <2>1. Frame(call[r].conv, r) \in Frames
    BY <1>a, FramesTyped DEF CallsOK
  <2>2. InboxOK'
    BY <1>a, <1>3, <2>1, TabsOffered DEF PushReply
  <2>3. CallsOK'
    BY <1>a, <1>3 DEF PushReply, Goes, CallsOK, CallStep
  <2> QED BY <1>a, <1>c, <1>3, <2>2, <2>3
          DEF PushReply, DocsOK, PipeOK, WatchOK, FaultsOK, adminVars, processVars
<1>4. ASSUME NEW r \in Reply, Tell(r) PROVE Goal
  <2>1. Frame(call[r].conv, r) \in Frames
    BY <1>a, FramesTyped DEF CallsOK
  <2>2. PipeOK'
    BY <1>a, <1>4, <2>1, WatchersOffered DEF Tell
  <2>3. CallsOK'
    BY <1>a, <1>4 DEF Tell, Goes, CallsOK, CallStep
  <2> QED BY <1>a, <1>c, <1>4, <2>2, <2>3
          DEF Tell, DocsOK, InboxOK, WatchOK, FaultsOK, tabVars, processVars
<1>5. ASSUME NEW a \in Ending, PushEnded(a) PROVE Goal
  <2>1. Frame(call[a].conv, "ended") \in Frames
    BY <1>a, FramesTyped DEF CallsOK
  <2>2. InboxOK'
    BY <1>a, <1>5, <2>1, TabsOffered DEF PushEnded
  <2>3. CallsOK'
    BY <1>a, <1>5 DEF PushEnded, Goes, CallsOK, CallStep
  <2> QED BY <1>a, <1>c, <1>5, <2>2, <2>3
          DEF PushEnded, DocsOK, PipeOK, WatchOK, FaultsOK, adminVars, processVars
<1>6. ASSUME NEW w \in Watcher, WatchAll(w) \/ Unwatch(w) \/ \E c \in Conv : Watch(w, c) PROVE Goal
  <2>1. WatchOK'
    BY <1>a, <1>6, ChatAssumption
       DEF WatchAll, Watch, Unwatch, WatchOK, Conv, Broadcast, Nothing
  <2>2. PipeOK'
    <3>1. CASE UNCHANGED pipe
      BY <1>a, <3>1 DEF PipeOK
    <3>2. CASE pipe' = [pipe EXCEPT ![w] = <<>>]
      BY <1>a, <3>2, EmptySeq, ChatAssumption DEF PipeOK
    <3> QED BY <1>6, <3>1, <3>2 DEF WatchAll, Watch, Unwatch
  <2>3. InboxOK' /\ DocsOK' /\ CallsOK' /\ FaultsOK'
    BY <1>a, <1>6 DEF WatchAll, Watch, Unwatch, InboxOK, DocsOK, CallsOK, FaultsOK, tabVars
  <2> QED BY <1>c, <1>6, <2>1, <2>2, <2>3 DEF WatchAll, Watch, Unwatch, processVars
<1>7. ASSUME NEW w \in Watcher, Deliver(w) PROVE Goal
  <2>1. Tail(pipe[w]) \in Seq(Frames) /\ Len(Tail(pipe[w])) <= ChannelSize
    BY <1>a, <1>7, HeadTailProperties, LenProperties, ChatAssumption DEF PipeOK, Deliver
  <2>2. PipeOK'
    BY <1>a, <1>7, <2>1 DEF PipeOK, Deliver
  <2> QED BY <1>a, <1>c, <1>7, <2>2
          DEF Deliver, DocsOK, InboxOK, WatchOK, CallsOK, FaultsOK, tabVars, processVars
<1> QED BY <1>1, <1>2, <1>3, <1>4, <1>5, <1>6, <1>7 DEF Admin

LEMMA ProcessTyped ==
  ASSUME TypeInv, Worker \/ Signal \/ Exit \/ Restart
  PROVE  TypeInv'
<1>a. DocsOK /\ SessionsOK /\ HubOK /\ InboxOK /\ PipeOK /\ WatchOK /\ CallsOK
      /\ ProcessOK /\ FaultsOK
  BY DEF TypeInv
<1>b. ASSUME UNCHANGED tabVars PROVE SessionsOK' /\ HubOK' /\ InboxOK'
  BY <1>a, <1>b DEF tabVars, SessionsOK, Prepared, HubOK, InboxOK
<1>c. ASSUME UNCHANGED <<adminVars, call>> PROVE PipeOK' /\ WatchOK' /\ CallsOK'
  BY <1>a, <1>c DEF adminVars, PipeOK, WatchOK, CallsOK
<1>1. CASE Worker
  <2>1. DocsOK' /\ FaultsOK'
    BY <1>a, <1>1, StoreHeadTyped, FaultTyped
       DEF Worker, WorkerStores, WorkerPicksCancelled, WorkerSeesCancel, WorkerDrains, DocsOK, FaultsOK
  <2>2. ProcessOK'
    BY <1>a, <1>1, QueueTailTyped
       DEF Worker, WorkerStores, WorkerPicksCancelled, WorkerSeesCancel, WorkerDrains, ProcessOK
  <2> QED BY <1>b, <1>c, <1>1, <2>1, <2>2
          DEF Worker, WorkerStores, WorkerPicksCancelled, WorkerSeesCancel, WorkerDrains, TypeInv
<1>2. CASE Signal
  BY <1>a, <1>b, <1>c, <1>2, FaultTyped DEF Signal, DocsOK, ProcessOK, TypeInv
<1>3. CASE Restart
  BY <1>a, <1>b, <1>c, <1>3 DEF Restart, DocsOK, ProcessOK, FaultsOK, TypeInv
<1>4. CASE Exit
  <2>1. DocsOK' /\ FaultsOK'
    BY <1>a, <1>4, FaultTyped DEF Exit, DocsOK, FaultsOK
  <2>2. SessionsOK'
    <3>1. Off.step = "off"
      BY DEF Off
    <3> QED BY <1>4, <3>1, OffTyped DEF Exit, SessionsOK, Prepared
  <2>3. HubOK' /\ InboxOK' /\ PipeOK' /\ ProcessOK'
    BY <1>a, <1>4, EmptySeq, ChatAssumption DEF Exit, HubOK, InboxOK, PipeOK, ProcessOK
  <2>4. WatchOK'
    BY <1>4, ChatAssumption DEF Exit, WatchOK, Nothing
  <2>5. CallsOK'
    BY <1>a, <1>4 DEF Exit, CallsOK, CallStep
  <2> QED BY <2>1, <2>2, <2>3, <2>4, <2>5 DEF TypeInv
<1> QED BY <1>1, <1>2, <1>3, <1>4

LEMMA TypeInit == Init => TypeInv
<1> SUFFICES ASSUME Init PROVE TypeInv
  OBVIOUS
<1> USE ChatAssumption DEF Init
<1>1. DocsOK
  BY DEF DocsOK, Document, NoDocs
<1>2. SessionsOK
  <2>1. Off.step = "off"
    BY DEF Off
  <2> QED BY <2>1, OffTyped DEF SessionsOK, Prepared
<1>3. HubOK /\ InboxOK /\ PipeOK /\ ProcessOK
  BY EmptySeq DEF HubOK, InboxOK, PipeOK, ProcessOK
<1>4. WatchOK /\ CallsOK /\ FaultsOK
  BY DEF WatchOK, CallsOK, FaultsOK, Nothing, NoCall, CallStep, Conv
<1> QED BY <1>1, <1>2, <1>3, <1>4 DEF TypeInv

LEMMA TypeStep == TypeInv /\ [Next]_chatVars => TypeInv'
<1> SUFFICES ASSUME TypeInv, [Next]_chatVars PROVE TypeInv'
  OBVIOUS
<1>a. DocsOK /\ SessionsOK /\ HubOK /\ InboxOK /\ PipeOK /\ WatchOK /\ CallsOK
      /\ ProcessOK /\ FaultsOK
  BY DEF TypeInv
<1>1. CASE UNCHANGED chatVars
  BY <1>a, <1>1 DEF chatVars, DocsOK, SessionsOK, Prepared, HubOK, InboxOK, PipeOK, WatchOK,
                    CallsOK, ProcessOK, FaultsOK, TypeInv
<1>2. ASSUME NEW s \in Session, Tab(s) PROVE TypeInv'
  <2>1. UNCHANGED <<watch, call, processVars>>
    BY <1>2 DEF Tab, Proceed, Connect, ReadEnded, ReadHistory, Subscribe, HelloFails,
                Disconnect, EndByUser, MarkEnded, TellEnded, UserSends, BeginConversation,
                InsertMessage, ShowMessage, SendAutoReply, Receive, adminVars
  <2>2. WatchOK' /\ CallsOK' /\ ProcessOK'
    BY <1>a, <2>1 DEF WatchOK, CallsOK, ProcessOK, processVars
  <2> QED BY <1>2, <2>2, TabTyped DEF TypeInv
<1>3. CASE Admin
  <2>1. UNCHANGED <<session, opened, subs>>
    BY <1>3 DEF Admin, AdminReply, AdminEnd, PushReply, Tell, PushEnded, WatchAll, Watch,
                Deliver, Unwatch, tabVars
  <2>2. SessionsOK' /\ HubOK'
    BY <1>a, <2>1 DEF SessionsOK, Prepared, HubOK
  <2> QED BY <1>3, <2>2, AdminTyped DEF TypeInv
<1>4. CASE Worker \/ Signal \/ Exit \/ Restart
  BY <1>4, ProcessTyped
<1> QED BY <1>1, <1>2, <1>3, <1>4 DEF Next

\* Documents, sessions, channels, calls and the queue have their types, and
\* the channels and the queue their bounds.
THEOREM ChatTypeCorrect == Spec => []TypeOK
<1>1. Spec => []TypeInv
  BY TypeInit, TypeStep, PTL DEF Spec
<1> QED BY <1>1, TypeInvIsType, PTL

-------------------------------------------------------------------------------
(***************************************************************************)
(* That the chat keeps the ledger. A reply is queued at most once and      *)
(* never both queued and stored, one that was not accepted is neither, and *)
(* the server only stops, and the worker with it, after something was      *)
(* disturbed.                                                              *)
(***************************************************************************)
Queued(r) == \E i \in DOMAIN queue : queue[i] = r
InDocs(r) == \E c \in Conv : r \in docs[c].replies
Refusal == {"none", "refused"}

Apart ==
  /\ \A i, j \in DOMAIN queue : queue[i] = queue[j] => i = j
  /\ \A r \in Reply : call[r].step \in Refusal => ~InDocs(r) /\ ~Queued(r)
  /\ \A r \in Reply : Queued(r) => ~InDocs(r)

StopsDisturb == server # "up" \/ worker # "running" => faults > 0

LedgerInv == TypeInv /\ Apart /\ StopsDisturb

Fates == [r \in Reply |-> ReplyFate(r)]

LEMMA FateIs ==
  \A r \in Reply :
    /\ ReplyFate(r) = IF InDocs(r) THEN "stored"
                      ELSE IF call[r].step = "none" THEN "none"
                      ELSE IF call[r].step = "refused" THEN "refused"
                      ELSE IF Queued(r) THEN "taken" ELSE "lost"
    /\ ReplyFate(r)' = IF InDocs(r)' THEN "stored"
                       ELSE IF call'[r].step = "none" THEN "none"
                       ELSE IF call'[r].step = "refused" THEN "refused"
                       ELSE IF Queued(r)' THEN "taken" ELSE "lost"
  BY DEF ReplyFate, InDocs, Queued

\* What the fate of a reply depends on, and when it stays as it is.
SameReply(r) ==
  /\ InDocs(r)' <=> InDocs(r)
  /\ Queued(r)' <=> Queued(r)
  /\ call'[r].step # call[r].step
       => call[r].step \notin Refusal /\ call'[r].step \notin Refusal

LEMMA SameFate ==
  ASSUME NEW r \in Reply, SameReply(r)
  PROVE  ReplyFate(r)' = ReplyFate(r)
  BY FateIs DEF SameReply, Refusal

\* The steps of the ledger, in terms of the fates.
LEMMA DisturbStep ==
  ASSUME faults' # 0, NEW lost \in SUBSET Reply,
         \A r \in lost : ReplyFate(r) = "taken" /\ ReplyFate(r)' = "lost",
         \A r \in Reply \ lost : ReplyFate(r)' = ReplyFate(r)
  PROVE  Promise!LedgerNext
<1>1. lost \in SUBSET {r \in Reply : Fates[r] = "taken"}
  BY DEF Fates
<1>2. Fates' = [r \in Reply |-> IF r \in lost THEN "lost" ELSE Fates[r]]
  BY DEF Fates
<1>3. \E gone \in SUBSET {r \in Reply : Fates[r] = "taken"} :
        Fates' = [r \in Reply |-> IF r \in gone THEN "lost" ELSE Fates[r]]
  <2> HIDE DEF Fates
  <2> QED BY <1>1, <1>2
<1>4. (faults = 0)' = FALSE
  OBVIOUS
<1>5. Promise!Disturb
  BY <1>3, <1>4 DEF Promise!Disturb, Fates
<1> QED BY <1>5 DEF Promise!LedgerNext

LEMMA OthersSame ==
  ASSUME NEW r \in Reply, NEW to, ReplyFate(r)' = to,
         \A q \in Reply \ {r} : ReplyFate(q)' = ReplyFate(q)
  PROVE  Fates' = [Fates EXCEPT ![r] = to]
  BY DEF Fates

LEMMA TakeStep ==
  ASSUME NEW r \in Reply, ReplyFate(r) = "none", ReplyFate(r)' = "taken",
         \A q \in Reply \ {r} : ReplyFate(q)' = ReplyFate(q), UNCHANGED faults
  PROVE  Promise!LedgerNext
<1>1. Fates' = [Fates EXCEPT ![r] = "taken"] /\ Fates[r] = "none"
  BY OthersSame DEF Fates
<1>2. Promise!Take(r)
  BY <1>1 DEF Promise!Take, Promise!Becomes, Fates
<1> QED BY <1>2 DEF Promise!LedgerNext

LEMMA StoreStep ==
  ASSUME NEW r \in Reply, ReplyFate(r) \in {"none", "taken"}, ReplyFate(r)' = "stored",
         \A q \in Reply \ {r} : ReplyFate(q)' = ReplyFate(q), UNCHANGED faults
  PROVE  Promise!LedgerNext
<1>1. Fates' = [Fates EXCEPT ![r] = "stored"] /\ Fates[r] \in {"none", "taken"}
  BY OthersSame DEF Fates
<1>2. Promise!Store(r)
  BY <1>1 DEF Promise!Store, Promise!Becomes, Fates
<1> QED BY <1>2 DEF Promise!LedgerNext

LEMMA RefuseStep ==
  ASSUME NEW r \in Reply, ReplyFate(r) = "none", ReplyFate(r)' = "refused",
         \A q \in Reply \ {r} : ReplyFate(q)' = ReplyFate(q), faults' # 0
  PROVE  Promise!LedgerNext
<1>1. Fates' = [Fates EXCEPT ![r] = "refused"] /\ Fates[r] = "none"
  BY OthersSame DEF Fates
<1>2. (faults = 0)' = FALSE
  OBVIOUS
<1>3. Promise!Refuse(r)
  BY <1>1, <1>2 DEF Promise!Refuse, Fates
<1> QED BY <1>3 DEF Promise!LedgerNext

LEMMA FaultCounts == ASSUME TypeInv, Fault PROVE faults' # 0
  BY ChatAssumption DEF TypeInv, FaultsOK, Fault

\* A step that leaves the fate of every reply is a stutter of the ledger, or
\* its Disturb when something fails.
LEMMA QuietStep ==
  ASSUME TypeInv, \A r \in Reply : SameReply(r), Fault \/ UNCHANGED faults
  PROVE  [Promise!LedgerNext]_(Promise!ledgerVars)
<1>1. \A r \in Reply : ReplyFate(r)' = ReplyFate(r)
  BY SameFate
<1>2. CASE UNCHANGED faults
  <2>1. Fates' = Fates
    BY <1>1 DEF Fates
  <2>2. UNCHANGED <<Fates, faults = 0>>
    BY <1>2, <2>1
  <2> QED BY <2>2 DEF Promise!ledgerVars, Fates
<1>3. CASE Fault
  <2>1. faults' # 0
    BY <1>3, FaultCounts
  <2>2. {} \in SUBSET Reply /\ \A r \in {} : ReplyFate(r) = "taken" /\ ReplyFate(r)' = "lost"
    OBVIOUS
  <2>3. \A r \in Reply \ {} : ReplyFate(r)' = ReplyFate(r)
    BY <1>1
  <2>4. Promise!LedgerNext
    BY <2>1, <2>2, <2>3, DisturbStep
  <2> QED BY <2>4
<1> QED BY <1>2, <1>3

\* How the documents, the calls and the queue move, and what of a reply moves
\* with them.
SameReplies == \A c \in Conv : docs'[c].replies = docs[c].replies

LEMMA TabsStoreNoReply ==
  ASSUME TypeInv, NEW s \in Session, Tab(s)
  PROVE  SameReplies /\ UNCHANGED <<call, processVars>> /\ (Fault \/ UNCHANGED faults)
<1>1. DocsOK
  BY DEF TypeInv
<1>2. ASSUME NEW c, NEW m, Store(c, "user", m) PROVE SameReplies
  BY <1>1, <1>2 DEF SameReplies, Store, DocsOK, Document
<1>3. ASSUME NEW c, StoreEnd(c) PROVE SameReplies
  BY <1>1, <1>3 DEF SameReplies, StoreEnd, DocsOK, Document
<1>4. ASSUME NEW c, docs' = [docs EXCEPT ![c].auto = @ + 1] PROVE SameReplies
  BY <1>1, <1>4 DEF SameReplies, DocsOK, Document
<1>5. UNCHANGED docs => SameReplies
  BY DEF SameReplies
<1>6. SameReplies
  BY <1>2, <1>3, <1>4, <1>5
     DEF Tab, Proceed, Connect, ReadEnded, ReadHistory, Subscribe, HelloFails,
         Disconnect, EndByUser, MarkEnded, TellEnded, UserSends, BeginConversation,
         InsertMessage, ShowMessage, SendAutoReply, Receive
<1>7. UNCHANGED <<call, processVars>> /\ (Fault \/ UNCHANGED faults)
  BY DEF Tab, Proceed, Connect, ReadEnded, ReadHistory, Subscribe, HelloFails,
         Disconnect, EndByUser, MarkEnded, TellEnded, UserSends, BeginConversation,
         InsertMessage, ShowMessage, SendAutoReply, Receive
<1> QED BY <1>6, <1>7

LEMMA RepliesInDocs ==
  ASSUME SameReplies
  PROVE  \A r : InDocs(r)' <=> InDocs(r)
  BY DEF SameReplies, InDocs

LEMMA QueueKeeps ==
  ASSUME UNCHANGED queue
  PROVE  \A r : Queued(r)' <=> Queued(r)
  BY DEF Queued

\* A reply that is stored.
LEMMA ReplyStored ==
  ASSUME TypeInv, NEW c \in Conv, NEW r \in Reply, Store(c, "replies", r)
  PROVE  InDocs(r)' /\ \A q \in Reply \ {r} : InDocs(q)' <=> InDocs(q)
<1>1. docs'[c].replies = docs[c].replies \union {r}
  BY DEF Store, TypeInv, DocsOK, Document
<1>2. \A d \in Conv \ {c} : docs'[d].replies = docs[d].replies
  BY DEF Store, TypeInv, DocsOK, Document
<1> QED BY <1>1, <1>2 DEF InDocs

\* A reply that leaves the queue, and one that comes to it.
LEMMA HeadLeaves ==
  ASSUME LedgerInv, queue # <<>>, queue' = Tail(queue), NEW h, h = Head(queue)
  PROVE  /\ h \in Reply /\ Queued(h) /\ ~Queued(h)'
         /\ \A q \in Reply \ {h} : Queued(q)' <=> Queued(q)
         /\ \A i, j \in DOMAIN queue' : queue'[i] = queue'[j] => i = j
<1>1. queue \in Seq(Reply)
  BY DEF LedgerInv, TypeInv, ProcessOK
<1>2. /\ queue' \in Seq(Reply) /\ Len(queue') = Len(queue) - 1
      /\ \A i \in 1 .. Len(queue') : queue'[i] = queue[i + 1]
  BY <1>1, HeadTailProperties
<1>3. h = queue[1] /\ Len(queue) \in Nat /\ Len(queue) > 0
  BY <1>1, HeadTailProperties, LenProperties
<1>4. DOMAIN queue = 1 .. Len(queue) /\ DOMAIN queue' = 1 .. (Len(queue) - 1)
  BY <1>1, <1>2, LenProperties
<1>5. \A i, j \in DOMAIN queue : queue[i] = queue[j] => i = j
  BY DEF LedgerInv, Apart
<1>6. Queued(h) /\ h \in Reply
  BY <1>1, <1>3, <1>4 DEF Queued
<1>7. ~Queued(h)'
  <2> SUFFICES ASSUME NEW i \in DOMAIN queue', queue'[i] = h PROVE FALSE
    BY DEF Queued
  <2>1. i + 1 \in DOMAIN queue /\ 1 \in DOMAIN queue /\ i + 1 # 1 /\ queue[i + 1] = queue[1]
    BY <1>2, <1>3, <1>4
  <2> QED BY <1>5, <2>1
<1>8. ASSUME NEW q \in Reply \ {h} PROVE Queued(q)' <=> Queued(q)
  <2>1. ASSUME NEW i \in DOMAIN queue', queue'[i] = q PROVE Queued(q)
    BY <1>2, <1>3, <1>4, <2>1 DEF Queued
  <2>2. ASSUME NEW i \in DOMAIN queue, queue[i] = q PROVE Queued(q)'
    <3>1. i # 1
      BY <1>3, <2>2
    <3>2. i - 1 \in DOMAIN queue' /\ queue'[i - 1] = q
      BY <1>2, <1>3, <1>4, <2>2, <3>1
    <3> QED BY <3>2 DEF Queued
  <2> QED BY <2>1, <2>2 DEF Queued
<1>9. ASSUME NEW i \in DOMAIN queue', NEW j \in DOMAIN queue', queue'[i] = queue'[j]
      PROVE  i = j
  <2>1. i + 1 \in DOMAIN queue /\ j + 1 \in DOMAIN queue /\ queue[i + 1] = queue[j + 1]
    BY <1>2, <1>3, <1>4, <1>9
  <2>2. i + 1 = j + 1
    BY <1>5, <2>1
  <2> QED BY <1>3, <1>4, <2>2
<1> QED BY <1>6, <1>7, <1>8, <1>9

LEMMA ReplyComes ==
  ASSUME LedgerInv, NEW r \in Reply, ~Queued(r), queue' = Append(queue, r)
  PROVE  /\ Queued(r)' /\ \A q \in Reply \ {r} : Queued(q)' <=> Queued(q)
         /\ \A i, j \in DOMAIN queue' : queue'[i] = queue'[j] => i = j
<1>1. queue \in Seq(Reply) /\ Len(queue) \in Nat
  BY LenProperties DEF LedgerInv, TypeInv, ProcessOK
<1>2. /\ queue' \in Seq(Reply) /\ Len(queue') = Len(queue) + 1
      /\ \A i \in 1 .. Len(queue) : queue'[i] = queue[i]
      /\ queue'[Len(queue) + 1] = r
  BY <1>1, AppendProperties
<1>3. DOMAIN queue = 1 .. Len(queue) /\ DOMAIN queue' = 1 .. (Len(queue) + 1)
  BY <1>1, <1>2, LenProperties
<1>4. \A i, j \in DOMAIN queue : queue[i] = queue[j] => i = j
  BY DEF LedgerInv, Apart
<1>5. \A i \in DOMAIN queue : queue[i] # r
  BY DEF Queued
<1>6. Queued(r)' /\ \A q \in Reply \ {r} : Queued(q)' <=> Queued(q)
  BY <1>1, <1>2, <1>3 DEF Queued
<1>7. \A i, j \in DOMAIN queue' : queue'[i] = queue'[j] => i = j
  BY <1>1, <1>2, <1>3, <1>4, <1>5
<1> QED BY <1>6, <1>7

-------------------------------------------------------------------------------
(***************************************************************************)
(* Every step keeps the replies apart, and is a step of the ledger or one  *)
(* that the ledger does not see.                                           *)
(***************************************************************************)
Kept == Apart' /\ [Promise!LedgerNext]_(Promise!ledgerVars)

LEMMA QuietKept ==
  ASSUME LedgerInv, SameReplies, UNCHANGED queue, Fault \/ UNCHANGED faults,
         \A r \in Reply : call'[r].step # call[r].step
                            => call[r].step \notin Refusal /\ call'[r].step \notin Refusal
  PROVE  Kept
<1>1. \A r \in Reply : SameReply(r)
  BY RepliesInDocs, QueueKeeps DEF SameReply
<1>2. [Promise!LedgerNext]_(Promise!ledgerVars)
  BY <1>1, QuietStep DEF LedgerInv
<1>3. Apart'
  <2>1. \A i, j \in DOMAIN queue' : queue'[i] = queue'[j] => i = j
    BY DEF LedgerInv, Apart
  <2>2. \A r \in Reply : call'[r].step \in Refusal => ~InDocs(r)' /\ ~Queued(r)'
    BY <1>1 DEF LedgerInv, Apart, SameReply
  <2>3. \A r \in Reply : Queued(r)' => ~InDocs(r)'
    BY <1>1 DEF LedgerInv, Apart, SameReply
  <2> QED BY <2>1, <2>2, <2>3 DEF Apart
<1> QED BY <1>2, <1>3 DEF Kept

LEMMA AcceptKept ==
  ASSUME LedgerInv, NEW r \in Reply, NEW c \in Conv, AdminReply(r, c)
  PROVE  Kept
<1>1. call[r].step = "none" /\ ~InDocs(r) /\ ~Queued(r) /\ ReplyFate(r) = "none"
  BY FateIs DEF AdminReply, LedgerInv, Apart, Refusal
<1>2. \A q \in Reply \ {r} : call'[q] = call[q]
  BY DEF AdminReply, Calls, LedgerInv, TypeInv, CallsOK
<1>3. ASSUME NEW step, Calls(r, step, c) PROVE call'[r].step = step
  BY <1>3 DEF Calls, LedgerInv, TypeInv, CallsOK
<1>4. CASE /\ queue' = Append(queue, r)
           /\ Calls(r, "push", c)
           /\ UNCHANGED <<docs, faults>>
  <2>1. /\ Queued(r)' /\ \A q \in Reply \ {r} : Queued(q)' <=> Queued(q)
        /\ \A i, j \in DOMAIN queue' : queue'[i] = queue'[j] => i = j
    BY <1>1, <1>4, ReplyComes
  <2>2. \A q : InDocs(q)' <=> InDocs(q)
    BY <1>4 DEF InDocs
  <2>3. call'[r].step = "push"
    BY <1>3, <1>4
  <2>4. ReplyFate(r)' = "taken"
    BY <1>1, <2>1, <2>2, <2>3, FateIs
  <2>5. \A q \in Reply \ {r} : ReplyFate(q)' = ReplyFate(q)
    BY <1>2, <2>1, <2>2, SameFate DEF SameReply
  <2>6. Promise!LedgerNext
    BY <1>1, <1>4, <2>4, <2>5, TakeStep
  <2>7. Apart'
    BY <1>1, <1>2, <2>1, <2>2, <2>3 DEF LedgerInv, Apart, Refusal
  <2> QED BY <2>6, <2>7 DEF Kept
<1>5. CASE /\ UNCHANGED <<queue, faults>>
           /\ Store(c, "replies", r) /\ Calls(r, "push", c)
  <2>1. InDocs(r)' /\ \A q \in Reply \ {r} : InDocs(q)' <=> InDocs(q)
    BY <1>5, ReplyStored DEF LedgerInv
  <2>2. \A q : Queued(q)' <=> Queued(q)
    BY <1>5, QueueKeeps
  <2>3. call'[r].step = "push"
    BY <1>3, <1>5
  <2>4. ReplyFate(r)' = "stored"
    BY <2>1, FateIs
  <2>5. \A q \in Reply \ {r} : ReplyFate(q)' = ReplyFate(q)
    BY <1>2, <2>1, <2>2, SameFate DEF SameReply
  <2>6. Promise!LedgerNext
    BY <1>1, <1>5, <2>4, <2>5, StoreStep
  <2>7. Apart'
    BY <1>1, <1>2, <1>5, <2>1, <2>2, <2>3 DEF LedgerInv, Apart, Refusal
  <2> QED BY <2>6, <2>7 DEF Kept
<1>6. CASE /\ UNCHANGED <<queue, docs>>
           /\ Fault /\ Calls(r, "refused", c)
  <2>1. \A q : (InDocs(q)' <=> InDocs(q)) /\ (Queued(q)' <=> Queued(q))
    BY <1>6 DEF InDocs, Queued
  <2>2. call'[r].step = "refused"
    BY <1>3, <1>6
  <2>3. ReplyFate(r)' = "refused"
    BY <1>1, <2>1, <2>2, FateIs
  <2>4. \A q \in Reply \ {r} : ReplyFate(q)' = ReplyFate(q)
    BY <1>2, <2>1, SameFate DEF SameReply
  <2>5. faults' # 0
    BY <1>6, FaultCounts DEF LedgerInv
  <2>6. Promise!LedgerNext
    BY <1>1, <2>3, <2>4, <2>5, RefuseStep
  <2>7. Apart'
    BY <1>1, <1>2, <1>6, <2>1 DEF LedgerInv, Apart, Refusal
  <2> QED BY <2>6, <2>7 DEF Kept
<1> QED BY <1>4, <1>5, <1>6 DEF AdminReply

\* What the worker takes is stored, or lost for a reason.
LEMMA HeadStored ==
  ASSUME LedgerInv, queue # <<>>, queue' = Tail(queue), StoreHead,
         UNCHANGED <<call, faults>>
  PROVE  Kept
<1> PICK h : h = Head(queue)
  OBVIOUS
<1>1. /\ h \in Reply /\ Queued(h) /\ ~Queued(h)'
      /\ \A q \in Reply \ {h} : Queued(q)' <=> Queued(q)
      /\ \A i, j \in DOMAIN queue' : queue'[i] = queue'[j] => i = j
  BY HeadLeaves
<1>2. ~InDocs(h) /\ call[h].step \notin Refusal
  BY <1>1 DEF LedgerInv, Apart
<1>3. call[h].conv \in Conv
  BY <1>1 DEF LedgerInv, TypeInv, CallsOK
<1>4. InDocs(h)' /\ \A q \in Reply \ {h} : InDocs(q)' <=> InDocs(q)
  BY <1>1, <1>3, ReplyStored DEF LedgerInv, StoreHead
<1>5. ReplyFate(h) = "taken" /\ ReplyFate(h)' = "stored"
  BY <1>1, <1>2, <1>4, FateIs DEF Refusal
<1>6. \A q \in Reply \ {h} : ReplyFate(q)' = ReplyFate(q)
  BY <1>1, <1>4, SameFate DEF SameReply
<1>7. Promise!LedgerNext
  BY <1>1, <1>5, <1>6, StoreStep
<1>8. Apart'
  BY <1>1, <1>2, <1>4 DEF LedgerInv, Apart
<1> QED BY <1>7, <1>8 DEF Kept

LEMMA HeadLost ==
  ASSUME LedgerInv, queue # <<>>, queue' = Tail(queue),
         UNCHANGED <<call, docs>>, faults' # 0
  PROVE  Kept
<1> PICK h : h = Head(queue)
  OBVIOUS
<1>1. /\ h \in Reply /\ Queued(h) /\ ~Queued(h)'
      /\ \A q \in Reply \ {h} : Queued(q)' <=> Queued(q)
      /\ \A i, j \in DOMAIN queue' : queue'[i] = queue'[j] => i = j
  BY HeadLeaves
<1>2. ~InDocs(h) /\ call[h].step \notin Refusal
  BY <1>1 DEF LedgerInv, Apart
<1>3. \A q : InDocs(q)' <=> InDocs(q)
  BY DEF InDocs
<1>4. ReplyFate(h) = "taken" /\ ReplyFate(h)' = "lost"
  BY <1>1, <1>2, <1>3, FateIs DEF Refusal
<1>5. \A q \in Reply \ {h} : ReplyFate(q)' = ReplyFate(q)
  BY <1>1, <1>3, SameFate DEF SameReply
<1>6. {h} \in SUBSET Reply /\ \A r \in {h} : ReplyFate(r) = "taken" /\ ReplyFate(r)' = "lost"
  BY <1>1, <1>4
<1>7. Promise!LedgerNext
  BY <1>5, <1>6, DisturbStep
<1>8. Apart'
  BY <1>1, <1>2, <1>3 DEF LedgerInv, Apart
<1> QED BY <1>7, <1>8 DEF Kept

\* The server goes with what is queued in it.
LEMMA ExitKept ==
  ASSUME LedgerInv, Exit
  PROVE  Kept
<1> DEFINE lost == {r \in Reply : Queued(r)}
<1>1. \A r : ~Queued(r)' /\ (InDocs(r)' <=> InDocs(r))
  BY DEF Exit, Queued, InDocs
<1>2. \A r \in Reply : call'[r].step # call[r].step
                         => call[r].step \notin Refusal /\ call'[r].step \notin Refusal
  BY DEF Exit, LedgerInv, TypeInv, CallsOK, Refusal
<1>3. \A r \in lost : ReplyFate(r) = "taken" /\ ReplyFate(r)' = "lost"
  BY <1>1, <1>2, FateIs DEF LedgerInv, Apart, Refusal
<1>4. \A r \in Reply \ lost : ReplyFate(r)' = ReplyFate(r)
  BY <1>1, <1>2, SameFate DEF SameReply
<1>5. faults' # 0
  BY FaultCounts DEF Exit, LedgerInv, StopsDisturb, TypeInv, FaultsOK
<1>6. Promise!LedgerNext
  BY <1>3, <1>4, <1>5, DisturbStep
<1>7. Apart'
  <2>1. DOMAIN queue' = {}
    BY DEF Exit
  <2>2. \A r \in Reply : call'[r].step \in Refusal => ~InDocs(r)'
    BY <1>1, <1>2 DEF LedgerInv, Apart
  <2> QED BY <1>1, <2>1, <2>2 DEF Apart
<1> QED BY <1>6, <1>7 DEF Kept

LEMMA AdminKept ==
  ASSUME LedgerInv, Admin
  PROVE  Kept
<1>a. call \in [Reply \union Ending -> [step : CallStep, conv : Conv]]
  BY DEF LedgerInv, TypeInv, CallsOK
<1>b. UNCHANGED docs => SameReplies
  BY DEF SameReplies
<1>1. ASSUME NEW c \in Conv, NEW r \in Reply, AdminReply(r, c) PROVE Kept
  BY <1>1, AcceptKept
<1>2. ASSUME NEW c \in Conv, NEW a \in Ending, AdminEnd(a, c) PROVE Kept
  <2>1. SameReplies
    BY <1>2 DEF AdminEnd, StoreEnd, SameReplies, LedgerInv, TypeInv, DocsOK, Document
  <2>2. \A r \in Reply : call'[r] = call[r]
    BY <1>a, <1>2, ChatAssumption DEF AdminEnd, Calls
  <2> QED BY <1>2, <2>1, <2>2, QuietKept DEF AdminEnd, processVars
<1>3. ASSUME NEW r \in Reply, PushReply(r) \/ Tell(r) PROVE Kept
  <2>1. \A q \in Reply : call'[q].step # call[q].step
                           => call[q].step \notin Refusal /\ call'[q].step \notin Refusal
    BY <1>a, <1>3 DEF PushReply, Tell, Goes, Refusal
  <2> QED BY <1>b, <1>3, <2>1, QuietKept DEF PushReply, Tell, processVars
<1>4. ASSUME NEW a \in Ending, PushEnded(a) PROVE Kept
  <2>1. \A r \in Reply : call'[r] = call[r]
    BY <1>a, <1>4, ChatAssumption DEF PushEnded, Goes
  <2> QED BY <1>b, <1>4, <2>1, QuietKept DEF PushEnded, processVars
<1>5. ASSUME NEW w \in Watcher, WatchAll(w) \/ Deliver(w) \/ Unwatch(w) \/ \E c \in Conv : Watch(w, c)
      PROVE  Kept
  BY <1>b, <1>5, QuietKept DEF WatchAll, Deliver, Unwatch, Watch, processVars
<1> QED BY <1>1, <1>2, <1>3, <1>4, <1>5 DEF Admin

LEMMA WorkerKept ==
  ASSUME LedgerInv, Worker
  PROVE  Kept
<1>a. worker # "running" \/ server # "up" => faults # 0
  BY DEF LedgerInv, StopsDisturb
<1>b. UNCHANGED docs => SameReplies
  BY DEF SameReplies
<1>1. CASE WorkerStores
  <2>1. CASE StoreHead /\ UNCHANGED faults
    BY <1>1, <2>1, HeadStored DEF WorkerStores
  <2>2. CASE Fault /\ UNCHANGED docs
    <3>1. faults' # 0
      BY <2>2, FaultCounts DEF LedgerInv
    <3> QED BY <1>1, <2>2, <3>1, HeadLost DEF WorkerStores
  <2> QED BY <1>1, <2>1, <2>2 DEF WorkerStores
<1>2. CASE WorkerPicksCancelled
  BY <1>a, <1>2, HeadLost DEF WorkerPicksCancelled
<1>3. CASE WorkerSeesCancel
  BY <1>b, <1>3, QuietKept DEF WorkerSeesCancel
<1>4. CASE WorkerDrains
  <2>1. CASE queue # <<>> /\ queue' = Tail(queue) /\ StoreHead /\ UNCHANGED faults
    BY <1>4, <2>1, HeadStored DEF WorkerDrains
  <2>2. CASE queue # <<>> /\ queue' = Tail(queue) /\ Fault /\ UNCHANGED docs
    <3>1. faults' # 0
      BY <2>2, FaultCounts DEF LedgerInv
    <3> QED BY <1>4, <2>2, <3>1, HeadLost DEF WorkerDrains
  <2>3. CASE UNCHANGED <<docs, queue, faults>>
    BY <1>b, <1>4, <2>3, QuietKept DEF WorkerDrains
  <2> QED BY <1>4, <2>1, <2>2, <2>3 DEF WorkerDrains
<1> QED BY <1>1, <1>2, <1>3, <1>4 DEF Worker

\* The server only stops once something is disturbed.
LEMMA StopsKept ==
  ASSUME LedgerInv, Next
  PROVE  StopsDisturb'
<1>a. StopsDisturb /\ faults \in Nat /\ (Fault => faults' > 0)
  BY ChatAssumption DEF LedgerInv, TypeInv, FaultsOK, Fault
<1>1. CASE \E s \in Session : Tab(s)
  BY <1>a, <1>1, TabsStoreNoReply DEF LedgerInv, StopsDisturb, processVars
<1>2. CASE Admin
  BY <1>a, <1>2 DEF Admin, AdminReply, AdminEnd, PushReply, Tell, PushEnded, WatchAll, Watch,
                    Deliver, Unwatch, processVars, StopsDisturb
<1>3. CASE Worker
  BY <1>a, <1>3 DEF Worker, WorkerStores, WorkerPicksCancelled, WorkerSeesCancel,
                    WorkerDrains, StopsDisturb
<1>4. CASE Signal \/ Exit \/ Restart
  BY <1>a, <1>4 DEF Signal, Exit, Restart, StopsDisturb
<1> QED BY <1>1, <1>2, <1>3, <1>4 DEF Next

LEMMA LedgerStep ==
  LedgerInv /\ [Next]_chatVars => LedgerInv' /\ [Promise!LedgerNext]_(Promise!ledgerVars)
<1> SUFFICES ASSUME LedgerInv, [Next]_chatVars
             PROVE  LedgerInv' /\ [Promise!LedgerNext]_(Promise!ledgerVars)
  OBVIOUS
<1>1. TypeInv'
  BY TypeStep DEF LedgerInv
<1>2. CASE UNCHANGED chatVars
  <2>1. Kept
    BY <1>2, QuietKept DEF chatVars, SameReplies, processVars
  <2>2. StopsDisturb'
    BY <1>2 DEF chatVars, processVars, LedgerInv, StopsDisturb
  <2> QED BY <1>1, <2>1, <2>2 DEF LedgerInv, Kept
<1>3. CASE Next
  <2>1. ASSUME NEW s \in Session, Tab(s) PROVE Kept
    BY <2>1, TabsStoreNoReply, QuietKept DEF LedgerInv, processVars
  <2>2. ASSUME Admin PROVE Kept
    BY <2>2, AdminKept
  <2>3. ASSUME Worker PROVE Kept
    BY <2>3, WorkerKept
  <2>4. ASSUME Signal \/ Restart PROVE Kept
    BY <2>4, QuietKept DEF Signal, Restart, SameReplies
  <2>5. ASSUME Exit PROVE Kept
    BY <2>5, ExitKept
  <2>6. Kept
    BY <1>3, <2>1, <2>2, <2>3, <2>4, <2>5 DEF Next
  <2>7. StopsDisturb'
    BY <1>3, StopsKept
  <2> QED BY <1>1, <2>6, <2>7 DEF LedgerInv, Kept
<1> QED BY <1>2, <1>3

LEMMA LedgerStart == Init => LedgerInv /\ Promise!LedgerInit
<1> SUFFICES ASSUME Init PROVE LedgerInv /\ Promise!LedgerInit
  OBVIOUS
<1>1. TypeInv
  BY TypeInit
<1>2. \A r \in Reply : ~InDocs(r) /\ ~Queued(r) /\ call[r].step = "none"
  BY DEF Init, InDocs, Queued, NoDocs, NoCall
<1>3. Apart
  BY <1>2 DEF Init, Apart
<1>4. StopsDisturb
  BY DEF Init, StopsDisturb
<1>5. \A r \in Reply : ReplyFate(r) = "none"
  BY <1>2, FateIs
<1>6. Promise!LedgerInit
  BY <1>5 DEF Init, Promise!LedgerInit
<1> QED BY <1>1, <1>3, <1>4, <1>6 DEF LedgerInv

\* A reply that an administrator sends is taken or refused at once; one that
\* is taken is stored, and never twice; a refused one never is; and none is
\* lost while nothing has failed and nobody has stopped the server. That is,
\* the chat implements the ledger.
THEOREM LedgerKept == Spec => RepliesKept
<1>1. Spec => []LedgerInv /\ [][Promise!LedgerNext]_(Promise!ledgerVars)
  BY LedgerStart, LedgerStep, PTL DEF Spec
<1>2. Spec => Promise!LedgerInit
  BY LedgerStart DEF Spec
<1> QED BY <1>1, <1>2, PTL DEF RepliesKept, Promise!Ledger

-------------------------------------------------------------------------------
(***************************************************************************)
(* What the collection of messages does from step to step: no document     *)
(* goes, and a tab only writes to a conversation that exists or to the one *)
(* after one that does, however long ago it looked.                        *)
(***************************************************************************)
FollowsOne(c) == c > 1 => Exists(c - 1)

ConvInv == \A s \in Session : Exists(session[s].conv) \/ FollowsOne(session[s].conv)

GrowsAt(c) ==
  /\ \A d \in Conv \ {c} : docs'[d] = docs[d]
  /\ Exists(c)'
  /\ docs[c].user \subseteq docs'[c].user

DocsGrow == UNCHANGED docs \/ \E c \in Conv : GrowsAt(c)

LEMMA StoresGrow ==
  ASSUME DocsOK, NEW c \in Conv
  PROVE  /\ \A m \in Message : Store(c, "user", m) => GrowsAt(c) /\ m \in docs'[c].user
         /\ \A r \in Reply : Store(c, "replies", r) => GrowsAt(c)
         /\ StoreEnd(c) => GrowsAt(c)
         /\ docs' = [docs EXCEPT ![c].auto = @ + 1] => GrowsAt(c)
<1> USE DEF DocsOK, Document, GrowsAt, Exists, NoDocs
<1>1. ASSUME NEW m \in Message, Store(c, "user", m) PROVE GrowsAt(c) /\ m \in docs'[c].user
  <2>1. docs'[c].user = docs[c].user \union {m}
    BY <1>1 DEF Store
  <2>2. \A d \in Conv \ {c} : docs'[d] = docs[d]
    BY <1>1 DEF Store
  <2>3. docs'[c] # NoDocs
    BY <2>1
  <2> QED BY <2>1, <2>2, <2>3
<1>2. ASSUME NEW r \in Reply, Store(c, "replies", r) PROVE GrowsAt(c)
  <2>1. docs'[c].replies = docs[c].replies \union {r} /\ docs'[c].user = docs[c].user
    BY <1>2 DEF Store
  <2>2. \A d \in Conv \ {c} : docs'[d] = docs[d]
    BY <1>2 DEF Store
  <2>3. docs'[c] # NoDocs
    BY <2>1
  <2> QED BY <2>1, <2>2, <2>3
<1>3. ASSUME StoreEnd(c) PROVE GrowsAt(c)
  BY <1>3 DEF StoreEnd
<1>4. ASSUME docs' = [docs EXCEPT ![c].auto = @ + 1] PROVE GrowsAt(c)
  <2>1. docs'[c].auto = docs[c].auto + 1 /\ docs'[c].user = docs[c].user
    BY <1>4
  <2>2. \A d \in Conv \ {c} : docs'[d] = docs[d]
    BY <1>4
  <2>3. docs[c].auto \in Nat
    OBVIOUS
  <2>4. docs'[c].auto # 0
    BY <2>1, <2>3
  <2> QED BY <2>1, <2>2, <2>4
<1> QED BY <1>1, <1>2, <1>3, <1>4

LEMMA LatestExists ==
  /\ Exists(CurrentConversation) \/ FollowsOne(CurrentConversation)
  /\ FollowsOne(NextConversation)
<1>1. CASE Listed = {}
  BY <1>1 DEF Latest, CurrentConversation, NextConversation, FollowsOne
<1>2. CASE Listed # {}
  <2>1. Listed \in SUBSET Nat /\ IsFiniteSet(Listed)
    <3>1. Listed \subseteq Conv /\ Conv \subseteq Nat
      BY ChatAssumption DEF Conv, Listed
    <3>2. IsFiniteSet(Conv)
      BY FS_Interval, ChatAssumption DEF Conv
    <3> QED BY <3>1, <3>2, FS_Subset
  <2>2. Max(Listed) \in Listed
    BY <1>2, <2>1, MaxIsGreatest
  <2>3. Latest \in Conv /\ Exists(Latest)
    BY <1>2, <2>2 DEF Latest, Listed
  <2>4. Latest \in Nat /\ Latest # 0
    BY <2>3, ChatAssumption DEF Conv
  <2>5. FollowsOne(Latest + 1)
    BY <2>3, <2>4 DEF FollowsOne
  <2> QED BY <2>3, <2>4, <2>5 DEF CurrentConversation, NextConversation
<1> QED BY <1>1, <1>2

LEMMA TabDocs ==
  ASSUME TypeInv, NEW s \in Session, Tab(s)
  PROVE  UNCHANGED docs \/ GrowsAt(session[s].conv)
<1>a. DocsOK /\ session[s].conv \in Conv
  BY DEF TypeInv, SessionsOK, SessionType
<1>1. CASE InsertMessage(s)
  <2>1. session[s].msg \in Message
    BY <1>1 DEF InsertMessage, TypeInv, SessionsOK, Prepared, At
  <2> QED BY <1>a, <1>1, <2>1, StoresGrow DEF InsertMessage
<1>2. CASE MarkEnded(s) \/ SendAutoReply(s)
  BY <1>a, <1>2, StoresGrow DEF MarkEnded, SendAutoReply
<1> QED BY <1>1, <1>2
        DEF Tab, Proceed, Connect, ReadEnded, ReadHistory, Subscribe, HelloFails,
            Disconnect, EndByUser, TellEnded, UserSends, BeginConversation,
            ShowMessage, Receive

\* A tab goes on with its conversation, resumes the latest, begins the next, or
\* is off.
LEMMA TabMoves ==
  ASSUME TypeInv, NEW s \in Session, Tab(s)
  PROVE  /\ \A r \in Session \ {s} : session'[r] = session[r]
         /\ session'[s].conv \in {session[s].conv, CurrentConversation, NextConversation, 1}
<1> DEFINE conv == session[s].conv
<1>b. session \in [Session -> SessionType]
  BY DEF TypeInv, SessionsOK
<1>2. \A r \in Session \ {s} : session'[r] = session[r]
  BY <1>b DEF Tab, Proceed, Connect, ReadEnded, ReadHistory, Subscribe, HelloFails,
         Disconnect, EndByUser, MarkEnded, TellEnded, UserSends, BeginConversation,
         InsertMessage, ShowMessage, SendAutoReply, Receive, Then, Teardown
<1>4. ASSUME Teardown(s) PROVE session'[s].conv = 1
  BY <1>b, <1>4 DEF Teardown, Off
<1>3. session'[s].conv \in {conv, CurrentConversation, NextConversation, 1}
  <2>1. CASE Connect(s)
    BY <1>b, <2>1 DEF Connect, SessionType
  <2>2. CASE ReadEnded(s) \/ ReadHistory(s) \/ Subscribe(s) \/ HelloFails(s)
    BY <1>b, <2>2 DEF ReadEnded, ReadHistory, Subscribe, HelloFails, SessionType, Then
  <2>3. CASE EndByUser(s) \/ MarkEnded(s)
    BY <1>b, <2>3 DEF EndByUser, MarkEnded, SessionType, Then
  <2>4. CASE InsertMessage(s)
    BY <1>b, <2>4 DEF InsertMessage, SessionType
  <2>5. CASE ShowMessage(s)
    BY <1>b, <1>4, <2>5 DEF ShowMessage, SessionType
  <2>6. CASE BeginConversation(s)
    BY <1>b, <2>6 DEF BeginConversation, SessionType
  <2>7. CASE Receive(s)
    BY <1>b, <1>4, <2>7 DEF Receive, SessionType
  <2>8. CASE TellEnded(s) \/ SendAutoReply(s) \/ Disconnect(s)
    BY <1>b, <1>4, <2>8 DEF TellEnded, SendAutoReply, Disconnect, SessionType, Then
  <2>9. ASSUME NEW m \in Message, UserSends(s, m) PROVE session'[s].conv = conv
    BY <1>b, <2>9 DEF UserSends, SessionType
  <2> QED BY <2>1, <2>2, <2>3, <2>4, <2>5, <2>6, <2>7, <2>8, <2>9 DEF Tab, Proceed
<1> QED BY <1>2, <1>3

LEMMA AdminDocs ==
  ASSUME TypeInv, Admin
  PROVE  UNCHANGED docs \/ (DocsGrow /\ call' # call)
<1>a. call \in [Reply \union Ending -> [step : CallStep, conv : Conv]] /\ DocsOK
  BY DEF TypeInv, CallsOK
<1>1. ASSUME NEW a \in Reply \union Ending, NEW c \in Conv, NEW step, Calls(a, step, c),
             step # call[a].step
      PROVE  call' # call
  BY <1>a, <1>1 DEF Calls
<1>2. ASSUME NEW r \in Reply, NEW c \in Conv, AdminReply(r, c)
      PROVE  UNCHANGED docs \/ (GrowsAt(c) /\ call' # call)
  BY <1>a, <1>1, <1>2, StoresGrow DEF AdminReply
<1>3. ASSUME NEW a \in Ending, NEW c \in Conv, AdminEnd(a, c)
      PROVE  UNCHANGED docs \/ (GrowsAt(c) /\ call' # call)
  BY <1>a, <1>1, <1>3, StoresGrow DEF AdminEnd
<1>4. CASE UNCHANGED docs
  BY <1>4
<1> QED BY <1>2, <1>3, <1>4
        DEF Admin, PushReply, Tell, PushEnded, WatchAll, Deliver, Unwatch, Watch, DocsGrow

LEMMA WorkerDocs ==
  ASSUME TypeInv, Worker
  PROVE  UNCHANGED docs \/ (DocsGrow /\ queue' # queue)
<1>1. ASSUME queue # <<>>, StoreHead, queue' = Tail(queue)
      PROVE  DocsGrow /\ queue' # queue
  <2> PICK h : h = Head(queue)
    OBVIOUS
  <2>1. h \in Reply /\ queue \in Seq(Reply)
    BY <1>1, QueueTailTyped DEF TypeInv, ProcessOK
  <2>2. call[h].conv \in Conv
    BY <2>1 DEF TypeInv, CallsOK
  <2>3. DocsGrow
    BY <1>1, <2>1, <2>2, StoresGrow DEF StoreHead, DocsGrow, TypeInv
  <2>4. Len(queue') = Len(queue) - 1 /\ Len(queue) \in Nat
    BY <1>1, <2>1, HeadTailProperties, LenProperties
  <2>5. queue' # queue
    BY <2>4
  <2> QED BY <2>3, <2>5
<1> QED BY <1>1 DEF Worker, WorkerStores, WorkerPicksCancelled, WorkerSeesCancel, WorkerDrains

LEMMA ExistsGrows ==
  ASSUME DocsGrow
  PROVE  /\ \A c \in Conv : Exists(c) => Exists(c)'
         /\ \A c \in Conv : docs[c].user \subseteq docs'[c].user
  BY DEF DocsGrow, GrowsAt, Exists

LEMMA DocsStep ==
  ASSUME TypeInv, [Next]_chatVars
  PROVE  DocsGrow
<1>1. CASE Signal \/ Exit \/ Restart \/ UNCHANGED chatVars
  BY <1>1 DEF Signal, Exit, Restart, chatVars, DocsGrow
<1>2. ASSUME NEW s \in Session, Tab(s) PROVE DocsGrow
  BY <1>2, TabDocs DEF DocsGrow, TypeInv, SessionsOK, SessionType
<1> QED BY <1>1, <1>2, AdminDocs, WorkerDocs DEF Next, DocsGrow

LEMMA ConvStep ==
  TypeInv /\ ConvInv /\ [Next]_chatVars => ConvInv'
<1> SUFFICES ASSUME TypeInv, ConvInv, [Next]_chatVars PROVE ConvInv'
  OBVIOUS
<1>a. TypeInv'
  BY TypeStep
<1>b. \A c \in Conv : Exists(c) => Exists(c)'
  BY DocsStep, ExistsGrows
<1>c. \A s \in Session : session'[s].conv \in Conv
  BY <1>a DEF TypeInv, SessionsOK, SessionType
<1>d. ASSUME NEW c \in Conv, Exists(c) \/ FollowsOne(c)
      PROVE  Exists(c)' \/ FollowsOne(c)'
  <2>1. c > 1 => c - 1 \in Conv
    BY ChatAssumption DEF Conv
  <2> QED BY <1>b, <1>d, <2>1 DEF FollowsOne
<1>1. \A s \in Session : Exists(session'[s].conv) \/ FollowsOne(session'[s].conv)
  <2>1. ASSUME NEW r \in Session, Tab(r)
        PROVE  \A s \in Session : Exists(session'[s].conv) \/ FollowsOne(session'[s].conv)
    <3>1. FollowsOne(1)
      BY DEF FollowsOne
    <3> QED BY <2>1, <3>1, TabMoves, LatestExists DEF ConvInv
  <2>2. CASE UNCHANGED session
    BY <2>2 DEF ConvInv
  <2>3. CASE Exit
    BY <2>3 DEF Exit, Off, FollowsOne
  <2> QED BY <2>1, <2>2, <2>3
          DEF Next, Admin, AdminReply, AdminEnd, PushReply, Tell, PushEnded, WatchAll, Watch,
              Deliver, Unwatch, tabVars, Worker, WorkerStores, WorkerPicksCancelled,
              WorkerSeesCancel, WorkerDrains, Signal, Restart, chatVars
<1>2. ASSUME NEW s \in Session
      PROVE  Exists(session[s].conv)' \/ FollowsOne(session[s].conv)'
  <2> PICK c \in Conv : c = session'[s].conv
    BY <1>c
  <2>1. Exists(c)' \/ FollowsOne(c)'
    BY <1>1, <1>d
  <2> QED BY <2>1 DEF FollowsOne, Exists
<1> QED BY <1>2 DEF ConvInv

LEMMA ConvStart == Init => ConvInv
  BY DEF Init, ConvInv, FollowsOne, Off

\* Whatever number a tab resumed or was given, however long ago, and whoever
\* else began a conversation since: the user's step leaves no hole before a
\* conversation it founds. Nothing is assumed of the numbers that administrators
\* reply to or end.
THEOREM NoneSkipped == Spec => UserSkipsNoConversation
<1>1. TypeInv /\ ConvInv /\ [Next]_chatVars =>
        [UNCHANGED <<call, queue>> =>
           \A c \in Conv : ~Exists(c) /\ Exists(c)' /\ c > 1 => Exists(c - 1)]_chatVars
  <2> SUFFICES ASSUME TypeInv, ConvInv, [Next]_chatVars, UNCHANGED <<call, queue>>,
                      NEW c \in Conv, ~Exists(c), Exists(c)', c > 1
               PROVE  Exists(c - 1)
    OBVIOUS
  <2>1. ~UNCHANGED docs
    BY DEF Exists
  <2>2. PICK s \in Session : Tab(s)
    BY <2>1, AdminDocs, WorkerDocs DEF Next, Signal, Exit, Restart, chatVars
  <2>3. GrowsAt(session[s].conv)
    BY <2>1, <2>2, TabDocs
  <2>4. session[s].conv = c
    BY <2>3 DEF GrowsAt, Exists
  <2> QED BY <2>4 DEF ConvInv, FollowsOne
<1>2. Spec => []TypeInv
  BY TypeInit, TypeStep, PTL DEF Spec
<1> QED BY <1>1, <1>2, ConvStart, ConvStep, PTL DEF Spec, UserSkipsNoConversation

-------------------------------------------------------------------------------
(***************************************************************************)
(* What the administrators are shown. A session that is about to show a    *)
(* message has it stored, and no document loses a message.                 *)
(***************************************************************************)
Backed(frame) == frame.what \in Message => frame.what \in docs[frame.conv].user

AboutToShow ==
  \A s \in Session : At(s, "show") => session[s].msg \in docs[session[s].conv].user

ShownInv == ShownIsStored /\ AboutToShow

LEMMA ShownByFrames ==
  ASSUME PipeOK
  PROVE  ShownIsStored <=> \A w \in Watcher : \A i \in 1 .. Len(pipe[w]) : Backed(pipe[w][i])
<1>1. \A w \in Watcher : DOMAIN pipe[w] = 1 .. Len(pipe[w])
  BY LenProperties DEF PipeOK
<1> QED BY <1>1 DEF ShownIsStored, Backed

\* A channel only comes to hold a frame that is published.
LEMMA OfferAdds ==
  ASSUME NEW channel \in Seq(Frames), NEW frame \in Frames,
         NEW i \in 1 .. Len(Offer(channel, frame))
  PROVE  \/ i \in 1 .. Len(channel) /\ Offer(channel, frame)[i] = channel[i]
         \/ Offer(channel, frame)[i] = frame
<1>1. CASE Len(channel) < ChannelSize
  <2>1. Offer(channel, frame) = Append(channel, frame)
    BY <1>1 DEF Offer
  <2>2. /\ Len(Append(channel, frame)) = Len(channel) + 1
        /\ \A j \in 1 .. Len(channel) : Append(channel, frame)[j] = channel[j]
        /\ Append(channel, frame)[Len(channel) + 1] = frame
    BY AppendProperties
  <2>3. Len(channel) \in Nat
    BY LenProperties
  <2>4. i \in 1 .. Len(channel) \/ i = Len(channel) + 1
    BY <2>1, <2>2, <2>3
  <2> QED BY <2>1, <2>2, <2>4
<1>2. CASE ~(Len(channel) < ChannelSize)
  BY <1>2 DEF Offer
<1> QED BY <1>1, <1>2

\* Every frame that waits after a step waited before it, or is backed.
FramesBacked ==
  \A w \in Watcher : \A i \in 1 .. Len(pipe'[w]) :
    \/ \E j \in 1 .. Len(pipe[w]) : pipe'[w][i] = pipe[w][j]
    \/ Backed(pipe'[w][i])

LEMMA BackedKept ==
  ASSUME PipeOK, PipeOK', DocsGrow, ShownIsStored, FramesBacked
  PROVE  ShownIsStored'
<1>1. \A c \in Conv : docs[c].user \subseteq docs'[c].user
  BY ExistsGrows
<1>2. \A w \in Watcher : \A i \in 1 .. Len(pipe[w]) : Backed(pipe[w][i])
  BY ShownByFrames
<1>3. ASSUME NEW w \in Watcher, NEW i \in 1 .. Len(pipe'[w])
      PROVE  Backed(pipe[w][i])'
  <2>1. pipe'[w][i] \in Frames
    BY <1>3, ElementOfSeq DEF PipeOK
  <2>2. Backed(pipe'[w][i])
    BY <1>2, <1>3 DEF FramesBacked
  <2> QED BY <1>1, <2>1, <2>2 DEF Backed, Frames
<1>4. (\A w \in Watcher : \A i \in 1 .. Len(pipe[w]) : Backed(pipe[w][i]))'
  BY <1>3
<1>5. \A w \in Watcher : DOMAIN pipe'[w] = 1 .. Len(pipe'[w])
  BY LenProperties DEF PipeOK
<1> QED BY <1>4, <1>5 DEF ShownIsStored, Backed

LEMMA PublishBacked ==
  ASSUME PipeOK, NEW frame \in Frames, NEW keys, PublishToWatchers(keys, frame), Backed(frame)
  PROVE  FramesBacked
<1> SUFFICES ASSUME NEW w \in Watcher, NEW i \in 1 .. Len(pipe'[w])
             PROVE  \/ \E j \in 1 .. Len(pipe[w]) : pipe'[w][i] = pipe[w][j]
                    \/ Backed(pipe'[w][i])
  BY DEF FramesBacked
<1>1. pipe'[w] = Offer(pipe[w], frame) \/ pipe'[w] = pipe[w]
  BY DEF PublishToWatchers
<1>2. pipe[w] \in Seq(Frames)
  BY DEF PipeOK
<1>3. CASE pipe'[w] = Offer(pipe[w], frame)
  BY <1>2, <1>3, OfferAdds
<1>4. CASE pipe'[w] = pipe[w]
  BY <1>4
<1> QED BY <1>1, <1>3, <1>4

LEMMA SameFrames == ASSUME UNCHANGED pipe PROVE FramesBacked
  BY DEF FramesBacked

LEMMA TabShows ==
  ASSUME TypeInv, ShownInv, NEW s \in Session, Tab(s)
  PROVE  FramesBacked
<1>a. PipeOK /\ session[s].conv \in Conv
  BY DEF TypeInv, SessionsOK, SessionType
<1>1. CASE TellEnded(s)
  <2>1. Backed(Frame(session[s].conv, "ended"))
    BY ChatAssumption DEF Backed, Frame
  <2> QED BY <1>a, <1>1, <2>1, FramesTyped, PublishBacked DEF TellEnded
<1>2. CASE ShowMessage(s)
  <2>1. session[s].msg \in Message /\ session[s].msg \in docs[session[s].conv].user
    BY <1>2 DEF ShowMessage, At, ShownInv, AboutToShow, TypeInv, SessionsOK, Prepared
  <2>2. Backed(Frame(session[s].conv, session[s].msg))
    BY <2>1 DEF Backed, Frame
  <2> QED BY <1>a, <1>2, <2>1, <2>2, FramesTyped, PublishBacked DEF ShowMessage
<1>3. CASE UNCHANGED pipe
  BY <1>3, SameFrames
<1> QED BY <1>1, <1>2, <1>3
        DEF Tab, Proceed, Connect, ReadEnded, ReadHistory, Subscribe, HelloFails, Disconnect,
            EndByUser, MarkEnded, UserSends, BeginConversation, InsertMessage,
            SendAutoReply, Receive, adminVars

LEMMA AdminShows ==
  ASSUME TypeInv, Admin
  PROVE  FramesBacked
<1>a. PipeOK
  BY DEF TypeInv
<1>1. ASSUME NEW r \in Reply, Tell(r) PROVE FramesBacked
  <2>1. Backed(Frame(call[r].conv, r))
    BY ChatAssumption DEF Backed, Frame
  <2>2. Frame(call[r].conv, r) \in Frames
    BY FramesTyped DEF TypeInv, CallsOK
  <2> QED BY <1>a, <1>1, <2>1, <2>2, PublishBacked DEF Tell
<1>2. ASSUME NEW w \in Watcher, Deliver(w) PROVE FramesBacked
  <2>1. \A v \in Watcher \ {w} : pipe'[v] = pipe[v]
    BY <1>a, <1>2 DEF Deliver, PipeOK
  <2>2. pipe'[w] = Tail(pipe[w]) /\ pipe[w] \in Seq(Frames) /\ pipe[w] # <<>>
    BY <1>a, <1>2 DEF Deliver, PipeOK
  <2>3. /\ Len(pipe'[w]) = Len(pipe[w]) - 1 /\ Len(pipe[w]) \in Nat
        /\ \A i \in 1 .. Len(pipe'[w]) : pipe'[w][i] = pipe[w][i + 1]
    BY <2>2, HeadTailProperties, LenProperties
  <2>4. \A i \in 1 .. Len(pipe'[w]) : i + 1 \in 1 .. Len(pipe[w])
    BY <2>3
  <2> QED BY <2>1, <2>3, <2>4 DEF FramesBacked
<1>3. ASSUME NEW w \in Watcher, Unwatch(w) PROVE FramesBacked
  <2>1. \A v \in Watcher \ {w} : pipe'[v] = pipe[v]
    BY <1>a, <1>3 DEF Unwatch, PipeOK
  <2>2. pipe'[w] = <<>>
    BY <1>a, <1>3 DEF Unwatch, PipeOK
  <2> QED BY <2>1, <2>2 DEF FramesBacked
<1>4. CASE UNCHANGED pipe
  BY <1>4, SameFrames
<1> QED BY <1>1, <1>2, <1>3, <1>4
        DEF Admin, AdminReply, AdminEnd, PushReply, PushEnded, WatchAll, Watch, adminVars

LEMMA ShownStep ==
  TypeInv /\ ShownInv /\ [Next]_chatVars => ShownInv'
<1> SUFFICES ASSUME TypeInv, ShownInv, [Next]_chatVars PROVE ShownInv'
  OBVIOUS
<1>a. TypeInv /\ TypeInv'
  BY TypeStep
<1>b. DocsGrow
  BY DocsStep
<1>1. FramesBacked
  <2>1. CASE Exit
    BY <2>1 DEF Exit, FramesBacked
  <2>2. CASE UNCHANGED pipe
    BY <2>2, SameFrames
  <2> QED BY <1>a, <2>1, <2>2, TabShows, AdminShows
          DEF Next, Worker, WorkerStores, WorkerPicksCancelled, WorkerSeesCancel,
              WorkerDrains, Signal, Restart, chatVars, adminVars
<1>2. ShownIsStored'
  BY <1>a, <1>b, <1>1, BackedKept DEF ShownInv, TypeInv
<1>c. \A c \in Conv : docs[c].user \subseteq docs'[c].user
  BY <1>b, ExistsGrows
<1>d. \A s \in Session : session[s].conv \in Conv
  BY <1>a DEF TypeInv, SessionsOK, SessionType
<1>3. AboutToShow'
  <2>1. ASSUME NEW s \in Session, Tab(s) PROVE AboutToShow'
    <3>1. session \in [Session -> SessionType]
      BY <1>a DEF TypeInv, SessionsOK
    <3>2. \A r \in Session \ {s} : session'[r] = session[r]
      BY <2>1, <3>1
         DEF Tab, Proceed, Connect, ReadEnded, ReadHistory, Subscribe, HelloFails,
             Disconnect, EndByUser, MarkEnded, TellEnded, UserSends, BeginConversation,
             InsertMessage, ShowMessage, SendAutoReply, Receive, Then, Teardown
    <3>3. session'[s].step = "show" => session'[s].msg \in docs'[session'[s].conv].user
      <4>1. CASE InsertMessage(s)
        <5>1. CASE Store(session[s].conv, "user", session[s].msg)
          <6>1. session[s].msg \in Message
            BY <1>a, <4>1 DEF InsertMessage, TypeInv, SessionsOK, Prepared, At
          <6>2. session[s].msg \in docs'[session[s].conv].user
            BY <1>a, <1>d, <5>1, <6>1, StoresGrow DEF TypeInv
          <6>3. \/ session'[s].msg = session[s].msg /\ session'[s].conv = session[s].conv
                \/ session'[s].step = "idle"
            BY <3>1, <4>1 DEF InsertMessage, SessionType
          <6> QED BY <6>2, <6>3
        <5>2. CASE ~Store(session[s].conv, "user", session[s].msg)
          BY <3>1, <4>1, <5>2 DEF InsertMessage, SessionType
        <5> QED BY <5>1, <5>2
      <4>2. ASSUME Teardown(s) PROVE session'[s].step # "show"
        BY <3>1, <4>2 DEF Teardown, Off
      <4>3. CASE Connect(s) \/ BeginConversation(s)
        BY <3>1, <4>3 DEF Connect, BeginConversation, SessionType
      <4>4. CASE ReadEnded(s) \/ ReadHistory(s) \/ Subscribe(s) \/ HelloFails(s)
        BY <3>1, <4>4 DEF ReadEnded, ReadHistory, Subscribe, HelloFails, SessionType, Then
      <4>5. CASE EndByUser(s) \/ MarkEnded(s)
        BY <3>1, <4>5 DEF EndByUser, MarkEnded, SessionType, Then
      <4>6. ASSUME NEW m \in Message, UserSends(s, m) PROVE session'[s].step # "show"
        BY <3>1, <4>6 DEF UserSends, SessionType
      <4>7. CASE ShowMessage(s)
        BY <3>1, <4>2, <4>7 DEF ShowMessage, SessionType
      <4>8. CASE Receive(s)
        BY <3>1, <4>2, <4>8 DEF Receive, SessionType, At
      <4>9. CASE TellEnded(s) \/ SendAutoReply(s) \/ Disconnect(s)
        BY <3>1, <4>2, <4>9 DEF TellEnded, SendAutoReply, Disconnect, SessionType, Then
      <4> QED BY <2>1, <4>1, <4>3, <4>4, <4>5, <4>6, <4>7, <4>8, <4>9 DEF Tab, Proceed
    <3> QED BY <1>c, <1>d, <3>2, <3>3 DEF ShownInv, AboutToShow, At
  <2>2. CASE UNCHANGED session
    BY <1>c, <1>d, <2>2 DEF ShownInv, AboutToShow, At
  <2>3. CASE Exit
    BY <2>3 DEF Exit, Off, AboutToShow, At
  <2> QED BY <2>1, <2>2, <2>3
          DEF Next, Admin, AdminReply, AdminEnd, PushReply, Tell, PushEnded, WatchAll, Watch,
              Deliver, Unwatch, tabVars, Worker, WorkerStores, WorkerPicksCancelled,
              WorkerSeesCancel, WorkerDrains, Signal, Restart, chatVars
<1> QED BY <1>2, <1>3 DEF ShownInv

LEMMA ShownStart == Init => ShownInv
  BY DEF Init, ShownInv, ShownIsStored, AboutToShow, At, Off

\* An administrator is never shown words of the user that are not stored in the
\* conversation they are shown under, whatever fails or stops between the
\* insert and the reading of the channel.
THEOREM ShownAreStored == Spec => []ShownIsStored
<1>1. Spec => []TypeInv
  BY TypeInit, TypeStep, PTL DEF Spec
<1>2. ShownInv => ShownIsStored
  BY DEF ShownInv
<1> QED BY <1>1, <1>2, ShownStart, ShownStep, PTL DEF Spec

===============================================================================
