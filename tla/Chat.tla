--------------------------------- MODULE Chat ---------------------------------
(***************************************************************************)
(* The chat between one user and the administrators (services/chat.go,     *)
(* chat_hub.go, db/mongodb/chat.go). The user has any number of tabs open, *)
(* each with a WebSocket session of its own; the conversations are         *)
(* documents in MongoDB; the hub pushes what an administrator does to the  *)
(* sessions, and what the user does to the administrators who watch.       *)
(*                                                                         *)
(* Every call to the database and to the hub is a step of its own. The hub *)
(* copies the list of subscribers under its lock and sends after: a send   *)
(* to a channel dropped meanwhile is a send nobody reads, so that publish  *)
(* is one step, the copy.                                                  *)
(***************************************************************************)
EXTENDS Naturals, Sequences, FiniteSets, FiniteSetsExt

CONSTANTS
  Session,      \* the tabs
  Watcher,      \* the sockets of administrators
  Message,      \* what the user may say, each of it once
  Reply,        \* the replies of administrators
  Ending,       \* the calls of an administrator to end a conversation
  NoMessage,
  MaxConv,      \* bound on the conversation ids
  ChannelSize,  \* 16 for a session, 16 and 32 for an administrator
  QueueSize,    \* 256
  MaxOpened,    \* bound on the channels a tab makes
  MaxFaults     \* bound on failed calls, broken connections and shutdowns

ASSUME ChatAssumption ==
  /\ NoMessage \notin Message
  /\ Reply \intersect Ending = {}
  /\ Message \intersect (Reply \union {"ended"}) = {}   \* a frame says whose words it has
  /\ MaxConv \in Nat \ {0}
  /\ ChannelSize \in Nat \ {0}
  /\ QueueSize \in Nat \ {0}
  /\ MaxOpened \in Nat
  /\ MaxFaults \in Nat

VARIABLES
  docs,         \* the collection of messages, by conversation
  session,      \* each tab's chatSession
  opened,       \* how many channels the tab has made so far
  subs,         \* the hub: the channels subscribed under the user's key
  inbox,        \* what waits in the channel the session reads from
  watch,        \* the hub: the key each administrator's socket is under
  pipe,         \* what waits in its channel
  call,         \* the administrators' calls: AdminReply, AdminEndConversation
  queue,        \* adminReplyQueue
  worker,       \* StartAdminReplyWorker
  server,       \* the process
  faults

chatVars == <<docs, session, opened, subs, inbox, watch, pipe, call, queue,
              worker, server, faults>>

tabVars == <<session, opened, subs, inbox>>
adminVars == <<watch, pipe>>
processVars == <<queue, worker, server>>

Conv == 1 .. MaxConv
Broadcast == 0           \* adminBroadcastKey, beside one key for each conversation
Nothing == MaxConv + 1   \* the socket is closed
NoDocs == [user |-> {}, replies |-> {}, auto |-> 0, ended |-> FALSE]

\* GetUserConversations groups the documents by conversation.
Exists(c) == docs[c] # NoDocs

Listed == {c \in Conv : Exists(c)}
Latest == IF Listed = {} THEN 0 ELSE Max(Listed)

\* GetCurrentConversationID and GetNextConversationID.
CurrentConversation == IF Latest = 0 THEN 1 ELSE Latest
NextConversation == Latest + 1

\* IsConversationEnded looks for the sentinel that MarkConversationEnded stores;
\* GetChatMessages leaves it out.
Ended(c) == docs[c].ended
StoreEnd(c) == docs' = [docs EXCEPT ![c].ended = TRUE]
HasHistory(c) == docs[c].user # {} \/ docs[c].replies # {} \/ docs[c].auto > 0

Store(c, field, d) == docs' = [docs EXCEPT ![c][field] = @ \union {d}]

Off == [step |-> "off", conv |-> 1, ended |-> FALSE, history |-> FALSE,
        first |-> FALSE, msg |-> NoMessage, channel |-> 0, deferred |-> 0]
NoCall == [step |-> "none", conv |-> 1]

Fault ==
  /\ faults < MaxFaults
  /\ faults' = faults + 1

Frame(c, what) == [conv |-> c, what |-> what]

\* A send that never blocks: what does not fit is dropped.
Offer(channel, frame) ==
  IF Len(channel) < ChannelSize THEN Append(channel, frame) ELSE channel

PublishToTabs(frame) ==
  inbox' = [s \in Session |->
              IF <<s, session[s].channel>> \in subs THEN Offer(inbox[s], frame)
                                                   ELSE inbox[s]]

PublishToWatchers(keys, frame) ==
  pipe' = [w \in Watcher |->
             IF watch[w] \in keys THEN Offer(pipe[w], frame) ELSE pipe[w]]

At(s, step) == session[s].step = step
Then(s, step) == session' = [session EXCEPT ![s].step = step]

(***************************************************************************)
(* The end of serveChat. The deferred call is the function the session was *)
(* started with: Go evaluates session.unsubFromAdmin when the defer        *)
(* statement runs, not when the session ends.                              *)
(***************************************************************************)
Teardown(s) ==
  /\ session' = [session EXCEPT ![s] = Off]
  /\ subs' = subs \ {<<s, session[s].deferred>>}
  /\ inbox' = [inbox EXCEPT ![s] = <<>>]

-------------------------------------------------------------------------------
(***************************************************************************)
(* initChatSession: the conversation, whether it has ended and its history *)
(* are read one after the other, the hello frame is written, and only then *)
(* does the session subscribe. A failed read of the end or of the history  *)
(* is taken for "not ended" and "empty".                                   *)
(***************************************************************************)
Connect(s) ==
  /\ server = "up"
  /\ At(s, "off")
  /\ opened[s] < MaxOpened
  /\ session' = [session EXCEPT ![s].step = "readEnded", ![s].conv = CurrentConversation]
  /\ UNCHANGED <<docs, opened, subs, inbox, adminVars, call, processVars, faults>>

ReadEnded(s) ==
  /\ At(s, "readEnded")
  /\ \/ session' = [session EXCEPT ![s].step = "readHistory",
                                   ![s].ended = Ended(session[s].conv)]
        /\ UNCHANGED faults
     \/ Fault /\ Then(s, "readHistory")
  /\ UNCHANGED <<docs, opened, subs, inbox, adminVars, call, processVars>>

ReadHistory(s) ==
  /\ At(s, "readHistory")
  /\ \/ session' = [session EXCEPT ![s].step = "hello",
                                   ![s].history = HasHistory(session[s].conv)]
        /\ UNCHANGED faults
     \/ Fault /\ Then(s, "hello")
  /\ UNCHANGED <<docs, opened, subs, inbox, adminVars, call, processVars>>

Subscribe(s) ==
  /\ At(s, "hello")
  /\ opened' = [opened EXCEPT ![s] = @ + 1]
  /\ session' = [session EXCEPT ![s].step = "idle", ![s].channel = opened'[s],
                                ![s].deferred = opened'[s]]
  /\ subs' = subs \union {<<s, opened'[s]>>}
  /\ UNCHANGED <<docs, inbox, adminVars, call, processVars, faults>>

\* The hello frame cannot be written: the session never starts.
HelloFails(s) ==
  /\ At(s, "hello")
  /\ Fault
  /\ Then(s, "off")
  /\ UNCHANGED <<docs, opened, subs, inbox, adminVars, call, processVars>>

\* The client goes away while the session waits in its select.
Disconnect(s) ==
  /\ At(s, "idle")
  /\ Teardown(s)
  /\ UNCHANGED <<docs, opened, adminVars, call, processVars, faults>>

-------------------------------------------------------------------------------
\* handleEndConversation.
EndByUser(s) ==
  /\ At(s, "idle")
  /\ ~session[s].ended
  /\ session' = [session EXCEPT ![s].step = "markEnded", ![s].ended = TRUE]
  /\ UNCHANGED <<docs, opened, subs, inbox, adminVars, call, processVars, faults>>

MarkEnded(s) ==
  /\ At(s, "markEnded")
  /\ \/ StoreEnd(session[s].conv) /\ UNCHANGED faults
     \/ Fault /\ UNCHANGED docs
  /\ Then(s, "tellEnded")
  /\ UNCHANGED <<opened, subs, inbox, adminVars, call, processVars>>

TellEnded(s) ==
  /\ At(s, "tellEnded")
  /\ PublishToWatchers({session[s].conv}, Frame(session[s].conv, "ended"))
  /\ \/ Then(s, "idle") /\ UNCHANGED <<subs, inbox, faults>>
     \/ Fault /\ Teardown(s)
  /\ UNCHANGED <<docs, opened, watch, call, processVars>>

(***************************************************************************)
(* handleUserMessage: after an ended conversation the next one is begun    *)
(* and the session subscribes with a new channel (what waits in the old    *)
(* one is lost); the message is stored, then shown to the administrators   *)
(* and echoed; the first one of a conversation gets the automatic reply.   *)
(***************************************************************************)
InFlight == {session[s].msg : s \in Session}

UserSends(s, m) ==
  /\ At(s, "idle")
  /\ session[s].ended => Latest < MaxConv /\ opened[s] < MaxOpened
  /\ m \notin InFlight
  /\ \A c \in Conv : m \notin docs[c].user
  /\ session' = [session EXCEPT
       ![s].step = IF session[s].ended THEN "nextConversation" ELSE "insert",
       ![s].msg = m, ![s].first = ~session[s].history]
  /\ UNCHANGED <<docs, opened, subs, inbox, adminVars, call, processVars, faults>>

\* Mutant: the id after the one the session has.
BeginNextToOwn(s) ==
  /\ At(s, "nextConversation")
  /\ opened' = [opened EXCEPT ![s] = @ + 1]
  /\ session' = [session EXCEPT
       ![s].step = "insert", ![s].conv = @ + 1,
       ![s].ended = FALSE, ![s].first = TRUE, ![s].channel = opened'[s]]
  /\ subs' = (subs \ {<<s, session[s].channel>>}) \union {<<s, opened'[s]>>}
  /\ inbox' = [inbox EXCEPT ![s] = <<>>]
  /\ UNCHANGED <<docs, adminVars, call, processVars, faults>>

BeginConversation(s) ==
  /\ At(s, "nextConversation")
  /\ \/ /\ Latest < MaxConv
        /\ opened' = [opened EXCEPT ![s] = @ + 1]
        /\ session' = [session EXCEPT
             ![s].step = "insert", ![s].conv = NextConversation,
             ![s].ended = FALSE, ![s].first = TRUE, ![s].channel = opened'[s]]
        /\ subs' = (subs \ {<<s, session[s].channel>>}) \union {<<s, opened'[s]>>}
        /\ inbox' = [inbox EXCEPT ![s] = <<>>]
        /\ UNCHANGED faults
     \/ /\ Fault
        /\ session' = [session EXCEPT ![s].step = "idle", ![s].msg = NoMessage]
        /\ UNCHANGED <<opened, subs, inbox>>
  /\ UNCHANGED <<docs, adminVars, call, processVars>>

\* Mutant: a message whose insert failed is shown all the same.
InsertMessageBlind(s) ==
  /\ At(s, "insert")
  /\ \/ Store(session[s].conv, "user", session[s].msg) /\ UNCHANGED faults
     \/ Fault /\ UNCHANGED docs
  /\ session' = [session EXCEPT ![s].step = "show",
                                ![s].history = @ \/ session[s].first]
  /\ UNCHANGED <<opened, subs, inbox, adminVars, call, processVars>>

InsertMessage(s) ==
  /\ At(s, "insert")
  /\ \/ /\ Store(session[s].conv, "user", session[s].msg)
        /\ session' = [session EXCEPT ![s].step = "show",
                                      ![s].history = @ \/ session[s].first]
        /\ UNCHANGED faults
     \/ /\ Fault
        /\ session' = [session EXCEPT ![s].step = "idle", ![s].msg = NoMessage]
        /\ UNCHANGED docs
  /\ UNCHANGED <<opened, subs, inbox, adminVars, call, processVars>>

\* Mutant: only a conversation begun in this session is greeted.
ShowMessageMute(s) ==
  /\ At(s, "show")
  /\ PublishToWatchers({session[s].conv, Broadcast},
                       Frame(session[s].conv, session[s].msg))
  /\ session' = [session EXCEPT ![s].msg = NoMessage,
       ![s].step = IF session[s].first /\ session[s].conv > 1
                   THEN "autoReply" ELSE "idle"]
  /\ UNCHANGED <<docs, opened, subs, inbox, watch, call, processVars, faults>>

ShowMessage(s) ==
  /\ At(s, "show")
  /\ PublishToWatchers({session[s].conv, Broadcast},
                       Frame(session[s].conv, session[s].msg))
  /\ \/ session' = [session EXCEPT ![s].msg = NoMessage,
                      ![s].step = IF session[s].first THEN "autoReply" ELSE "idle"]
        /\ UNCHANGED <<subs, inbox, faults>>
     \/ Fault /\ Teardown(s)
  /\ UNCHANGED <<docs, opened, watch, call, processVars>>

SendAutoReply(s) ==
  /\ At(s, "autoReply")
  /\ \/ /\ docs' = [docs EXCEPT ![session[s].conv].auto = @ + 1]
        /\ \/ Then(s, "idle") /\ UNCHANGED <<subs, inbox, faults>>
           \/ Fault /\ Teardown(s)
     \/ Fault /\ Then(s, "idle") /\ UNCHANGED <<docs, subs, inbox>>
  /\ UNCHANGED <<opened, adminVars, call, processVars>>

\* handleAdminMessage: an "ended" signal ends whatever conversation the
\* session is in. A reply is only passed on.
Receive(s) ==
  /\ At(s, "idle")
  /\ inbox[s] # <<>>
  /\ \/ /\ session' = [session EXCEPT ![s].ended = @ \/ Head(inbox[s]).what = "ended"]
        /\ inbox' = [inbox EXCEPT ![s] = Tail(@)]
        /\ UNCHANGED <<subs, faults>>
     \/ Fault /\ Teardown(s)
  /\ UNCHANGED <<docs, opened, adminVars, call, processVars>>

-------------------------------------------------------------------------------
(***************************************************************************)
(* AdminReply: the document is queued for the worker, or stored at once    *)
(* when the queue is full; then the reply is pushed to the user's tabs and *)
(* to the administrators who watch the conversation. The handlers parse    *)
(* the number of the conversation and do not look whether it exists.       *)
(***************************************************************************)
Calls(a, step, c) == call' = [call EXCEPT ![a] = [step |-> step, conv |-> c]]
Goes(a, step) == call' = [call EXCEPT ![a].step = step]

\* Mutant: a full queue drops the reply.
AdminReplyDrops(r, c) ==
  /\ server # "down"
  /\ call[r].step = "none"
  /\ queue' = IF Len(queue) < QueueSize THEN Append(queue, r) ELSE queue
  /\ Calls(r, "push", c)
  /\ UNCHANGED <<docs, tabVars, adminVars, worker, server, faults>>

AdminReply(r, c) ==
  /\ server # "down"
  /\ call[r].step = "none"
  /\ \/ /\ Len(queue) < QueueSize
        /\ queue' = Append(queue, r)
        /\ Calls(r, "push", c)
        /\ UNCHANGED <<docs, faults>>
     \/ /\ Len(queue) = QueueSize
        /\ \/ Store(c, "replies", r) /\ Calls(r, "push", c) /\ UNCHANGED faults
           \/ Fault /\ Calls(r, "refused", c) /\ UNCHANGED docs
        /\ UNCHANGED queue
  /\ UNCHANGED <<tabVars, adminVars, worker, server>>

\* AdminEndConversation: a failure to store the sentinel is only logged, and
\* the administrators who watch the conversation are not told.
AdminEnd(a, c) ==
  /\ server # "down"
  /\ call[a].step = "none"
  /\ \/ StoreEnd(c) /\ UNCHANGED faults
     \/ Fault /\ UNCHANGED docs
  /\ Calls(a, "push", c)
  /\ UNCHANGED <<tabVars, adminVars, processVars>>

PushReply(r) ==
  /\ call[r].step = "push"
  /\ PublishToTabs(Frame(call[r].conv, r))
  /\ Goes(r, "tell")
  /\ UNCHANGED <<docs, session, opened, subs, adminVars, processVars, faults>>

PushEnded(a) ==
  /\ call[a].step = "push"
  /\ PublishToTabs(Frame(call[a].conv, "ended"))
  /\ Goes(a, "sent")
  /\ UNCHANGED <<docs, session, opened, subs, adminVars, processVars, faults>>

Tell(r) ==
  /\ call[r].step = "tell"
  /\ PublishToWatchers({call[r].conv}, Frame(call[r].conv, r))
  /\ Goes(r, "sent")
  /\ UNCHANGED <<docs, tabVars, watch, processVars, faults>>

\* AdminWatchConversation takes one conversation, AdminWatchAll what all users
\* say. Either goes on until the socket breaks.
Watch(w, c) ==
  /\ server = "up"
  /\ watch[w] = Nothing
  /\ watch' = [watch EXCEPT ![w] = c]
  /\ UNCHANGED <<docs, tabVars, pipe, call, processVars, faults>>

WatchAll(w) ==
  /\ server = "up"
  /\ watch[w] = Nothing
  /\ watch' = [watch EXCEPT ![w] = Broadcast]
  /\ UNCHANGED <<docs, tabVars, pipe, call, processVars, faults>>

Deliver(w) ==
  /\ pipe[w] # <<>>
  /\ pipe' = [pipe EXCEPT ![w] = Tail(@)]
  /\ UNCHANGED <<docs, tabVars, watch, call, processVars, faults>>

Unwatch(w) ==
  /\ watch[w] # Nothing
  /\ watch' = [watch EXCEPT ![w] = Nothing]
  /\ pipe' = [pipe EXCEPT ![w] = <<>>]
  /\ UNCHANGED <<docs, tabVars, call, processVars, faults>>

-------------------------------------------------------------------------------
(***************************************************************************)
(* StartAdminReplyWorker. Until its context is cancelled it stores what is *)
(* queued; then a select in which both cases are ready picks either: a     *)
(* document taken by the first one is stored with the cancelled context,   *)
(* that is, not at all; the second one drains the queue.                   *)
(***************************************************************************)
StoreHead == Store(call[Head(queue)].conv, "replies", Head(queue))

\* Mutant: the worker stores nothing.
WorkerForgets ==
  /\ worker = "running" /\ server = "up"
  /\ queue # <<>>
  /\ queue' = Tail(queue)
  /\ UNCHANGED <<docs, tabVars, adminVars, call, worker, server, faults>>

WorkerStores ==
  /\ worker = "running" /\ server = "up"
  /\ queue # <<>>
  /\ \/ StoreHead /\ UNCHANGED faults
     \/ Fault /\ UNCHANGED docs
  /\ queue' = Tail(queue)
  /\ UNCHANGED <<tabVars, adminVars, call, worker, server>>

WorkerPicksCancelled ==
  /\ worker = "running" /\ server = "stopping"
  /\ queue # <<>>
  /\ queue' = Tail(queue)
  /\ UNCHANGED <<docs, tabVars, adminVars, call, worker, server, faults>>

WorkerSeesCancel ==
  /\ worker = "running" /\ server = "stopping"
  /\ worker' = "draining"
  /\ UNCHANGED <<docs, tabVars, adminVars, call, queue, server, faults>>

WorkerDrains ==
  /\ worker = "draining"
  /\ \/ /\ queue # <<>>
        /\ \/ StoreHead /\ UNCHANGED faults
           \/ Fault /\ UNCHANGED docs
        /\ queue' = Tail(queue)
        /\ UNCHANGED worker
     \/ /\ queue = <<>>
        /\ worker' = "gone"
        /\ UNCHANGED <<docs, queue, faults>>
  /\ UNCHANGED <<tabVars, adminVars, call, server>>

(***************************************************************************)
(* main: a signal cancels the workers, then the server stops taking        *)
(* requests, waits for those it has (no longer than the grace period, and  *)
(* not for the WebSockets nor for the worker) and exits. What is in memory *)
(* is gone, as after a crash.                                              *)
(***************************************************************************)
Signal ==
  /\ server = "up"
  /\ Fault
  /\ server' = "stopping"
  /\ UNCHANGED <<docs, tabVars, adminVars, call, queue, worker>>

Exit ==
  /\ \/ server = "stopping" /\ UNCHANGED faults
     \/ server = "up" /\ Fault
  /\ server' = "down"
  /\ session' = [s \in Session |-> Off]
  /\ subs' = {}
  /\ inbox' = [s \in Session |-> <<>>]
  /\ watch' = [w \in Watcher |-> Nothing]
  /\ pipe' = [w \in Watcher |-> <<>>]
  /\ call' = [a \in DOMAIN call |-> IF call[a].step \in {"push", "tell"}
                                    THEN [call[a] EXCEPT !.step = "cut"] ELSE call[a]]
  /\ queue' = <<>>
  /\ worker' = "gone"
  /\ UNCHANGED <<docs, opened>>

Restart ==
  /\ server = "down"
  /\ server' = "up"
  /\ worker' = "running"
  /\ UNCHANGED <<docs, tabVars, adminVars, call, queue, faults>>

-------------------------------------------------------------------------------
Init ==
  /\ docs = [c \in Conv |-> NoDocs]
  /\ session = [s \in Session |-> Off]
  /\ opened = [s \in Session |-> 0]
  /\ subs = {}
  /\ inbox = [s \in Session |-> <<>>]
  /\ watch = [w \in Watcher |-> Nothing]
  /\ pipe = [w \in Watcher |-> <<>>]
  /\ call = [a \in Reply \union Ending |-> NoCall]
  /\ queue = <<>>
  /\ worker = "running"
  /\ server = "up"
  /\ faults = 0

\* What a session does by itself once it has begun something.
Proceed(s) ==
  \/ ReadEnded(s) \/ ReadHistory(s) \/ Subscribe(s) \/ HelloFails(s)
  \/ MarkEnded(s) \/ TellEnded(s) \/ BeginConversation(s)
  \/ InsertMessage(s) \/ ShowMessage(s) \/ SendAutoReply(s) \/ Receive(s)

Tab(s) ==
  \/ Connect(s) \/ Disconnect(s) \/ EndByUser(s) \/ Proceed(s)
  \/ \E m \in Message : UserSends(s, m)

Admin ==
  \/ \E c \in Conv : \/ \E r \in Reply : AdminReply(r, c)
                     \/ \E a \in Ending : AdminEnd(a, c)
  \/ \E r \in Reply : PushReply(r) \/ Tell(r)
  \/ \E a \in Ending : PushEnded(a)
  \/ \E w \in Watcher : \/ WatchAll(w) \/ Deliver(w) \/ Unwatch(w)
                        \/ \E c \in Conv : Watch(w, c)

Worker == WorkerStores \/ WorkerPicksCancelled \/ WorkerSeesCancel \/ WorkerDrains

Next == (\E s \in Session : Tab(s)) \/ Admin \/ Worker \/ Signal \/ Exit \/ Restart

Spec == Init /\ [][Next]_chatVars

(***************************************************************************)
(* The goroutines that are running are scheduled. Nothing makes a user, an *)
(* administrator or an operator do anything.                               *)
(***************************************************************************)
Fairness ==
  /\ \A s \in Session : WF_chatVars(Proceed(s))
  /\ WF_chatVars(WorkerStores)

FairSpec == Spec /\ Fairness

-------------------------------------------------------------------------------
SessionStep ==
  {"off", "readEnded", "readHistory", "hello", "idle", "markEnded", "tellEnded",
   "nextConversation", "insert", "show", "autoReply"}
CallStep == {"none", "push", "tell", "sent", "refused", "cut"}
Frames == [conv : Conv, what : Message \union Reply \union {"ended"}]

\* The types of the variables, and the sizes of the channels and the queue.
TypeOK ==
  /\ docs \in [Conv -> [user : SUBSET Message, replies : SUBSET Reply,
                        auto : Nat, ended : BOOLEAN]]
  /\ session \in [Session -> [step : SessionStep, conv : Conv, ended : BOOLEAN,
       history : BOOLEAN, first : BOOLEAN, msg : Message \union {NoMessage},
       channel : 0 .. MaxOpened, deferred : 0 .. MaxOpened]]
  /\ opened \in [Session -> 0 .. MaxOpened]
  /\ subs \subseteq Session \X (1 .. MaxOpened)
  /\ inbox \in [Session -> Seq(Frames)]
  /\ \A s \in Session : Len(inbox[s]) <= ChannelSize
  /\ watch \in [Watcher -> 0 .. MaxConv + 1]
  /\ pipe \in [Watcher -> Seq(Frames)]
  /\ \A w \in Watcher : Len(pipe[w]) <= ChannelSize
  /\ call \in [Reply \union Ending -> [step : CallStep, conv : Conv]]
  /\ queue \in Seq(Reply) /\ Len(queue) <= QueueSize
  /\ worker \in {"running", "draining", "gone"}
  /\ server \in {"up", "stopping", "down"}
  /\ faults \in 0 .. MaxFaults

\* What an administrator is shown of the user's words is in the database, in
\* the conversation it is shown under: a message is published only after its
\* insert is confirmed ("we echo only after persistence is confirmed").
ShownIsStored ==
  \A w \in Watcher : \A i \in DOMAIN pipe[w] :
    pipe[w][i].what \in Message => pipe[w][i].what \in docs[pipe[w][i].conv].user

\* Two tabs may begin a conversation at once, a message may fail, a session
\* may carry on with an old conversation: what a tab does still leaves no hole
\* in the numbers. An administrator may: the handlers take any number.
UserSkipsNoConversation ==
  [][UNCHANGED <<call, queue>> =>
       \A c \in Conv : ~Exists(c) /\ Exists(c)' /\ c > 1 => Exists(c - 1)]_chatVars

\* Every reply an administrator was told is sent has the fate ReplyLedger
\* allows: taken and stored once, never lost while nothing is disturbed.
ReplyFate(r) ==
  IF \E c \in Conv : r \in docs[c].replies THEN "stored"
  ELSE IF call[r].step = "none" THEN "none"
  ELSE IF call[r].step = "refused" THEN "refused"
  ELSE IF \E i \in DOMAIN queue : queue[i] = r THEN "taken" ELSE "lost"

Promise == INSTANCE ReplyLedger
             WITH ledger <- [r \in Reply |-> ReplyFate(r)], calm <- faults = 0

RepliesKept == Promise!Ledger

\* A reply the administrator was told is sent is stored in the end, whatever
\* the length of the queue, unless something is disturbed.
SentReplyStored ==
  \A r \in Reply : (call[r].step = "sent") ~> (ReplyFate(r) = "stored" \/ faults > 0)

\* A conversation in which the user speaks before any administrator does gets
\* the automatic reply, unless something is disturbed: through rollovers, ends
\* by either side, answers in between and tabs that close between two messages.
ConversationGreeted ==
  \A c \in Conv : (docs[c].user # {} /\ docs[c].replies = {})
                     ~> (docs[c].auto > 0 \/ faults > 0)

\* "Drain any remaining items before exiting so in-flight replies are not lost
\* during a graceful shutdown": while the server shuts down, no reply is lost to
\* anything but a failed call.
ShutdownKeepsReplies ==
  [][server = "stopping" /\ UNCHANGED <<server, faults>> =>
       \A r \in Reply : ReplyFate(r) = "taken" => ReplyFate(r)' # "lost"]_chatVars

===============================================================================
