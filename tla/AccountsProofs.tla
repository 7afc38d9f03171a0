---------------------------- MODULE AccountsProofs ----------------------------
(***************************************************************************)
(* Theorems of Accounts, for any number of users, keys, services, requests *)
(* and handlers: the variables have their types, the deletion of an        *)
(* account takes all that was the user's and the keys of nobody else, a    *)
(* name or a request is there twice only after a race, and a user is in    *)
(* one group.                                                              *)
(***************************************************************************)
EXTENDS Accounts, FiniteSetTheorems, TLAPS

Handler ==
  [step : HandlerStep, by : User \union {Nobody}, for : User \union {Nobody},
   self : BOOLEAN, what : Group \union Name \union {Nobody}, req : SUBSET Request,
   todo : SUBSET (Key \union Service \union Group), had : SUBSET (Key \union Service),
   stale : BOOLEAN]

Wish ==
  [state : RequestState, type : {"join", "delete"},
   user : User \union {Nobody}, group : Group \union {Nobody}]

PeopleOK ==
  /\ users \subseteq User /\ accepted \subseteq User
  /\ member \in [User -> SUBSET Group]
  /\ errors \in 0 .. MaxErrors
  /\ disturbed \in [User -> {"no", "approvals", "change"}]

ThingsOK == keys \in [Key -> Thing] /\ services \in [Service -> Thing]

\* A request to join a group names the user and the group.
RequestsOK ==
  /\ requests \in [Request -> Wish]
  /\ \A r \in Request : Stored(r) /\ requests[r].type = "join"
       => requests[r].user \in User /\ requests[r].group \in Group
  /\ \A r \in Request : requests[r].type = "delete" => requests[r].group = Nobody

\* A handler knows what its next calls need.
Apt(h) ==
  /\ h.step = "insertKey" => h.by \in User /\ h.what \in Name
  /\ h.step = "insertRequest" => h.by \in User /\ h.what \in Group
  /\ h.step \in {"addToGroup", "moveOut"} => h.what \in Group
  /\ h.step \in ApprovalSteps => h.for \in User
  /\ h.step = "accept" => h.by \in User

HandlersOK == http \in [Thread -> Handler] /\ \A t \in Thread : Apt(http[t])

\* What is left of what the user owned is what the handler still has to do,
\* and what it does to keys is done to those of that user.
Owes(t) ==
  LET h == http[t] IN
  /\ h.step \in {"dropServices", "dropKeys"} =>
       /\ \A k \in Key : k \in h.had => keys[k].state # "none" /\ keys[k].owner = h.for
       /\ \A s \in Service : s \in h.had => services[s].state # "none"
  /\ h.step = "dropServices" =>
       \A s \in Service : s \in h.had /\ services[s].state = "live" => s \in h.todo
  /\ h.step = "dropKeys" =>
       /\ \A s \in Service : s \in h.had => services[s].state # "live"
       /\ \A k \in Key : k \in h.had /\ keys[k].state = "live" => k \in h.todo
       /\ \A k \in Key : k \in h.todo =>
            /\ keys[k].state # "none"
            /\ keys[k].owner = h.for \/ (h.self /\ h.by \in Admin)

\* What a handler has checked holds, unless another one inserted since.
Fresh(t) ==
  LET h == http[t] IN
  ~h.stale =>
    /\ h.step = "insertKey" => NameFree(h.by, h.what)
    /\ h.step = "insertRequest" => NotAsked(h.by, h.what)

Inv ==
  /\ PeopleOK /\ ThingsOK /\ RequestsOK /\ HandlersOK
  /\ \A t \in Thread : Owes(t) /\ Fresh(t)

LEMMA InvIsType == Inv => TypeOK
  BY DEF Inv, PeopleOK, ThingsOK, RequestsOK, HandlersOK, Handler, Wish, TypeOK

-------------------------------------------------------------------------------
\* Keys and services only age.
KeysAge ==
  \A k \in Key : keys[k].state # "none" =>
    /\ keys'[k].state # "none"
    /\ keys'[k].owner = keys[k].owner /\ keys'[k].name = keys[k].name
    /\ keys'[k].state = "live" => keys[k].state = "live"

\* Only InsertKey makes one.
NoNewKey == \A k \in Key : keys'[k].state = "live" => keys[k].state = "live"

ServicesAge ==
  \A s \in Service : services[s].state # "none" =>
    /\ services'[s].state # "none"
    /\ services'[s].state = "live" => services[s].state = "live"

LEMMA BlankTyped == Blank \in Thing
  BY DEF Blank, Thing

LEMMA KeysStep ==
  ASSUME Inv, Next
  PROVE  /\ keys' \in [Key -> Thing] /\ KeysAge
         /\ NoNewKey \/ \E t \in Thread, k \in Key : InsertKey(t, k)
<1>a. keys \in [Key -> Thing]
  BY DEF Inv, ThingsOK
<1>b. ASSUME UNCHANGED keys PROVE keys' \in [Key -> Thing] /\ KeysAge /\ NoNewKey
  BY <1>a, <1>b DEF KeysAge, NoNewKey
<1>c. ASSUME NEW k \in Key, keys' = [keys EXCEPT ![k].state = "gone"], keys[k].state = "live"
      PROVE  keys' \in [Key -> Thing] /\ KeysAge /\ NoNewKey
  BY <1>a, <1>c DEF Thing, KeysAge, NoNewKey
<1>1. CASE AtOnce
  BY <1>1, <1>b, <1>c DEF AtOnce, DeleteKey, DeleteRequest, Finalize
<1>2. ASSUME NEW t \in Thread, Accept(t) \/ Abandon(t)
      PROVE  keys' \in [Key -> Thing] /\ KeysAge /\ NoNewKey
  BY <1>2, <1>b DEF Accept, Abandon, CreateService, DeleteUser, AskTerms, CreateKey,
       NewGroupRequest, AdminDeleteUser, AdminChangeGroup, ApproveRequest, RejectRequest
<1>3. ASSUME NEW t \in Thread, NEW k \in Key, InsertKey(t, k)
      PROVE  keys' \in [Key -> Thing] /\ KeysAge
  <2>1. http[t].by \in User \union {Nobody} /\ http[t].what \in Name
    BY <1>3 DEF Inv, HandlersOK, Apt, Handler, InsertKey, At
  <2>2. [state |-> "live", owner |-> http[t].by, name |-> http[t].what] \in Thing
    BY <2>1 DEF Thing
  <2> QED BY <1>a, <1>3, <2>2 DEF InsertKey, KeysAge
<1>4. ASSUME NEW t \in Thread, DropKey(t)
      PROVE  keys' \in [Key -> Thing] /\ KeysAge /\ NoNewKey
  <2> PICK k \in http[t].todo :
       IF keys[k].state = "live" /\ MayDelete(http[t].by, keys[k].owner)
       THEN keys' = [keys EXCEPT ![k].state = "gone"] ELSE UNCHANGED keys
    BY <1>4 DEF DropKey
  <2>1. CASE k \in Key
    BY <1>b, <1>c, <2>1
  <2>2. CASE k \notin Key
    <3>1. \A f, x : f \in [Key -> Thing] => [f EXCEPT ![k] = x] = f
      BY <2>2
    <3>2. UNCHANGED keys
      BY <1>a, <3>1
    <3> QED BY <1>b, <3>2
  <2> QED BY <2>1, <2>2
<1>5. ASSUME NEW t \in Thread, Resume(t), ~DropKey(t), \A k \in Key : ~InsertKey(t, k)
      PROVE  keys' \in [Key -> Thing] /\ KeysAge /\ NoNewKey
  BY <1>5, <1>b DEF Resume, InsertService, InsertRequest, RaiseDeletion, DropService, ListKeys,
       AdminRemovesUser, AddUserToGroup, ListGroups, DropGroup, RemoveUser, DropTerms,
       MarkApproved, MarkRejected, MoveOut, MoveIn, AcceptTerms
<1> QED BY <1>1, <1>2, <1>3, <1>4, <1>5 DEF Next

LEMMA ServicesStep ==
  ASSUME Inv, Next
  PROVE  services' \in [Service -> Thing] /\ ServicesAge
<1>a. services \in [Service -> Thing]
  BY DEF Inv, ThingsOK
<1>b. CASE UNCHANGED services
  BY <1>a, <1>b DEF ServicesAge
<1>c. ASSUME NEW s \in Service, NEW state \in {"deleting", "gone"},
             services' = [services EXCEPT ![s].state = state]
      PROVE  services' \in [Service -> Thing] /\ ServicesAge
  BY <1>a, <1>c DEF Thing, ServicesAge
<1>1. CASE AtOnce
  BY <1>1, <1>b, <1>c DEF AtOnce, DeleteKey, DeleteRequest, Finalize
<1>2. ASSUME NEW t \in Thread, Accept(t) \/ Abandon(t)
      PROVE  services' \in [Service -> Thing] /\ ServicesAge
  BY <1>2, <1>b DEF Accept, Abandon, CreateService, DeleteUser, AskTerms, CreateKey,
       NewGroupRequest, AdminDeleteUser, AdminChangeGroup, ApproveRequest, RejectRequest
<1>3. ASSUME NEW t \in Thread, NEW s \in Service, InsertService(t, s)
      PROVE  services' \in [Service -> Thing] /\ ServicesAge
  <2>1. http[t].by \in User \union {Nobody}
    BY DEF Inv, HandlersOK, Handler
  <2>2. [Blank EXCEPT !.state = "live", !.owner = http[t].by] \in Thing
    BY <2>1 DEF Thing, Blank
  <2> QED BY <1>a, <1>3, <2>2 DEF InsertService, ServicesAge
<1>4. ASSUME NEW t \in Thread, DropService(t)
      PROVE  services' \in [Service -> Thing] /\ ServicesAge
  <2> PICK s \in http[t].todo :
       services' = [services EXCEPT ![s].state = "deleting"] \/ UNCHANGED services
    BY <1>4 DEF DropService
  <2>1. CASE s \in Service
    BY <1>b, <1>c, <2>1
  <2>2. CASE s \notin Service
    <3>1. \A f, x : f \in [Service -> Thing] => [f EXCEPT ![s] = x] = f
      BY <2>2
    <3>2. UNCHANGED services
      BY <1>a, <3>1
    <3> QED BY <1>b, <3>2
  <2> QED BY <2>1, <2>2
<1>5. ASSUME NEW t \in Thread, Resume(t), ~DropService(t), \A s \in Service : ~InsertService(t, s)
      PROVE  services' \in [Service -> Thing] /\ ServicesAge
  BY <1>5, <1>b DEF Resume, InsertKey, InsertRequest, RaiseDeletion, DropKey, ListKeys,
       AdminRemovesUser, AddUserToGroup, ListGroups, DropGroup, RemoveUser, DropTerms,
       MarkApproved, MarkRejected, MoveOut, MoveIn, AcceptTerms, Remove, AddTo, SetState
<1>6. ASSUME NEW t \in Thread, Resume(t)
      PROVE  services' \in [Service -> Thing] /\ ServicesAge
  BY <1>3, <1>4, <1>5, <1>6
<1> QED BY <1>1, <1>2, <1>6 DEF Next

\* Only InsertRequest makes an open request to join a group.
WishesAge ==
  \A r \in Request : requests'[r].state = "NEW" /\ requests'[r].type = "join"
                       => requests[r].state = "NEW" /\ requests'[r] = requests[r]

LEMMA RequestsStep ==
  ASSUME Inv, Next
  PROVE  RequestsOK' /\ (WishesAge \/ \E t \in Thread, r \in Request : InsertRequest(t, r))
<1>a. RequestsOK
  BY DEF Inv
<1>b. CASE UNCHANGED requests
  BY <1>a, <1>b DEF RequestsOK, WishesAge, Stored
<1>1. CASE AtOnce
  <2>1. ASSUME NEW r \in Request, NEW u \in User, DeleteRequest(u, r)
        PROVE  RequestsOK' /\ WishesAge
    BY <1>a, <2>1 DEF DeleteRequest, RequestsOK, WishesAge, Stored, Wish, RequestState
  <2> QED BY <1>1, <1>b, <2>1 DEF AtOnce, DeleteKey, Finalize
<1>2. ASSUME NEW t \in Thread, Accept(t) \/ Abandon(t) PROVE RequestsOK' /\ WishesAge
  BY <1>a, <1>2, <1>b DEF Accept, Abandon, CreateService, DeleteUser, AskTerms, CreateKey,
       NewGroupRequest, AdminDeleteUser, AdminChangeGroup, ApproveRequest, RejectRequest,
       RequestsOK, WishesAge, Stored
<1>3. ASSUME NEW t \in Thread, NEW r \in Request, InsertRequest(t, r) PROVE RequestsOK'
  <2>1. http[t].by \in User /\ http[t].what \in Group
    BY <1>3 DEF Inv, HandlersOK, Apt, InsertRequest, At
  <2> DEFINE new == [NoRequest EXCEPT !.state = "NEW", !.user = http[t].by, !.group = http[t].what]
  <2>2. requests' = [requests EXCEPT ![r] = new] /\ new \in Wish
    BY <1>3, <2>1 DEF InsertRequest, NoRequest, Wish, RequestState
  <2>3. new.user \in User /\ new.group \in Group /\ new.type = "join"
    BY <2>1 DEF NoRequest
  <2> HIDE DEF new
  <2> QED BY <1>a, <2>2, <2>3 DEF RequestsOK, Stored
<1>4. ASSUME NEW t \in Thread, NEW r \in Request, RaiseDeletion(t, r)
      PROVE  RequestsOK' /\ WishesAge
  <2>1. http[t].by \in User \union {Nobody}
    BY DEF Inv, HandlersOK, Handler
  <2> DEFINE new == [NoRequest EXCEPT !.state = "NEW", !.type = "delete", !.user = http[t].by]
  <2>2. requests' = [requests EXCEPT ![r] = new] /\ new \in Wish
    BY <1>4, <2>1 DEF RaiseDeletion, NoRequest, Wish, RequestState
  <2>3. new.group = Nobody /\ new.type = "delete"
    BY DEF NoRequest
  <2> HIDE DEF new
  <2> QED BY <1>a, <2>2, <2>3 DEF RequestsOK, Stored, WishesAge
<1>5. ASSUME NEW t \in Thread, MarkApproved(t) \/ MarkRejected(t)
      PROVE  RequestsOK' /\ WishesAge
  BY <1>a, <1>5 DEF MarkApproved, MarkRejected, SetState, RequestsOK, WishesAge, Stored, Wish,
                    RequestState
<1>6. ASSUME NEW t \in Thread, Resume(t), ~MarkApproved(t), ~MarkRejected(t),
             \A r \in Request : ~InsertRequest(t, r) /\ ~RaiseDeletion(t, r)
      PROVE  RequestsOK' /\ WishesAge
  <2>1. UNCHANGED requests
    BY <1>6 DEF Resume, InsertKey, InsertService, DropService, DropKey, ListKeys,
       AdminRemovesUser, AddUserToGroup, ListGroups, DropGroup, RemoveUser, DropTerms,
       MoveOut, MoveIn, AcceptTerms
  <2> QED BY <1>a, <2>1 DEF RequestsOK, WishesAge, Stored
<1> QED BY <1>a, <1>b, <1>1, <1>2, <1>3, <1>4, <1>5, <1>6 DEF Next

LEMMA PeopleStep ==
  ASSUME Inv, Next
  PROVE  PeopleOK'
<1>a. /\ PeopleOK
      /\ \A t \in Thread : http[t] \in Handler /\ Apt(http[t])
  BY DEF Inv, HandlersOK
<1>b. CASE UNCHANGED <<users, member, accepted, errors, disturbed>>
  BY <1>a, <1>b DEF PeopleOK
<1>c. Error => errors' \in 0 .. MaxErrors
  BY <1>a, AccountsAssumption DEF PeopleOK, Error
<1>d. ASSUME NEW u, NEW how \in {"approvals", "change"}, Disturb(u, how)
      PROVE  disturbed' \in [User -> {"no", "approvals", "change"}]
  BY <1>a, <1>d DEF PeopleOK, Disturb
<1>e. ASSUME NEW u, NEW groups \in SUBSET Group, member' = [member EXCEPT ![u] = groups]
      PROVE  member' \in [User -> SUBSET Group]
  BY <1>a, <1>e DEF PeopleOK
<1>f. ASSUME NEW u, NEW g, member' = [member EXCEPT ![u] = @ \ {g}]
      PROVE  member' \in [User -> SUBSET Group]
  BY <1>a, <1>f DEF PeopleOK
<1>1. CASE AtOnce
  BY <1>1, <1>b DEF AtOnce, DeleteKey, DeleteRequest, Finalize
<1>2. ASSUME NEW t \in Thread, Accept(t) PROVE PeopleOK'
  <2>1. CASE UNCHANGED disturbed
    BY <1>2, <1>b, <2>1 DEF Accept, CreateService, DeleteUser, AskTerms, CreateKey,
       NewGroupRequest, AdminDeleteUser, AdminChangeGroup, ApproveRequest, RejectRequest
  <2>2. CASE disturbed' \in [User -> {"no", "approvals", "change"}]
    BY <1>a, <1>2, <2>2 DEF PeopleOK, Accept, CreateService, DeleteUser, AskTerms, CreateKey,
       NewGroupRequest, AdminDeleteUser, AdminChangeGroup, ApproveRequest, RejectRequest
  <2>3. ASSUME NEW a, NEW r, ApproveRequest(t, a, r)
        PROVE  UNCHANGED disturbed \/ disturbed' \in [User -> {"no", "approvals", "change"}]
    BY <1>d, <2>3 DEF ApproveRequest
  <2>4. ASSUME NEW a, NEW u, NEW g, AdminChangeGroup(t, a, u, g)
        PROVE  UNCHANGED disturbed \/ disturbed' \in [User -> {"no", "approvals", "change"}]
    BY <1>d, <2>4 DEF AdminChangeGroup
  <2>5. UNCHANGED disturbed \/ disturbed' \in [User -> {"no", "approvals", "change"}]
    BY <1>2, <2>3, <2>4 DEF Accept, CreateService, DeleteUser, AskTerms, CreateKey,
       NewGroupRequest, AdminDeleteUser, RejectRequest
  <2> QED BY <2>1, <2>2, <2>5
<1>3. ASSUME NEW t \in Thread, Abandon(t) PROVE PeopleOK'
  <2>1. UNCHANGED disturbed \/ disturbed' \in [User -> {"no", "approvals", "change"}]
    BY <1>d, <1>3 DEF Abandon
  <2> QED BY <1>a, <1>c, <1>3, <2>1 DEF Abandon, PeopleOK
<1>4. ASSUME NEW t \in Thread, Resume(t) PROVE PeopleOK'
  <2>1. ASSUME NEW u, NEW next, Remove(t, u, next), UNCHANGED <<accepted, errors, disturbed>>
        PROVE  PeopleOK'
    BY <1>a, <1>e, <2>1 DEF Remove, PeopleOK
  <2>2. CASE AdminRemovesUser(t) \/ RemoveUser(t)
    BY <2>1, <2>2 DEF AdminRemovesUser, RemoveUser
  <2>3. CASE AddUserToGroup(t)
    <3>1. http[t].what \in Group
      BY <1>a, <2>3 DEF AddUserToGroup, At, Apt
    <3> QED BY <1>a, <2>3, <3>1 DEF AddUserToGroup, AddTo, PeopleOK
  <2>4. CASE MoveIn(t)
    <3>1. http[t].what \in Group
      BY <1>a, <2>4 DEF MoveIn, At, Apt
    <3> QED BY <1>a, <2>4, <3>1 DEF MoveIn, AddTo, PeopleOK
  <2>5. CASE DropGroup(t) \/ MoveOut(t)
    BY <1>a, <1>c, <1>f, <2>5 DEF DropGroup, MoveOut, PeopleOK
  <2>6. CASE ListGroups(t) \/ DropService(t)
    BY <1>a, <1>c, <2>6 DEF ListGroups, DropService, ServiceFails, PeopleOK
  <2>7. CASE DropTerms(t) \/ AcceptTerms(t)
    BY <1>a, <2>7 DEF DropTerms, AcceptTerms, PeopleOK, At, Apt
  <2>8. CASE \/ \E k \in Key : InsertKey(t, k)
             \/ \E s \in Service : InsertService(t, s)
             \/ \E r \in Request : InsertRequest(t, r) \/ RaiseDeletion(t, r)
             \/ ListKeys(t) \/ DropKey(t) \/ MarkApproved(t) \/ MarkRejected(t)
    BY <1>b, <2>8 DEF InsertKey, InsertService, InsertRequest, RaiseDeletion, ListKeys, DropKey,
                      MarkApproved, MarkRejected
  <2> QED BY <1>4, <2>2, <2>3, <2>4, <2>5, <2>6, <2>7, <2>8 DEF Resume
<1> QED BY <1>1, <1>2, <1>3, <1>4 DEF Next

-------------------------------------------------------------------------------
\* What the step of a handler leaves of the others.
Kin(h) ==
  /\ http'[h].step = http[h].step /\ http'[h].by = http[h].by /\ http'[h].for = http[h].for
  /\ http'[h].self = http[h].self /\ http'[h].what = http[h].what
  /\ http'[h].todo = http[h].todo /\ http'[h].had = http[h].had
  /\ http[h].stale => http'[h].stale

LEMMA ReadyTyped == Ready \in Handler /\ Apt(Ready) /\ Ready.step = "ready"
  BY DEF Ready, Handler, HandlerStep, Apt, ApprovalSteps

Handled(t) == HandlersOK' /\ \A o \in Thread \ {t} : Kin(o)

LEMMA HttpSet ==
  ASSUME Inv, NEW t \in Thread, NEW h \in Handler, Apt(h), http' = [http EXCEPT ![t] = h]
  PROVE  Handled(t) /\ http'[t] = h
  BY DEF Inv, HandlersOK, Kin, Handled

LEMMA HttpInserted ==
  ASSUME Inv, NEW t \in Thread, NEW step, Inserted(t, step)
  PROVE  /\ Handled(t) /\ http'[t] = Ready
         /\ \A o \in Thread \ {t} : http[o].step = step => http'[o].stale
<1>1. \A o \in Thread : http[o] \in Handler /\ Apt(http[o])
  BY DEF Inv, HandlersOK
<1>2. \A o \in Thread : [http[o] EXCEPT !.stale = @ \/ http[o].step = step] \in Handler
  BY <1>1 DEF Handler
<1>3. \A o \in Thread : Apt([http[o] EXCEPT !.stale = @ \/ http[o].step = step])
  BY <1>1 DEF Handler, Apt
<1>4. HandlersOK'
  BY <1>2, <1>3, ReadyTyped DEF Inserted, HandlersOK
<1>5. \A o \in Thread \ {t} : Kin(o)
  BY <1>1 DEF Inserted, Kin, Handler
<1>6. ASSUME NEW o \in Thread \ {t}, http[o].step = step PROVE http'[o].stale
  <2>1. http'[o] = [http[o] EXCEPT !.stale = @ \/ http[o].step = step]
    BY DEF Inserted
  <2>2. http'[o].stale = (http[o].stale \/ http[o].step = step)
    BY <1>1, <2>1 DEF Handler
  <2> QED BY <1>6, <2>2
<1> QED BY <1>4, <1>5, <1>6 DEF Inserted, Handled

LEMMA AcceptStep ==
  ASSUME Inv, NEW t \in Thread, Accept(t)
  PROVE  Handled(t)
<1>a. users \subseteq User /\ member \in [User -> SUBSET Group] /\ Admin \subseteq User
  BY AccountsAssumption DEF Inv, PeopleOK
<1>b. ASSUME NEW u, NEW h \in Handler, Apt(h), Starts(t, u, h) PROVE Handled(t)
  BY <1>b, HttpSet DEF Starts
<1>c. \A u : /\ ServicesOf(u) \subseteq Service /\ LiveOf(u) \subseteq Service
             /\ KeysOf(u) \subseteq Key
  BY DEF ServicesOf, LiveOf, KeysOf
<1>1. ASSUME NEW u \in User, CreateService(t, u) PROVE Handled(t)
  <2>1. [Ready EXCEPT !.step = "createService", !.by = u] \in Handler
    BY DEF Ready, Handler, HandlerStep
  <2>2. Apt([Ready EXCEPT !.step = "createService", !.by = u])
    BY DEF Ready, Apt, ApprovalSteps
  <2> QED BY <1>1, <1>b, <2>1, <2>2 DEF CreateService
<1>2. ASSUME NEW u \in User, AskTerms(t, u) PROVE Handled(t)
  <2>1. [Ready EXCEPT !.step = "accept", !.by = u] \in Handler
    BY DEF Ready, Handler, HandlerStep
  <2>2. Apt([Ready EXCEPT !.step = "accept", !.by = u])
    BY DEF Ready, Apt, ApprovalSteps
  <2> QED BY <1>2, <1>b, <2>1, <2>2 DEF AskTerms
<1>3. ASSUME NEW u \in User, NEW n \in Name, CreateKey(t, u, n) PROVE Handled(t)
  <2>1. [Ready EXCEPT !.step = "insertKey", !.by = u, !.what = n] \in Handler
    BY DEF Ready, Handler, HandlerStep
  <2>2. Apt([Ready EXCEPT !.step = "insertKey", !.by = u, !.what = n])
    BY DEF Ready, Apt, ApprovalSteps
  <2> QED BY <1>3, <1>b, <2>1, <2>2 DEF CreateKey
<1>4. ASSUME NEW u \in User, NEW g \in Group, NewGroupRequest(t, u, g) PROVE Handled(t)
  <2>1. [Ready EXCEPT !.step = "insertRequest", !.by = u, !.what = g] \in Handler
    BY DEF Ready, Handler, HandlerStep
  <2>2. Apt([Ready EXCEPT !.step = "insertRequest", !.by = u, !.what = g])
    BY DEF Ready, Apt, ApprovalSteps
  <2> QED BY <1>4, <1>b, <2>1, <2>2 DEF NewGroupRequest
<1>5. ASSUME NEW u \in User, DeleteUser(t, u) PROVE Handled(t)
  <2> DEFINE h == [Ready EXCEPT !.step = "dropServices", !.by = u, !.for = u,
                   !.self = TRUE, !.todo = ServicesOf(u), !.had = LiveOf(u) \union KeysOf(u)]
  <2>1. h \in Handler
    BY <1>c DEF Ready, Handler, HandlerStep
  <2>2. Apt(h)
    BY DEF Ready, Apt, ApprovalSteps
  <2> QED BY <1>5, <1>b, <2>1, <2>2 DEF DeleteUser
<1>6. ASSUME NEW a \in Admin, NEW u \in User, AdminDeleteUser(t, a, u) PROVE Handled(t)
  <2> DEFINE h == [Ready EXCEPT !.step = "dropServices", !.by = a, !.for = u,
                   !.todo = ServicesOf(u), !.had = LiveOf(u) \union KeysOf(u)]
  <2>1. h \in Handler
    BY <1>a, <1>c DEF Ready, Handler, HandlerStep
  <2>2. Apt(h)
    BY DEF Ready, Apt, ApprovalSteps
  <2> QED BY <1>6, <1>b, <2>1, <2>2 DEF AdminDeleteUser
<1>7. ASSUME NEW a \in Admin, NEW u \in User, NEW g \in Group, AdminChangeGroup(t, a, u, g) PROVE Handled(t)
  <2> DEFINE h == [Ready EXCEPT !.step = "moveOut", !.by = a, !.for = u, !.what = g,
                   !.todo = member[u]]
  <2>1. h \in Handler
    BY <1>a DEF Ready, Handler, HandlerStep
  <2>2. Apt(h)
    BY DEF Ready, Apt, ApprovalSteps
  <2> QED BY <1>7, <1>b, <2>1, <2>2 DEF AdminChangeGroup
<1>8. ASSUME NEW a \in Admin, NEW r \in Request, ApproveRequest(t, a, r) PROVE Handled(t)
  <2> DEFINE join == requests[r].type = "join"
             h == [Ready EXCEPT !.step = IF join THEN "addToGroup" ELSE "removeUser",
                      !.by = a, !.for = requests[r].user, !.what = requests[r].group, !.req = {r}]
  <2>1. /\ requests[r].user \in User \union {Nobody} /\ requests[r].group \in Group \union {Nobody}
        /\ join => requests[r].user \in User /\ requests[r].group \in Group
    BY <1>8 DEF Inv, RequestsOK, Wish, ApproveRequest
  <2>2. h \in Handler
    BY <1>a, <2>1 DEF Ready, Handler, HandlerStep
  <2>3. Apt(h)
    BY <2>1 DEF Ready, Apt, ApprovalSteps
  <2> QED BY <1>8, <1>b, <2>2, <2>3 DEF ApproveRequest
<1>9. ASSUME NEW a \in Admin, NEW r \in Request, RejectRequest(t, a, r) PROVE Handled(t)
  <2>1. [Ready EXCEPT !.step = "reject", !.by = a, !.req = {r}] \in Handler
    BY <1>a DEF Ready, Handler, HandlerStep
  <2>2. Apt([Ready EXCEPT !.step = "reject", !.by = a, !.req = {r}])
    BY DEF Ready, Apt, ApprovalSteps
  <2> QED BY <1>9, <1>b, <2>1, <2>2 DEF RejectRequest
<1> QED BY <1>1, <1>2, <1>3, <1>4, <1>5, <1>6, <1>7, <1>8, <1>9 DEF Accept

LEMMA ResumeStep ==
  ASSUME Inv, NEW t \in Thread, Resume(t) \/ Abandon(t)
  PROVE  Handled(t)
<1>a. http[t] \in Handler /\ Apt(http[t]) /\ member \in [User -> SUBSET Group]
  BY DEF Inv, HandlersOK, PeopleOK
<1>b. Done(t) => Handled(t)
  BY HttpSet, ReadyTyped DEF Done
<1>c. ASSUME NEW step \in {"listGroups", "mark", "dropTerms"}, http[t].step \in ApprovalSteps \/ step # "listGroups",
             Then(t, step)
      PROVE  Handled(t)
  <2>1. [http[t] EXCEPT !.step = step] \in Handler
    BY <1>a DEF Handler, HandlerStep
  <2>2. Apt([http[t] EXCEPT !.step = step])
    BY <1>a, <1>c DEF Handler, Apt, ApprovalSteps
  <2>3. http' = [http EXCEPT ![t] = [http[t] EXCEPT !.step = step]]
    BY <1>c DEF Then
  <2> QED BY <2>1, <2>2, <2>3, HttpSet
<1>d. ASSUME NEW x, Without(t, x) PROVE Handled(t)
  <2>1. [http[t] EXCEPT !.todo = @ \ {x}] \in Handler
    BY <1>a DEF Handler
  <2>2. Apt([http[t] EXCEPT !.todo = @ \ {x}])
    BY <1>a DEF Handler, Apt
  <2>3. http' = [http EXCEPT ![t] = [http[t] EXCEPT !.todo = @ \ {x}]]
    BY <1>d DEF Without
  <2> QED BY <2>1, <2>2, <2>3, HttpSet
<1>1. CASE Abandon(t)
  BY <1>1, <1>b DEF Abandon
<1>2. ASSUME NEW k \in Key, InsertKey(t, k) PROVE Handled(t)
  BY <1>2, HttpInserted DEF InsertKey
<1>3. ASSUME NEW r \in Request, InsertRequest(t, r) PROVE Handled(t)
  BY <1>3, HttpInserted DEF InsertRequest
<1>4. CASE \/ \E s \in Service : InsertService(t, s)
           \/ \E r \in Request : RaiseDeletion(t, r)
           \/ MarkApproved(t) \/ MarkRejected(t) \/ AcceptTerms(t) \/ MoveIn(t) \/ AdminRemovesUser(t)
  BY <1>4, <1>b DEF InsertService, RaiseDeletion, MarkApproved, MarkRejected, AcceptTerms,
                    MoveIn, AddTo, AdminRemovesUser, Remove, Done
<1>5. CASE DropService(t) \/ DropKey(t)
  BY <1>5, <1>b, <1>d DEF DropService, ServiceFails, DropKey
<1>6. CASE DropGroup(t) \/ MoveOut(t)
  BY <1>6, <1>d DEF DropGroup, MoveOut
<1>7. CASE AddUserToGroup(t)
  BY <1>7, <1>b, <1>c DEF AddUserToGroup, AddTo, At, ApprovalSteps
<1>8. CASE DropTerms(t)
  BY <1>8, <1>c DEF DropTerms
<1>9. CASE RemoveUser(t)
  BY <1>9, <1>b, <1>c DEF RemoveUser, Remove, Then
<1>10. CASE ListKeys(t)
  <2> DEFINE h == [http[t] EXCEPT !.step = "dropKeys", !.todo = KeysToDrop(http[t])]
  <2>1. KeysToDrop(http[t]) \subseteq Key
    BY DEF KeysToDrop, AllKeys, KeysOf
  <2>2. h \in Handler
    BY <1>a, <2>1 DEF Handler, HandlerStep
  <2>3. Apt(h)
    BY <1>a DEF Handler, Apt, ApprovalSteps
  <2>4. http' = [http EXCEPT ![t] = h]
    BY <1>10 DEF ListKeys, ThenFor
  <2> QED BY <2>2, <2>3, <2>4, HttpSet
<1>11. CASE ListGroups(t)
  <2> DEFINE todo == Previous(member[http[t].for], http[t].what)
             h == [http[t] EXCEPT !.step = "dropGroups", !.todo = todo]
  <2>1. CASE ThenFor(t, "dropGroups", todo)
    <3>1. http[t].for \in User
      BY <1>a, <1>11 DEF ListGroups, At, Apt, ApprovalSteps
    <3>2. todo \subseteq Group
      BY <1>a, <3>1 DEF Previous
    <3>3. h \in Handler
      BY <1>a, <3>2 DEF Handler, HandlerStep
    <3>4. Apt(h)
      BY <1>a, <3>1 DEF Handler, Apt, ApprovalSteps
    <3>5. http' = [http EXCEPT ![t] = h]
      BY <2>1 DEF ThenFor
    <3> QED BY <3>3, <3>4, <3>5, HttpSet
  <2>2. CASE Then(t, "mark")
    BY <1>c, <2>2
  <2> QED BY <1>11, <2>1, <2>2 DEF ListGroups
<1> QED BY <1>1, <1>2, <1>3, <1>4, <1>5, <1>6, <1>7, <1>8, <1>9, <1>10, <1>11 DEF Resume

-------------------------------------------------------------------------------
\* What a handler owes, and what it has checked, when others are at work.
LEMMA OwesKept ==
  ASSUME Inv, NEW h \in Thread, KeysAge, ServicesAge, Kin(h)
  PROVE  Owes(h)'
<1>1. Owes(h)
  BY DEF Inv
<1>2. \A s \in Service : services[s].state # "none" =>
        services'[s].state # "none" /\ (services'[s].state = "live" => services[s].state = "live")
  BY DEF ServicesAge
<1>3. \A k \in Key : keys[k].state # "none" =>
        /\ keys'[k].state # "none" /\ keys'[k].owner = keys[k].owner
        /\ keys'[k].state = "live" => keys[k].state = "live"
  BY DEF KeysAge
<1> QED BY <1>1, <1>2, <1>3 DEF Owes, Kin

LEMMA OwesNothing ==
  ASSUME NEW h \in Thread, http'[h].step \notin {"dropServices", "dropKeys"}
  PROVE  Owes(h)'
  BY DEF Owes

\* A deletion begins with all that is listed as the user's.
LEMMA OwesFirst ==
  ASSUME NEW t \in Thread, NEW u, UNCHANGED <<keys, services>>,
         http'[t].step = "dropServices", http'[t].for = u,
         http'[t].todo = ServicesOf(u), http'[t].had = LiveOf(u) \union KeysOf(u)
  PROVE  Owes(t)'
<1>1. \A s \in Service : s \in http'[t].had =>
        /\ services[s].state = "live"
        /\ services[s].owner = u
  BY AccountsAssumption DEF LiveOf, KeysOf
<1>2. \A k \in Key : k \in http'[t].had => keys[k].state = "live" /\ keys[k].owner = u
  BY AccountsAssumption DEF LiveOf, KeysOf
<1>3. \A s \in Service : s \in http'[t].had => s \in http'[t].todo
  BY <1>1 DEF ServicesOf, Listed
<1> QED BY <1>1, <1>2, <1>3 DEF Owes

LEMMA OwesAccept ==
  ASSUME Inv, NEW t \in Thread, Accept(t)
  PROVE  Owes(t)'
<1>a. http \in [Thread -> Handler]
  BY DEF Inv, HandlersOK
<1>1. ASSUME NEW u \in User, DeleteUser(t, u) PROVE Owes(t)'
  BY <1>a, <1>1, OwesFirst DEF DeleteUser, Starts, Ready
<1>2. ASSUME NEW a \in Admin, NEW u \in User, AdminDeleteUser(t, a, u) PROVE Owes(t)'
  BY <1>a, <1>2, OwesFirst DEF AdminDeleteUser, Starts, Ready
<1>3. ASSUME NEW u, NEW h, Starts(t, u, h), h.step \notin {"dropServices", "dropKeys"}
      PROVE  Owes(t)'
  BY <1>a, <1>3, OwesNothing DEF Starts
<1>4. ASSUME NEW u \in User, CreateService(t, u) \/ AskTerms(t, u) PROVE Owes(t)'
  BY <1>3, <1>4 DEF CreateService, AskTerms, Ready
<1>5. ASSUME NEW u \in User, NEW n \in Name, CreateKey(t, u, n) PROVE Owes(t)'
  BY <1>3, <1>5 DEF CreateKey, Ready
<1>6. ASSUME NEW u \in User, NEW g \in Group, NewGroupRequest(t, u, g) PROVE Owes(t)'
  BY <1>3, <1>6 DEF NewGroupRequest, Ready
<1>7. ASSUME NEW a \in Admin, NEW u \in User, NEW g \in Group, AdminChangeGroup(t, a, u, g)
      PROVE  Owes(t)'
  BY <1>3, <1>7 DEF AdminChangeGroup, Ready
<1>8. ASSUME NEW a \in Admin, NEW r \in Request, ApproveRequest(t, a, r) \/ RejectRequest(t, a, r)
      PROVE  Owes(t)'
  BY <1>3, <1>8 DEF ApproveRequest, RejectRequest, Ready
<1> QED BY <1>1, <1>2, <1>4, <1>5, <1>6, <1>7, <1>8 DEF Accept

LEMMA OwesDropService ==
  ASSUME Inv, KeysAge, ServicesAge, NEW t \in Thread, DropService(t)
  PROVE  Owes(t)'
<1>a. http \in [Thread -> Handler] /\ Owes(t) /\ services \in [Service -> Thing]
  BY DEF Inv, HandlersOK, ThingsOK
<1>1. CASE Done(t)
  BY <1>a, <1>1, OwesNothing DEF Done, Ready
<1>2. CASE ~Done(t)
  <2> PICK s \in http[t].todo :
        services' = [services EXCEPT ![s].state = "deleting"] /\ Without(t, s)
    BY <1>2 DEF DropService, ServiceFails
  <2>1. /\ http'[t].step = "dropServices" /\ http'[t].had = http[t].had
        /\ http'[t].for = http[t].for /\ http'[t].todo = http[t].todo \ {s}
        /\ UNCHANGED keys
    BY <1>a DEF DropService, At, Without, Handler
  <2>2. s \in Service => services'[s].state # "live"
    BY <1>a DEF Thing
  <2>3. \A o \in Service : o \in http[t].had /\ services'[o].state = "live" => o \in http[t].todo \ {s}
    BY <1>a, <2>2 DEF Owes, ServicesAge, DropService, At
  <2>4. \A k \in Key : k \in http[t].had => keys[k].state # "none" /\ keys[k].owner = http[t].for
    BY <1>a DEF Owes, DropService, At
  <2>5. \A o \in Service : o \in http[t].had => services'[o].state # "none"
    BY <1>a DEF Owes, ServicesAge, DropService, At
  <2> QED BY <2>1, <2>3, <2>4, <2>5 DEF Owes
<1> QED BY <1>1, <1>2

LEMMA OwesListKeys ==
  ASSUME Inv, NEW t \in Thread, ListKeys(t)
  PROVE  Owes(t)'
<1>a. http \in [Thread -> Handler] /\ Owes(t)
  BY DEF Inv, HandlersOK
<1>1. /\ http'[t].step = "dropKeys" /\ http'[t].had = http[t].had
      /\ http'[t].for = http[t].for /\ http'[t].self = http[t].self /\ http'[t].by = http[t].by
      /\ http'[t].todo = KeysToDrop(http[t])
      /\ UNCHANGED <<keys, services>>
  BY <1>a DEF ListKeys, ThenFor, Handler
<1>2. /\ \A s \in Service : s \in http[t].had => services[s].state \notin {"none", "live"}
      /\ \A k \in Key : k \in http[t].had => keys[k].state # "none" /\ keys[k].owner = http[t].for
  BY <1>a DEF Owes, ListKeys, At
<1>3. /\ \A k \in Key : k \in http[t].had /\ keys[k].state = "live" => k \in KeysToDrop(http[t])
      /\ \A k \in Key : k \in KeysToDrop(http[t]) =>
           /\ keys[k].state # "none"
           /\ keys[k].owner = http[t].for \/ (http[t].self /\ http[t].by \in Admin)
  BY <1>2 DEF KeysToDrop, AllKeys, KeysOf
<1> QED BY <1>1, <1>2, <1>3 DEF Owes

LEMMA OwesDropKey ==
  ASSUME Inv, KeysAge, NEW t \in Thread, DropKey(t)
  PROVE  Owes(t)'
<1>a. http \in [Thread -> Handler] /\ Owes(t) /\ keys \in [Key -> Thing]
  BY DEF Inv, HandlersOK, ThingsOK
<1>1. CASE Done(t)
  BY <1>a, <1>1, OwesNothing DEF Done, Ready
<1>2. CASE ~Done(t)
  <2> PICK k \in http[t].todo :
        keys' = [keys EXCEPT ![k].state = "gone"] /\ Without(t, k)
    BY <1>2 DEF DropKey
  <2>1. /\ http'[t].step = "dropKeys" /\ http'[t].had = http[t].had
        /\ http'[t].for = http[t].for /\ http'[t].self = http[t].self
        /\ http'[t].by = http[t].by /\ http'[t].todo = http[t].todo \ {k}
        /\ UNCHANGED services
    BY <1>a DEF DropKey, At, Without, Handler
  <2>2. k \in Key => keys'[k].state # "live"
    BY <1>a DEF Thing
  <2>3. \A o \in Key : o \in http[t].had /\ keys'[o].state = "live" => o \in http[t].todo \ {k}
    BY <1>a, <2>2 DEF Owes, KeysAge, DropKey, At
  <2>4. \A o \in Key : o \in http[t].had => keys'[o].state # "none" /\ keys'[o].owner = http[t].for
    BY <1>a DEF Owes, KeysAge, DropKey, At
  <2>5. \A o \in Key : o \in http[t].todo \ {k} =>
          /\ keys'[o].state # "none"
          /\ keys'[o].owner = http[t].for \/ (http[t].self /\ http[t].by \in Admin)
    BY <1>a DEF Owes, KeysAge, DropKey, At
  <2>6. \A s \in Service : s \in http[t].had => services[s].state \notin {"none", "live"}
    BY <1>a DEF Owes, DropKey, At
  <2> QED BY <2>1, <2>3, <2>4, <2>5, <2>6 DEF Owes
<1> QED BY <1>1, <1>2

LEMMA OwesStep ==
  ASSUME Inv, Next
  PROVE  \A h \in Thread : Owes(h)'
<1>a. KeysAge /\ ServicesAge /\ http \in [Thread -> Handler]
  BY KeysStep, ServicesStep DEF Inv, HandlersOK
<1>1. CASE AtOnce
  BY <1>1, <1>a, OwesKept DEF AtOnce, DeleteKey, DeleteRequest, Finalize, Kin
<1>2. ASSUME NEW t \in Thread, Accept(t) \/ Resume(t) \/ Abandon(t), Owes(t)'
      PROVE  \A h \in Thread : Owes(h)'
  BY <1>2, <1>a, AcceptStep, ResumeStep, OwesKept DEF Handled
<1>3. ASSUME NEW t \in Thread, Abandon(t) PROVE Owes(t)'
  BY <1>3, <1>a, OwesNothing DEF Abandon, Done, Ready
<1>4. ASSUME NEW t \in Thread, Resume(t) PROVE Owes(t)'
  <2>1. CASE DropService(t) \/ ListKeys(t) \/ DropKey(t)
    BY <2>1, <1>a, OwesDropService, OwesListKeys, OwesDropKey
  <2>2. CASE ~(DropService(t) \/ ListKeys(t) \/ DropKey(t))
    <3>1. http[t] \in Handler
      BY <1>a
    <3>2. CASE \/ \E k \in Key : InsertKey(t, k)
               \/ \E s \in Service : InsertService(t, s)
               \/ \E r \in Request : InsertRequest(t, r) \/ RaiseDeletion(t, r)
               \/ MarkApproved(t) \/ MarkRejected(t) \/ AcceptTerms(t)
      BY <1>a, <3>2, OwesNothing DEF InsertKey, InsertService, InsertRequest, RaiseDeletion,
         MarkApproved, MarkRejected, AcceptTerms, Inserted, Done, Ready
    <3>3. CASE AddUserToGroup(t) \/ MoveIn(t)
      BY <1>a, <3>1, <3>3, OwesNothing DEF AddUserToGroup, MoveIn, AddTo, Done, Then, Ready, Handler
    <3>4. CASE AdminRemovesUser(t) \/ RemoveUser(t)
      BY <1>a, <3>1, <3>4, OwesNothing DEF AdminRemovesUser, RemoveUser, Remove, Done, Ready, Handler
    <3>5. CASE ListGroups(t) \/ DropTerms(t)
      BY <1>a, <3>1, <3>5, OwesNothing DEF ListGroups, DropTerms, Then, ThenFor, Handler
    <3>6. CASE DropGroup(t) \/ MoveOut(t)
      BY <1>a, <3>1, <3>6, OwesNothing DEF DropGroup, MoveOut, Without, At, Handler
    <3> QED BY <1>4, <2>2, <3>2, <3>3, <3>4, <3>5, <3>6 DEF Resume
  <2> QED BY <2>1, <2>2
<1> QED BY <1>1, <1>2, <1>3, <1>4, OwesAccept DEF Next

LEMMA FreshKept ==
  ASSUME Inv, RequestsOK', NEW h \in Thread, Kin(h),
         http[h].step = "insertKey" => http'[h].stale \/ (KeysAge /\ NoNewKey),
         http[h].step = "insertRequest" => http'[h].stale \/ WishesAge,
         keys' \in [Key -> Thing]
  PROVE  Fresh(h)'
<1>a. Fresh(h) /\ Apt(http[h]) /\ keys \in [Key -> Thing]
  BY DEF Inv, HandlersOK, ThingsOK
<1> SUFFICES ASSUME ~http'[h].stale PROVE Fresh(h)'
  BY DEF Fresh
<1>1. ASSUME http[h].step = "insertKey" PROVE NameFree(http[h].by, http[h].what)'
                                                 \/ http'[h].by # http[h].by \/ http'[h].what # http[h].what
  <2>1. /\ NameFree(http[h].by, http[h].what)
        /\ http'[h].by = http[h].by /\ http'[h].what = http[h].what
    BY <1>a, <1>1 DEF Fresh, Kin
  <2>2. \A k \in Key : keys'[k].state = "live" =>
          keys[k].state = "live" /\ keys'[k].owner = keys[k].owner /\ keys'[k].name = keys[k].name
    BY <1>1 DEF KeysAge, NoNewKey
  <2> QED BY <2>1, <2>2 DEF NameFree, KeysOf
<1>2. ASSUME http[h].step = "insertRequest" PROVE NotAsked(http[h].by, http[h].what)'
  <2>1. /\ NotAsked(http[h].by, http[h].what) /\ http[h].what \in Group
        /\ http'[h].by = http[h].by /\ http'[h].what = http[h].what
    BY <1>a, <1>2 DEF Fresh, Kin, Apt
  <2>2. \A r \in Request : requests'[r].state = "NEW" /\ requests'[r].group = http[h].what =>
          requests[r].state = "NEW" /\ requests'[r] = requests[r]
    BY <1>2, <2>1, AccountsAssumption DEF WishesAge, RequestsOK, Wish
  <2> QED BY <2>1, <2>2 DEF NotAsked
<1> QED BY <1>a, <1>1, <1>2 DEF Fresh, Kin, Apt

LEMMA FreshNothing ==
  ASSUME NEW h \in Thread, http'[h].step \notin {"insertKey", "insertRequest"}
  PROVE  Fresh(h)'
  BY DEF Fresh

LEMMA FreshAccept ==
  ASSUME Inv, NEW t \in Thread, Accept(t)
  PROVE  Fresh(t)'
<1>a. http \in [Thread -> Handler]
  BY DEF Inv, HandlersOK
<1>1. ASSUME NEW u \in User, NEW n \in Name, CreateKey(t, u, n) PROVE Fresh(t)'
  <2>1. /\ http'[t].step = "insertKey" /\ http'[t].by = u /\ http'[t].what = n
        /\ UNCHANGED keys /\ NameFree(u, n)
    BY <1>a, <1>1 DEF CreateKey, Starts, Ready
  <2> QED BY <2>1 DEF Fresh, NameFree, KeysOf
<1>2. ASSUME NEW u \in User, NEW g \in Group, NewGroupRequest(t, u, g) PROVE Fresh(t)'
  <2>1. /\ http'[t].step = "insertRequest" /\ http'[t].by = u /\ http'[t].what = g
        /\ UNCHANGED requests /\ NotAsked(u, g)
    BY <1>a, <1>2 DEF NewGroupRequest, Starts, Ready
  <2> QED BY <2>1 DEF Fresh, NotAsked
<1>3. ASSUME NEW u, NEW h, Starts(t, u, h), h.step \notin {"insertKey", "insertRequest"}
      PROVE  Fresh(t)'
  BY <1>a, <1>3, FreshNothing DEF Starts
<1>4. ASSUME NEW u \in User, CreateService(t, u) \/ AskTerms(t, u) \/ DeleteUser(t, u)
      PROVE  Fresh(t)'
  BY <1>3, <1>4 DEF CreateService, AskTerms, DeleteUser, Ready
<1>5. ASSUME NEW a \in Admin, NEW u \in User, AdminDeleteUser(t, a, u) PROVE Fresh(t)'
  BY <1>3, <1>5 DEF AdminDeleteUser, Ready
<1>6. ASSUME NEW a \in Admin, NEW u \in User, NEW g \in Group, AdminChangeGroup(t, a, u, g)
      PROVE  Fresh(t)'
  BY <1>3, <1>6 DEF AdminChangeGroup, Ready
<1>7. ASSUME NEW a \in Admin, NEW r \in Request, ApproveRequest(t, a, r) \/ RejectRequest(t, a, r)
      PROVE  Fresh(t)'
  BY <1>3, <1>7 DEF ApproveRequest, RejectRequest, Ready
<1> QED BY <1>1, <1>2, <1>4, <1>5, <1>6, <1>7 DEF Accept

LEMMA FreshResume ==
  ASSUME Inv, NEW t \in Thread, Resume(t) \/ Abandon(t)
  PROVE  Fresh(t)'
<1>a. http \in [Thread -> Handler] /\ http[t] \in Handler
  BY DEF Inv, HandlersOK
<1>2. CASE \/ \E k \in Key : InsertKey(t, k)
           \/ \E s \in Service : InsertService(t, s)
           \/ \E r \in Request : InsertRequest(t, r) \/ RaiseDeletion(t, r)
           \/ MarkApproved(t) \/ MarkRejected(t) \/ AcceptTerms(t) \/ Abandon(t)
  BY <1>a, <1>2, FreshNothing DEF InsertKey, InsertService, InsertRequest, RaiseDeletion,
     MarkApproved, MarkRejected, AcceptTerms, Abandon, Inserted, Done, Ready
<1>3. CASE AddUserToGroup(t) \/ MoveIn(t)
  BY <1>a, <1>3, FreshNothing DEF AddUserToGroup, MoveIn, AddTo, Done, Then, Ready, Handler
<1>4. CASE AdminRemovesUser(t) \/ RemoveUser(t)
  BY <1>a, <1>4, FreshNothing DEF AdminRemovesUser, RemoveUser, Remove, Done, Ready, Handler
<1>5. CASE ListGroups(t) \/ DropTerms(t) \/ ListKeys(t)
  BY <1>a, <1>5, FreshNothing DEF ListGroups, DropTerms, ListKeys, Then, ThenFor, Handler
<1>6. CASE DropGroup(t) \/ MoveOut(t)
  BY <1>a, <1>6, FreshNothing DEF DropGroup, MoveOut, Without, At, Handler
<1>7. CASE DropService(t) \/ DropKey(t)
  BY <1>a, <1>7, FreshNothing DEF DropService, ServiceFails, DropKey, Without, Done, Ready, At, Handler
<1> QED BY <1>2, <1>3, <1>4, <1>5, <1>6, <1>7 DEF Resume

LEMMA FreshStep ==
  ASSUME Inv, Next
  PROVE  \A h \in Thread : Fresh(h)'
<1>a. /\ KeysAge /\ keys' \in [Key -> Thing] /\ RequestsOK' /\ http \in [Thread -> Handler]
      /\ NoNewKey \/ \E t \in Thread, k \in Key : InsertKey(t, k)
      /\ WishesAge \/ \E t \in Thread, r \in Request : InsertRequest(t, r)
  BY KeysStep, RequestsStep DEF Inv, HandlersOK
<1>1. CASE AtOnce
  <2>1. \A h \in Thread : Kin(h)
    BY <1>1 DEF AtOnce, DeleteKey, DeleteRequest, Finalize, Kin
  <2>2. NoNewKey /\ WishesAge
    <3>1. http' # http \/ (NoNewKey /\ WishesAge)
      BY <1>1, <1>a DEF AtOnce, DeleteKey, DeleteRequest, Finalize, NoNewKey, WishesAge, Inv,
                        ThingsOK, RequestsOK, Thing, Wish
    <3> QED BY <1>1, <3>1 DEF AtOnce, DeleteKey, DeleteRequest, Finalize
  <2> QED BY <1>a, <2>1, <2>2, FreshKept
<1>2. ASSUME NEW t \in Thread, Accept(t) \/ Resume(t) \/ Abandon(t)
      PROVE  \A h \in Thread : Fresh(h)'
  <2>1. Fresh(t)' /\ \A h \in Thread \ {t} : Kin(h)
    BY <1>2, FreshAccept, FreshResume, AcceptStep, ResumeStep DEF Handled
  <2>2. ASSUME NEW o \in Thread, NEW k \in Key, InsertKey(o, k)
        PROVE  \A h \in Thread : Fresh(h)'
    <3>1. Handled(o) /\ http'[o] = Ready /\ UNCHANGED requests
      BY <2>2, HttpInserted DEF InsertKey
    <3>2. \A h \in Thread \ {o} : http[h].step = "insertKey" => http'[h].stale
      BY <2>2, HttpInserted DEF InsertKey
    <3>3. WishesAge
      BY <3>1 DEF WishesAge
    <3>4. ASSUME NEW h \in Thread \ {o} PROVE Fresh(h)'
      <4>1. Kin(h) /\ (http[h].step = "insertKey" => http'[h].stale)
        BY <3>1, <3>2 DEF Handled
      <4> QED BY <1>a, <3>3, <4>1, FreshKept
    <3>5. Fresh(o)'
      BY <3>1, FreshNothing DEF Ready
    <3> QED BY <3>4, <3>5
  <2>3. ASSUME NEW o \in Thread, NEW r \in Request, InsertRequest(o, r)
        PROVE  \A h \in Thread : Fresh(h)'
    <3>1. Handled(o) /\ http'[o] = Ready /\ UNCHANGED keys
      BY <2>3, HttpInserted DEF InsertRequest
    <3>2. \A h \in Thread \ {o} : http[h].step = "insertRequest" => http'[h].stale
      BY <2>3, HttpInserted DEF InsertRequest
    <3>3. NoNewKey
      BY <3>1 DEF NoNewKey
    <3>4. ASSUME NEW h \in Thread \ {o} PROVE Fresh(h)'
      <4>1. Kin(h) /\ (http[h].step = "insertRequest" => http'[h].stale)
        BY <3>1, <3>2 DEF Handled
      <4> QED BY <1>a, <3>3, <4>1, FreshKept
    <3>5. Fresh(o)'
      BY <3>1, FreshNothing DEF Ready
    <3> QED BY <3>4, <3>5
  <2>4. CASE NoNewKey /\ WishesAge
    BY <1>a, <2>1, <2>4, FreshKept
  <2> QED BY <1>a, <2>2, <2>3, <2>4
<1> QED BY <1>1, <1>2 DEF Next

-------------------------------------------------------------------------------
LEMMA InvInit == Init => Inv
<1> SUFFICES ASSUME Init PROVE Inv
  OBVIOUS
<1>1. PeopleOK
  BY AccountsAssumption DEF Init, PeopleOK
<1>2. ThingsOK
  BY BlankTyped DEF Init, ThingsOK
<1>3. RequestsOK
  <2>1. NoRequest \in Wish
    BY DEF NoRequest, Wish, RequestState
  <2> QED BY <2>1 DEF Init, RequestsOK, Stored, NoRequest
<1>4. HandlersOK
  BY ReadyTyped DEF Init, HandlersOK
<1>5. \A t \in Thread : Owes(t) /\ Fresh(t)
  BY ReadyTyped DEF Init, Owes, Fresh
<1> QED BY <1>1, <1>2, <1>3, <1>4, <1>5 DEF Inv

LEMMA InvStep == Inv /\ [Next]_accountVars => Inv'
<1> SUFFICES ASSUME Inv, [Next]_accountVars PROVE Inv'
  OBVIOUS
<1>1. CASE Next
  <2>1. HandlersOK'
    <3>1. CASE AtOnce
      BY <3>1 DEF AtOnce, DeleteKey, DeleteRequest, Finalize, Inv, HandlersOK
    <3> QED BY <1>1, <3>1, AcceptStep, ResumeStep DEF Next, Handled
  <2>2. PeopleOK' /\ ThingsOK' /\ RequestsOK'
    BY <1>1, PeopleStep, KeysStep, ServicesStep, RequestsStep DEF ThingsOK
  <2> QED BY <1>1, <2>1, <2>2, OwesStep, FreshStep DEF Inv
<1>2. CASE UNCHANGED accountVars
  <2>1. PeopleOK' /\ ThingsOK' /\ RequestsOK' /\ HandlersOK'
    BY <1>2 DEF accountVars, Inv, PeopleOK, ThingsOK, RequestsOK, Stored, HandlersOK
  <2>2. \A t \in Thread : Owes(t)' /\ Fresh(t)'
    BY <1>2 DEF accountVars, Inv, Owes, Fresh, NameFree, KeysOf, NotAsked
  <2> QED BY <2>1, <2>2 DEF Inv
<1> QED BY <1>1, <1>2

LEMMA InvAlways == Spec => []Inv
  BY InvInit, InvStep, PTL DEF Spec

\* Accounts, keys, services, requests and handlers have their types.
THEOREM AccountsTypeCorrect == Spec => []TypeOK
  BY InvAlways, InvIsType, PTL

\* The deletion of an account takes keys of that user only, but when an
\* administrator deletes their own account: whoever inserts or deletes keys
\* between the listing and the deletion.
THEOREM KeysOfOthersKept == Spec => OthersKeepTheirKeys
<1>1. ASSUME Inv, NEW t \in Thread, NEW k \in Key, Takes(t, k)
      PROVE  keys[k].owner = http[t].for \/ (http[t].self /\ http[t].by \in Admin)
  BY <1>1 DEF Inv, Owes, Takes, At
<1>2. Inv /\ [Next]_accountVars =>
        [\A t \in Thread, k \in Key :
           Takes(t, k) => \/ keys[k].owner = http[t].for
                          \/ http[t].self /\ http[t].by \in Admin]_accountVars
  BY <1>1
<1> QED BY <1>2, InvAlways, PTL DEF Spec, OthersKeepTheirKeys

\* When the deletion of an account reaches its end, nothing of what the user
\* owned at its start is left.
THEOREM NothingOrphaned == Spec => DeletionTakesAll
<1>1. ASSUME Inv, Next, NEW t \in Thread, At(t, "dropKeys"), http'[t] = Ready,
             users' # users \/ requests' # requests
      PROVE  http[t].had \intersect Live' = {}
  <2>1. http'[t].step # http[t].step
    BY <1>1 DEF At, Ready
  <2>2. ~AtOnce
    BY <1>1, <2>1 DEF AtOnce, DeleteKey, DeleteRequest, Finalize
  <2>3. Accept(t) \/ Resume(t) \/ Abandon(t)
    BY <1>1, <2>1, <2>2, AcceptStep, ResumeStep DEF Next, Handled, Kin
  <2>4. http[t].todo = {} /\ UNCHANGED <<keys, services>>
    <3>1. ~Accept(t)
      BY <1>1 DEF Accept, Starts, At, CreateService, DeleteUser, AskTerms, CreateKey,
           NewGroupRequest, AdminDeleteUser, AdminChangeGroup, ApproveRequest, RejectRequest
    <3>2. ~Abandon(t) /\ ~DropKey(t)
      BY <1>1 DEF Abandon, DropKey
    <3>3. (\E r \in Request : RaiseDeletion(t, r)) \/ AdminRemovesUser(t)
          \/ MarkApproved(t)
      BY <1>1, <2>3, <3>1, <3>2
         DEF Resume, At, InsertKey, InsertService, InsertRequest, DropService, ListKeys,
             AddUserToGroup, ListGroups, DropGroup, RemoveUser, DropTerms, MarkRejected,
             MoveOut, MoveIn, AcceptTerms
    <3>4. ~MarkApproved(t)
      BY <1>1 DEF MarkApproved, At
    <3> QED BY <3>3, <3>4 DEF RaiseDeletion, AdminRemovesUser
  <2>5. /\ \A k \in Key : k \in http[t].had => keys[k].state # "live"
        /\ \A s \in Service : s \in http[t].had => services[s].state # "live"
        /\ http[t].had \subseteq Key \union Service
    BY <1>1, <2>4 DEF Inv, Owes, At, HandlersOK, Handler
  <2>6. ASSUME NEW x \in http[t].had, NEW u \in User, x \in LiveOf(u)' \/ x \in KeysOf(u)'
        PROVE  FALSE
    BY <2>4, <2>5, <2>6, AccountsAssumption DEF LiveOf, KeysOf
  <2> QED BY <2>6 DEF Live
<1>2. Inv /\ [Next]_accountVars =>
        [\A t \in Thread :
           /\ At(t, "dropKeys") /\ http'[t] = Ready
           /\ users' # users \/ requests' # requests
           => http[t].had \intersect Live' = {}]_accountVars
  BY <1>1
<1> QED BY <1>2, InvAlways, PTL DEF Spec, DeletionTakesAll

\* Two keys of a user with one name, or two open requests of a user for one
\* group, come only of an insert between the check and the insert of another
\* handler.
THEOREM NoDuplicateWithoutRace == Spec => DuplicateNeedsRace
<1>1. ASSUME Inv, Next, NEW k \in Key, NEW l \in Key, SameName(k, l)', ~SameName(k, l)
      PROVE  \E t \in Thread : http[t].stale /\ http'[t] = Ready
  <2>1. KeysAge /\ ~NoNewKey
    <3>1. KeysAge
      BY <1>1, KeysStep
    <3>2. CASE NoNewKey
      BY <1>1, <3>1, <3>2 DEF SameName, KeysOf, KeysAge, NoNewKey
    <3> QED BY <3>1, <3>2
  <2> PICK t \in Thread, i \in Key : InsertKey(t, i)
    BY <1>1, <2>1, KeysStep
  <2>2. http'[t] = Ready
    BY <1>1, HttpInserted DEF InsertKey
  <2>3. CASE ~http[t].stale
    <3>1. NameFree(http[t].by, http[t].what)
      BY <1>1, <2>3 DEF Inv, Fresh, InsertKey, At
    <3>2. /\ keys'[i].owner = http[t].by /\ keys'[i].name = http[t].what
          /\ keys[i].state = "none"
          /\ \A o \in Key \ {i} : keys'[o] = keys[o]
      BY <1>1 DEF InsertKey, Inv, ThingsOK
    <3>3. ASSUME NEW o \in Key \ {i}, NEW u \in User, {o, i} \subseteq KeysOf(u)',
                 keys'[o].name = keys'[i].name
          PROVE  FALSE
      BY <3>1, <3>2, <3>3 DEF NameFree, KeysOf
    <3>4. k = i \/ l = i
      BY <1>1, <3>2 DEF SameName, KeysOf
    <3> QED BY <1>1, <3>3, <3>4 DEF SameName
  <2> QED BY <2>2, <2>3
<1>2. ASSUME Inv, Next, NEW r \in Request, NEW s \in Request, SameWish(r, s)', ~SameWish(r, s)
      PROVE  \E t \in Thread : http[t].stale /\ http'[t] = Ready
  <2>1. ~WishesAge
    BY <1>2 DEF SameWish, WishesAge
  <2> PICK t \in Thread, i \in Request : InsertRequest(t, i)
    BY <1>2, <2>1, RequestsStep
  <2>2. http'[t] = Ready
    BY <1>2, HttpInserted DEF InsertRequest
  <2>3. CASE ~http[t].stale
    <3>1. NotAsked(http[t].by, http[t].what)
      BY <1>2, <2>3 DEF Inv, Fresh, InsertRequest, At
    <3>2. /\ requests'[i].user = http[t].by /\ requests'[i].group = http[t].what
          /\ \A o \in Request \ {i} : requests'[o] = requests[o]
      BY <1>2 DEF InsertRequest, Inv, RequestsOK, NoRequest
    <3>3. r = i \/ s = i
      BY <1>2, <3>2 DEF SameWish
    <3> QED BY <1>2, <3>1, <3>2, <3>3 DEF SameWish, NotAsked
  <2> QED BY <2>2, <2>3
<1>3. Inv /\ [Next]_accountVars =>
        [\/ \E k, l \in Key : SameName(k, l)' /\ ~SameName(k, l)
         \/ \E r, s \in Request : SameWish(r, s)' /\ ~SameWish(r, s)
         => \E t \in Thread : http[t].stale /\ http'[t] = Ready]_accountVars
  BY <1>1, <1>2
<1> QED BY <1>3, InvAlways, PTL DEF Spec, DuplicateNeedsRace

-------------------------------------------------------------------------------
(***************************************************************************)
(* The groups of a user. Three things hold of a user who has an account:   *)
(* handlers that move the user at once are noted as soon as the second one *)
(* starts; while none has met, the user has a group whenever no            *)
(* AdminChangeGroup is at work, and an approval that has added its group   *)
(* keeps it; and while no change was met and nothing has failed, of any    *)
(* two groups of the user some handler will remove one.                    *)
(***************************************************************************)
Moves(t, u) == http[t].step \in ApprovalSteps \union ChangeSteps /\ http[t].for = u
Changes(t, u) == At(t, "moveOut") /\ http[t].for = u
Leaves(t, u, g) == Moves(t, u) /\ At(t, "dropGroups") /\ g \in http[t].todo

Alone(u) ==
  \A t, o \in Thread : t # o /\ Moves(t, u) /\ Moves(o, u) =>
    disturbed[u] # "no" /\ (Changes(t, u) => disturbed[u] = "change")

Home(u) ==
  disturbed[u] = "no" =>
    /\ (\A t \in Thread : ~Changes(t, u)) => member[u] # {}
    /\ \A t \in Thread : Moves(t, u) /\ http[t].step \in {"listGroups", "dropGroups"}
         => http[t].what \in member[u]
    /\ \A t \in Thread : Moves(t, u) /\ At(t, "dropGroups") => http[t].what \notin http[t].todo

Single(u) ==
  disturbed[u] # "change" /\ errors = 0 =>
    /\ \A g, h \in member[u] : g # h =>
         \E t \in Thread : \/ Moves(t, u) /\ At(t, "listGroups")
                           \/ Leaves(t, u, g) \/ Leaves(t, u, h)
    /\ \A t \in Thread : Changes(t, u) => member[u] \subseteq http[t].todo

Placed(u) == Alone(u) /\ Home(u) /\ Single(u)
GroupsInv == \A u \in users : Placed(u)

\* A step of t, as the user u sees it.
Beside(t) == \A o \in Thread \ {t} : Kin(o)

OthersStay(t, u) ==
  \A o \in Thread \ {t} :
    /\ Moves(o, u)' <=> Moves(o, u)
    /\ Changes(o, u)' <=> Changes(o, u)
    /\ \A step : At(o, step)' <=> At(o, step)
    /\ \A g : Leaves(o, u, g)' <=> Leaves(o, u, g)
    /\ http'[o].what = http[o].what /\ http'[o].todo = http[o].todo
    /\ http'[o].step = http[o].step

LEMMA OthersMove == ASSUME NEW t \in Thread, NEW u, Beside(t) PROVE OthersStay(t, u)
  BY DEF Beside, Kin, Moves, Changes, At, Leaves, OthersStay

\* A step of a handler that does not move u.
LEMMA QuietPlaced ==
  ASSUME NEW t \in Thread, NEW u, Placed(u), Beside(t), ~Moves(t, u), ~Moves(t, u)',
         member'[u] = member[u], disturbed'[u] = disturbed[u], errors' = 0 => errors = 0
  PROVE  Placed(u)'
<1>1. OthersStay(t, u)
  BY OthersMove
<1> USE DEF OthersStay
<1>2. ~Changes(t, u) /\ ~Changes(t, u)' /\ \A g : ~Leaves(t, u, g) /\ ~Leaves(t, u, g)'
  BY DEF Moves, Changes, Leaves, At, ChangeSteps
<1>3. Alone(u)'
  BY <1>1, <1>2 DEF Placed, Alone
<1>4. Home(u)'
  BY <1>1, <1>2 DEF Placed, Home
<1>5. Single(u)'
  BY <1>1, <1>2 DEF Placed, Single
<1> QED BY <1>3, <1>4, <1>5 DEF Placed

LEMMA DisturbedPlaced ==
  ASSUME NEW u, disturbed'[u] = "change"
  PROVE  Placed(u)'
  BY DEF Placed, Alone, Home, Single

\* A handler that moved u and has gone.
LEMMA GonePlaced ==
  ASSUME NEW t \in Thread, NEW u, Placed(u), Beside(t), ~Changes(t, u), ~Moves(t, u)',
         member'[u] = member[u], disturbed'[u] = disturbed[u],
         errors' # 0 \/ (errors' = errors /\ At(t, "dropGroups") /\ http[t].todo = {})
  PROVE  Placed(u)'
<1>1. OthersStay(t, u)
  BY OthersMove
<1> USE DEF OthersStay
<1>2. ~Changes(t, u)' /\ \A g : ~Leaves(t, u, g)'
  BY DEF Moves, Changes, Leaves, At, ChangeSteps
<1>3. Alone(u)'
  BY <1>1 DEF Placed, Alone
<1>4. Home(u)'
  BY <1>1, <1>2 DEF Placed, Home
<1>5. Single(u)'
  <2>1. CASE errors' # 0
    BY <2>1 DEF Single
  <2>2. CASE errors' = errors /\ At(t, "dropGroups") /\ http[t].todo = {}
    BY <1>1, <1>2, <2>2 DEF Placed, Single, Leaves, At
  <2> QED BY <2>1, <2>2
<1> QED BY <1>3, <1>4, <1>5 DEF Placed

LEMMA ApproveStarts ==
  ASSUME NEW t \in Thread, NEW u \in User, Inv, Placed(u), Beside(t), At(t, "ready"),
         http'[t].step = "addToGroup", http'[t].for = u, UNCHANGED <<member, errors>>,
         IF Moving(ChangeSteps, u) THEN Disturb(u, "change")
         ELSE IF Moving(ApprovalSteps, u) THEN Disturb(u, "approvals")
         ELSE UNCHANGED disturbed
  PROVE  Placed(u)'
<1>1. OthersStay(t, u)
  BY OthersMove
<1> USE DEF OthersStay
<1>2. /\ ~Moves(t, u) /\ ~Changes(t, u) /\ ~Changes(t, u)'
      /\ \A g : ~Leaves(t, u, g) /\ ~Leaves(t, u, g)'
      /\ http'[t].step \notin {"listGroups", "dropGroups"}
  BY DEF Moves, Changes, Leaves, At, ChangeSteps, ApprovalSteps
<1>3. disturbed \in [User -> {"no", "approvals", "change"}]
  BY DEF Inv, PeopleOK
<1>4. disturbed[u] = "change" => disturbed'[u] = "change"
  BY <1>3 DEF Disturb
<1>5. CASE disturbed'[u] = "change"
  BY <1>5, DisturbedPlaced
<1>6. CASE disturbed'[u] # "change"
  <2>1. ~Moving(ChangeSteps, u)
    BY <1>3, <1>6 DEF Disturb
  <2>2. \A o \in Thread : ~Changes(o, u)
    BY <2>1 DEF Moving, Changes, At, ChangeSteps
  <2>3. \A o \in Thread : ~Changes(o, u)'
    BY <1>1, <1>2, <2>2
  <2>4. Single(u)'
    <3>1. disturbed[u] # "change"
      BY <1>4, <1>6
    <3> QED BY <1>1, <1>2, <2>3, <3>1 DEF Placed, Single
  <2>5. CASE Moving(ApprovalSteps, u)
    <3>1. disturbed'[u] = "approvals"
      BY <1>3, <1>6, <2>1, <2>5 DEF Disturb
    <3>2. Alone(u)' /\ Home(u)'
      BY <2>3, <3>1 DEF Alone, Home
    <3> QED BY <2>4, <3>2 DEF Placed
  <2>6. CASE ~Moving(ApprovalSteps, u)
    <3>1. disturbed'[u] = disturbed[u]
      BY <2>1, <2>6
    <3>2. \A o \in Thread : ~Moves(o, u)
      BY <2>1, <2>6 DEF Moving, Moves
    <3>3. Alone(u)'
      BY <1>1, <3>2 DEF Alone
    <3>4. Home(u)'
      BY <1>1, <1>2, <2>2, <2>3, <3>1, <3>2 DEF Placed, Home, At
    <3> QED BY <2>4, <3>3, <3>4 DEF Placed
  <2> QED BY <2>5, <2>6
<1> QED BY <1>5, <1>6

LEMMA ChangeStarts ==
  ASSUME NEW t \in Thread, NEW u \in User, Inv, Placed(u), Beside(t), At(t, "ready"),
         http'[t].step = "moveOut", http'[t].for = u, http'[t].todo = member[u],
         UNCHANGED <<member, errors>>,
         IF Moving(ApprovalSteps \union ChangeSteps, u) THEN Disturb(u, "change")
         ELSE UNCHANGED disturbed
  PROVE  Placed(u)'
<1>1. OthersStay(t, u)
  BY OthersMove
<1> USE DEF OthersStay
<1>2. /\ ~Moves(t, u) /\ ~Changes(t, u) /\ Changes(t, u)'
      /\ \A g : ~Leaves(t, u, g)
      /\ http'[t].step \notin {"listGroups", "dropGroups"}
  BY DEF Moves, Changes, Leaves, At, ChangeSteps, ApprovalSteps
<1>3. disturbed \in [User -> {"no", "approvals", "change"}]
  BY DEF Inv, PeopleOK
<1>4. CASE Moving(ApprovalSteps \union ChangeSteps, u)
  <2>1. disturbed'[u] = "change"
    BY <1>3, <1>4 DEF Disturb
  <2> QED BY <2>1, DisturbedPlaced
<1>5. CASE ~Moving(ApprovalSteps \union ChangeSteps, u)
  <2>1. \A o \in Thread : ~Moves(o, u) /\ ~Changes(o, u)
    BY <1>5 DEF Moving, Moves, Changes, At, ChangeSteps
  <2>2. Alone(u)'
    BY <1>1, <2>1 DEF Alone
  <2>3. Home(u)'
    BY <1>1, <1>2, <2>1 DEF Home, At
  <2>4. Single(u)'
    BY <1>1, <1>2, <1>5, <2>1 DEF Placed, Single, Leaves
  <2> QED BY <2>2, <2>3, <2>4 DEF Placed
<1> QED BY <1>4, <1>5

\* AddUserToGroup: the group is the user's, and what else the user has is still
\* to be listed.
LEMMA AddPlaced ==
  ASSUME NEW t \in Thread, NEW u \in User, Inv, Placed(u), Beside(t), At(t, "addToGroup"),
         http[t].for = u, http'[t].step = "listGroups", http'[t].for = u,
         http'[t].what = http[t].what, member' = [member EXCEPT ![u] = @ \union {http[t].what}],
         UNCHANGED <<errors, disturbed>>
  PROVE  Placed(u)'
<1>1. OthersStay(t, u)
  BY OthersMove
<1> USE DEF OthersStay
<1>2. /\ Moves(t, u) /\ Moves(t, u)' /\ At(t, "listGroups")' /\ ~At(t, "dropGroups")'
      /\ ~Changes(t, u) /\ ~Changes(t, u)'
  BY DEF Moves, Changes, At, ChangeSteps, ApprovalSteps
<1>3. member'[u] = member[u] \union {http[t].what}
  BY DEF Inv, PeopleOK
<1>4. Alone(u)'
  BY <1>1, <1>2 DEF Placed, Alone
<1>5. disturbed[u] # "change" => \A o \in Thread : ~Changes(o, u)
  BY <1>2 DEF Placed, Alone, Moves, Changes, At, ChangeSteps
<1>6. Home(u)'
  BY <1>1, <1>2, <1>3 DEF Placed, Home
<1>7. Single(u)'
  BY <1>1, <1>2, <1>5 DEF Single
<1> QED BY <1>4, <1>6, <1>7 DEF Placed

LEMMA ListPlaced ==
  ASSUME NEW t \in Thread, NEW u \in User, Inv, Placed(u), Beside(t), At(t, "listGroups"),
         http[t].for = u, http'[t].step = "dropGroups", http'[t].for = u,
         http'[t].what = http[t].what, http'[t].todo = Previous(member[u], http[t].what),
         UNCHANGED <<member, errors, disturbed>>
  PROVE  Placed(u)'
<1>1. OthersStay(t, u)
  BY OthersMove
<1> USE DEF OthersStay
<1>2. /\ Moves(t, u) /\ Moves(t, u)' /\ At(t, "dropGroups")'
      /\ ~Changes(t, u) /\ ~Changes(t, u)'
  BY DEF Moves, Changes, At, ChangeSteps, ApprovalSteps
<1>3. Alone(u)'
  BY <1>1, <1>2 DEF Placed, Alone
<1>4. disturbed[u] # "change" => \A o \in Thread : ~Changes(o, u)
  BY <1>2 DEF Placed, Alone, Moves, Changes, At, ChangeSteps
<1>5. http'[t].what \notin http'[t].todo
  BY DEF Previous
<1>6. Home(u)'
  BY <1>1, <1>2, <1>5 DEF Placed, Home, At
<1>7. \A g, h \in member[u] : g # h => Leaves(t, u, g)' \/ Leaves(t, u, h)'
  BY <1>2 DEF Leaves, Previous
<1>8. Single(u)'
  BY <1>1, <1>2, <1>4, <1>7 DEF Single
<1> QED BY <1>3, <1>6, <1>8 DEF Placed

\* DropGroup, whether the call fails or not.
LEMMA DropPlaced ==
  ASSUME NEW t \in Thread, NEW u \in User, Inv, Placed(u), Beside(t), At(t, "dropGroups"),
         http[t].for = u, NEW g \in http[t].todo,
         http'[t].step = "dropGroups", http'[t].for = u,
         http'[t].what = http[t].what, http'[t].todo = http[t].todo \ {g},
         \/ member' = [member EXCEPT ![u] = @ \ {g}] /\ UNCHANGED errors
         \/ UNCHANGED member /\ errors' # 0,
         UNCHANGED disturbed
  PROVE  Placed(u)'
<1>1. OthersStay(t, u)
  BY OthersMove
<1> USE DEF OthersStay
<1>2. /\ Moves(t, u) /\ Moves(t, u)' /\ At(t, "dropGroups")'
      /\ ~Changes(t, u) /\ ~Changes(t, u)'
      /\ \A h : h # g => (Leaves(t, u, h)' <=> Leaves(t, u, h))
  BY DEF Moves, Changes, At, ChangeSteps, ApprovalSteps, Leaves
<1>3. Alone(u)'
  BY <1>1, <1>2 DEF Placed, Alone
<1>4. member'[u] = member[u] \/ member'[u] = member[u] \ {g}
  BY DEF Inv, PeopleOK
<1>5. Home(u)'
  <2> SUFFICES ASSUME disturbed[u] = "no"
               PROVE  /\ member'[u] # {}
                      /\ \A o \in Thread : Moves(o, u)' /\ http'[o].step \in {"listGroups", "dropGroups"}
                           => http'[o].what \in member'[u]
                      /\ \A o \in Thread : Moves(o, u)' /\ At(o, "dropGroups")'
                           => http'[o].what \notin http'[o].todo
    BY DEF Home
  <2>1. \A o \in Thread \ {t} : ~Moves(o, u)'
    BY <1>1, <1>2 DEF Placed, Alone
  <2>2. http[t].what \in member[u] /\ http[t].what \notin http[t].todo
    BY <1>2 DEF Placed, Home, At
  <2>3. http[t].what \in member'[u]
    BY <1>4, <2>2
  <2> QED BY <2>1, <2>2, <2>3
<1>6. Single(u)'
  <2> SUFFICES ASSUME disturbed[u] # "change", errors' = 0 PROVE Single(u)'
    BY DEF Single
  <2>1. member'[u] = member[u] \ {g} /\ errors = 0
    BY DEF Inv, PeopleOK
  <2>2. \A o \in Thread : ~Changes(o, u)'
    BY <1>1, <1>2 DEF Placed, Alone, Moves, Changes, At, ChangeSteps
  <2>3. \A x, y \in member[u] \ {g} : x # y =>
         \E o \in Thread : \/ Moves(o, u)' /\ At(o, "listGroups")'
                           \/ Leaves(o, u, x)' \/ Leaves(o, u, y)'
    <3> SUFFICES ASSUME NEW x \in member[u] \ {g}, NEW y \in member[u] \ {g}, x # y
                 PROVE  \E o \in Thread : \/ Moves(o, u)' /\ At(o, "listGroups")'
                                          \/ Leaves(o, u, x)' \/ Leaves(o, u, y)'
      OBVIOUS
    <3>1. PICK o \in Thread : \/ Moves(o, u) /\ At(o, "listGroups")
                              \/ Leaves(o, u, x) \/ Leaves(o, u, y)
      BY <2>1 DEF Placed, Single
    <3>2. CASE o = t
      BY <1>2, <3>1, <3>2 DEF At
    <3>3. CASE o # t
      BY <1>1, <3>1, <3>3
    <3> QED BY <3>2, <3>3
  <2> QED BY <2>1, <2>2, <2>3 DEF Single
<1> QED BY <1>3, <1>5, <1>6 DEF Placed

\* AdminChangeGroup takes the user out of the groups it listed, alone, and
\* into the new one.
LEMMA MoveOutPlaced ==
  ASSUME NEW t \in Thread, NEW u \in User, Inv, Placed(u), Beside(t), At(t, "moveOut"),
         http[t].for = u, NEW g \in http[t].todo,
         http'[t].step = "moveOut", http'[t].for = u, http'[t].todo = http[t].todo \ {g},
         member' = [member EXCEPT ![u] = @ \ {g}], UNCHANGED <<errors, disturbed>>
  PROVE  Placed(u)'
<1>1. OthersStay(t, u)
  BY OthersMove
<1> USE DEF OthersStay
<1>2. /\ Moves(t, u) /\ Moves(t, u)' /\ Changes(t, u) /\ Changes(t, u)'
      /\ \A h : ~Leaves(t, u, h)
  BY DEF Moves, Changes, At, ChangeSteps, ApprovalSteps, Leaves
<1>3. CASE disturbed[u] = "change"
  BY <1>3, DisturbedPlaced
<1>4. CASE disturbed[u] # "change"
  <2>1. \A o \in Thread \ {t} : ~Moves(o, u) /\ ~Moves(o, u)' /\ ~Changes(o, u)'
    BY <1>1, <1>2, <1>4 DEF Placed, Alone, Moves, Changes, At, ChangeSteps
  <2>2. Alone(u)'
    BY <2>1 DEF Alone
  <2>3. Home(u)'
    BY <1>2, <2>1 DEF Home, At
  <2>4. member'[u] = member[u] \ {g}
    BY DEF Inv, PeopleOK
  <2>5. \A o \in Thread : ~(Moves(o, u) /\ At(o, "listGroups")) /\ \A h : ~Leaves(o, u, h)
    BY <1>2, <2>1 DEF At, Leaves
  <2>6. Single(u)'
    BY <1>2, <1>4, <2>1, <2>4, <2>5 DEF Placed, Single
  <2> QED BY <2>2, <2>3, <2>6 DEF Placed
<1> QED BY <1>3, <1>4

LEMMA MoveInPlaced ==
  ASSUME NEW t \in Thread, NEW u \in User, Inv, Placed(u), Beside(t), At(t, "moveOut"),
         http[t].for = u, http[t].todo = {}, http'[t].step = "ready",
         member' = [member EXCEPT ![u] = @ \union {http[t].what}], UNCHANGED <<errors, disturbed>>
  PROVE  Placed(u)'
<1>1. OthersStay(t, u)
  BY OthersMove
<1> USE DEF OthersStay
<1>2. Moves(t, u) /\ Changes(t, u) /\ ~Moves(t, u)' /\ ~Changes(t, u)'
  BY DEF Moves, Changes, At, ChangeSteps, ApprovalSteps
<1>3. CASE disturbed[u] = "change"
  BY <1>3, DisturbedPlaced
<1>4. CASE disturbed[u] # "change"
  <2>1. \A o \in Thread : ~Moves(o, u)' /\ ~Changes(o, u)'
    BY <1>1, <1>2, <1>4 DEF Placed, Alone, Moves, Changes, At, ChangeSteps
  <2>2. Alone(u)'
    BY <2>1 DEF Alone
  <2>3. member'[u] = member[u] \union {http[t].what}
    BY DEF Inv, PeopleOK
  <2>4. Home(u)'
    BY <2>1, <2>3 DEF Home
  <2>5. errors = 0 => member[u] = {}
    BY <1>2, <1>4 DEF Placed, Single
  <2>6. Single(u)'
    BY <1>4, <2>1, <2>3, <2>5 DEF Single
  <2> QED BY <2>2, <2>4, <2>6 DEF Placed
<1> QED BY <1>3, <1>4

\* A step that starts or ends no move of u and leaves the groups of u.
LEMMA ElsePlaced ==
  ASSUME NEW t \in Thread, NEW u, Inv, Placed(u), Beside(t), ~Moves(t, u),
         http'[t].step \notin ApprovalSteps \union ChangeSteps \/ http'[t].for # u,
         member'[u] = member[u], disturbed'[u] = disturbed[u], Error \/ UNCHANGED errors
  PROVE  Placed(u)'
<1>1. errors' = 0 => errors = 0
  BY AccountsAssumption DEF Error, Inv, PeopleOK
<1>2. ~Moves(t, u)'
  BY DEF Moves
<1> QED BY <1>1, <1>2, QuietPlaced

LEMMA AcceptPlaced ==
  ASSUME NEW t \in Thread, NEW u \in User, Inv, Placed(u), Accept(t)
  PROVE  Placed(u)'
<1>a. Beside(t) /\ http[t] \in Handler /\ Thread = DOMAIN http
  BY AcceptStep DEF Handled, Beside, Inv, HandlersOK
<1>b. At(t, "ready") /\ UNCHANGED <<member, errors>>
  BY DEF Accept, CreateService, DeleteUser, AskTerms, CreateKey, NewGroupRequest,
         AdminDeleteUser, AdminChangeGroup, ApproveRequest, RejectRequest, Starts
<1>c. ~Moves(t, u)
  BY <1>b DEF Moves, At, ApprovalSteps, ChangeSteps
<1>1. ASSUME NEW a \in Admin, NEW r \in Request, ApproveRequest(t, a, r) PROVE Placed(u)'
  <2> DEFINE v == requests[r].user
             join == requests[r].type = "join"
             h == [Ready EXCEPT !.step = IF join THEN "addToGroup" ELSE "removeUser",
                      !.by = a, !.for = v, !.what = requests[r].group, !.req = {r}]
  <2>1. http'[t] = h
    BY <1>1, <1>a DEF ApproveRequest, Starts
  <2>2. h.step = (IF join THEN "addToGroup" ELSE "removeUser") /\ h.for = v
    BY DEF Ready
  <2>3. CASE ~join
    <3>1. http'[t].step = "removeUser" /\ UNCHANGED disturbed
      BY <1>1, <2>1, <2>2, <2>3 DEF ApproveRequest
    <3> QED BY <1>a, <1>b, <1>c, <3>1, ElsePlaced DEF ApprovalSteps, ChangeSteps
  <2>4. CASE join /\ v # u
    <3>1. http'[t].for # u
      BY <2>1, <2>2, <2>4
    <3>2. disturbed'[u] = disturbed[u]
      BY <1>1, <2>4 DEF ApproveRequest, Disturb, Inv, PeopleOK
    <3> QED BY <1>a, <1>b, <1>c, <3>1, <3>2, ElsePlaced
  <2>5. CASE join /\ v = u
    <3>1. http'[t].step = "addToGroup" /\ http'[t].for = u
      BY <2>1, <2>2, <2>5
    <3>2. IF Moving(ChangeSteps, u) THEN Disturb(u, "change")
          ELSE IF Moving(ApprovalSteps, u) THEN Disturb(u, "approvals")
          ELSE UNCHANGED disturbed
      BY <1>1, <2>5 DEF ApproveRequest
    <3> QED BY <1>a, <1>b, <3>1, <3>2, ApproveStarts
  <2> QED BY <2>3, <2>4, <2>5
<1>2. ASSUME NEW a \in Admin, NEW v \in User, NEW g \in Group, AdminChangeGroup(t, a, v, g)
      PROVE  Placed(u)'
  <2> DEFINE h == [Ready EXCEPT !.step = "moveOut", !.by = a, !.for = v, !.what = g,
                   !.todo = member[v]]
  <2>1. http'[t] = h
    BY <1>2, <1>a DEF AdminChangeGroup, Starts
  <2>2. h.step = "moveOut" /\ h.for = v /\ h.todo = member[v]
    BY DEF Ready
  <2>3. CASE v # u
    <3>1. disturbed'[u] = disturbed[u]
      BY <1>2, <2>3 DEF AdminChangeGroup, Disturb, Inv, PeopleOK
    <3> QED BY <1>a, <1>b, <1>c, <2>1, <2>2, <2>3, <3>1, ElsePlaced
  <2>4. CASE v = u
    <3>1. IF Moving(ApprovalSteps \union ChangeSteps, u) THEN Disturb(u, "change")
          ELSE UNCHANGED disturbed
      BY <1>2, <2>4 DEF AdminChangeGroup
    <3>2. http'[t].step = "moveOut" /\ http'[t].for = u /\ http'[t].todo = member[u]
      BY <2>1, <2>2, <2>4
    <3> QED BY <1>a, <1>b, <3>1, <3>2, ChangeStarts
  <2> QED BY <2>3, <2>4
<1>3. ASSUME NEW v, NEW h, Starts(t, v, h), h.step \notin ApprovalSteps \union ChangeSteps,
             UNCHANGED disturbed
      PROVE  Placed(u)'
  <2>1. http'[t] = h
    BY <1>3, <1>a DEF Starts
  <2> QED BY <1>3, <1>a, <1>b, <1>c, <2>1, ElsePlaced
<1>4. ASSUME NEW v \in User, CreateService(t, v) \/ AskTerms(t, v) \/ DeleteUser(t, v)
      PROVE  Placed(u)'
  BY <1>3, <1>4 DEF CreateService, AskTerms, DeleteUser, Ready, ApprovalSteps, ChangeSteps
<1>5. ASSUME NEW v \in User, \/ \E n \in Name : CreateKey(t, v, n)
                             \/ \E g \in Group : NewGroupRequest(t, v, g)
      PROVE  Placed(u)'
  BY <1>3, <1>5 DEF CreateKey, NewGroupRequest, Ready, ApprovalSteps, ChangeSteps
<1>6. ASSUME NEW a \in Admin, \/ \E v \in User : AdminDeleteUser(t, a, v)
                              \/ \E r \in Request : RejectRequest(t, a, r)
      PROVE  Placed(u)'
  BY <1>3, <1>6 DEF AdminDeleteUser, RejectRequest, Ready, ApprovalSteps, ChangeSteps
<1> QED BY <1>1, <1>2, <1>4, <1>5, <1>6 DEF Accept

\* The steps of a move.
LEMMA MovePlaced ==
  ASSUME NEW t \in Thread, NEW u \in User, u \in users, Inv, Placed(u),
         \/ AddUserToGroup(t) \/ ListGroups(t) \/ DropGroup(t) \/ MoveOut(t) \/ MoveIn(t)
  PROVE  Placed(u)'
<1>a. Resume(t)
  BY DEF Resume
<1>b. Beside(t) /\ http[t] \in Handler /\ Thread = DOMAIN http
  BY <1>a, ResumeStep DEF Handled, Beside, Inv, HandlersOK
<1>c. UNCHANGED disturbed /\ (Error \/ UNCHANGED errors)
  BY DEF AddUserToGroup, ListGroups, DropGroup, MoveOut, MoveIn
<1>d. Error => errors' # 0
  BY AccountsAssumption DEF Error, Inv, PeopleOK
<1>e. member \in [User -> SUBSET Group]
  BY DEF Inv, PeopleOK
<1>1. CASE http[t].for # u
  <2>1. http'[t].for = http[t].for \/ http'[t] = Ready
    BY <1>b DEF AddUserToGroup, ListGroups, DropGroup, MoveOut, MoveIn, AddTo, Then, ThenFor,
                Without, Done, Handler
  <2>2. Ready.step \notin ApprovalSteps \union ChangeSteps
    BY DEF Ready, ApprovalSteps, ChangeSteps
  <2>3. member'[u] = member[u]
    BY <1>1, <1>e DEF AddUserToGroup, ListGroups, DropGroup, MoveOut, MoveIn, AddTo
  <2>4. ~Moves(t, u)
    BY <1>1 DEF Moves
  <2> QED BY <1>1, <1>b, <1>c, <2>1, <2>2, <2>3, <2>4, ElsePlaced
<1>2. CASE http[t].for = u
  <2>1. CASE AddUserToGroup(t)
    <3>1. /\ At(t, "addToGroup") /\ Then(t, "listGroups")
          /\ member' = [member EXCEPT ![u] = @ \union {http[t].what}] /\ UNCHANGED errors
      BY <1>2, <2>1 DEF AddUserToGroup, AddTo
    <3>2. http'[t].step = "listGroups" /\ http'[t].for = u /\ http'[t].what = http[t].what
      BY <1>2, <1>b, <3>1 DEF Then, Handler
    <3> QED BY <1>2, <1>b, <1>c, <3>1, <3>2, AddPlaced
  <2>2. CASE ListGroups(t)
    <3>1. At(t, "listGroups") /\ UNCHANGED member
      BY <2>2 DEF ListGroups
    <3>2. CASE ThenFor(t, "dropGroups", Previous(member[http[t].for], http[t].what)) /\ UNCHANGED errors
      <4>1. /\ http'[t].step = "dropGroups" /\ http'[t].for = u /\ http'[t].what = http[t].what
            /\ http'[t].todo = Previous(member[u], http[t].what)
        BY <1>2, <1>b, <3>2 DEF ThenFor, Handler
      <4> QED BY <1>2, <1>b, <1>c, <3>1, <3>2, <4>1, ListPlaced
    <3>3. CASE Error /\ Then(t, "mark")
      <4>1. http'[t].step = "mark"
        BY <1>b, <3>3 DEF Then, Handler
      <4>2. ~Moves(t, u)'
        BY <4>1 DEF Moves, ApprovalSteps, ChangeSteps
      <4>3. ~Changes(t, u)
        BY <3>1 DEF Changes, At
      <4> QED BY <1>b, <1>c, <1>d, <3>1, <3>3, <4>2, <4>3, GonePlaced
    <3> QED BY <2>2, <3>2, <3>3 DEF ListGroups
  <2>3. CASE DropGroup(t)
    <3>1. PICK g \in http[t].todo :
            /\ Without(t, g)
            /\ \/ member' = [member EXCEPT ![http[t].for] = @ \ {g}] /\ UNCHANGED errors
               \/ Error /\ UNCHANGED member
      BY <2>3 DEF DropGroup
    <3>2. At(t, "dropGroups")
      BY <2>3 DEF DropGroup
    <3>3. /\ http'[t].step = "dropGroups" /\ http'[t].for = u /\ http'[t].what = http[t].what
          /\ http'[t].todo = http[t].todo \ {g}
      BY <1>2, <1>b, <3>1, <3>2 DEF Without, Handler, At
    <3>4. \/ member' = [member EXCEPT ![u] = @ \ {g}] /\ UNCHANGED errors
          \/ UNCHANGED member /\ errors' # 0
      BY <1>2, <1>d, <3>1
    <3> QED BY <1>2, <1>b, <1>c, <3>2, <3>3, <3>4, DropPlaced
  <2>4. CASE MoveOut(t)
    <3>1. PICK g \in http[t].todo :
            Without(t, g) /\ member' = [member EXCEPT ![http[t].for] = @ \ {g}]
      BY <2>4 DEF MoveOut
    <3>2. At(t, "moveOut") /\ UNCHANGED errors
      BY <2>4 DEF MoveOut
    <3>3. /\ http'[t].step = "moveOut" /\ http'[t].for = u
          /\ http'[t].todo = http[t].todo \ {g}
      BY <1>2, <1>b, <3>1, <3>2 DEF Without, Handler, At
    <3> QED BY <1>2, <1>b, <1>c, <3>1, <3>2, <3>3, MoveOutPlaced
  <2>5. CASE MoveIn(t)
    <3>1. /\ At(t, "moveOut") /\ http[t].todo = {} /\ Done(t) /\ UNCHANGED errors
          /\ member' = [member EXCEPT ![u] = @ \union {http[t].what}]
      BY <1>2, <2>5 DEF MoveIn, AddTo
    <3>2. http'[t].step = "ready"
      BY <1>b, <3>1, ReadyTyped DEF Done
    <3> QED BY <1>2, <1>b, <1>c, <3>1, <3>2, MoveInPlaced
  <2> QED BY <2>1, <2>2, <2>3, <2>4, <2>5
<1> QED BY <1>1, <1>2

LEMMA ResumePlaced ==
  ASSUME NEW t \in Thread, NEW u \in User, u \in users, u \in users', Inv, Placed(u),
         Resume(t) \/ Abandon(t)
  PROVE  Placed(u)'
<1> DEFINE Moving5 == AddUserToGroup(t) \/ ListGroups(t) \/ DropGroup(t) \/ MoveOut(t) \/ MoveIn(t)
           MoveSteps == ApprovalSteps \union ChangeSteps
<1>b. Beside(t) /\ http[t] \in Handler /\ Thread = DOMAIN http
  BY ResumeStep DEF Handled, Beside, Inv, HandlersOK
<1>c. Error => errors' # 0
  BY AccountsAssumption DEF Error, Inv, PeopleOK
<1>d. Ready.step \notin MoveSteps
  BY DEF Ready, ApprovalSteps, ChangeSteps
<1>e. Done(t) => http'[t] = Ready
  BY <1>b DEF Done
<1>f. ASSUME NEW step, Inserted(t, step) PROVE http'[t] = Ready
  BY <1>f DEF Inserted
<1>1. CASE Moving5
  BY <1>1, MovePlaced
<1>2. CASE Abandon(t)
  <2>1. Error /\ http'[t] = Ready /\ UNCHANGED member
    BY <1>2, <1>e DEF Abandon
  <2>2. ~Moves(t, u)'
    BY <1>d, <2>1 DEF Moves
  <2>3. disturbed \in [User -> {"no", "approvals", "change"}]
    BY DEF Inv, PeopleOK
  <2>4. CASE Changes(t, u)
    <3>1. disturbed'[u] = "change"
      BY <1>2, <2>3, <2>4 DEF Abandon, Disturb, Changes
    <3> QED BY <3>1, DisturbedPlaced
  <2>5. CASE ~Changes(t, u)
    <3>1. disturbed'[u] = disturbed[u]
      BY <1>2, <2>3, <2>5 DEF Abandon, Disturb, Changes
    <3> QED BY <1>b, <1>c, <2>1, <2>2, <2>5, <3>1, GonePlaced
  <2> QED BY <2>4, <2>5
<1>3. CASE MarkApproved(t)
  <2>1. http'[t] = Ready /\ UNCHANGED <<member, disturbed, errors>>
    BY <1>3, <1>e DEF MarkApproved
  <2>2. ~Moves(t, u)'
    BY <1>d, <2>1 DEF Moves
  <2>3. CASE At(t, "mark")
    <3>1. ~Moves(t, u)
      BY <2>3 DEF Moves, At, ApprovalSteps, ChangeSteps
    <3> QED BY <1>b, <2>1, <2>2, <3>1, QuietPlaced
  <2>4. CASE At(t, "dropGroups") /\ http[t].todo = {}
    <3>1. ~Changes(t, u)
      BY <2>4 DEF Changes, At
    <3> QED BY <1>b, <2>1, <2>2, <2>4, <3>1, GonePlaced
  <2> QED BY <1>3, <2>3, <2>4 DEF MarkApproved
<1>g. ASSUME http[t].step \notin MoveSteps, http'[t].step \notin MoveSteps, member'[u] = member[u],
             UNCHANGED disturbed, Error \/ UNCHANGED errors
      PROVE  Placed(u)'
  <2>1. ~Moves(t, u)
    BY <1>g DEF Moves
  <2> QED BY <1>b, <1>g, <2>1, ElsePlaced
<1>4. CASE \/ \E k \in Key : InsertKey(t, k)
           \/ \E r \in Request : InsertRequest(t, r) \/ RaiseDeletion(t, r)
           \/ \E s \in Service : InsertService(t, s)
           \/ MarkRejected(t) \/ AcceptTerms(t)
  <2>1. http'[t] = Ready /\ UNCHANGED <<member, disturbed, errors>>
    BY <1>4, <1>e, <1>f DEF InsertKey, InsertRequest, RaiseDeletion, InsertService, MarkRejected,
                            AcceptTerms
  <2>2. http[t].step \notin MoveSteps
    BY <1>4 DEF InsertKey, InsertRequest, RaiseDeletion, InsertService, MarkRejected,
                AcceptTerms, At, ApprovalSteps, ChangeSteps
  <2> QED BY <1>d, <1>g, <2>1, <2>2
<1>5. CASE DropService(t) \/ DropKey(t) \/ ListKeys(t) \/ DropTerms(t)
  <2>1. UNCHANGED <<member, disturbed>> /\ (Error \/ UNCHANGED errors)
    BY <1>5 DEF DropService, ServiceFails, DropKey, ListKeys, DropTerms
  <2>2. http[t].step \in {"dropServices", "dropKeys", "dropTerms"}
    BY <1>5 DEF DropService, DropKey, ListKeys, DropTerms, At
  <2>3. http'[t] = Ready \/ http'[t].step \in {http[t].step, "dropKeys", "mark"}
    BY <1>5, <1>b, <1>e DEF DropService, ServiceFails, DropKey, ListKeys, DropTerms, Without, Then, ThenFor, Handler
  <2> QED BY <1>d, <1>g, <2>1, <2>2, <2>3 DEF ApprovalSteps, ChangeSteps
<1>6. CASE AdminRemovesUser(t) \/ RemoveUser(t)
  <2>1. UNCHANGED <<disturbed, errors>> /\ http[t].step \in {"dropKeys", "removeUser"}
    BY <1>6 DEF AdminRemovesUser, RemoveUser, At
  <2>2. [http[t] EXCEPT !.step = "dropTerms"].step = "dropTerms"
    BY <1>b DEF Handler
  <2>3. http'[t] = Ready \/ http'[t].step = "dropTerms"
    BY <1>6, <1>b, <1>e, <2>2 DEF AdminRemovesUser, RemoveUser, Remove
  <2>4. member'[u] = member[u]
    <3>1. ASSUME NEW v, NEW next, Remove(t, v, next) PROVE member'[u] = member[u]
      BY <3>1 DEF Remove, Inv, PeopleOK
    <3> QED BY <1>6, <3>1 DEF AdminRemovesUser, RemoveUser
  <2> QED BY <1>d, <1>g, <2>1, <2>3, <2>4 DEF ApprovalSteps, ChangeSteps
<1> QED BY <1>1, <1>2, <1>3, <1>4, <1>5, <1>6 DEF Resume

LEMMA UsersLeave == ASSUME Next PROVE users' \subseteq users
<1>1. CASE AtOnce
  BY <1>1 DEF AtOnce, DeleteKey, DeleteRequest, Finalize
<1>2. ASSUME NEW t \in Thread, Accept(t) \/ Abandon(t) PROVE users' \subseteq users
  BY <1>2 DEF Accept, CreateService, DeleteUser, AskTerms, CreateKey, NewGroupRequest,
              AdminDeleteUser, AdminChangeGroup, ApproveRequest, RejectRequest, Abandon
<1>3. ASSUME NEW t \in Thread, Resume(t) PROVE users' \subseteq users
  <2>1. CASE AdminRemovesUser(t) \/ RemoveUser(t)
    BY <2>1 DEF AdminRemovesUser, RemoveUser, Remove
  <2>2. CASE UNCHANGED users
    BY <2>2
  <2> QED BY <1>3, <2>1, <2>2
          DEF Resume, InsertKey, InsertService, InsertRequest, RaiseDeletion, DropService,
              ListKeys, DropKey, AddUserToGroup, ListGroups, DropGroup, DropTerms,
              MarkApproved, MarkRejected, MoveOut, MoveIn, AcceptTerms
<1> QED BY <1>1, <1>2, <1>3 DEF Next

LEMMA GroupsStep == Inv /\ GroupsInv /\ [Next]_accountVars => GroupsInv'
<1> SUFFICES ASSUME Inv, GroupsInv, [Next]_accountVars, NEW u \in users' PROVE Placed(u)'
  BY DEF GroupsInv
<1>1. u \in users /\ u \in User /\ Placed(u)
  BY UsersLeave DEF accountVars, GroupsInv, Inv, PeopleOK
<1>2. CASE UNCHANGED <<http, member, disturbed, errors>>
  BY <1>1, <1>2 DEF Placed, Alone, Home, Single, Moves, Changes, Leaves, At
<1>3. CASE AtOnce
  BY <1>2, <1>3 DEF AtOnce, DeleteKey, DeleteRequest, Finalize
<1>4. ASSUME NEW t \in Thread, Accept(t) PROVE Placed(u)'
  BY <1>1, <1>4, AcceptPlaced
<1>5. ASSUME NEW t \in Thread, Resume(t) \/ Abandon(t) PROVE Placed(u)'
  BY <1>1, <1>5, ResumePlaced
<1> QED BY <1>2, <1>3, <1>4, <1>5 DEF Next, accountVars

LEMMA GroupsStart == Init => GroupsInv
<1> SUFFICES ASSUME Init, NEW u \in users PROVE Placed(u)
  BY DEF GroupsInv
<1>1. \A t \in Thread : ~Moves(t, u) /\ ~Changes(t, u)
  BY DEF Init, Moves, Changes, At, Ready, ApprovalSteps, ChangeSteps
<1>2. \E g \in Group : member[u] = {g}
  BY DEF Init
<1> QED BY <1>1, <1>2 DEF Placed, Alone, Home, Single

LEMMA GroupsInvGives == Inv /\ GroupsInv => OneGroup
<1> SUFFICES ASSUME GroupsInv, NEW u \in users, \A t \in Thread : At(t, "ready")
             PROVE  /\ disturbed[u] = "no" => member[u] # {}
                    /\ disturbed[u] # "change" /\ errors = 0 => Cardinality(member[u]) <= 1
  BY DEF OneGroup
<1>1. \A t \in Thread : ~Moves(t, u) /\ ~Changes(t, u) /\ \A g : ~Leaves(t, u, g)
  BY DEF Moves, Changes, Leaves, At, ApprovalSteps, ChangeSteps
<1>2. disturbed[u] = "no" => member[u] # {}
  BY <1>1 DEF GroupsInv, Placed, Home
<1>3. ASSUME disturbed[u] # "change", errors = 0 PROVE Cardinality(member[u]) <= 1
  <2>1. \A g, h \in member[u] : g = h
    BY <1>1, <1>3 DEF GroupsInv, Placed, Single
  <2>2. CASE member[u] = {}
    BY <2>2, FS_EmptySet
  <2>3. ASSUME NEW g \in member[u] PROVE Cardinality(member[u]) = 1
    <3>1. member[u] = {g}
      BY <2>1
    <3> QED BY <3>1, FS_Singleton
  <2> QED BY <2>2, <2>3
<1> QED BY <1>2, <1>3

\* A user whose moves did not meet is in a group, whatever failed; and no user
\* is in two when nothing failed and no AdminChangeGroup met another move or
\* was given up - however many approvals for the user ran at once.
THEOREM MembersHaveOneGroup == Spec => []OneGroup
  BY InvAlways, GroupsStart, GroupsStep, GroupsInvGives, PTL DEF Spec

===============================================================================
