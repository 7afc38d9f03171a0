------------------------------- MODULE Accounts -------------------------------
(***************************************************************************)
(* The users of the portal and what is theirs: their group in Keycloak,    *)
(* their SSH keys, requests and accepted terms in MongoDB, their services  *)
(* in Kubernetes (services/user.go, key.go, tnc.go, group.go, and the      *)
(* group and deletion requests of request.go). No transaction spans the    *)
(* three stores: a handler is a sequence of calls, any of which may fail,  *)
(* and the gin server runs any number of handlers at once.                 *)
(***************************************************************************)
EXTENDS Naturals, FiniteSets

CONSTANTS
  User,
  Admin,        \* the users with the manager role
  Nobody,
  Group,
  Key, Service, Request,   \* the ids the stores can hand out
  Name,         \* names of keys
  Thread,       \* the handlers that may run at once
  MaxErrors     \* bound on the number of failed calls and dead handlers

ASSUME AccountsAssumption ==
  /\ Admin \subseteq User /\ Nobody \notin User \union Group \union Name
  /\ Key \intersect Service = {}
  /\ MaxErrors \in Nat

VARIABLES
  users,        \* who has an account in Keycloak
  member,       \* the groups of each user, in Keycloak
  keys,         \* the collection "keys"
  services,     \* the Service objects
  requests,     \* the collection "requests", but the expiry requests
  accepted,     \* the collection "tnc": who accepted the terms
  http,         \* what each handler is about to do
  errors,
  disturbed     \* not in the code: how the moves of a user met each other

accountVars ==
  <<users, member, keys, services, requests, accepted, http, errors, disturbed>>

RequestState == {"none", "NEW", "APPROVED", "REJECTED", "deleted"}
Blank == [state |-> "none", owner |-> Nobody, name |-> Nobody]
NoRequest == [state |-> "none", type |-> "join", user |-> Nobody, group |-> Nobody]

KeysOf(u) == {k \in Key : keys[k].state = "live" /\ keys[k].owner = u}
AllKeys == {k \in Key : keys[k].state = "live"}

\* kubeClient.GetServices: an object being deleted is listed until it is gone.
Listed(s) == services[s].state \in {"live", "deleting"}
ServicesOf(u) == {s \in Service : Listed(s) /\ services[s].owner = u}
LiveOf(u) == {s \in Service : services[s].state = "live" /\ services[s].owner = u}

Stored(r) == requests[r].state \in {"NEW", "APPROVED", "REJECTED"}

(***************************************************************************)
(* A handler: who calls it, for whom (or for which group or key name) it   *)
(* works, and what is left of the list it read. Two fields are not in the  *)
(* code: had is what the user owned when the handler started, stale says   *)
(* that another handler inserted after this one's check.                   *)
(***************************************************************************)
Ready ==
  [step |-> "ready", by |-> Nobody, for |-> Nobody, what |-> Nobody,
   self |-> FALSE, req |-> {}, todo |-> {}, had |-> {}, stale |-> FALSE]

At(t, step) == http[t].step = step
Done(t) == http' = [http EXCEPT ![t] = Ready]
Then(t, step) == http' = [http EXCEPT ![t].step = step]
ThenFor(t, step, todo) == http' = [http EXCEPT ![t].step = step, ![t].todo = todo]
Without(t, x) == http' = [http EXCEPT ![t].todo = @ \ {x}]

\* RetrospectKeycloakToken: only the token of an existing user is active.
Starts(t, u, handler) ==
  /\ At(t, "ready")
  /\ u \in users
  /\ http' = [http EXCEPT ![t] = handler]

Error ==
  /\ errors < MaxErrors
  /\ errors' = errors + 1

\* The insert that ends t makes the check of others stale.
Inserted(t, step) == http' = [h \in Thread |->
  IF h = t THEN Ready ELSE [http[h] EXCEPT !.stale = @ \/ http[h].step = step]]

-------------------------------------------------------------------------------
\* Mutant: the name is not compared.
NameFreeAlways(u, n) == n \in Name

NameFree(u, n) == \A k \in KeysOf(u) : keys[k].name # n

\* CreateKey: the name must be new among the keys of the user.
CreateKey(t, u, n) ==
  /\ Starts(t, u, [Ready EXCEPT !.step = "insertKey", !.by = u, !.what = n])
  /\ NameFree(u, n)
  /\ UNCHANGED <<users, member, keys, services, requests, accepted, errors, disturbed>>

InsertKey(t, k) ==
  /\ At(t, "insertKey")
  /\ keys[k].state = "none"
  /\ keys' = [keys EXCEPT ![k] =
       [state |-> "live", owner |-> http[t].by, name |-> http[t].what]]
  /\ Inserted(t, "insertKey")
  /\ UNCHANGED <<users, member, services, requests, accepted, errors, disturbed>>

\* deleteKey, and DELETE /keys/:id.
MayDelete(u, owner) == u = owner \/ u \in Admin

DeleteKey(u, k) ==
  /\ u \in users
  /\ keys[k].state = "live" /\ MayDelete(u, keys[k].owner)
  /\ keys' = [keys EXCEPT ![k].state = "gone"]
  /\ UNCHANGED <<users, member, services, requests, accepted, http, errors, disturbed>>

\* CreateService, as far as the account goes: the user must have a key.
CreateService(t, u) ==
  /\ Starts(t, u, [Ready EXCEPT !.step = "createService", !.by = u])
  /\ KeysOf(u) # {}
  /\ UNCHANGED <<users, member, keys, services, requests, accepted, errors, disturbed>>

InsertService(t, s) ==
  /\ At(t, "createService")
  /\ services[s].state = "none"
  /\ services' = [services EXCEPT ![s] = [Blank EXCEPT !.state = "live", !.owner = http[t].by]]
  /\ Done(t)
  /\ UNCHANGED <<users, member, keys, requests, accepted, errors, disturbed>>

\* The controller finishes a deletion.
Finalize(s) ==
  /\ services[s].state = "deleting"
  /\ services' = [services EXCEPT ![s].state = "gone"]
  /\ UNCHANGED <<users, member, keys, requests, accepted, http, errors, disturbed>>

-------------------------------------------------------------------------------
(***************************************************************************)
(* Deletion of an account: DeleteUser by the user, which ends in a request *)
(* for the administrators, and AdminDeleteUser, which ends in Keycloak.    *)
(* Both delete the services they listed, one by one, then the keys.        *)
(***************************************************************************)
DeleteUser(t, u) ==
  /\ Starts(t, u, [Ready EXCEPT !.step = "dropServices", !.by = u, !.for = u,
                   !.self = TRUE, !.todo = ServicesOf(u), !.had = LiveOf(u) \union KeysOf(u)])
  /\ UNCHANGED <<users, member, keys, services, requests, accepted, errors, disturbed>>

AdminDeleteUser(t, a, u) ==
  /\ a \in Admin
  /\ Starts(t, a, [Ready EXCEPT !.step = "dropServices", !.by = a, !.for = u,
                   !.todo = ServicesOf(u), !.had = LiveOf(u) \union KeysOf(u)])
  /\ UNCHANGED <<users, member, keys, services, requests, accepted, errors, disturbed>>

\* Mutant: a service that cannot be deleted is skipped.
ServiceFailsSkip(t, s) == Error /\ Without(t, s)

\* deleteService fails, by NotFound or by the call: the handler returns, "to
\* avoid orphaned services".
ServiceFails(t, s) ==
  /\ \/ services[s].state = "gone" /\ UNCHANGED errors
     \/ Error
  /\ Done(t)

DropService(t) ==
  /\ At(t, "dropServices")
  /\ \E s \in http[t].todo :
       \/ /\ Listed(s)
          /\ services' = [services EXCEPT ![s].state = "deleting"]
          /\ Without(t, s)
          /\ UNCHANGED errors
       \/ /\ ServiceFails(t, s)
          /\ UNCHANGED services
  /\ UNCHANGED <<users, member, keys, requests, accepted, disturbed>>

\* Mutant: AdminDeleteUser lists the keys as DeleteUser does.
KeysToDropByRole(h) == IF h.by \in Admin THEN AllKeys ELSE KeysOf(h.for)

\* getAllKeys gives an administrator the keys of all users; getAllKeysForUser
\* does not.
KeysToDrop(h) ==
  IF h.self /\ h.by \in Admin THEN AllKeys ELSE KeysOf(h.for)

ListKeys(t) ==
  /\ At(t, "dropServices") /\ http[t].todo = {}
  /\ ThenFor(t, "dropKeys", KeysToDrop(http[t]))
  /\ UNCHANGED <<users, member, keys, services, requests, accepted, errors, disturbed>>

DropKey(t) ==
  /\ At(t, "dropKeys")
  /\ \E k \in http[t].todo :
       IF keys[k].state = "live" /\ MayDelete(http[t].by, keys[k].owner)
       THEN /\ keys' = [keys EXCEPT ![k].state = "gone"]
            /\ Without(t, k)
       ELSE Done(t) /\ UNCHANGED keys
  /\ UNCHANGED <<users, member, services, requests, accepted, errors, disturbed>>

\* deleteUserRequest, at the end of DeleteUser.
RaiseDeletion(t, r) ==
  /\ At(t, "dropKeys") /\ http[t].todo = {} /\ http[t].self
  /\ requests[r].state = "none"
  /\ requests' = [requests EXCEPT ![r] =
       [NoRequest EXCEPT !.state = "NEW", !.type = "delete", !.user = http[t].by]]
  /\ Done(t)
  /\ UNCHANGED <<users, member, keys, services, accepted, errors, disturbed>>

\* kc.DeleteUser: not found when the user is gone.
Remove(t, u, next) ==
  IF u \in users
  THEN /\ users' = users \ {u}
       /\ member' = [member EXCEPT ![u] = {}]
       /\ http' = [http EXCEPT ![t] = next]
  ELSE Done(t) /\ UNCHANGED <<users, member>>

AdminRemovesUser(t) ==
  /\ At(t, "dropKeys") /\ http[t].todo = {} /\ ~http[t].self
  /\ Remove(t, http[t].for, Ready)
  /\ UNCHANGED <<keys, services, requests, accepted, errors, disturbed>>

-------------------------------------------------------------------------------
(***************************************************************************)
(* Groups. A user should be in one group. An approved request adds the new *)
(* group first and removes the others next, logging what fails;            *)
(* AdminChangeGroup removes all and adds the new one last.                 *)
(***************************************************************************)
ApprovalSteps == {"addToGroup", "listGroups", "dropGroups"}
ChangeSteps == {"moveOut"}
Moving(steps, u) == \E t \in Thread : http[t].step \in steps /\ http[t].for = u

Disturb(u, how) ==
  disturbed' = [disturbed EXCEPT ![u] = IF @ = "change" THEN @ ELSE how]

\* GetRequestByGroupIDAndUserID has no open request.
NotAsked(u, g) ==
  \A r \in Request : requests[r].user = u /\ requests[r].group = g =>
                      requests[r].state # "NEW"

NewGroupRequest(t, u, g) ==
  /\ Starts(t, u, [Ready EXCEPT !.step = "insertRequest", !.by = u, !.what = g])
  /\ g \notin member[u]
  /\ NotAsked(u, g)
  /\ UNCHANGED <<users, member, keys, services, requests, accepted, errors, disturbed>>

InsertRequest(t, r) ==
  /\ At(t, "insertRequest")
  /\ requests[r].state = "none"
  /\ requests' = [requests EXCEPT ![r] =
       [NoRequest EXCEPT !.state = "NEW", !.user = http[t].by, !.group = http[t].what]]
  /\ Inserted(t, "insertRequest")
  /\ UNCHANGED <<users, member, keys, services, accepted, errors, disturbed>>

\* ApproveRequest: whatever state the request is in.
ApproveRequest(t, a, r) ==
  LET u == requests[r].user
      join == requests[r].type = "join"
  IN /\ a \in Admin /\ Stored(r)
     /\ Starts(t, a, [Ready EXCEPT !.step = IF join THEN "addToGroup" ELSE "removeUser",
                      !.by = a, !.for = u, !.what = requests[r].group, !.req = {r}])
     /\ IF ~join THEN UNCHANGED disturbed
        ELSE IF Moving(ChangeSteps, u) THEN Disturb(u, "change")
        ELSE IF Moving(ApprovalSteps, u) THEN Disturb(u, "approvals")
        ELSE UNCHANGED disturbed
     /\ UNCHANGED <<users, member, keys, services, requests, accepted, errors>>

\* Keycloak adds a user who exists.
AddTo(t, u, g, next) ==
  IF u \in users
  THEN /\ member' = [member EXCEPT ![u] = @ \union {g}]
       /\ next
  ELSE Done(t) /\ UNCHANGED member

AddUserToGroup(t) ==
  /\ At(t, "addToGroup")
  /\ AddTo(t, http[t].for, http[t].what, Then(t, "listGroups"))
  /\ UNCHANGED <<users, keys, services, requests, accepted, errors, disturbed>>

\* Mutant: the group just added is not spared.
PreviousAll(groups, g) == groups

Previous(groups, g) == groups \ {g}

\* deleteUserFromPreviousGroups: its failures are only logged.
ListGroups(t) ==
  /\ At(t, "listGroups")
  /\ \/ /\ ThenFor(t, "dropGroups", Previous(member[http[t].for], http[t].what))
        /\ UNCHANGED errors
     \/ Error /\ Then(t, "mark")
  /\ UNCHANGED <<users, member, keys, services, requests, accepted, disturbed>>

DropGroup(t) ==
  /\ At(t, "dropGroups")
  /\ \E g \in http[t].todo :
       /\ Without(t, g)
       /\ \/ /\ member' = [member EXCEPT ![http[t].for] = @ \ {g}]
             /\ UNCHANGED errors
          \/ Error /\ UNCHANGED member
  /\ UNCHANGED <<users, keys, services, requests, accepted, disturbed>>

\* The approval of a deletion removes the user, and then the terms.
RemoveUser(t) ==
  /\ At(t, "removeUser")
  /\ Remove(t, http[t].for, [http[t] EXCEPT !.step = "dropTerms"])
  /\ UNCHANGED <<keys, services, requests, accepted, errors, disturbed>>

DropTerms(t) ==
  /\ At(t, "dropTerms")
  /\ accepted' = accepted \ {http[t].for}
  /\ Then(t, "mark")
  /\ UNCHANGED <<users, member, keys, services, requests, errors, disturbed>>

SetState(t, s) ==
  requests' = [r \in Request |-> IF r \in http[t].req /\ Stored(r)
                                 THEN [requests[r] EXCEPT !.state = s]
                                 ELSE requests[r]]

MarkApproved(t) ==
  /\ \/ At(t, "mark")
     \/ At(t, "dropGroups") /\ http[t].todo = {}
  /\ SetState(t, "APPROVED")
  /\ Done(t)
  /\ UNCHANGED <<users, member, keys, services, accepted, errors, disturbed>>

RejectRequest(t, a, r) ==
  /\ a \in Admin /\ requests[r].state = "NEW"
  /\ Starts(t, a, [Ready EXCEPT !.step = "reject", !.by = a, !.req = {r}])
  /\ UNCHANGED <<users, member, keys, services, requests, accepted, errors, disturbed>>

MarkRejected(t) ==
  /\ At(t, "reject")
  /\ SetState(t, "REJECTED")
  /\ Done(t)
  /\ UNCHANGED <<users, member, keys, services, accepted, errors, disturbed>>

DeleteRequest(u, r) ==
  /\ u \in users
  /\ Stored(r) /\ MayDelete(u, requests[r].user)
  /\ requests' = [requests EXCEPT ![r].state = "deleted"]
  /\ UNCHANGED <<users, member, keys, services, accepted, http, errors, disturbed>>

AdminChangeGroup(t, a, u, g) ==
  /\ a \in Admin /\ u \in users
  /\ Starts(t, a, [Ready EXCEPT !.step = "moveOut", !.by = a, !.for = u, !.what = g,
                   !.todo = member[u]])
  /\ IF Moving(ApprovalSteps \union ChangeSteps, u) THEN Disturb(u, "change")
     ELSE UNCHANGED disturbed
  /\ UNCHANGED <<users, member, keys, services, requests, accepted, errors>>

MoveOut(t) ==
  /\ At(t, "moveOut")
  /\ \E g \in http[t].todo :
       /\ member' = [member EXCEPT ![http[t].for] = @ \ {g}]
       /\ Without(t, g)
  /\ UNCHANGED <<users, keys, services, requests, accepted, errors, disturbed>>

MoveIn(t) ==
  /\ At(t, "moveOut") /\ http[t].todo = {}
  /\ AddTo(t, http[t].for, http[t].what, Done(t))
  /\ UNCHANGED <<users, keys, services, requests, accepted, errors, disturbed>>

-------------------------------------------------------------------------------
\* AcceptTermsAndConditions: looked up, then upserted.
AskTerms(t, u) ==
  /\ Starts(t, u, [Ready EXCEPT !.step = "accept", !.by = u])
  /\ u \notin accepted
  /\ UNCHANGED <<users, member, keys, services, requests, accepted, errors, disturbed>>

AcceptTerms(t) ==
  /\ At(t, "accept")
  /\ accepted' = accepted \union {http[t].by}
  /\ Done(t)
  /\ UNCHANGED <<users, member, keys, services, requests, errors, disturbed>>

\* A call fails and the handler returns, or the server dies.
Abandon(t) ==
  /\ ~At(t, "ready")
  /\ Error
  /\ Done(t)
  /\ IF At(t, "moveOut") THEN Disturb(http[t].for, "change") ELSE UNCHANGED disturbed
  /\ UNCHANGED <<users, member, keys, services, requests, accepted>>

-------------------------------------------------------------------------------
Init ==
  /\ users = User
  /\ member \in [User -> {{g} : g \in Group}]
  /\ keys = [k \in Key |-> Blank]
  /\ services = [s \in Service |-> Blank]
  /\ requests = [r \in Request |-> NoRequest]
  /\ accepted = {}
  /\ http = [t \in Thread |-> Ready]
  /\ errors = 0
  /\ disturbed = [u \in User |-> "no"]

Accept(t) ==
  \/ \E u \in User :
       \/ CreateService(t, u) \/ DeleteUser(t, u) \/ AskTerms(t, u)
       \/ \E n \in Name : CreateKey(t, u, n)
       \/ \E g \in Group : NewGroupRequest(t, u, g)
  \/ \E a \in Admin :
       \/ \E u \in User : AdminDeleteUser(t, a, u)
       \/ \E u \in User, g \in Group : AdminChangeGroup(t, a, u, g)
       \/ \E r \in Request : ApproveRequest(t, a, r) \/ RejectRequest(t, a, r)

Resume(t) ==
  \/ \E k \in Key : InsertKey(t, k)
  \/ \E s \in Service : InsertService(t, s)
  \/ \E r \in Request : InsertRequest(t, r) \/ RaiseDeletion(t, r)
  \/ DropService(t) \/ ListKeys(t) \/ DropKey(t) \/ AdminRemovesUser(t)
  \/ AddUserToGroup(t) \/ ListGroups(t) \/ DropGroup(t)
  \/ RemoveUser(t) \/ DropTerms(t) \/ MarkApproved(t) \/ MarkRejected(t)
  \/ MoveOut(t) \/ MoveIn(t) \/ AcceptTerms(t)

\* What is a single call.
AtOnce ==
  \/ \E u \in User, k \in Key : DeleteKey(u, k)
  \/ \E u \in User, r \in Request : DeleteRequest(u, r)
  \/ \E s \in Service : Finalize(s)

Next == AtOnce \/ \E t \in Thread : Accept(t) \/ Resume(t) \/ Abandon(t)

Spec == Init /\ [][Next]_accountVars

-------------------------------------------------------------------------------
Thing == [state : {"none", "live", "deleting", "gone"},
                 owner : User \union {Nobody}, name : Name \union {Nobody}]

HandlerStep ==
  {"ready", "insertKey", "createService", "dropServices", "dropKeys",
   "insertRequest", "addToGroup", "listGroups", "dropGroups", "removeUser",
   "dropTerms", "mark", "reject", "moveOut", "accept"}

\* The types of the variables.
TypeOK ==
  /\ users \subseteq User /\ accepted \subseteq User
  /\ member \in [User -> SUBSET Group]
  /\ keys \in [Key -> Thing]
  /\ services \in [Service -> Thing]
  /\ requests \in [Request -> [state : RequestState, type : {"join", "delete"},
                               user : User \union {Nobody}, group : Group \union {Nobody}]]
  /\ http \in [Thread -> [step : HandlerStep, by : User \union {Nobody},
                          for : User \union {Nobody}, self : BOOLEAN,
                          what : Group \union Name \union {Nobody},
                          req : SUBSET Request, todo : SUBSET (Key \union Service \union Group),
                          had : SUBSET (Key \union Service), stale : BOOLEAN]]
  /\ errors \in 0 .. MaxErrors
  /\ disturbed \in [User -> {"no", "approvals", "change"}]

Live == UNION {LiveOf(u) \union KeysOf(u) : u \in User}

\* When the deletion of an account reaches its end - the request is raised, or
\* the user leaves Keycloak - nothing the user owned at its start is left,
\* whatever failed and whoever else was at work: "returning a failed condition
\* here to avoid orphaned services!" (AdminDeleteUser).
DeletionTakesAll ==
  [][\A t \in Thread :
       /\ At(t, "dropKeys") /\ http'[t] = Ready
       /\ users' # users \/ requests' # requests
       => http[t].had \intersect Live' = {}]_accountVars

Takes(t, k) == At(t, "dropKeys") /\ k \in http[t].todo /\ keys'[k] # keys[k]

\* The deletion of an account takes the keys of that user and of nobody else,
\* but when an administrator deletes their own account (getAllKeysForUser).
OthersKeepTheirKeys ==
  [][\A t \in Thread, k \in Key :
       Takes(t, k) => \/ keys[k].owner = http[t].for
                      \/ http[t].self /\ http[t].by \in Admin]_accountVars

\* "This will delete all your existing services, keys": yours, whoever you are.
DeletionTakesYoursOnly ==
  [][\A t \in Thread, k \in Key : Takes(t, k) => keys[k].owner = http[t].for]_accountVars

SameName(k, l) ==
  k # l /\ \E u \in User : {k, l} \subseteq KeysOf(u) /\ keys[k].name = keys[l].name
SameWish(r, s) ==
  /\ r # s /\ requests[r].state = "NEW" /\ requests[s].state = "NEW"
  /\ requests[r].type = "join" /\ requests[s].type = "join"
  /\ requests[r].user = requests[s].user /\ requests[r].group = requests[s].group

\* "Key name should be unique" and "You have already requested access to this
\* group": they fail only when another handler inserted between the check and
\* the insert of this one.
DuplicateNeedsRace ==
  [][\/ \E k, l \in Key : SameName(k, l)' /\ ~SameName(k, l)
     \/ \E r, s \in Request : SameWish(r, s)' /\ ~SameWish(r, s)
     => \E t \in Thread : http[t].stale /\ http'[t] = Ready]_accountVars

\* Moves of a user that do not meet leave the user in a group, even when they
\* fail, and in one group when nothing failed. Approvals that meet never leave
\* the user in two groups - though perhaps in none - and only a failed or
\* overlapping AdminChangeGroup may do anything else.
OneGroup ==
  \A u \in users : (\A t \in Thread : At(t, "ready")) =>
    /\ disturbed[u] = "no" => member[u] # {}
    /\ disturbed[u] # "change" /\ errors = 0 => Cardinality(member[u]) <= 1

===============================================================================
