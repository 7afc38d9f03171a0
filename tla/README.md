# A verification of Power Access Cloud

Power Access Cloud (PAC) gives its users virtual machines on IBM Power Virtual
Server for a limited time. This directory models the programs of the
repository in TLA+, checks small instances with TLC, and proves the central
invariants with TLAPS. Paths below are relative to `src/api/` unless they
begin with `src/`.

## 1. The system

Three programs share four stores.

| program | entry | what it does |
|---|---|---|
| PAC controller | `main.go` | a controller-runtime manager with two reconcilers, Catalog and Service; it makes and deletes the VMs |
| pac-go-server | `cmd/pac-go-server/main.go` | the REST and websocket API of users and administrators, a daily ticker for expiry notices, a worker for chat replies |
| event-notifier | `cmd/event-notifier` | tails the events and sends the mails |

| store | holds |
|---|---|
| Kubernetes | the custom resources Catalog and Service (spec, status, annotations, finalizers) |
| MongoDB | requests, events (a capped collection), SSH keys, quotas, terms, feedback, maintenance windows, chat messages |
| Keycloak | users, groups and roles |
| PowerVS | virtual machines, their volumes, the networks |

### Components, their state and operations

| component | state | operations | what makes it correct |
|---|---|---|---|
| Service controller (`controllers/app/service_controller.go`, `scope/service.go`) | none but the copy of the Service in memory | `Reconcile` on every change and every sync period | one VM per service; finalizer before VM; no VM left behind; an expired or deleted service is removed in the end; a delivered VM is kept |
| VM service (`controllers/app/service/vm.go`) | PowerVS | `Reconcile` (create or adopt, then read), `Delete`, volumes, networks | an IBM i VM waits for its boot; a VM has its volumes; volumes of a failed creation are removed; a service comes to know its VM |
| Catalog controller (`controllers/app/catalog_controller.go`) | Catalog status, finalizer | `Reconcile` | a catalog goes only after its services, and goes in the end |
| Expiry requests (`services/request.go`) | requests in MongoDB, annotation and expiry of the Service | ask, approve, reject, delete | open requests are bounded by the handlers; annotation and request agree and no approval shortens an expiry unless something came between the handlers |
| Group and deletion requests (`services/request.go`, `user.go`) | requests, groups in Keycloak | ask, approve, reject, change group, delete an account | one group per user; a deletion takes all of the user's and nothing else |
| Service handlers and quota (`services/service.go`, `quota.go`) | Service objects, quotas | create, delete, list | used capacity stays within the quota unless something changed meanwhile |
| Expiry notification (`services/notification.go`) | events | daily ticker | a notice near the expiry, no two in a day |
| Notification cache (`controllers/app/scope`) | a map in memory | notify, clear | a failure is reported, and not too often |
| Events and notifier (`db/mongodb/event.go`, `cmd/event-notifier`) | events, tailing cursor | insert, watch, mail, mark | each event is tried to be mailed, and not often twice |
| Chat (`services/chat.go`, `chat_hub.go`) | conversations, subscribers, reply queue | sessions, hub, worker | no reply lost, every conversation a user opens greeted, what is shown is stored, no hole in the ids by a user's tabs |
| Maintenance windows (`services/maintenance.go`) | windows | create, update, delete, show | no overlap of enabled windows without a race; the current one is shown |
| Keys, terms, feedback | documents | create, delete, accept | unique names, a daily limit |
| ManageIQ controllers, web console, clients of remote services, deployment | — | — | see "Not modelled" |

### How they interact, and what is hard

* The controller and the API server never call each other. They meet in the
  Service object: the server writes `spec.expiry`, the annotation
  `app.pac.io/pending-extension-request` and the deletion mark, the controller
  reads them and writes the finalizer and the status.
* The controller reads through an **informer cache** and writes a **merge
  patch** of what it changed in memory; only the finalizer's removal is an
  Update guarded by the resource version. A run can therefore act on an old
  copy, and its patch can succeed all the same.
* Between any two calls of a run the process can **die**, and any call can
  **fail** or succeed without its answer arriving. The final patch is two calls,
  metadata and status, and its failure is only logged.
* No **transaction** spans MongoDB, Kubernetes and Keycloak, nor two calls to one
  of them, and the server runs any number of handlers: every "look, then
  insert" is a race, and every handler can stop half-way.
* The chat keeps **state in memory** (sessions, subscriptions, a queue of
  replies) beside the documents, and its channels are bounded: a frame that does
  not fit is dropped.
* The notifier reads a **capped** collection with a cursor that begins again
  with the oldest event whenever it, or the program, ends.
* A VM told to delete remains listed under its name for a while, and the volumes
  made for a VM that was not keep their names.
* Much is a race with **time**: the expiry, the grace period of a day, the IBM i
  boot wait, a ticker and a look-back that both last 24 hours, midnight.

`PROJECT.json` lists the hazards with the line where each one bites.

## 2. The modules

| module | models | extends |
|---|---|---|
| `ServiceStore` | the Service object, its catalog, the clock; what the API server does with a deletion mark, a finalizer and a merge patch | |
| `ServiceController` | `Reconcile` and the VM service, PowerVS, crashes and the cache; users at their freest | `ServiceStore` |
| `ExpiryRequests` | the handlers of expiry requests, over the same Service | `ServiceStore` |
| `ServiceLifecycle` | controller and handlers together; the handlers replace the free users | both |
| `Provisioning` | what `ServiceController` takes for one step: network, volumes, VM and clean-up call by call, and the memory of failure notices | |
| `Admission` | quotas, catalogs, the creation of services, and both controllers as far as they meet there | |
| `Accounts` | keys, services, group and deletion requests, terms, over Keycloak's users and groups | |
| `Chat` | tabs, hub, administrators, reply queue, worker and shutdown | |
| `ReplyLedger` | abstractly, what may become of an administrator's reply; `Chat` implements it | |
| `MaintenanceWindows`, `Feedback`, `Reminders`, `Events` | one part each, small and independent | |
| `MC…` | instances for TLC: symmetry sets, casts, turns | |
| `…Proofs` | theorems and proofs | |

### ServiceStore

`svc` is one Service: a record of the fields the control flow uses. `expiry` is
`spec.expiry`; `state`, `successful`, `instance` and `createdAt` are the status;
`pending` is the annotation; `deleting` the deletion time stamp. `obj` tells an
object not yet made from one already removed: names end in a random suffix
(`generateServiceName`), so a name never comes back. `MergePatch` writes to the
stored object the fields that differ between the copy read (`before`) and the
copy in memory (`after`), as the patch helper of cluster-api does; `Settle`
removes an object marked for deletion that has no finalizer.

One service is enough. The work queue never runs two reconciles of one
service at a time and those of two services touch different objects; VMs are
found by the service's own name. Two services meet only in their catalog,
whose changes are actions of the environment here.

### ServiceController

A run of `Reconcile` is a program counter and the two copies,
`run = [step, before, after]`. Each action is what happens from one call that
leaves the process to the next, so that the rest of the world can act between
them:

| action | code |
|---|---|
| `StartBlocked` | read; catalog retired or not ready, state not CREATED: the state becomes ERROR and the run ends |
| `Start` | read; without finalizer go on to add it, otherwise `Dispatch` |
| `AddFinalizer` | the first patch, then `Dispatch` |
| `Dispatch` | deletion, expiry check, switch on the state; it only computes in memory and picks the next call |
| `DeleteObject` | an EXPIRED service past its grace period deletes its own object |
| `DeleteVM` | `VM.Delete`, for its three callers: deletion, expiry, remaking of a failed VM |
| `RemoveFinalizer` | the guarded Update |
| `Adopt`, `CreateVM`, `CreateVMFails` | `createVM`: take the listed VM of that name, or make one, or fail, also after PowerVS did make it |
| `GetVM` | read the VM and `updateStatus`, with `handleActiveStatus` in `Served` |
| `Patch` | the deferred patch; either half may be lost |
| `Crash`, `InformerSync` | the process restarts; the cache catches up |

`VMUp`, `VMDisturbed` and `VMVanishes` are PowerVS, `CatalogDown`, `CatalogUp`
and `RetireCatalog` the catalog, `Tick` the time. `CreateService`,
`DeleteService`, `SetExpiry` and `SetPending` are the users, with no order or
intention assumed of them.

### ExpiryRequests and ServiceLifecycle

`http[t]` is what handler `t` does next, `reqs` the collection. Each handler
of `services/request.go` is split at its calls to a store: ask is check,
lookup, insert, annotate; approve is extend, clear, mark; reject is mark,
clear; delete is one call. The check of `AskStart` merges the reads of the
Service and of its catalog, as `CreateService` merges the check of the catalog
and the creation: what changes in between might as well change right after,
since neither the Service nor the request remembers the answer. `Get` followed by `Update` in `kubeClient` is one
step, because the API server refuses the Update when the object changed in
between. `Abandon` ends a handler anywhere: a failed call after which it
returns (or, where the code only logs and does nothing more to a store, goes
on), or the death of the server.

`ServiceLifecycle` is the conjunction of the two: a step is one of a
handler, or one of the controller and its world. The four constants
`MayRetire`, `MayEdit`, `MayWithdraw` and `MayReapprove` say which inputs an
instance admits; the last one exists because `ApproveRequest` does not look at
the state of the request, so that an administrator may approve one that was
decided. `amiss` is a ghost: what has come between the handlers so far (`met`,
one wrote while another was past its look-up, or extended while another had
begun; `failed`, one ended between its two stores; `withdrawn`, an open request
was deleted; `again`, a decided one was approved). No action reads it. It lets
the properties say under which races they hold, with any number of handlers,
instead of leaving the races out.

### Provisioning

What `ServiceController` does in its one step `CreateVM`, `vm.go` does in many
calls: `FindVM`, `UseNetwork`, one `CreateVolume` for each disk, `CreateVM`,
`GetVM`, and after a failure one `CleanUp` for each volume and `Notify`.
`run.made` is the slice of volumes the run holds; it is lost with the run.
`CallFails` lets any of the calls fail with or without its effect. `cache` is
`notificationCache`, ages instead of times; a service whose status has no
`InstanceID` yet has the type of the event as its key, so that all of them share
one (`KeyOf`). Two fields are ghosts: `told`, the age of the last event stored
under each key, and `left`, the volumes that a failure has left without a VM and
without a run.

### Admission

`http[t]` is a handler of `CreateService`, `CreateQuota` or `UpdateQuota`,
split between its reads and its write; `quotas[g]` is a sequence, since nothing
but a look-up before the insert keeps a group from having two documents, and
update and delete take the oldest. The catalog controller is split between its
look at the object and the services (`LookAtCatalog`) and its write
(`ReleaseCatalog`, guarded by the resource version; `PublishReady`, not
guarded). The service controller appears as `ReconcileService`, which makes a
service owned and moves its state. Ghosts: `stale`, a service, quota or
membership changed after the handler read the quota; `late`, the services that
became owned after the catalog controller looked.

Memory is an integer; CPU is a float64 in the code, made from and stored as a
decimal with two places (`CastFloatToStr`), and an integer number of hundredths
here. Sums of hundredths are off by far less than a hundredth, so rounding can
only turn the comparison when the sum is exactly the quota: between `MustAdmit`
and `MayAdmit` the model admits or refuses, as it likes. A catalog's size may be
negative, and its CPU zero: `validateCreateCatalogParams` refuses exactly zero
only (catalog.go:292), and "%.2f" stores 0.004 as 0.00. The bound `Below` says how
far below zero; a quota is positive (`ValidateQuotaFields`).

### Accounts

One action for each call of each handler: `DropService`, `ListKeys` and
`DropKey` are the loops of `DeleteUser` and `AdminDeleteUser`, whose `todo` is
what is left of the list that was read; `AddUserToGroup`, `ListGroups` and
`DropGroup` are the approval of a group request; `MoveOut` and `MoveIn` are
`AdminChangeGroup`. `Abandon` ends a handler anywhere. Ghosts: `had`, what the
user owned when the deletion began; `stale`, another handler inserted after this
one's check; `disturbed`, how the moves of one user met.

### Chat and ReplyLedger

`session[s]` is the `chatSession` of a tab with a program counter: `Connect`,
`ReadEnded`, `ReadHistory` and `Subscribe` are `initChatSession` and the hello
frame, `UserSends` to `SendAutoReply` are `handleUserMessage`, `Receive` is
`handleAdminMessage`. `subs` is the hub's map for the user's key, `inbox` and
`pipe` the bounded channels. `AdminReply`, `PushReply` and `Tell` are the three
steps of an administrator's reply. The handlers take the number of the
conversation as it comes (`AdminReply` and `AdminEnd` only parse it), so that any
number in `Conv` may be answered or ended, whether there is such a conversation or
not; zero and negative numbers, and numbers beyond `MaxConv`, are not in the model.
`queue` is `adminReplyQueue`, and the
`Worker…` actions are `StartAdminReplyWorker`, with both outcomes of a `select`
whose cases are all ready. `Signal`, `Exit` and `Restart` are the process.
`Teardown` unsubscribes the session's *first* channel, because Go evaluates
the deferred function value when the `defer` statement runs (chat.go:377).

`ReplyLedger` says what an administrator may rely on, with none of this: a reply
is taken or refused, one that is taken is stored once, and one is lost only when
something was disturbed. `RepliesKept` is that specification over `ReplyFate`,
which computes the fate of a reply from the documents, the calls and the queue.

### MaintenanceWindows, Feedback, Reminders, Events

* `MaintenanceWindows`: create is check and `Insert`; update is `UpdateRead`
  (read and complete), `UpdateCheck`, `UpdateWrite`; delete is read and write.
  `stale` is a ghost: another handler wrote after this one's check. `UserView` is
  what `GetMaintenanceWindows` shows to users.
* `Feedback`: date, count, insert, with `Midnight` between any two of them.
* `Reminders`: time in half days, since a ticker of 24 hours and a look-back of
  24 hours meet exactly; of an event just as old as the look-back the model says
  "perhaps". `Lead` is computed as the code does, in 64 bits: the product of
  two durations overflows. A pass may fail to read the events, which the code
  takes for "not sent", and to store one.
* `Events`: `events` is the capped collection, `cursor` the tailable cursor with
  the batch it fetched, `mailer` the loop. A snapshot in the batch is not read
  again, so an event that was marked meanwhile is mailed twice. `tries` and
  `unknown` are ghosts.

### Instances that take turns

`MCChat`, `MCAccounts` and `MCAdmission` bound who acts: a *cast*, chosen in
the initial state and never changed, lists the actors and inputs of one
scenario, and the run explores all casts. A cast only removes behaviours; each is
strong where the others are weak. `MCPortal` puts five modules that share no
state into one run; `turn` says which of them moves, and the fairness of
`Events` and `Provisioning` is stated for their turn.

### Left out of the models

Messages, access information, IP addresses and SSH keys of VMs; the text of
mails and events; the delays of requeues (a run may start at any time, sooner
or later than the code asks for); the resource version, for which the comparison
of the whole object stands. The deletion of a service's requests in
`deleteService` and their marking EXPIRED in `updateExpiryRequestinDB` have no
effect in the code and none here: both pass `request.ID.String()`, which is
`ObjectID("…")`, to functions that parse a hexadecimal id, and only log the
error.

## 3. The runs

Deadlock is not checked: clocks, objects, faults and inputs are bounded, so the
modelled world does stop, as does a service that is gone.

| run | checks | instance |
|---|---|---|
| `controller_lag` | `TypeOK`, `AtMostOneVM`, `FinalizerBeforeVM` | cache lag, one disturbance, retirement |
| `controller_faults` | `BootWaitHonoured`, `DeliveredVMKept`, `NothingLeftBehind`, `RecordedVMCleaned`, `ExpiredLeftOnlyBlocked` | two disturbances, free users, no lag |
| `controller_live` | `DeletedServiceRemoved`, `ExpiredServiceRemoved` | fairness, one disturbance |
| `lifecycle_requests` | `OpenRequestsBounded`, `DriftNeedsMishap`, `ShorteningNeedsRace` | two handlers, three requests, a failed call, withdrawal, approval of decided requests; the controller rests |
| `lifecycle_live` | `ImplementsController`, `ExpiryTakesEffect` | fairness, two handlers, one request, the controller |
| `admission` | `OverdraftNeedsRace`, `FewQuotaDocuments`, `OwnedKeepsCatalog`, `DeletedCatalogGoes` | casts: two handlers on one quota, catalogs of positive and negative size; one handler, several quotas and a changing membership, sizes down to below zero; a catalog retired and deleted under two services |
| `accounts` | `DeletionTakesAll`, `OthersKeepTheirKeys`, `DuplicateNeedsRace`, `OneGroup` | casts: two administrators moving one user; an account deleted while its owner works; an administrator's account deleted; two forms at once. One failed call |
| `chat` | `RepliesKept`, `SentReplyStored`, `ConversationGreeted`, `ShownIsStored`, `UserSkipsNoConversation` | casts: two tabs and an end; two tabs and a reply; a tab and calls on numbers that do not exist; a tab, two replies, one fault; a shutdown with a failure in it; a tab, a watcher, one fault |
| `portal` | windows: `OverlapNeedsRace`, `WindowsWellFormed`, `DeletedWindowStaysDeleted`, `CurrentWindowShown`; feedback: `DailyLimitNearlyKept`; reminders: `AtMostOneNoticeADay`; events: `FewCopies`, `EveryEventTried`; provisioning: `VMComplete`, `NoVolumeForgotten`, `UntoldNeedsRecent`, `KnownUnlessLeft` | two handlers, three events in a collection of two, two servers with two disks, two mishaps |
| `chat_shutdown` | `ShutdownKeepsReplies`: violated | two replies, no tab |
| `admin_keys` | `DeletionTakesYoursOnly`: violated | the casts of `accounts`, no failure |
| `reminder_early` | `RemindedOnlyNearExpiry`: violated | one service with a lease of five days |

Where a property holds only under a restriction, the restriction is the
content, and is part of the property where it can be: "needs a race", "needs a
mishap", "unless left", "but to the services that came late". What is left is the
cache: `NothingLeftBehind`, `RecordedVMCleaned`, `ExpiredLeftOnlyBlocked`,
`BootWaitHonoured` and `DeliveredVMKept` need one that does not lag, since a stale
copy has its own idea of the status.

`lifecycle_requests` holds the controller still, so that three requests, two
handlers and every mishap fit: its steps change neither the requests nor the
expiry and the annotation of a live service, and the theorems of section 4 have
them. `lifecycle_live` has controller and handlers together but neither failures
nor withdrawals; `Refinement` proves `ImplementsController` with them.

### Where the code disagrees with what it says

Three runs show a disagreement each, the last three of the table:

* `admin_keys`. `getAllKeys` (key.go:38) leaves the user id empty for a
  manager, and an empty id lists every user's keys. `DeleteUser` deletes all of
  them, although "This will delete all your existing services, keys" is what the
  dialog promises (`src/web/src/components/PopUp/DeleteAccount.jsx:49`).
* `chat_shutdown`. When the shutdown begins with a reply in the queue, both cases
  of the worker's `select` are ready (chat.go:562-573), and it may take the reply:
  the insert uses the context that was just cancelled, fails, and the reply is
  only logged. The drain that follows has a context of its own, "so in-flight
  replies are not lost during a graceful shutdown" (chat.go:574-575), but that
  reply is past it. Besides, `main` does not wait for the worker to finish.
* `reminder_early`. `raiseNotification` (notification.go:42) multiplies the
  flag, a duration, by an hour; 48h × 1h does not fit 64 bits, and what remains
  is larger than any lease. Every service is reminded by the first daily pass,
  instead of "48 hrs before service expiry" (`cmd/pac-go-server/main.go:37`).

The next ones are behaviours of the models too. Each was seen as a
counterexample of TLC to a property of that sense, under constants that admit
it, and is the reason for a restriction above.

* **An orphaned VM.** The patch with the instance id is lost (or never made)
  and the user deletes the service: `VM.Delete` finds no id ("vm instanceID is
  empty, nothing to clean up", vm.go:108), the finalizer goes and the VM runs
  on. A lagging cache has the same effect without any failure. `createVM`
  (vm.go:238) would have found the VM by its name.
* **A retired catalog stops expiry.** Its check (service_controller.go:93)
  comes before deletion and expiry and returns for every state but CREATED: a
  service that is EXPIRED or still being made keeps its VM, and its deletion
  never ends. The comment says "we should not allow any new services to be
  created".
* **Two open requests.** Two handlers look up before either inserts
  (request.go:191); "You have already requested to extend service expiry" is not
  said to the second. `OpenRequestsBounded` is what is left. Approving the one
  that asks for less then moves the expiry back, and clears the annotation while
  the other is open: `ShorteningNeedsRace` and `DriftNeedsMishap` name these causes.
* **Expired with an open request.** The request is inserted before the
  annotation is set (request.go:225); in between, the controller expires the
  service and deletes its VM, though "VM stays active until admin approves or
  rejects the request" (service_controller.go:172).
* **An approval that comes too late.** EXPIRED does not look at the expiry again:
  the approval moves it ahead and clears the annotation, and the next run
  deletes the VM ("your service will be extended until the requested expiration
  date", `src/support/docs/FAQ.md:150`).
* **EXPIRED and back.** One way leads out all the same: while its catalog is
  retired or not ready, a run makes an EXPIRED service ERROR
  (service_controller.go:92-104). Once the catalog is ready again that service is
  taken for one that expires only now: if it was extended meanwhile, or a request
  is pending, it is served again. `ExpiredLeftOnlyBlocked` says that this is the
  only way.
* **A hole in the conversations.** `AdminReply` and `AdminEndConversation` store
  under any number (chat.go:595-644, 674-692). One that no conversation has founds
  it; the user's next conversation follows the greatest number, and those between
  do not exist. `UserSkipsNoConversation` is about the user's tabs only.
* **A conversation that is not greeted.** Two tabs open the empty conversation;
  the second has read that it is not ended when the first ends it; an
  administrator answers; the second now reads a history that is not empty
  (chat.go:118-128), and its first message gets no automatic reply.
  `ConversationGreeted` is about conversations that no administrator has answered.
* **A withdrawn request.** `DeleteRequest` (request.go:879) takes the document
  and leaves the annotation: the service never expires.
* **A catalog and a service that wait for each other.** A service that was
  never delivered under a catalog that is retired, or not ready, is not
  finalized; a deleted catalog waits for it. `DeletedCatalogGoes` excludes it.

And these need no interleaving; they follow from reading the lines.

* A session that began a new conversation leaves its last subscription in
  the hub for ever (chat.go:242-244 and 377, chat_hub.go:48-50).
* With two tabs in one conversation the automatic reply comes twice: `first` is
  a field of each session, where the comment at chat.go:97-98 thinks of one.
* A reminder's event is stored without a mark for the user
  (notification.go:65-71) and so is never mailed, against
  `src/support/docs/FAQ.md:140`. `AtMostOneNoticeADay` is about the events that are
  stored, not about mails; and "once a day" (`cmd/pac-go-server/main.go:37`) may be
  every other day, since yesterday's event is exactly as old as the look-back.
* What is shown as available (quota.go:263) and what is admitted
  (service.go:248-256) are computed in float64 in different orders. With a quota
  of 0.5 CPU, three services of 0.10 and a catalog of 0.20, admission is left with
  exactly 0 and admits, while 0.19999999999999996 is shown as available. What is
  shown is not modelled.
* A catalog of negative size is accepted (catalog.go:292-296), and each of its
  services leaves its user more to deploy.
* The event of a failed deletion is stored before `SetNotifyAdmin` is called on
  it (service.go:331-337), so the administrator is not mailed.
* When the mail service cannot be reached, `mail.go:65-69` reads the status of a
  response that is nil, and the notifier dies: `NotifierDies` of `Events`.
* An update that disables a window is checked for overlaps like any other:
  of two windows that overlap by a race, neither can be disabled.
* When `CreateVM` fails the volumes stay, and their names with them: every
  further run fails on "already exists". `KnownUnlessLeft` excludes it.
* A server that never runs for 24 hours never looks at the expiries.

### Bounds

* **VM**: two instance ids, so that a VM can be made, lost or deleted and made
  again, and that a second VM could exist. One in the lifecycle runs, whose
  questions are about requests and time.
* **Request**: three in `lifecycle_requests`: one decided and two open. **MaxTime**
  is one there, so that an extension can be later than the expiry it is compared
  with, or earlier than the one another extension left.
* **MaxTime**: a service can be created, expire, pass its grace period (`Grace`
  = 1) or its boot wait (`InitWait` = 1) with one tick each; three where a
  leads-to has to go through expiry and grace. For windows, three instants:
  before, within, after.
* **MaxFaults**: one is enough for each known loss; two in
  `controller_faults`, so that a VM can break and the patch that says so can be
  half lost; two in one cast of `chat`, a shutdown and a failed insert after it.
  `MaxErrors` is one failed or abandoned handler, `MaxTroubles` one
  death or failed mark of the notifier, `MaxMishaps` two calls or restarts of
  provisioning, so that a clean-up can fail after what it cleans up.
* **MaxExtension**: one tick, so that the six-month limit refuses something.
* **Thread**, **Request**, **Key**, **Service**: two of each where two can
  interfere; two groups, so that a user can be in the wrong one.
* **MaxSize**: quotas and catalogs of one or two units of CPU and memory: one
  service fits and two do not, or only one dimension does not. **Below**: one, so
  that a size can be negative, and zero.
* **MaxConv**, **MaxOpened**: three conversations and two channels for a tab, so
  that a session rolls over once and another one after it. **ChannelSize** and
  **QueueSize** are one: both are full at once.
* **MaxEvents**, **Capacity**: three events in a collection of two, so that
  one makes room while the cursor stands on it.
* **Disks**: two, so that the second can fail after the first.
* **FeedbackLimit**, **MaxDay**: two forms, two a day, one midnight.
* **Lease**: five days in `reminder_early`, three in `portal`, longer than the
  48 hours of the flag; the clock passes the expiry.

### Fairness

`Fairness` of the controller assumes what the deployment provides: the
manager's `SyncPeriod` (ten minutes, `main.go:70`) hands every object to
`Reconcile` again, the work queue retries what returned an error, and a started
run goes on (weak fairness of `Reconcile`); watches deliver (`InformerSync`);
PowerVS ends a deletion it accepted; a catalog that is not retired becomes ready
again; time passes. In the composition a started handler runs to its end.
`Admission` has the same of both controllers; the release of a catalog needs
strong fairness, because every change of the object in between sends the run
back. `Provisioning` lets each service have its turn, strongly, since one run
at a time is modelled and services take turns, and lets a run go on. `Chat`
assumes that running goroutines are scheduled: what a session does by itself,
and the worker. `Events` assumes that the notifier runs and is started
again. Nothing is assumed of users and administrators, and no disturbance has to
happen. Lost calls are bounded, as a system where every call fails forever
promises nothing.

## 4. The proofs

For every value of the constants that satisfies the modules' named assumptions
(`StoreAssumption`, `ControllerAssumption`, `RequestsAssumption`,
`LifecycleAssumption`, `AdmissionAssumption`, `AccountsAssumption`,
`ChatAssumption`, `WindowsAssumption`, `FeedbackAssumption`,
`RemindersAssumption`, `HorizonAssumption`, `EventsAssumption`,
`ProvisioningAssumption`). Most of them give a constant its type. Four say more:
`WindowsAssumption` and `FeedbackAssumption` have the warning time and the daily
limit positive, as they are in the code; `ChatAssumption` keeps messages, replies
and the end of a frame apart; and `HorizonAssumption` says that the lead of a
reminder, as the overflow leaves it (some 200 years), is longer than two leases and
all the time that is modelled.

**The controller** (`ServiceControllerProofs`)

* `TypeCorrect`: `Spec => []TypeOK`.
* `OneVM`: `Spec => []AtMostOneVM`. Inductive as it stands: a VM is only made by
  `CreateVM`, whose guard is that none is listed, in the same step. (This step
  joins `GetAllInstance` and the creation: nobody else creates instances of this
  name, since there is one run per service at a time.)
* `FinalizerFirst`: `Spec => []FinalizerBeforeVM`. Not inductive: a VM is made by
  a run that read the object earlier, possibly from a cache. The invariant
  `FinalizerInv` says that every copy of the object, in the cache or in a run,
  is one the store has outgrown in one direction only: a finalizer or a deletion
  mark it shows is in the store too while the object lives (`StillHolds`); that
  a run at `createVM` works on an object whose stored finalizer is in place, and
  only a run that read the object being deleted takes a finalizer away
  (`RunInv`); and that before the object exists there is no copy, no run and no
  VM (`UntouchedInv`).
* `ExpiredLeft`: `ExpiredLeftOnlyBlocked`, and `DeliveredVMStays`:
  `DeliveredVMKept`. Both are about a patch that was computed from an object read earlier.
  `StatusInv` says that until a run ends the stored status is the one it read,
  since nobody else writes the status; and what each step knows of the object it
  holds: a run at `deleteVM` read a deletion, an expiry or a failure, and the
  one that remakes a VM read a service that was never delivered.
* `BootWaits`: `BootWaitHonoured`. `BootInv` says that a `created_at` which is
  stored, or held by a run, is not before the time the VM it names became
  ACTIVE, and `ActiveInv` that no VM became active later than now. So an IBM i
  service that is delivered has waited on the VM it has, not on an earlier one.
* `CleanedUp`: `NothingLeftBehind`, which speaks of the time before anything
  failed. `HeldInv` says that while no call was lost, a VM that runs is known to
  the living object or to the run that made it, and that none runs from the
  clean-up until the finalizer is off. Once a call is lost the conclusion fails:
  see "An orphaned VM" above.
* `RecordedCleaned`: `RecordedVMCleaned`, what is left of it under any failure.
  `ClearedInv` says that a run about to take the finalizer off, or whose patch
  does, has seen the VM that its copy names deleted.

These five assume `CacheLag = FALSE`: a run reads what is stored. A run that
starts on an old copy breaks them, because the deferred patch compares with
what it read and its status half carries no resource version.
`controller_lag` runs what survives, and `OneVM` and `FinalizerFirst` are proved
for both values.

**The lifecycle** (`ServiceLifecycleProofs`)

* `Refinement`: `LifecycleSpec => ImplementsController`, where
  `ImplementsController` is the controller's `Spec`. A step of a handler that
  writes the Service is `SetExpiry` or `SetPending`; every other one leaves the
  controller's variables alone. It needs the types of the stored requests, so
  that an approved expiry is one a user could have set.
* `LifecycleTypeCorrect`, `LifecycleSafe`, `LifecycleStatus`: types, the one-VM
  and the finalizer invariants, and (with `CacheLag = FALSE`) what the
  controller's theorems say of EXPIRED and of delivered VMs carry over to the
  composition.
* `RequestsBounded`: `OpenRequestsBounded`, for any finite set of handlers that
  run at the same time. `BoundInv` counts the open requests together with the
  handlers past their look-up: a handler gets past it only while none is open,
  and from then on each of them inserts at most one.
* `ExpiryOnlyGrows`: `ShorteningNeedsRace`. `PromiseInv`, as long as no handlers
  met and no request decided before was approved again: the expiry an open
  request asks for is not before the one the service has (`AskedLater`), nor is
  the one a handler carries (`BringsLater`), and an approval carries the expiry
  of the open request it is about (`CarriesOut`). One that failed after the
  extension leaves such a request, and approving it again changes nothing.
* `PendingTracks`: `DriftNeedsMishap`. `TrackInv`, as long as `amiss` is empty:
  one handler at most is between its two writes, and for each program counter
  which of annotation and request is ahead of the other.

No theorem restricts how many handlers run or what they are asked to do. What
can part the two stores is recorded in `amiss` when it happens, and the
properties name what they allow; the two helpers `NoneInv` (nothing is asked of
a service before it exists) and `OpenInv` (without a meeting, what the look-up
found still holds at the insertion) connect it to the stored requests.

**The portal's modules** (`PortalProofs`)

* `WindowsTypeCorrect`, `WellFormed`: `WindowsWellFormed` is not inductive, as a
  handler writes what it validated earlier; `RangeInv` adds that every document a
  handler carries to a write has a checked range. Another handler's write in
  between does not matter, because a write sets both times.
* `DeletedForGood`: only a live document changes its `state`, and an
  insert takes an id that was never used.
* `OnlyRacesOverlap`: `CheckInv` says that a handler past its check either is
  stale or still carries a document that is free among the stored ones, and
  works on at most one window. So a write by a handler that is not stale makes
  no new overlap, and a deletion never does.
* `WindowShown`: `CurrentWindowShown`. Of the windows that are active the current
  one starts first, so that the sort of `GetMaintenanceWindows` puts it in front
  unless two overlap.
* `DailyLimit`: `DailyLimitNearlyKept`. `LimitInv` counts what is stored for a
  day together with the forms that are about to insert for it: while the day
  lasts this is less than the limit and the number of forms. After midnight a
  form that had yet to count still carries the old date and may see a count that
  grows no more than its own, which adds the forms once more.
* `NoticesApart`: `AtMostOneNoticeADay`. `NoticeInv` says that no stored notice
  is younger than the last tick (a restart starts a new ticker, which ticks a
  day later), that a pass is under way only at a tick, that a service is listed
  once in it, and that what the pass has still to look at has no notice younger
  than a day.

**Admission** (`AdmissionProofs`)

* `OverdraftRaces`: `OverdraftNeedsRace`. `NamedInv` says that the catalogs which services and
  handlers name were created, so that the sums are numbers; `AdmittedInv` that,
  unless it is stale, the quota a handler read is the one that holds, and what it
  admitted still fits. What the fold
  `Used` computes is proved without induction over the set: if the defining
  function did not exist, or two enumerations disagreed, there would be a
  smallest finite set where that is so (`SmallestBad`), and an element less
  gives the contradiction (`SumExists`, `SumAgrees`, `SumTakesOut`). From there
  the sum is kept, or grows with a service (`UsedKept`, `UsedGrows`). The
  amounts are integers, a catalog may ask for less than nothing, and no step of
  the argument needs a size to be positive.
* `AdmissionTypeCorrect`; `CatalogKept`: `OwnedKeepsCatalog` is not inductive, as a
  catalog without a finalizer goes at its deletion and would leave its services
  behind. `Guarded` says that whatever gives a catalog something to lose comes
  after the finalizer: a catalog is published as ready only by a run that stored
  the finalizer, and a service is owned, or was delivered, only under a catalog
  that was ready once. `OnlyLate` carries the property through the run that is
  letting the catalog go.
* `DocumentsAreFew`: the documents of a group's quota and the handlers about to
  insert one are together no more than the handlers, since a handler is only
  about to insert where there was no document (`DocumentsInv`).

**Accounts** (`AccountsProofs`)

* `AccountsTypeCorrect`, `KeysOfOthersKept`, `NothingOrphaned`,
  `NoDuplicateWithoutRace`, from one invariant. `Apt` says that a handler holds
  what its next calls need; `Owes` that what is still live of what the user had
  is in the handler's list, and that what it lists is the user's, or everybody's
  when an administrator deletes the own account; `Fresh` that a check holds on
  unless another handler inserted. Keys and services only age (`KeysAge`,
  `ServicesAge`): nothing that was deleted comes back to be missed by the list.
* `MembersHaveOneGroup`: `OneGroup`. `GroupsInv` says for each user: two moves
  at once count as having met, and an `AdminChangeGroup` among them as a change
  that met another move (`Alone`); if none met, the user is in a group unless a
  change is about to move the user in, and an approval never drops the group it
  added (`Home`); without failure, of any two groups of the user one is in the
  list of an approval that is still to drop it, or no list was read yet
  (`Single`).

**Chat** (`ChatProofs`)

* `ChatTypeCorrect`, with the bounds of the channels; `LedgerKept`: every step of
  the chat is a step of `ReplyLedger` or leaves the fate of every reply alone.
  The mapping needs that a reply is in one place only (`Apart`: once in the queue,
  and then not in a document), and that the worker and the server are as in calm
  weather unless something was counted as a fault (`StopsDisturb`).
* `NoneSkipped`: `UserSkipsNoConversation`. `ConvInv` says that the
  conversation a session works on exists or follows one that does, so that two
  tabs that begin the next one at once begin the same one. It says nothing of an
  administrator's calls, which store under any number.
* `ShownAreStored`: `ShownIsStored`. `ShownInv` adds that what a session is about
  to show was inserted by it before (`AboutToShow`).

**Events and provisioning** (`EventsProofs`, `ProvisioningProofs`)

* `EventsTypeCorrect`; `NoMailFlood`: `FewCopies` follows from counting the tries
  that are already certain. `CopiesOK` bounds the tries of an event a new cursor
  could still fetch by the troubles so far, and the tries together with what is
  in the batch and in the mailer's hand (`Due`) by two more. `CursorOK` says why a
  cursor that ends by itself does not add a third: while the batch is empty
  the mailer works on the event the cursor stands at.
* `ProvisioningTypeCorrect`; `VMsAreComplete` and `VolumesAccountedFor`, from one
  invariant: the volumes a run holds are the first ones in order (`MadeInOrder`),
  so that it has all of them when it makes the VM; and they are free while they
  are to be attached or cleaned up, and once the run only has to notify they are
  attached or left behind (`MadeIsFree`).
* `SilenceHasAReason`: a notice remembered within the interval stands for an
  event that is not older than the memory of it (`ToldOfNotices`), because it is
  recorded after the event was stored, and a restart and an active VM only forget.

The type invariants of `Admission`, `Accounts`, `Chat`, `Events`,
`Provisioning`, `MaintenanceWindows` and of the composition are proved, and the runs do not list
them again. `TypeOK` of the controller is both run and proved.

### Only model-checked

Every invariant and every action property of the passing runs is the
conclusion of a theorem. What must happen in the end is not:
`DeletedServiceRemoved`, `ExpiredServiceRemoved`, `ExpiryTakesEffect`,
`DeletedCatalogGoes`, `SentReplyStored`, `ConversationGreeted`,
`EveryEventTried`, `KnownUnlessLeft`. The prover has no rules for fairness and
ENABLED.

## 5. Not modelled

* **ManageIQ controllers** (`controllers/manageiq`) and the Config controller: no
  program runs them; `main.go:131-153` has both in a comment.
* **ExitGroup**: its route is commented out (`router/router.go:59`).
* **Reads**: the handlers that list or get change nothing. What a list shows is
  modelled where a property is about it (`UserView`, chat history). The available
  quota that `GetUserQuota` shows is not: it is computed in floating point from the
  sums that admission uses, and nothing decides by it.
* **Remote clients**: IAM tokens, VPC, platform and the PowerVS wrappers make a
  call and return its answer; the answers are free choices of the actions that
  use them. The images of PowerVS appear as the choice of a catalog's readiness.
* **Authentication and routing**: the token and the role are guards of the
  handlers; the routing table has no state.
* **The log of changes to maintenance windows**, the enrichment of keys from
  GitHub, the error formatter, the switch that turns creation-failure notices
  off: nothing in the modelled state depends on them.
* **Web console, manifests, pipelines, documentation, generated code, mocks**:
  no state the programs rely on.

## 6. Plan

The modules planned are written, and what the runs check of safety is proved.
What could follow:

1. For a lagging cache: which part of `ExpiredLeft`, `CleanedUp` and
   `RecordedCleaned` is left when a run may start on an old copy.
2. Admission in floating point: how far the sum of `float64` sizes can be from
   the exact one, and whether it can admit what the decimals would refuse.
3. The steps of the leads-to properties that need no fairness (what each run
   of the controller brings nearer to the end), as action properties.
