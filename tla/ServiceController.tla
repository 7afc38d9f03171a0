--------------------------- MODULE ServiceController ---------------------------
(***************************************************************************)
(* The ServiceReconciler of the PAC controller (service_controller.go) and *)
(* the VM service it drives (service/vm.go), over PowerVS. One run of      *)
(* Reconcile is a sequence of steps, one for each call that leaves the     *)
(* process, so that anything may happen in the store or in PowerVS between *)
(* two of them. The object the run works on is the copy it read from the   *)
(* informer cache, which may lag behind the store.                         *)
(*                                                                         *)
(* The users and administrators are the weakest environment: they create   *)
(* and delete the service, move its expiry and set or clear its pending    *)
(* annotation at any time. ServiceLifecycle replaces them by the handlers  *)
(* of pac-go-server.                                                       *)
(***************************************************************************)
EXTENDS ServiceStore

CONSTANTS
  Grace,       \* how long after its expiry an EXPIRED service object is kept
  InitWait,    \* how long an IBM i VM must have been ACTIVE; 0 for the others
  CacheLag,    \* may the informer cache lag behind the store?
  MayRetire,   \* may the catalog be retired?
  MayEdit      \* may users move the expiry and set or clear the annotation?

ASSUME ControllerAssumption ==
  /\ Grace \in Nat
  /\ InitWait \in Nat
  /\ CacheLag \in BOOLEAN
  /\ MayRetire \in BOOLEAN
  /\ MayEdit \in BOOLEAN

VARIABLES
  cached,      \* the informer's copy of svc (unused when CacheLag is FALSE)
  run,         \* the Reconcile in flight: its next call, the object as it was
               \* read (before) and as it is now in memory (after)
  vms          \* the VMs of this service's name in PowerVS

vars == <<svc, catalog, now, faults, cached, run, vms>>

Step == {"idle", "addFinalizer", "deleteObject", "deleteVM",
         "removeFinalizer", "createVM", "getVM", "patch"}
Idle == [step |-> "idle", before |-> NoService, after |-> NoService]

(***************************************************************************)
(* OTHER stands for every status that is neither ACTIVE nor ERROR. A VM    *)
(* told to delete stays listed, dying, for a while. active is the time at  *)
(* which the VM first became ACTIVE.                                       *)
(***************************************************************************)
VMStatus == {"absent", "OTHER", "ACTIVE", "ERROR", "dying", "gone"}
Listed(v) == vms[v].status \notin {"absent", "gone"}
Running(v) == vms[v].status \in {"OTHER", "ACTIVE", "ERROR"}

Observed == IF CacheLag THEN cached ELSE svc

-------------------------------------------------------------------------------
\* Where a run of Reconcile goes next, with the object a in memory.
Goto(step, a) == run' = [run EXCEPT !.step = step, !.after = a]
Begin(step, o, a) == run' = [step |-> step, before |-> o, after |-> a]

Blocked(o) == o.state # "CREATED" /\ (catalog.retired \/ ~catalog.ready)
Expired(o) == now > o.expiry

\* Mutant: an EXPIRED service has been cleaned up already.
DeletingTrustsExpired(o, a) ==
  /\ a.deleting /\ a.finalizer
  /\ Begin(IF a.state = "EXPIRED" THEN "removeFinalizer" ELSE "deleteVM", o, a)

\* The rest of Reconcile once the finalizer is known to be in place: the
\* deletion, the expiry check and the switch on the state.
Deleting(o, a) ==
  /\ a.deleting /\ a.finalizer
  /\ Begin("deleteVM", o, a)

Expires(o, a) ==
  /\ ~(a.deleting /\ a.finalizer)
  /\ Expired(a) /\ a.state # "EXPIRED" /\ ~a.pending
  /\ Begin("patch", o, [a EXCEPT !.state = "EXPIRED"])

\* Mutants: an EXPIRED service with a pending request is served as before; an
\* EXPIRED service never deletes its object.
ReleaseServes(o, a) ==
  /\ a.state = "EXPIRED"
  /\ Begin(IF a.pending THEN "getVM" ELSE "deleteVM", o, a)

ReleaseKeepsObject(o, a) ==
  /\ a.state = "EXPIRED"
  /\ Begin(IF a.pending THEN "patch" ELSE "deleteVM", o, a)

Release(o, a) ==
  /\ a.state = "EXPIRED"
  /\ Begin(CASE a.pending -> "patch"
             [] ~a.pending /\ now > a.expiry + Grace -> "deleteObject"
             [] OTHER -> "deleteVM", o, a)

\* Mutant: a FAILED service is always made again.
RetryAlways(o, a) ==
  /\ a.state = "FAILED"
  /\ Begin("deleteVM", o, a)

Retry(o, a) ==
  /\ a.state = "FAILED"
  /\ Begin(IF a.successful THEN "patch" ELSE "deleteVM", o, a)

Provision(o, a) ==
  /\ a.state \in {"NEW", "IN_PROGRESS", "CREATED", "ERROR"}
  /\ Begin(IF a.instance = NoVM THEN "createVM" ELSE "getVM", o, a)

Switches(o, a) ==
  /\ ~(a.deleting /\ a.finalizer)
  /\ ~(Expired(a) /\ a.state # "EXPIRED" /\ ~a.pending)
  /\ \/ a.state = "" /\ Begin("patch", o, [a EXCEPT !.state = "NEW"])
     \/ Release(o, a)
     \/ Retry(o, a)
     \/ Provision(o, a)

Dispatch(o, a) == Deleting(o, a) \/ Expires(o, a) \/ Switches(o, a)

(***************************************************************************)
(* Reconcile starts: it reads the object and the catalog. A service that   *)
(* is not CREATED, of a catalog that is retired or not ready, becomes      *)
(* ERROR, before anything else is looked at.                               *)
(***************************************************************************)
StartBlocked ==
  /\ run.step = "idle" /\ Observed.obj = "live"
  /\ Blocked(Observed)
  /\ Begin("patch", Observed, [Observed EXCEPT !.state = "ERROR"])
  /\ UNCHANGED <<storeVars, cached, vms>>

\* Mutant: the finalizer is left to the deferred patch.
StartUnguarded ==
  /\ run.step = "idle" /\ Observed.obj = "live"
  /\ ~Blocked(Observed)
  /\ Dispatch(Observed, [Observed EXCEPT !.finalizer = @ \/ ~Observed.deleting])
  /\ UNCHANGED <<storeVars, cached, vms>>

Start ==
  /\ run.step = "idle" /\ Observed.obj = "live"
  /\ ~Blocked(Observed)
  /\ IF Observed.deleting \/ Observed.finalizer
       THEN Dispatch(Observed, Observed)
       ELSE Begin("addFinalizer", Observed, [Observed EXCEPT !.finalizer = TRUE])
  /\ UNCHANGED <<storeVars, cached, vms>>

\* A first patch writes the finalizer, before anything is created in PowerVS.
AddFinalizer ==
  /\ run.step = "addFinalizer"
  /\ \/ /\ svc.obj = "live"
        /\ svc' = MergePatch(svc, run.before, run.after)
        /\ Dispatch(run.before, run.after)
        /\ UNCHANGED faults
     \/ /\ Fails(svc.obj # "live")
        /\ Goto("patch", run.after)
        /\ UNCHANGED svc
  /\ UNCHANGED <<catalog, now, cached, vms>>

\* An EXPIRED service deletes its own object once the grace period is over.
DeleteObject ==
  /\ run.step = "deleteObject"
  /\ \/ /\ svc.obj = "live"
        /\ svc' = MarkDeleted(svc)
        /\ Goto("deleteVM", run.after)
        /\ UNCHANGED faults
     \/ /\ Fails(svc.obj # "live")
        /\ Goto("patch", run.after)
        /\ UNCHANGED svc
  /\ UNCHANGED <<catalog, now, cached, vms>>

\* Mutant: the creation time of the VM survives the VM.
ClearedInstanceOnly(a) == [a EXCEPT !.instance = NoVM]

(***************************************************************************)
(* svc.Delete: the VM and its volumes are deleted by instance id; without  *)
(* an id there is nothing to clean up, a VM that is not found is fine, and *)
(* the status forgets the VM. It serves the three callers: the deletion    *)
(* goes on to the finalizer, the expiry is done, and a VM that failed      *)
(* before it was ever delivered is made again from the state "".           *)
(***************************************************************************)
Cleared(a) ==
  IF a.instance = NoVM THEN a
  ELSE [a EXCEPT !.instance = NoVM, !.createdAt = Unset]

CleanupVM(id) ==
  vms' = [v \in VM |-> IF v = id /\ Listed(v)
                         THEN [vms[v] EXCEPT !.status = "dying"] ELSE vms[v]]

DeleteVM ==
  /\ run.step = "deleteVM"
  /\ \/ /\ LET a == Cleared(run.after) IN
             \/ /\ a.deleting
                /\ Goto("removeFinalizer", a)
             \/ /\ ~a.deleting /\ a.state = "EXPIRED"
                /\ Goto("patch", a)
             \/ /\ ~a.deleting /\ a.state = "FAILED"
                /\ Goto("patch", [a EXCEPT !.state = ""])
        /\ CleanupVM(run.after.instance)
        /\ UNCHANGED faults
     \/ /\ run.after.instance # NoVM /\ Fault
        /\ Goto("patch", run.after)
        /\ UNCHANGED vms
  /\ UNCHANGED <<svc, catalog, now, cached>>

\* Mutant: the Update is sent before the finalizer is removed.
RemoveFinalizerLate ==
  /\ run.step = "removeFinalizer"
  /\ run' = Idle
  /\ UNCHANGED <<storeVars, cached, vms>>

(***************************************************************************)
(* The finalizer goes with an Update, which the API server refuses when    *)
(* the object changed since it was read. The object in memory has lost the *)
(* finalizer by then, so the deferred patch writes that difference.        *)
(***************************************************************************)
RemoveFinalizer ==
  /\ run.step = "removeFinalizer"
  /\ \/ /\ svc = run.before
        /\ svc' = Gone
        /\ run' = Idle
        /\ UNCHANGED faults
     \/ /\ Fails(svc # run.before)
        /\ Goto("patch", [run.after EXCEPT !.finalizer = FALSE])
        /\ UNCHANGED svc
  /\ UNCHANGED <<catalog, now, cached, vms>>

-------------------------------------------------------------------------------
(***************************************************************************)
(* createVM: a VM that already has the service's name is taken over,       *)
(* otherwise one is created. Creation fails when PowerVS has nothing left, *)
(* by a fault, or, the worst one, after PowerVS did create the VM.         *)
(***************************************************************************)
Adopt ==
  /\ run.step = "createVM"
  /\ \E v \in VM :
       /\ Listed(v)
       /\ Goto("getVM", [run.after EXCEPT !.instance = v])
  /\ UNCHANGED <<storeVars, cached, vms>>

\* Mutant: createVM does not look for a VM of that name first.
CreateVMBlindly ==
  /\ run.step = "createVM"
  /\ \E v \in VM :
       /\ vms[v].status = "absent"
       /\ vms' = [vms EXCEPT ![v].status = "OTHER"]
       /\ Goto("getVM", [run.after EXCEPT !.instance = v])
  /\ UNCHANGED <<storeVars, cached>>

CreateVM ==
  /\ run.step = "createVM"
  /\ \A v \in VM : ~Listed(v)
  /\ \E v \in VM :
       /\ vms[v].status = "absent"
       /\ vms' = [vms EXCEPT ![v].status = "OTHER"]
       /\ \/ /\ Goto("getVM", [run.after EXCEPT !.instance = v])
             /\ UNCHANGED faults
          \/ /\ Fault
             /\ Goto("patch", [run.after EXCEPT !.state = "ERROR"])
  /\ UNCHANGED <<svc, catalog, now, cached>>

CreateVMFails ==
  /\ run.step = "createVM"
  /\ Fails(\A v \in VM : vms[v].status = "gone")
  /\ Goto("patch", [run.after EXCEPT !.state = "ERROR"])
  /\ UNCHANGED <<svc, catalog, now, cached, vms>>

\* Mutant: the state of the VM is taken for the state of the service.
ServedRaw(a) == [a EXCEPT !.state = "ACTIVE"]

\* handleActiveStatus: CREATED once the VM has been ACTIVE for long enough.
Served(a) ==
  IF a.successful THEN [a EXCEPT !.state = "CREATED"]
  ELSE LET since == IF a.createdAt = Unset THEN now ELSE a.createdAt IN
       IF now < since + InitWait
         THEN [a EXCEPT !.state = "IN_PROGRESS", !.createdAt = since]
         ELSE [a EXCEPT !.state = "CREATED", !.createdAt = since,
                        !.successful = TRUE]

(***************************************************************************)
(* GetVM and updateStatus. PowerVS may report any status of a dying VM,    *)
(* ACTIVE only if it has ever been. An answer that says a volume is being  *)
(* attached counts as OTHER.                                               *)
(***************************************************************************)
GetVM ==
  /\ run.step = "getVM"
  /\ LET a == run.after
         Reports(s) == \E v \in VM :
           /\ v = a.instance
           /\ \/ vms[v].status = s
              \/ vms[v].status = "dying" /\ (s = "ACTIVE" => vms[v].active # Unset)
     IN \/ /\ Reports("ACTIVE")
           /\ Goto("patch", Served(a))
           /\ UNCHANGED faults
        \/ /\ Reports("ERROR")
           /\ Goto("patch", [a EXCEPT !.state = "FAILED"])
           /\ UNCHANGED faults
        \/ /\ Reports("OTHER")
           /\ Goto("patch", [a EXCEPT !.state = "IN_PROGRESS"])
           /\ UNCHANGED faults
        \/ /\ Fails(\A v \in VM : v = a.instance => ~Listed(v))
           /\ Goto("patch", [a EXCEPT !.state = "ERROR"])
  /\ UNCHANGED <<svc, catalog, now, cached, vms>>

(***************************************************************************)
(* The deferred patch ends every run: one call for the metadata, one for   *)
(* the status, and an error is only logged.                                *)
(***************************************************************************)
Carried(meta, status) ==
  IF status
    THEN [run.after EXCEPT !.finalizer = IF meta THEN @ ELSE run.before.finalizer]
    ELSE [run.before EXCEPT !.finalizer = IF meta THEN run.after.finalizer ELSE @]

Patch ==
  /\ run.step = "patch"
  /\ \E meta, status \in BOOLEAN :
       /\ IF meta /\ status THEN UNCHANGED faults ELSE Fault
       /\ svc' = MergePatch(svc, run.before, Carried(meta, status))
  /\ run' = Idle
  /\ UNCHANGED <<catalog, now, cached, vms>>

\* The controller dies and comes back, with a fresh cache.
Crash ==
  /\ Fault
  /\ run' = Idle
  /\ cached' = IF CacheLag THEN svc ELSE cached
  /\ UNCHANGED <<svc, catalog, now, vms>>

\* The informer catches up.
InformerSync ==
  /\ CacheLag /\ cached # svc
  /\ cached' = svc
  /\ UNCHANGED <<storeVars, run, vms>>

Reconcile ==
  \/ StartBlocked \/ Start \/ AddFinalizer \/ DeleteObject \/ DeleteVM
  \/ RemoveFinalizer \/ Adopt \/ CreateVM \/ CreateVMFails \/ GetVM \/ Patch

-------------------------------------------------------------------------------
\* PowerVS: a VM comes up, changes its status, breaks, and finally vanishes.
VMUp(v) ==
  /\ vms[v].status = "OTHER"
  /\ vms' = [vms EXCEPT ![v] =
               [status |-> "ACTIVE",
                active |-> IF @.active = Unset THEN now ELSE @.active]]
  /\ UNCHANGED <<storeVars, cached, run>>

VMDisturbed(v) ==
  /\ \/ vms[v].status = "ACTIVE" /\ \E s \in {"OTHER", "ERROR"} :
          vms' = [vms EXCEPT ![v].status = s]
     \/ vms[v].status = "OTHER" /\ vms' = [vms EXCEPT ![v].status = "ERROR"]
  /\ Fault
  /\ UNCHANGED <<svc, catalog, now, cached, run>>

VMVanishes(v) ==
  /\ vms[v].status = "dying"
  /\ vms' = [vms EXCEPT ![v].status = "gone"]
  /\ UNCHANGED <<storeVars, cached, run>>

\* The catalog: its readiness follows PowerVS, an administrator retires it. The
\* catalog controller no longer touches the readiness of a retired catalog.
CatalogDown ==
  /\ catalog.ready /\ ~catalog.retired
  /\ Fault
  /\ catalog' = [catalog EXCEPT !.ready = FALSE]
  /\ UNCHANGED <<svc, now, cached, run, vms>>

CatalogUp ==
  /\ ~catalog.ready /\ ~catalog.retired
  /\ catalog' = [catalog EXCEPT !.ready = TRUE]
  /\ UNCHANGED <<svc, now, faults, cached, run, vms>>

RetireCatalog ==
  /\ MayRetire /\ ~catalog.retired
  /\ catalog' = [catalog EXCEPT !.retired = TRUE]
  /\ UNCHANGED <<svc, now, faults, cached, run, vms>>

Tick ==
  /\ now < MaxTime
  /\ now' = now + 1
  /\ UNCHANGED <<svc, catalog, faults, cached, run, vms>>

(***************************************************************************)
(* The users of the store, at their freest. CreateService looks at the     *)
(* catalog some calls before it creates the object; a catalog that changes *)
(* in between leaves what it leaves by changing right after the creation,  *)
(* so that one step does for both.                                         *)
(***************************************************************************)
CreateService(e) ==
  /\ svc.obj = "none"
  /\ ~catalog.retired /\ catalog.ready
  /\ svc' = [NoService EXCEPT !.obj = "live", !.expiry = e]
  /\ UNCHANGED <<catalog, now, faults, cached, run, vms>>

DeleteService ==
  /\ svc.obj = "live"
  /\ svc' = MarkDeleted(svc)
  /\ UNCHANGED <<catalog, now, faults, cached, run, vms>>

SetExpiry(e) ==
  /\ MayEdit /\ svc.obj = "live"
  /\ svc' = [svc EXCEPT !.expiry = e]
  /\ UNCHANGED <<catalog, now, faults, cached, run, vms>>

SetPending(b) ==
  /\ MayEdit /\ svc.obj = "live"
  /\ svc' = [svc EXCEPT !.pending = b]
  /\ UNCHANGED <<catalog, now, faults, cached, run, vms>>

Users ==
  \/ \E e \in Time : e >= now /\ CreateService(e)
  \/ DeleteService
  \/ \E e \in Time : SetExpiry(e)
  \/ \E b \in BOOLEAN : SetPending(b)

World ==
  \/ \E v \in VM : VMUp(v) \/ VMDisturbed(v) \/ VMVanishes(v)
  \/ CatalogDown \/ CatalogUp \/ RetireCatalog
  \/ Tick

Controller == Reconcile \/ Crash \/ InformerSync

Init ==
  /\ StoreInit
  /\ cached = NoService
  /\ run = Idle
  /\ vms = [v \in VM |-> [status |-> "absent", active |-> Unset]]

Next == Controller \/ World \/ Users

Spec == Init /\ [][Next]_vars

-------------------------------------------------------------------------------
(***************************************************************************)
(* Fairness. The manager's SyncPeriod hands every object to Reconcile      *)
(* again and again, the work queue retries what failed, and a run that has *)
(* started goes on; the informer catches up; PowerVS ends its deletions    *)
(* and a catalog that is not retired becomes ready again; time passes.     *)
(* Nothing is assumed of the users, nor of the disturbances.               *)
(***************************************************************************)
Fairness ==
  /\ WF_vars(Reconcile)
  /\ WF_vars(InformerSync)
  /\ WF_vars(CatalogUp)
  /\ WF_vars(Tick)
  /\ \A v \in VM : WF_vars(VMVanishes(v))

FairSpec == Spec /\ Fairness

-------------------------------------------------------------------------------
Run == [step : Step, before : Service, after : Service]

\* Every variable holds a value of its type (vm.go, service_types.go).
TypeOK ==
  /\ StoreTypeOK
  /\ cached \in Service
  /\ run \in Run
  /\ vms \in [VM -> [status : VMStatus, active : Time \union {Unset}]]

\* Whatever gets lost between CreateVM and the patch that records its result,
\* a service never has two VMs: createVM looks for its name first.
AtMostOneVM ==
  \A v, w \in VM : Listed(v) /\ Listed(w) => v = w

\* A VM is only ever made for a service that carries the finalizer, so that a
\* deletion, however early, cannot remove the object without a cleanup run.
FinalizerBeforeVM ==
  svc.obj = "live" /\ (\E v \in VM : Running(v)) => svc.finalizer

\* When the object is gone, its finalizer removed, no VM keeps running, as long
\* as no call failed and nothing died: the claim of VM.Delete that without an
\* instance id there is nothing to clean up.
NothingLeftBehind ==
  svc.obj = "gone" /\ faults = 0 => \A v \in VM : ~Running(v)

\* Whatever failed before, half a patch or a deletion that PowerVS refused, the
\* object never goes while the VM its status names is running: what can be
\* left behind is a VM whose id was never written down.
RecordedVMCleaned ==
  [][svc.obj = "live" /\ svc'.obj = "gone" =>
       \A v \in VM : v = svc.instance => ~Running(v)]_vars

\* An IBM i service is first delivered when its VM, the one it has now, has
\* been ACTIVE for the whole waiting time (handleActiveStatus).
BootWaitHonoured ==
  [][~svc.successful /\ svc'.successful =>
       \E v \in VM : v = svc'.instance /\ vms[v].active + InitWait <= now]_vars

\* The VM of a service that was once delivered is deleted only by a run that
\* saw the service expired or being deleted, never to be made again after a
\* failure: "was successful created in the past, hence not taking any action".
DeliveredVMKept ==
  [][\A v \in VM : svc.successful /\ Running(v) /\ vms'[v].status = "dying" =>
       run.before.deleting \/ run.before.state = "EXPIRED"]_vars

(***************************************************************************)
(* EXPIRED is left in one way only, besides the removal of the object: a   *)
(* run that found the service EXPIRED and its catalog retired or not ready *)
(* makes it ERROR. No late write, no extension and no annotation leads     *)
(* elsewhere; but from ERROR a service that was extended meanwhile, or has *)
(* a request pending, is served again once the catalog is ready.           *)
(***************************************************************************)
ExpiredLeftOnlyBlocked ==
  [][/\ svc.state = "EXPIRED" =>
          \/ svc'.state = "EXPIRED" \/ svc'.obj = "gone"
          \/ svc'.state = "ERROR" /\ run.before.state = "EXPIRED"
     /\ /\ run.step = "idle" /\ run'.step # "idle"
        /\ run'.before.state = "EXPIRED" /\ run'.after.state = "ERROR"
        => catalog.retired \/ ~catalog.ready]_vars

\* A service whose deletion was asked for is eventually removed.
DeletedServiceRemoved ==
  svc.obj = "live" /\ svc.deleting ~> svc.obj = "gone"

\* A service past its expiry and its grace period, with no extension pending,
\* is eventually removed, unless its expiry or its annotation is changed.
ExpiredServiceRemoved ==
  svc.obj = "live" /\ now > svc.expiry + Grace /\ ~svc.pending
    ~> svc.obj = "gone" \/ svc.pending \/ now <= svc.expiry + Grace

===============================================================================
