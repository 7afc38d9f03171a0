------------------------ MODULE ServiceControllerProofs ------------------------
(***************************************************************************)
(* Proofs about ServiceController, for every set of instance ids, every    *)
(* bound and every choice of MayRetire and MayEdit: the types, one VM and  *)
(* the finalizer with any CacheLag, the rest while the cache does not lag. *)
(***************************************************************************)
EXTENDS ServiceController, TLAPS

-------------------------------------------------------------------------------
(***************************************************************************)
(* The operators on the Service object keep its type.                      *)
(***************************************************************************)
LEMMA BlankType ==
  ASSUME NEW o \in {"none", "live", "gone"}
  PROVE  Blank(o) \in Service
BY StoreAssumption DEF Blank, Service, ServiceState, Time

LEMMA MarkDeletedType ==
  ASSUME NEW o \in Service
  PROVE  MarkDeleted(o) \in Service
BY BlankType DEF MarkDeleted, Settle, Gone, Service

LEMMA MergePatchType ==
  ASSUME NEW o \in Service, NEW b \in Service, NEW a \in Service
  PROVE  MergePatch(o, b, a) \in Service
<1> DEFINE m == [o EXCEPT !.finalizer  = Merged(@, b.finalizer, a.finalizer),
                          !.state      = Merged(@, b.state, a.state),
                          !.instance   = Merged(@, b.instance, a.instance),
                          !.createdAt  = Merged(@, b.createdAt, a.createdAt),
                          !.successful = Merged(@, b.successful, a.successful)]
<1>1. m \in Service
  <2>1. Merged(o.finalizer, b.finalizer, a.finalizer) \in BOOLEAN
    BY DEF Merged, Service
  <2>2. Merged(o.state, b.state, a.state) \in ServiceState
    BY DEF Merged, Service
  <2>3. Merged(o.instance, b.instance, a.instance) \in VM \union {NoVM}
    BY DEF Merged, Service
  <2>4. Merged(o.createdAt, b.createdAt, a.createdAt) \in Time \union {Unset}
    BY DEF Merged, Service
  <2>5. Merged(o.successful, b.successful, a.successful) \in BOOLEAN
    BY DEF Merged, Service
  <2> QED BY <2>1, <2>2, <2>3, <2>4, <2>5 DEF Service
<1>2. Settle(m) \in Service
  BY <1>1, BlankType DEF Settle, Gone
<1> QED BY <1>2 DEF MergePatch

(***************************************************************************)
(* What a run of Reconcile turns the object into keeps its type.           *)
(***************************************************************************)
LEMMA DispatchType ==
  ASSUME NEW o \in Service, NEW a \in Service, Dispatch(o, a)
  PROVE  run' \in Run
<1>1. ASSUME NEW s \in Step, NEW b \in Service, run' = [step |-> s, before |-> o, after |-> b]
      PROVE  run' \in Run
  BY <1>1 DEF Run
<1>2. [a EXCEPT !.state = "EXPIRED"] \in Service /\ [a EXCEPT !.state = "NEW"] \in Service
  BY DEF Service, ServiceState
<1>3. CASE Deleting(o, a)
  BY <1>1, <1>3 DEF Deleting, Begin, Step
<1>4. CASE Expires(o, a)
  BY <1>1, <1>2, <1>4 DEF Expires, Begin, Step
<1>5. CASE Switches(o, a)
  <2>1. CASE a.state = "" /\ Begin("patch", o, [a EXCEPT !.state = "NEW"])
    BY <1>1, <1>2, <2>1 DEF Begin, Step
  <2>2. CASE Release(o, a)
    BY <1>1, <2>2 DEF Release, Begin, Step
  <2>3. CASE Retry(o, a)
    BY <1>1, <2>3 DEF Retry, Begin, Step
  <2>4. CASE Provision(o, a)
    BY <1>1, <2>4 DEF Provision, Begin, Step
  <2> QED BY <1>5, <2>1, <2>2, <2>3, <2>4 DEF Switches
<1> QED BY <1>3, <1>4, <1>5 DEF Dispatch

LEMMA ServedType ==
  ASSUME NEW a \in Service, now \in Time
  PROVE  Served(a) \in Service
BY DEF Served, Service, ServiceState

LEMMA ClearedType ==
  ASSUME NEW a \in Service
  PROVE  Cleared(a) \in Service
BY DEF Cleared, Service

LEMMA CarriedType ==
  ASSUME run \in Run, NEW meta \in BOOLEAN, NEW status \in BOOLEAN
  PROVE  Carried(meta, status) \in Service
BY DEF Carried, Run, Service

LEMMA FaultType ==
  ASSUME faults \in 0 .. MaxFaults, Fault \/ UNCHANGED faults
  PROVE  faults' \in 0 .. MaxFaults
BY StoreAssumption DEF Fault

LEMMA IdleType == Idle \in Run
BY BlankType DEF Idle, Run, Step, NoService

LEMMA GotoType ==
  ASSUME run \in Run, NEW s \in Step, NEW a \in Service, Goto(s, a)
  PROVE  run' \in Run
BY DEF Run, Goto

-------------------------------------------------------------------------------
(***************************************************************************)
(* The type invariant, one step per action.                                *)
(***************************************************************************)
LEMMA InitType == Init => TypeOK
<1> SUFFICES ASSUME Init PROVE TypeOK
  OBVIOUS
<1>1. NoService \in Service
  BY BlankType DEF NoService
<1>2. StoreTypeOK
  BY <1>1, StoreAssumption DEF Init, StoreInit, StoreTypeOK, Time
<1>3. vms \in [VM -> [status : VMStatus, active : Time \union {Unset}]]
  BY DEF Init, VMStatus
<1> QED BY <1>1, <1>2, <1>3, IdleType DEF Init, TypeOK

LEMMA StepType == TypeOK /\ [Next]_vars => TypeOK'
<1> SUFFICES ASSUME TypeOK, [Next]_vars PROVE TypeOK'
  OBVIOUS
<1> USE DEF TypeOK, StoreTypeOK
<1>0. Observed \in Service
  BY DEF Observed
<1>f. Fault => faults' \in 0 .. MaxFaults
  BY FaultType
<1>r. run.before \in Service /\ run.after \in Service /\ run.step \in Step
  BY DEF Run
<1>v. ASSUME NEW v \in VM, NEW s \in VMStatus, vms' = [vms EXCEPT ![v].status = s]
      PROVE  vms' \in [VM -> [status : VMStatus, active : Time \union {Unset}]]
  BY <1>v
<1>1. CASE StartBlocked
  <2>1. [Observed EXCEPT !.state = "ERROR"] \in Service
    BY <1>0 DEF Service, ServiceState
  <2>2. run' \in Run
    BY <1>0, <1>1, <2>1 DEF StartBlocked, Begin, Run, Step
  <2> QED BY <1>1, <2>2 DEF StartBlocked, storeVars
<1>2. CASE Start
  <2>1. [Observed EXCEPT !.finalizer = TRUE] \in Service
    BY <1>0 DEF Service
  <2>2. ASSUME Dispatch(Observed, Observed)
        PROVE  run' \in Run
    BY <1>0, <2>2, DispatchType
  <2>3. ASSUME Begin("addFinalizer", Observed, [Observed EXCEPT !.finalizer = TRUE])
        PROVE  run' \in Run
    BY <1>0, <2>1, <2>3 DEF Begin, Run, Step
  <2>4. run' \in Run
    BY <1>2, <2>2, <2>3 DEF Start
  <2> QED BY <1>2, <2>4 DEF Start, storeVars
<1>3. CASE AddFinalizer
  <2>1. svc' \in Service
    BY <1>3, <1>r, MergePatchType DEF AddFinalizer
  <2>2. run' \in Run
    BY <1>3, <1>r, DispatchType, GotoType DEF AddFinalizer, Step
  <2> QED BY <1>3, <1>f, <2>1, <2>2 DEF AddFinalizer, Fails
<1>4. CASE DeleteObject
  <2>1. svc' \in Service
    BY <1>4, MarkDeletedType DEF DeleteObject
  <2>2. run' \in Run
    BY <1>4, <1>r, GotoType DEF DeleteObject, Step
  <2> QED BY <1>4, <1>f, <2>1, <2>2 DEF DeleteObject, Fails
<1>5. CASE DeleteVM
  <2>1. /\ Cleared(run.after) \in Service
        /\ [Cleared(run.after) EXCEPT !.state = ""] \in Service
    <3>1. Cleared(run.after) \in Service
      BY <1>r, ClearedType
    <3> QED BY <3>1 DEF Service, ServiceState
  <2>2. run' \in Run
    BY <1>5, <1>r, <2>1, GotoType DEF DeleteVM, Step
  <2>3. vms' \in [VM -> [status : VMStatus, active : Time \union {Unset}]]
    <3> DEFINE dying(v) == IF v = run.after.instance /\ Listed(v)
                             THEN [vms[v] EXCEPT !.status = "dying"] ELSE vms[v]
    <3>1. \A v \in VM : dying(v) \in [status : VMStatus, active : Time \union {Unset}]
      BY DEF VMStatus
    <3>2. vms' = [v \in VM |-> dying(v)] \/ UNCHANGED vms
      BY <1>5 DEF DeleteVM, CleanupVM
    <3> HIDE DEF dying
    <3> QED BY <3>1, <3>2
  <2> QED BY <1>5, <1>f, <2>2, <2>3 DEF DeleteVM
<1>6. CASE RemoveFinalizer
  <2>1. [run.after EXCEPT !.finalizer = FALSE] \in Service
    BY <1>r DEF Service
  <2>2. run' \in Run
    BY <1>6, <2>1, IdleType, GotoType DEF RemoveFinalizer, Step
  <2>3. svc' \in Service
    BY <1>6, BlankType DEF RemoveFinalizer, Gone
  <2> QED BY <1>6, <1>f, <2>2, <2>3 DEF RemoveFinalizer, Fails
<1>7. CASE Adopt
  <2>1. \A v \in VM : [run.after EXCEPT !.instance = v] \in Service
    BY <1>r DEF Service
  <2>2. run' \in Run
    BY <1>7, <2>1, GotoType DEF Adopt, Step
  <2> QED BY <1>7, <2>2 DEF Adopt, storeVars
<1>8. CASE CreateVM
  <2>1. /\ \A v \in VM : [run.after EXCEPT !.instance = v] \in Service
        /\ [run.after EXCEPT !.state = "ERROR"] \in Service
    BY <1>r DEF Service, ServiceState
  <2>2. run' \in Run
    BY <1>8, <2>1, GotoType DEF CreateVM, Step
  <2>3. vms' \in [VM -> [status : VMStatus, active : Time \union {Unset}]]
    BY <1>8, <1>v DEF CreateVM, VMStatus
  <2> QED BY <1>8, <1>f, <2>2, <2>3 DEF CreateVM
<1>9. CASE CreateVMFails
  <2>1. [run.after EXCEPT !.state = "ERROR"] \in Service
    BY <1>r DEF Service, ServiceState
  <2>2. run' \in Run
    BY <1>9, <2>1, GotoType DEF CreateVMFails, Step
  <2> QED BY <1>9, <1>f, <2>2 DEF CreateVMFails, Fails
<1>10. CASE GetVM
  <2>1. /\ Served(run.after) \in Service
        /\ \A s \in ServiceState : [run.after EXCEPT !.state = s] \in Service
    BY <1>r, ServedType DEF Service
  <2>2. run' \in Run
    BY <1>10, <2>1, GotoType DEF GetVM, Step, ServiceState
  <2> QED BY <1>10, <1>f, <2>2 DEF GetVM, Fails
<1>11. CASE Patch
  <2>1. svc' \in Service
    BY <1>11, <1>r, CarriedType, MergePatchType DEF Patch
  <2> QED BY <1>11, <1>f, <2>1, IdleType DEF Patch
<1>12. CASE Crash
  BY <1>12, <1>f, IdleType DEF Crash
<1>13. CASE InformerSync
  BY <1>13 DEF InformerSync, storeVars
<1>14. ASSUME NEW v \in VM, VMUp(v) \/ VMDisturbed(v) \/ VMVanishes(v)
       PROVE  TypeOK'
  <2>1. CASE VMUp(v)
    <3> DEFINE up == [status |-> "ACTIVE",
                       active |-> IF vms[v].active = Unset THEN now ELSE vms[v].active]
    <3>2. up \in [status : VMStatus, active : Time \union {Unset}]
      BY DEF VMStatus
    <3>3. vms' = [vms EXCEPT ![v] = up]
      BY <2>1 DEF VMUp
    <3>4. vms' \in [VM -> [status : VMStatus, active : Time \union {Unset}]]
      BY <3>2, <3>3
    <3> QED BY <2>1, <3>4 DEF VMUp, storeVars
  <2>2. CASE VMDisturbed(v)
    <3>1. /\ faults' \in 0 .. MaxFaults
          /\ UNCHANGED <<svc, catalog, now, cached, run>>
      BY <2>2, <1>f DEF VMDisturbed
    <3>2. \E s \in VMStatus : vms' = [vms EXCEPT ![v].status = s]
      BY <2>2 DEF VMDisturbed, VMStatus
    <3> QED BY <1>v, <3>1, <3>2
  <2>3. CASE VMVanishes(v)
    BY <2>3, <1>v DEF VMVanishes, VMStatus, storeVars
  <2> QED BY <1>14, <2>1, <2>2, <2>3
<1>15. CASE CatalogDown \/ CatalogUp \/ RetireCatalog
  BY <1>15, <1>f DEF CatalogDown, CatalogUp, RetireCatalog
<1>16. CASE Tick
  BY <1>16, StoreAssumption DEF Tick, Time
<1>17. CASE Users
  <2>1. svc' \in Service
    <3>1. CASE \E e \in Time : e >= now /\ CreateService(e)
      <4>1. NoService \in Service
        BY BlankType DEF NoService
      <4>2. PICK e \in Time : CreateService(e)
        BY <3>1
      <4>3. svc' = [NoService EXCEPT !.obj = "live", !.expiry = e]
        BY <4>2 DEF CreateService
      <4> HIDE DEF NoService
      <4> QED BY <4>1, <4>3 DEF Service
    <3>2. CASE DeleteService
      BY <3>2, MarkDeletedType DEF DeleteService
    <3>3. ASSUME NEW e \in Time, SetExpiry(e) PROVE svc' \in Service
      BY <3>3 DEF SetExpiry, Service
    <3>4. CASE \E b \in BOOLEAN : SetPending(b)
      BY <3>4 DEF SetPending, Service
    <3> QED BY <1>17, <3>1, <3>2, <3>3, <3>4 DEF Users
  <2> QED BY <1>17, <2>1 DEF Users, CreateService, DeleteService, SetExpiry, SetPending
<1>18. CASE UNCHANGED vars
  BY <1>18 DEF vars
<1> QED
  BY <1>1, <1>2, <1>3, <1>4, <1>5, <1>6, <1>7, <1>8, <1>9, <1>10, <1>11, <1>12,
     <1>13, <1>14, <1>15, <1>16, <1>17, <1>18
  DEF Next, Controller, Reconcile, World

\* In every behaviour every variable keeps its type.
THEOREM TypeCorrect == Spec => []TypeOK
BY InitType, StepType, PTL DEF Spec

-------------------------------------------------------------------------------
(***************************************************************************)
(* AtMostOneVM is inductive over the type invariant: only CreateVM lists   *)
(* an instance, and it does so when none is listed.                        *)
(***************************************************************************)
LEMMA StepOneVM == TypeOK /\ AtMostOneVM /\ [Next]_vars => AtMostOneVM'
<1> SUFFICES ASSUME TypeOK, AtMostOneVM, [Next]_vars PROVE AtMostOneVM'
  OBVIOUS
<1>v. vms \in [VM -> [status : VMStatus, active : Time \union {Unset}]]
  BY DEF TypeOK
<1>1. ASSUME \A v \in VM : Listed(v)' => Listed(v)
      PROVE  AtMostOneVM'
  BY <1>1 DEF AtMostOneVM
<1>2. CASE UNCHANGED vms
  BY <1>1, <1>2 DEF Listed
<1>3. CASE CreateVM
  <2> PICK v \in VM : vms' = [vms EXCEPT ![v].status = "OTHER"]
    BY <1>3 DEF CreateVM
  <2>1. \A w \in VM : Listed(w)' => w = v
    BY <1>3, <1>v DEF CreateVM, Listed
  <2> QED BY <2>1 DEF AtMostOneVM
<1>4. CASE DeleteVM
  <2>1. \A v \in VM : Listed(v)' => Listed(v)
    BY <1>4, <1>v DEF DeleteVM, CleanupVM, Listed
  <2> QED BY <1>1, <2>1
<1>5. ASSUME NEW v \in VM, VMUp(v) \/ VMDisturbed(v) \/ VMVanishes(v)
      PROVE  AtMostOneVM'
  <2>1. \A w \in VM : Listed(w)' => Listed(w)
    BY <1>5, <1>v DEF VMUp, VMDisturbed, VMVanishes, Listed
  <2> QED BY <1>1, <2>1
<1>6. \/ UNCHANGED vms \/ CreateVM \/ DeleteVM
      \/ \E v \in VM : VMUp(v) \/ VMDisturbed(v) \/ VMVanishes(v)
  BY DEF Next, Controller, Reconcile, World, Users, vars, StartBlocked, Start,
         AddFinalizer, DeleteObject, RemoveFinalizer, Adopt, CreateVMFails, GetVM,
         Patch, Crash, InformerSync, CatalogDown, CatalogUp, RetireCatalog, Tick,
         CreateService, DeleteService, SetExpiry, SetPending
<1> QED BY <1>2, <1>3, <1>4, <1>5, <1>6

\* Whatever is lost between CreateVM and the patch that records the instance,
\* and however stale the cache, a service never has two VMs in PowerVS.
THEOREM OneVM == Spec => []AtMostOneVM
<1>1. Init => AtMostOneVM
  BY DEF Init, AtMostOneVM, Listed
<1> QED BY <1>1, StepOneVM, TypeCorrect, PTL DEF Spec

-------------------------------------------------------------------------------
(***************************************************************************)
(* The finalizer. What a run decides rests on a copy read earlier, so the  *)
(* invariant says what an older copy o still tells of the stored object:   *)
(* marks are never taken back while the object lives. Only a run that      *)
(* deletes takes the finalizer off, and by then the object is marked.      *)
(***************************************************************************)
StillHolds(o) ==
  /\ o.deleting => o.finalizer
  /\ svc.obj = "live" => (o.finalizer => svc.finalizer) /\ (o.deleting => svc.deleting)

RunInv ==
  /\ run.after.deleting = run.before.deleting
  /\ run.step = "addFinalizer" => run.after.finalizer /\ ~run.before.finalizer
  /\ run.step = "removeFinalizer" => run.before.deleting
  /\ run.step = "createVM" => (svc.obj = "live" => svc.finalizer)
  /\ run.before.finalizer /\ ~run.after.finalizer =>
       run.before.deleting /\ run.step = "patch"

UntouchedInv ==
  svc.obj = "none" => /\ svc = NoService /\ cached = NoService /\ run = Idle
                      /\ \A v \in VM : ~Listed(v)

FinalizerInv ==
  /\ svc.deleting => svc.finalizer
  /\ StillHolds(cached)
  /\ StillHolds(run.before)
  /\ RunInv
  /\ UntouchedInv
  /\ FinalizerBeforeVM

LEMMA DispatchKeeps ==
  ASSUME NEW o \in Service, NEW a \in Service, Dispatch(o, a)
  PROVE  /\ run'.before = o
         /\ run'.after.deleting = a.deleting
         /\ run'.after.finalizer = a.finalizer
         /\ run'.step \in {"patch", "deleteVM", "deleteObject", "createVM", "getVM"}
<1>1. /\ [a EXCEPT !.state = "EXPIRED"].deleting = a.deleting
      /\ [a EXCEPT !.state = "EXPIRED"].finalizer = a.finalizer
      /\ [a EXCEPT !.state = "NEW"].deleting = a.deleting
      /\ [a EXCEPT !.state = "NEW"].finalizer = a.finalizer
  BY DEF Service
<1>2. \E s \in {"patch", "deleteVM", "deleteObject", "createVM", "getVM"} :
        \E b \in {a, [a EXCEPT !.state = "EXPIRED"], [a EXCEPT !.state = "NEW"]} :
          Begin(s, o, b)
  <2>1. CASE Deleting(o, a)
    BY <2>1 DEF Deleting
  <2>2. CASE Expires(o, a)
    BY <2>2 DEF Expires
  <2>3. CASE Switches(o, a)
    <3>1. CASE a.state = "" /\ Begin("patch", o, [a EXCEPT !.state = "NEW"])
      BY <3>1
    <3>2. CASE Release(o, a)
      BY <3>2 DEF Release
    <3>3. CASE Retry(o, a)
      BY <3>3 DEF Retry
    <3>4. CASE Provision(o, a)
      BY <3>4 DEF Provision
    <3> QED BY <2>3, <3>1, <3>2, <3>3, <3>4 DEF Switches
  <2> QED BY <2>1, <2>2, <2>3 DEF Dispatch
<1>3. PICK s \in {"patch", "deleteVM", "deleteObject", "createVM", "getVM"},
           b \in {a, [a EXCEPT !.state = "EXPIRED"], [a EXCEPT !.state = "NEW"]} :
        run' = [step |-> s, before |-> o, after |-> b]
  BY <1>2 DEF Begin
<1> QED BY <1>1, <1>3

\* A patch writes the finalizer only when the run changed it, and an object
\* marked for deletion does not live on without one.
LEMMA MergePatchKeeps ==
  ASSUME NEW o \in Service, NEW b \in Service, NEW a \in Service, o.obj = "live"
  PROVE  LET f == IF a.finalizer = b.finalizer THEN o.finalizer ELSE a.finalizer
             m == MergePatch(o, b, a)
         IN  \/ m = Gone /\ o.deleting /\ ~f
             \/ /\ m.obj = "live" /\ m.deleting = o.deleting /\ m.finalizer = f
                /\ o.deleting => f
BY DEF MergePatch, Merged, Settle, Service

LEMMA GoneFacts == Gone.obj = "gone" /\ ~Gone.deleting /\ ~Gone.finalizer
BY DEF Gone, Blank

LEMMA MarkDeletedKeeps ==
  ASSUME NEW o \in Service, o.obj = "live"
  PROVE  \/ MarkDeleted(o) = Gone /\ ~o.finalizer
         \/ /\ MarkDeleted(o).obj = "live" /\ MarkDeleted(o).deleting
            /\ MarkDeleted(o).finalizer /\ o.finalizer
BY DEF MarkDeleted, Settle, Service

LEMMA IdleFacts ==
  /\ Idle.step = "idle"
  /\ ~Idle.before.finalizer /\ ~Idle.before.deleting
  /\ Idle.after = Idle.before
BY DEF Idle, NoService, Blank

LEMMA StepFinalizer == TypeOK /\ FinalizerInv /\ [Next]_vars => FinalizerInv'
<1> SUFFICES ASSUME TypeOK, FinalizerInv, [Next]_vars PROVE FinalizerInv'
  OBVIOUS
<1>t. /\ svc \in Service /\ cached \in Service
      /\ run = [step |-> run.step, before |-> run.before, after |-> run.after]
      /\ run.before \in Service /\ run.after \in Service
      /\ vms \in [VM -> [status : VMStatus, active : Time \union {Unset}]]
  BY DEF TypeOK, StoreTypeOK, Run
<1>i. /\ svc.deleting => svc.finalizer
      /\ StillHolds(cached) /\ StillHolds(run.before)
      /\ RunInv /\ UntouchedInv /\ FinalizerBeforeVM
  BY DEF FinalizerInv
<1>o. /\ Observed \in Service
      /\ Observed.obj = "live" => svc.obj # "none" /\ StillHolds(Observed)
  <2>1. StillHolds(svc)
    BY <1>i DEF StillHolds
  <2>2. svc.obj = "none" => svc = cached /\ svc.obj # "live"
    BY <1>i DEF UntouchedInv
  <2> QED BY <1>t, <1>i, <2>1, <2>2 DEF Observed
<1>b. run.step # "idle" => svc.obj # "none"
  BY <1>i, IdleFacts DEF UntouchedInv
<1>g. \A s, a : Goto(s, a) => run' = [step |-> s, before |-> run.before, after |-> a]
  BY <1>t DEF Goto
<1>k. ASSUME NEW s, NEW a, Goto(s, a),
             a.deleting = run.after.deleting, a.finalizer = run.after.finalizer
      PROVE  /\ run'.before = run.before /\ run'.step = s
             /\ run'.after.deleting = run.after.deleting
             /\ run'.after.finalizer = run.after.finalizer
  BY <1>k, <1>g
\* What any step does to the stored object, and what that leaves to show.
<1> DEFINE Evolves ==
      /\ svc'.obj # "none"
      /\ svc'.deleting => svc'.finalizer
      /\ svc'.obj = "live" => /\ svc.obj = "live"
                              /\ svc.deleting => svc'.deleting
                              /\ svc.finalizer => svc'.finalizer
<1>e. svc.obj # "none" /\ UNCHANGED svc => Evolves
  BY <1>i
<1>h. ASSUME NEW o, StillHolds(o), Evolves
      PROVE  /\ o.deleting => o.finalizer
             /\ svc'.obj = "live" => (o.finalizer => svc'.finalizer)
                                    /\ (o.deleting => svc'.deleting)
  BY <1>h DEF StillHolds
<1>d. ASSUME Evolves, UNCHANGED <<cached, vms>>, StillHolds(run'.before), RunInv'
      PROVE  FinalizerInv'
  <2>1. StillHolds(cached)' /\ StillHolds(run.before)'
    BY <1>d, <1>h, <1>i DEF StillHolds
  <2>2. FinalizerBeforeVM'
    BY <1>d, <1>i DEF FinalizerBeforeVM, Running
  <2>3. UntouchedInv'
    BY <1>d DEF UntouchedInv
  <2> QED BY <1>d, <2>1, <2>2, <2>3 DEF FinalizerInv
<1>1. CASE StartBlocked
  <2>1. /\ run'.before = Observed /\ run'.step = "patch"
        /\ run'.after.deleting = Observed.deleting
        /\ run'.after.finalizer = Observed.finalizer
    BY <1>1, <1>o DEF StartBlocked, Begin, Service
  <2>2. Evolves /\ UNCHANGED <<svc, cached, vms>>
    BY <1>1, <1>o, <1>e DEF StartBlocked, storeVars
  <2>3. RunInv'
    BY <2>1 DEF RunInv
  <2> QED BY <1>1, <1>o, <1>d, <2>1, <2>2, <2>3 DEF StartBlocked
<1>2. CASE Start
  <2>1. Evolves /\ UNCHANGED <<svc, cached, vms>> /\ StillHolds(Observed)
    BY <1>2, <1>o, <1>e DEF Start, storeVars
  <2>2. CASE Observed.deleting \/ Observed.finalizer
    <3>1. Observed.finalizer
      BY <2>1, <2>2 DEF StillHolds
    <3>2. /\ run'.before = Observed
          /\ run'.after.deleting = Observed.deleting
          /\ run'.after.finalizer = Observed.finalizer
          /\ run'.step \in {"patch", "deleteVM", "deleteObject", "createVM", "getVM"}
      BY <1>2, <1>o, <2>2, DispatchKeeps DEF Start
    <3>3. RunInv'
      BY <2>1, <3>1, <3>2 DEF RunInv, StillHolds
    <3> QED BY <1>d, <2>1, <3>2, <3>3
  <2>3. CASE ~(Observed.deleting \/ Observed.finalizer)
    <3>1. /\ run'.before = Observed /\ run'.step = "addFinalizer"
          /\ run'.after.deleting = Observed.deleting
          /\ run'.after.finalizer
      BY <1>2, <1>o, <2>3 DEF Start, Begin, Service
    <3>2. RunInv'
      BY <2>3, <3>1 DEF RunInv
    <3> QED BY <1>d, <2>1, <3>1, <3>2
  <2> QED BY <2>2, <2>3
<1>3. CASE AddFinalizer
  <2>1. /\ UNCHANGED <<cached, vms>> /\ svc.obj # "none"
        /\ run.after.finalizer /\ ~run.before.finalizer /\ ~run.before.deleting
        /\ run.after.deleting = run.before.deleting
    BY <1>3, <1>b, <1>i DEF AddFinalizer, RunInv, StillHolds
  <2>2. CASE /\ svc.obj = "live" /\ Dispatch(run.before, run.after)
             /\ svc' = MergePatch(svc, run.before, run.after)
    <3>1. svc'.obj = "live" /\ svc'.deleting = svc.deleting /\ svc'.finalizer
      BY <1>t, <2>1, <2>2, MergePatchKeeps
    <3>2. Evolves
      BY <2>2, <3>1
    <3>3. /\ run'.before = run.before
          /\ run'.after.deleting = run.after.deleting
          /\ run'.after.finalizer = run.after.finalizer
          /\ run'.step \in {"patch", "deleteVM", "deleteObject", "createVM", "getVM"}
      BY <1>t, <2>2, DispatchKeeps
    <3>4. RunInv'
      BY <2>1, <3>1, <3>3 DEF RunInv
    <3> QED BY <1>d, <1>i, <2>1, <3>2, <3>3, <3>4
  <2>3. CASE Goto("patch", run.after) /\ UNCHANGED svc
    <3>1. RunInv' /\ run'.before = run.before
      BY <1>g, <1>i, <2>1, <2>3 DEF RunInv
    <3> QED BY <1>d, <1>e, <1>i, <2>1, <2>3, <3>1
  <2> QED BY <1>3, <2>2, <2>3 DEF AddFinalizer
<1>4. CASE DeleteObject
  <2>1. /\ UNCHANGED <<cached, vms>> /\ svc.obj # "none"
    BY <1>4, <1>b DEF DeleteObject
  <2>2. Evolves
    <3>1. CASE svc.obj = "live" /\ svc' = MarkDeleted(svc)
      BY <1>t, <3>1, MarkDeletedKeeps, GoneFacts
    <3> QED BY <1>4, <1>e, <2>1, <3>1 DEF DeleteObject
  <2>3. run'.before = run.before /\ run'.after = run.after
        /\ run'.step \in {"patch", "deleteVM"}
    BY <1>4, <1>g DEF DeleteObject
  <2>4. RunInv'
    BY <1>4, <1>i, <2>3 DEF RunInv, DeleteObject
  <2> QED BY <1>d, <1>i, <2>1, <2>2, <2>3, <2>4
<1>5. CASE DeleteVM
  <2>1. /\ UNCHANGED <<svc, cached>> /\ svc.obj # "none"
    BY <1>5, <1>b DEF DeleteVM
  <2>2. Cleared(run.after).deleting = run.after.deleting
        /\ Cleared(run.after).finalizer = run.after.finalizer
    BY <1>t DEF Cleared, Service
  <2>3. [Cleared(run.after) EXCEPT !.state = ""].deleting = run.after.deleting
        /\ [Cleared(run.after) EXCEPT !.state = ""].finalizer = run.after.finalizer
    <3>1. Cleared(run.after) \in Service
      BY <1>t, ClearedType
    <3> QED BY <2>2, <3>1 DEF Service
  <2>4. /\ run'.before = run.before
        /\ run'.after.deleting = run.after.deleting
        /\ run'.after.finalizer = run.after.finalizer
        /\ run'.step \in {"patch", "removeFinalizer"}
        /\ run'.step = "removeFinalizer" => run.after.deleting
    <3>1. \/ Goto("removeFinalizer", Cleared(run.after)) /\ Cleared(run.after).deleting
          \/ Goto("patch", Cleared(run.after))
          \/ Goto("patch", [Cleared(run.after) EXCEPT !.state = ""])
          \/ Goto("patch", run.after)
      BY <1>5 DEF DeleteVM
    <3>2. CASE Goto("removeFinalizer", Cleared(run.after)) /\ Cleared(run.after).deleting
      BY <1>k, <2>2, <3>2
    <3>3. CASE Goto("patch", Cleared(run.after))
      BY <1>k, <2>2, <3>3
    <3>4. CASE Goto("patch", [Cleared(run.after) EXCEPT !.state = ""])
      <4> DEFINE a == [Cleared(run.after) EXCEPT !.state = ""]
      <4>1. /\ a.deleting = run.after.deleting /\ a.finalizer = run.after.finalizer
            /\ Goto("patch", a)
        BY <2>3, <3>4
      <4> HIDE DEF a
      <4> QED BY <1>k, <4>1
    <3>5. CASE Goto("patch", run.after)
      <4>1. run' = [step |-> "patch", before |-> run.before, after |-> run.after]
        BY <1>g, <3>5
      <4> QED BY <4>1
    <3> QED BY <3>1, <3>2, <3>3, <3>4, <3>5
  <2>5. RunInv'
    BY <1>5, <1>i, <2>4 DEF RunInv, DeleteVM
  <2>6. \A v \in VM : Running(v)' => Running(v)
    <3>1. CleanupVM(run.after.instance) \/ UNCHANGED vms
      BY <1>5 DEF DeleteVM
    <3>2. vms \in [VM -> [status : VMStatus, active : Time \union {Unset}]]
      BY <1>t DEF TypeOK
    <3>3. ASSUME NEW v \in VM, CleanupVM(run.after.instance), Running(v)'
          PROVE  Running(v)
      <4>1. vms'[v] \in {vms[v], [vms[v] EXCEPT !.status = "dying"]}
        BY <3>3 DEF CleanupVM
      <4>2. [vms[v] EXCEPT !.status = "dying"].status = "dying"
        BY <3>2
      <4> QED BY <3>3, <4>1, <4>2 DEF Running
    <3> QED BY <3>1, <3>3 DEF Running
  <2>7. StillHolds(cached)' /\ StillHolds(run.before)' /\ FinalizerBeforeVM'
    BY <1>i, <2>1, <2>4, <2>6 DEF StillHolds, FinalizerBeforeVM
  <2> QED BY <1>i, <2>1, <2>5, <2>7 DEF FinalizerInv, UntouchedInv
<1>6. CASE RemoveFinalizer
  <2>1. /\ UNCHANGED <<cached, vms>> /\ svc.obj # "none" /\ run.before.deleting
    BY <1>6, <1>b, <1>i DEF RemoveFinalizer, RunInv
  <2>2. CASE svc' = Gone /\ run' = Idle
    <3>1. Evolves /\ RunInv' /\ StillHolds(run'.before)
      BY <2>2, GoneFacts, IdleFacts DEF RunInv, StillHolds
    <3> QED BY <1>d, <2>1, <3>1
  <2>3. CASE UNCHANGED svc /\ Goto("patch", [run.after EXCEPT !.finalizer = FALSE])
    <3>1. /\ run'.before = run.before /\ run'.step = "patch"
          /\ run'.after.deleting = run.after.deleting
          /\ ~run'.after.finalizer
      BY <1>t, <1>g, <2>3 DEF Service
    <3>2. RunInv'
      BY <1>i, <2>1, <3>1 DEF RunInv
    <3> QED BY <1>d, <1>e, <1>i, <2>1, <2>3, <3>1, <3>2
  <2> QED BY <1>6, <2>2, <2>3 DEF RemoveFinalizer
<1>7. CASE Adopt \/ CreateVMFails \/ GetVM
  <2>1. /\ UNCHANGED <<svc, cached, vms>> /\ svc.obj # "none"
    BY <1>7, <1>b DEF Adopt, CreateVMFails, GetVM, storeVars
  <2>2. \A v : /\ [run.after EXCEPT !.instance = v].deleting = run.after.deleting
              /\ [run.after EXCEPT !.instance = v].finalizer = run.after.finalizer
              /\ [run.after EXCEPT !.state = v].deleting = run.after.deleting
              /\ [run.after EXCEPT !.state = v].finalizer = run.after.finalizer
    BY <1>t DEF Service
  <2>3. /\ Served(run.after).deleting = run.after.deleting
        /\ Served(run.after).finalizer = run.after.finalizer
    BY <1>t DEF Served, Service
  <2>4. /\ run'.before = run.before /\ run'.step \in {"patch", "getVM"}
        /\ run'.after.deleting = run.after.deleting
        /\ run'.after.finalizer = run.after.finalizer
    <3>1. \/ \E v : Goto("getVM", [run.after EXCEPT !.instance = v])
          \/ \E v : Goto("patch", [run.after EXCEPT !.state = v])
          \/ Goto("patch", Served(run.after))
      BY <1>7 DEF Adopt, CreateVMFails, GetVM
    <3>2. CASE \E v : Goto("getVM", [run.after EXCEPT !.instance = v])
      BY <1>k, <2>2, <3>2
    <3>3. CASE \E v : Goto("patch", [run.after EXCEPT !.state = v])
      BY <1>k, <2>2, <3>3
    <3>4. CASE Goto("patch", Served(run.after))
      BY <1>k, <2>3, <3>4
    <3> QED BY <3>1, <3>2, <3>3, <3>4
  <2>5. RunInv'
    BY <1>7, <1>i, <2>4 DEF RunInv, Adopt, CreateVMFails, GetVM
  <2> QED BY <1>d, <1>e, <1>i, <2>1, <2>4, <2>5
<1>8. CASE CreateVM
  <2>1. /\ UNCHANGED <<svc, cached>> /\ svc.obj # "none"
        /\ svc.obj = "live" => svc.finalizer
    BY <1>8, <1>b, <1>i DEF CreateVM, RunInv
  <2>2. \A v : /\ [run.after EXCEPT !.instance = v].deleting = run.after.deleting
              /\ [run.after EXCEPT !.instance = v].finalizer = run.after.finalizer
              /\ [run.after EXCEPT !.state = v].deleting = run.after.deleting
              /\ [run.after EXCEPT !.state = v].finalizer = run.after.finalizer
    BY <1>t DEF Service
  <2>3. /\ run'.before = run.before /\ run'.step \in {"patch", "getVM"}
        /\ run'.after.deleting = run.after.deleting
        /\ run'.after.finalizer = run.after.finalizer
    <3>1. \/ \E v : Goto("getVM", [run.after EXCEPT !.instance = v])
          \/ \E v : Goto("patch", [run.after EXCEPT !.state = v])
      BY <1>8 DEF CreateVM
    <3>2. CASE \E v : Goto("getVM", [run.after EXCEPT !.instance = v])
      BY <1>k, <2>2, <3>2
    <3>3. CASE \E v : Goto("patch", [run.after EXCEPT !.state = v])
      BY <1>k, <2>2, <3>3
    <3> QED BY <3>1, <3>2, <3>3
  <2>4. RunInv'
    BY <1>8, <1>i, <2>3 DEF RunInv, CreateVM
  <2>5. StillHolds(cached)' /\ StillHolds(run.before)' /\ FinalizerBeforeVM'
    BY <1>i, <2>1, <2>3 DEF StillHolds, FinalizerBeforeVM
  <2> QED BY <1>i, <2>1, <2>4, <2>5 DEF FinalizerInv, UntouchedInv
<1>9. CASE Patch
  <2> PICK meta \in BOOLEAN, status \in BOOLEAN :
        svc' = MergePatch(svc, run.before, Carried(meta, status))
    BY <1>9 DEF Patch
  <2>1. /\ UNCHANGED <<cached, vms>> /\ run' = Idle /\ svc.obj # "none"
    BY <1>9, <1>b DEF Patch
  <2>2. /\ Carried(meta, status) \in Service
        /\ Carried(meta, status).finalizer =
              IF meta THEN run.after.finalizer ELSE run.before.finalizer
    BY <1>t, CarriedType DEF Carried, Service, TypeOK
  <2>3. Evolves
    <3>1. CASE svc.obj # "live"
      BY <1>e, <2>1, <3>1 DEF MergePatch
    <3>2. CASE svc.obj = "live"
      <4> DEFINE c == Carried(meta, status)
                 f == IF c.finalizer = run.before.finalizer
                        THEN svc.finalizer ELSE c.finalizer
      <4>1. \/ f
            \/ ~f /\ ~svc.finalizer
            \/ ~f /\ svc.deleting
        BY <1>t, <1>i, <2>2, <3>2 DEF RunInv, StillHolds, Service
      <4>2. CASE f
        BY <1>t, <1>i, <2>2, <3>2, <4>2, MergePatchKeeps, GoneFacts
      <4>3. CASE ~f /\ svc.deleting
        BY <1>t, <2>2, <3>2, <4>3, MergePatchKeeps, GoneFacts
      <4>4. CASE ~f /\ ~svc.finalizer
        BY <1>t, <1>i, <2>2, <3>2, <4>4, MergePatchKeeps, GoneFacts
      <4> QED BY <4>1, <4>2, <4>3, <4>4
    <3> QED BY <3>1, <3>2
  <2>4. RunInv' /\ StillHolds(run'.before)
    BY <2>1, IdleFacts DEF RunInv, StillHolds
  <2> QED BY <1>d, <2>1, <2>3, <2>4
<1>10. CASE Crash
  <2>1. RunInv' /\ StillHolds(run.before)' /\ StillHolds(cached)'
    BY <1>10, <1>i, IdleFacts DEF Crash, RunInv, StillHolds
  <2>2. UntouchedInv' /\ FinalizerBeforeVM'
    BY <1>10, <1>i DEF Crash, UntouchedInv, FinalizerBeforeVM, Running, Listed
  <2> QED BY <1>10, <1>i, <2>1, <2>2 DEF Crash, FinalizerInv
<1>11. CASE InformerSync
  <2>1. RunInv' /\ StillHolds(run.before)' /\ StillHolds(cached)'
    BY <1>11, <1>i DEF InformerSync, storeVars, RunInv, StillHolds
  <2>2. UntouchedInv' /\ FinalizerBeforeVM'
    BY <1>11, <1>i DEF InformerSync, storeVars, UntouchedInv, FinalizerBeforeVM, Running, Listed
  <2> QED BY <1>11, <1>i, <2>1, <2>2 DEF InformerSync, storeVars, FinalizerInv
<1>12. ASSUME NEW v \in VM, VMUp(v) \/ VMDisturbed(v) \/ VMVanishes(v)
       PROVE  FinalizerInv'
  <2>1. UNCHANGED <<svc, cached, run>>
    BY <1>12 DEF VMUp, VMDisturbed, VMVanishes, storeVars
  <2>2. \A w \in VM : (Running(w)' => Running(w)) /\ (Listed(w)' => Listed(w))
    BY <1>12, <1>t DEF VMUp, VMDisturbed, VMVanishes, Running, Listed
  <2>3. UntouchedInv' /\ FinalizerBeforeVM'
    BY <1>i, <2>1, <2>2 DEF UntouchedInv, FinalizerBeforeVM
  <2> QED BY <1>i, <2>1, <2>3 DEF FinalizerInv, RunInv, StillHolds
<1>13. CASE UNCHANGED <<svc, cached, run, vms>>
  <2>1. RunInv' /\ StillHolds(run.before)' /\ StillHolds(cached)'
    BY <1>13, <1>i DEF RunInv, StillHolds
  <2>2. UntouchedInv' /\ FinalizerBeforeVM'
    BY <1>13, <1>i DEF UntouchedInv, FinalizerBeforeVM, Running, Listed
  <2> QED BY <1>13, <1>i, <2>1, <2>2 DEF FinalizerInv
<1>14. ASSUME NEW e \in Time, CreateService(e)
       PROVE  FinalizerInv'
  <2>1. /\ UNCHANGED <<cached, run, vms>> /\ svc.obj = "none"
        /\ svc'.obj = "live" /\ ~svc'.deleting
    BY <1>14 DEF CreateService, NoService, Blank
  <2>2. cached = NoService /\ run = Idle /\ \A v \in VM : ~Listed(v)
    BY <1>i, <2>1 DEF UntouchedInv
  <2>3. ~NoService.finalizer /\ ~NoService.deleting
    BY DEF NoService, Blank
  <2>4. RunInv' /\ StillHolds(run.before)' /\ StillHolds(cached)'
    BY <2>1, <2>2, <2>3, IdleFacts DEF RunInv, StillHolds
  <2>5. FinalizerBeforeVM'
    BY <2>1, <2>2 DEF FinalizerBeforeVM, Running, Listed
  <2> QED BY <2>1, <2>4, <2>5 DEF FinalizerInv, UntouchedInv
<1>15. CASE DeleteService
  <2>1. /\ UNCHANGED <<cached, run, vms>> /\ svc.obj = "live"
        /\ svc' = MarkDeleted(svc)
    BY <1>15 DEF DeleteService
  <2>2. Evolves
    BY <1>t, <2>1, MarkDeletedKeeps, GoneFacts
  <2>3. RunInv'
    BY <1>i, <2>1, <2>2 DEF RunInv
  <2> QED BY <1>d, <1>i, <2>1, <2>2, <2>3
<1>16. CASE (\E e \in Time : SetExpiry(e)) \/ (\E b \in BOOLEAN : SetPending(b))
  <2>1. /\ UNCHANGED <<cached, run, vms>> /\ svc.obj = "live" /\ svc'.obj = "live"
        /\ svc'.deleting = svc.deleting /\ svc'.finalizer = svc.finalizer
    BY <1>16, <1>t DEF SetExpiry, SetPending, Service
  <2>2. Evolves
    BY <1>i, <2>1
  <2>3. RunInv'
    BY <1>i, <2>1, <2>2 DEF RunInv
  <2> QED BY <1>d, <1>i, <2>1, <2>2, <2>3
<1>17. CASE CatalogDown \/ CatalogUp \/ RetireCatalog \/ Tick \/ UNCHANGED vars
  BY <1>13, <1>17 DEF CatalogDown, CatalogUp, RetireCatalog, Tick, vars
<1> QED
  BY <1>1, <1>2, <1>3, <1>4, <1>5, <1>6, <1>7, <1>8, <1>9, <1>10, <1>11, <1>12,
     <1>14, <1>15, <1>16, <1>17
  DEF Next, Controller, Reconcile, World, Users

LEMMA FinalizerInvariant == Spec => []FinalizerInv
<1>1. Init => FinalizerInv
  <2> SUFFICES ASSUME Init PROVE FinalizerInv
    OBVIOUS
  <2>1. /\ svc = NoService /\ cached = NoService /\ run = Idle
        /\ \A v \in VM : ~Listed(v)
    BY DEF Init, StoreInit, Listed
  <2>2. NoService.obj = "none" /\ ~NoService.deleting /\ ~NoService.finalizer
    BY DEF NoService, Blank
  <2> QED
    BY <2>1, <2>2, IdleFacts
    DEF FinalizerInv, StillHolds, RunInv, UntouchedInv, FinalizerBeforeVM
<1> QED BY <1>1, StepFinalizer, TypeCorrect, PTL DEF Spec

\* No VM is ever made for a live service without the finalizer, whatever the
\* cache shows and whichever patch is lost.
THEOREM FinalizerFirst == Spec => []FinalizerBeforeVM
<1>1. FinalizerInv => FinalizerBeforeVM
  BY DEF FinalizerInv
<1> QED BY <1>1, FinalizerInvariant, PTL


-------------------------------------------------------------------------------
(***************************************************************************)
(* The status. When the informer cache does not lag, only the controller   *)
(* writes the status of a live object, and one run of Reconcile at a time  *)
(* does it: until a run ends, the stored status is the one it has read.    *)
(* The invariant adds what each step knows of the object it holds.         *)
(***************************************************************************)
SameStatus(o, p) ==
  /\ o.state = p.state /\ o.instance = p.instance
  /\ o.createdAt = p.createdAt /\ o.successful = p.successful

Serving == {"NEW", "IN_PROGRESS", "CREATED", "ERROR"}

\* Why svc.Delete may be called at all.
MayDeleteVM(a) ==
  a.deleting \/ a.state = "EXPIRED" \/ (a.state = "FAILED" /\ ~a.successful)

\* The steps of a run that have not touched the status yet.
Untouched == {"addFinalizer", "deleteObject", "deleteVM", "createVM"}

RunStatusInv ==
  LET b == run.before
      a == run.after
  IN  /\ run.step \in Untouched => SameStatus(a, b)
      /\ run.step \in {"createVM", "getVM"} => b.state \in Serving
      /\ run.step = "createVM" => a.instance = NoVM
      /\ run.step # "patch" => a.successful = b.successful
      /\ run.step = "deleteObject" => a.state = "EXPIRED"
      /\ run.step = "deleteVM" => MayDeleteVM(a)
      /\ run.step = "removeFinalizer" => a.state = b.state
      /\ b.state = "EXPIRED" => a.state \in {"EXPIRED", "ERROR"}

StatusInv ==
  /\ svc.obj # "live" => SameStatus(svc, NoService)
  /\ run.step # "idle" /\ svc.obj = "live" => SameStatus(svc, run.before)
  /\ RunStatusInv

\* Where the dispatch of Reconcile leads, and with which object in memory.
LEMMA DispatchStatus ==
  ASSUME NEW o \in Service, NEW a \in Service, Dispatch(o, a), SameStatus(a, o)
  PROVE  /\ run'.before = o
         /\ run'.step \in {"patch", "deleteVM", "deleteObject", "createVM", "getVM"}
         /\ \/ run'.after = a
            \/ run'.step = "patch" /\ run'.after = [a EXCEPT !.state = "EXPIRED"]
            \/ run'.step = "patch" /\ o.state = "" /\ run'.after = [a EXCEPT !.state = "NEW"]
         /\ RunStatusInv'
<1>s. /\ [a EXCEPT !.state = "EXPIRED"].state = "EXPIRED"
      /\ [a EXCEPT !.state = "NEW"].state = "NEW"
  BY DEF Service
<1>a. ASSUME NEW s, NEW b, Begin(s, o, b)
      PROVE  run'.before = o /\ run'.step = s /\ run'.after = b
  BY <1>a DEF Begin
<1>1. CASE Deleting(o, a)
  <2>1. run'.before = o /\ run'.step = "deleteVM" /\ run'.after = a /\ a.deleting
    BY <1>1, <1>a DEF Deleting
  <2> QED BY <2>1 DEF RunStatusInv, SameStatus, MayDeleteVM, Untouched
<1>2. CASE Expires(o, a)
  <2>1. /\ run'.before = o /\ run'.step = "patch"
        /\ run'.after = [a EXCEPT !.state = "EXPIRED"]
    BY <1>2, <1>a DEF Expires
  <2> QED BY <1>s, <2>1 DEF RunStatusInv, Untouched
<1>3. CASE a.state = "" /\ Begin("patch", o, [a EXCEPT !.state = "NEW"])
  <2>1. /\ run'.before = o /\ run'.step = "patch" /\ o.state = ""
        /\ run'.after = [a EXCEPT !.state = "NEW"]
    BY <1>3, <1>a DEF SameStatus
  <2> QED BY <1>s, <2>1 DEF RunStatusInv, Untouched
<1>4. CASE Release(o, a)
  <2>1. /\ run'.before = o /\ run'.step \in {"patch", "deleteObject", "deleteVM"}
        /\ run'.after = a /\ a.state = "EXPIRED"
    BY <1>4, <1>a DEF Release
  <2> QED BY <2>1 DEF RunStatusInv, SameStatus, MayDeleteVM, Untouched
<1>5. CASE Retry(o, a)
  <2>1. /\ run'.before = o /\ run'.step \in {"patch", "deleteVM"} /\ run'.after = a
        /\ a.state = "FAILED"
        /\ run'.step = "deleteVM" => ~a.successful
    BY <1>5, <1>a DEF Retry
  <2> QED BY <2>1 DEF RunStatusInv, SameStatus, MayDeleteVM, Untouched
<1>6. CASE Provision(o, a)
  <2>1. /\ run'.before = o /\ run'.step \in {"createVM", "getVM"} /\ run'.after = a
        /\ a.state \in Serving
        /\ run'.step = "createVM" => a.instance = NoVM
    BY <1>6, <1>a DEF Provision, Serving
  <2> QED BY <2>1 DEF RunStatusInv, SameStatus, Untouched, Serving
<1> QED BY <1>1, <1>2, <1>3, <1>4, <1>5, <1>6 DEF Dispatch, Switches

\* A patch of an object whose status is still the one that was read writes
\* the status of the new copy, and never makes an object of nothing.
LEMMA MergePatchStatus ==
  ASSUME NEW o \in Service, NEW b \in Service, NEW a \in Service,
         SameStatus(o, b), o.obj = "live"
  PROVE  MergePatch(o, b, a) = Gone \/ SameStatus(MergePatch(o, b, a), a)
BY DEF MergePatch, Merged, Settle, SameStatus, Service

LEMMA CarriedStatus ==
  ASSUME run \in Run, NEW meta \in BOOLEAN, NEW status \in BOOLEAN
  PROVE  \/ SameStatus(Carried(meta, status), run.after)
         \/ SameStatus(Carried(meta, status), run.before)
BY DEF Carried, Run, SameStatus, Service

LEMMA NoServiceStatus ==
  /\ NoService.state = "" /\ NoService.instance = NoVM
  /\ NoService.createdAt = Unset /\ ~NoService.successful
  /\ NoService.obj = "none" /\ Gone.obj = "gone"
  /\ SameStatus(Gone, NoService) /\ SameStatus(NoService, NoService)
BY DEF NoService, Gone, Blank, SameStatus

\* The clock and the count of disturbances only grow.
LEMMA Counters ==
  ASSUME TypeOK, [Next]_vars
  PROVE  now' \in Time /\ now <= now' /\ faults' \in {faults, faults + 1}
<1>1. now' \in {now, now + 1} /\ faults' \in {faults, faults + 1}
  BY DEF Next, Controller, Reconcile, World, Users, vars, StartBlocked, Start,
         AddFinalizer, DeleteObject, DeleteVM, RemoveFinalizer, Adopt, CreateVM,
         CreateVMFails, GetVM, Patch, Crash, InformerSync, VMUp, VMDisturbed,
         VMVanishes, CatalogDown, CatalogUp, RetireCatalog, Tick, CreateService,
         DeleteService, SetExpiry, SetPending, storeVars, Fails, Fault
<1>2. now \in Time /\ now' \in Time
  BY StepType DEF TypeOK, StoreTypeOK
<1> QED BY <1>1, <1>2 DEF Time

\* The steps that write the VMs.
LEMMA VMsWritten ==
  ASSUME [Next]_vars
  PROVE  \/ UNCHANGED vms \/ DeleteVM \/ CreateVM
         \/ \E v \in VM : VMUp(v) \/ VMDisturbed(v) \/ VMVanishes(v)
BY DEF Next, Controller, Reconcile, World, Users, vars, StartBlocked, Start,
       AddFinalizer, DeleteObject, RemoveFinalizer, Adopt, CreateVMFails, GetVM,
       Patch, Crash, InformerSync, CatalogDown, CatalogUp, RetireCatalog, Tick,
       CreateService, DeleteService, SetExpiry, SetPending

\* Marking an object leaves its status alone.
LEMMA MarkDeletedStatus ==
  ASSUME NEW o \in Service, o.obj = "live"
  PROVE  \/ MarkDeleted(o) = Gone
         \/ MarkDeleted(o).obj = "live" /\ SameStatus(MarkDeleted(o), o)
BY DEF MarkDeleted, Settle, SameStatus, Service

LEMMA StepStatus ==
  ASSUME CacheLag = FALSE
  PROVE  TypeOK /\ FinalizerInv /\ StatusInv /\ [Next]_vars => StatusInv'
<1> SUFFICES ASSUME TypeOK, FinalizerInv, StatusInv, [Next]_vars PROVE StatusInv'
  OBVIOUS
<1>t. /\ svc \in Service /\ run \in Run
      /\ run = [step |-> run.step, before |-> run.before, after |-> run.after]
      /\ run.before \in Service /\ run.after \in Service
  BY DEF TypeOK, StoreTypeOK, Run
<1>i. /\ svc.obj # "live" => SameStatus(svc, NoService)
      /\ run.step # "idle" /\ svc.obj = "live" => SameStatus(svc, run.before)
      /\ RunStatusInv
      /\ Observed = svc
  BY DEF StatusInv, Observed
<1>n. /\ run.step # "idle" => svc.obj # "none"
      /\ run.after.deleting = run.before.deleting
  BY IdleFacts DEF FinalizerInv, UntouchedInv, RunInv
<1>g. ASSUME NEW s, NEW a, Goto(s, a)
      PROVE  run'.step = s /\ run'.before = run.before /\ run'.after = a
  <2>1. run' = [step |-> s, before |-> run.before, after |-> a]
    BY <1>t, <1>g DEF Goto
  <2> QED BY <2>1
<1>h. ASSUME NEW s, NEW o, NEW a, Begin(s, o, a)
      PROVE  run'.step = s /\ run'.before = o /\ run'.after = a
  BY <1>h DEF Begin
\* A run of Reconcile that only moves on.
<1>m. ASSUME UNCHANGED svc, run.step # "idle", run'.before = run.before, RunStatusInv'
      PROVE  StatusInv'
  BY <1>i, <1>m DEF StatusInv, SameStatus
\* A run that begins.
<1>s. ASSUME UNCHANGED svc, run'.before = svc, RunStatusInv'
      PROVE  StatusInv'
  BY <1>i, <1>s DEF StatusInv, SameStatus
\* A run that ends.
<1>x. ASSUME run' = Idle, svc'.obj # "live" => SameStatus(svc', NoService)
      PROVE  StatusInv'
  <2>1. RunStatusInv'
    BY <1>x, IdleFacts, NoServiceStatus DEF RunStatusInv, Untouched, Idle, SameStatus
  <2> QED BY <1>x, <2>1, IdleFacts DEF StatusInv
\* The others.
<1>o. ASSUME UNCHANGED run,
             \/ svc'.obj = "live" /\ svc.obj = "live" /\ SameStatus(svc', svc)
             \/ svc'.obj # "live" /\ SameStatus(svc', NoService)
      PROVE  StatusInv'
  BY <1>i, <1>o DEF StatusInv, RunStatusInv, SameStatus
<1>1. CASE StartBlocked
  <2>1. /\ UNCHANGED svc /\ run'.before = svc /\ run'.step = "patch"
        /\ run'.after = [svc EXCEPT !.state = "ERROR"]
    BY <1>1, <1>i, <1>h DEF StartBlocked, storeVars
  <2>2. run'.after.state = "ERROR"
    BY <1>t, <2>1 DEF Service
  <2>3. RunStatusInv'
    BY <2>1, <2>2 DEF RunStatusInv, Untouched
  <2> QED BY <1>s, <2>1, <2>3
<1>2. CASE Start
  <2>1. UNCHANGED svc
    BY <1>2 DEF Start, storeVars
  <2>2. CASE Dispatch(svc, svc)
    <3>1. SameStatus(svc, svc)
      BY DEF SameStatus
    <3>2. run'.before = svc /\ RunStatusInv'
      BY <1>t, <2>2, <3>1, DispatchStatus
    <3> QED BY <1>s, <2>1, <3>2
  <2>3. CASE Begin("addFinalizer", svc, [svc EXCEPT !.finalizer = TRUE])
    <3>1. /\ run'.before = svc /\ run'.step = "addFinalizer"
          /\ run'.after = [svc EXCEPT !.finalizer = TRUE]
      BY <1>h, <2>3
    <3>2. SameStatus(run'.after, svc)
      BY <1>t, <3>1 DEF SameStatus, Service
    <3>3. RunStatusInv'
      BY <3>1, <3>2 DEF RunStatusInv, Untouched, SameStatus
    <3> QED BY <1>s, <2>1, <3>1, <3>3
  <2> QED BY <1>2, <1>i, <2>2, <2>3 DEF Start
<1>3. CASE AddFinalizer
  <2>1. SameStatus(run.after, run.before) /\ run.step = "addFinalizer"
    BY <1>3, <1>i DEF AddFinalizer, RunStatusInv, Untouched
  <2>2. CASE /\ svc.obj = "live" /\ Dispatch(run.before, run.after)
             /\ svc' = MergePatch(svc, run.before, run.after)
    <3>1. run'.before = run.before /\ RunStatusInv'
      BY <1>t, <2>1, <2>2, DispatchStatus
    <3>2. svc' = Gone \/ SameStatus(svc', run.before)
      BY <1>t, <1>i, <2>1, <2>2, MergePatchStatus DEF SameStatus
    <3>3. svc'.obj # "live" => svc' = Gone
      BY <1>t, <2>2 DEF MergePatch, Settle, Service
    <3> QED BY <3>1, <3>2, <3>3, NoServiceStatus DEF StatusInv
  <2>3. CASE Goto("patch", run.after) /\ UNCHANGED svc
    <3>1. RunStatusInv'
      BY <1>g, <1>i, <2>1, <2>3 DEF RunStatusInv, Untouched, SameStatus
    <3> QED BY <1>g, <1>m, <2>1, <2>3, <3>1
  <2> QED BY <1>3, <2>2, <2>3 DEF AddFinalizer
<1>4. CASE DeleteObject
  <2>1. /\ run.step = "deleteObject" /\ run'.before = run.before /\ run'.after = run.after
        /\ run'.step \in {"deleteVM", "patch"}
    BY <1>4, <1>g DEF DeleteObject
  <2>2. RunStatusInv'
    BY <1>i, <2>1 DEF RunStatusInv, Untouched, SameStatus, MayDeleteVM
  <2>3. CASE UNCHANGED svc
    BY <1>m, <2>1, <2>2, <2>3
  <2>4. CASE svc.obj = "live" /\ svc' = MarkDeleted(svc)
    <3>1. svc' = Gone \/ (svc'.obj = "live" /\ SameStatus(svc', svc))
      BY <1>t, <2>4, MarkDeletedStatus
    <3> QED BY <1>i, <2>1, <2>2, <2>4, <3>1, NoServiceStatus DEF StatusInv, SameStatus
  <2> QED BY <1>4, <2>3, <2>4 DEF DeleteObject
<1>5. CASE DeleteVM
  <2> DEFINE c == Cleared(run.after)
  <2>1. /\ run.step = "deleteVM" /\ UNCHANGED svc
        /\ SameStatus(run.after, run.before)
    BY <1>5, <1>i DEF DeleteVM, RunStatusInv, Untouched
  <2>2. /\ c \in Service /\ c.state = run.after.state
        /\ c.successful = run.after.successful
    BY <1>t, ClearedType DEF Cleared, Service
  <2>3. /\ run'.before = run.before
        /\ \/ run'.step = "removeFinalizer" /\ run'.after = c
           \/ run'.step = "patch" /\ run'.after = c
           \/ run'.step = "patch" /\ c.state = "FAILED" /\ run'.after = [c EXCEPT !.state = ""]
           \/ run'.step = "patch" /\ run'.after = run.after
    BY <1>5, <1>g DEF DeleteVM
  <2>4. RunStatusInv'
    BY <1>i, <2>1, <2>2, <2>3 DEF RunStatusInv, Untouched, SameStatus
  <2> QED BY <1>m, <2>1, <2>3, <2>4
<1>6. CASE RemoveFinalizer
  <2>1. CASE svc' = Gone /\ run' = Idle
    BY <1>x, <2>1, NoServiceStatus
  <2>2. CASE UNCHANGED svc /\ Goto("patch", [run.after EXCEPT !.finalizer = FALSE])
    <3>1. /\ run.step = "removeFinalizer" /\ run'.step = "patch"
          /\ run'.before = run.before /\ run'.after.state = run.after.state
      BY <1>6, <1>t, <1>g, <2>2 DEF RemoveFinalizer, Service
    <3>2. RunStatusInv'
      BY <1>i, <3>1 DEF RunStatusInv, Untouched
    <3> QED BY <1>m, <2>2, <3>1, <3>2
  <2> QED BY <1>6, <2>1, <2>2 DEF RemoveFinalizer
<1>7. CASE Adopt \/ CreateVM \/ CreateVMFails
  <2>1. /\ run.step = "createVM" /\ UNCHANGED svc
        /\ run.before.state \in Serving /\ SameStatus(run.after, run.before)
    BY <1>7, <1>i DEF Adopt, CreateVM, CreateVMFails, storeVars, RunStatusInv, Untouched
  <2>2. /\ run'.before = run.before
        /\ \/ run'.step = "getVM" /\ \E v \in VM : run'.after = [run.after EXCEPT !.instance = v]
           \/ run'.step = "patch" /\ run'.after = [run.after EXCEPT !.state = "ERROR"]
    BY <1>7, <1>g DEF Adopt, CreateVM, CreateVMFails
  <2>3. run'.after.successful = run.after.successful
    BY <1>t, <2>2 DEF Service
  <2>4. RunStatusInv'
    BY <2>1, <2>2, <2>3 DEF RunStatusInv, Untouched, SameStatus, Serving
  <2> QED BY <1>m, <2>1, <2>2, <2>4
<1>8. CASE GetVM
  <2>1. run.step = "getVM" /\ UNCHANGED svc /\ run.before.state \in Serving
    BY <1>8, <1>i DEF GetVM, RunStatusInv
  <2>2. run'.before = run.before /\ run'.step = "patch"
    BY <1>8, <1>g DEF GetVM
  <2>3. RunStatusInv'
    BY <2>1, <2>2 DEF RunStatusInv, Untouched, Serving
  <2> QED BY <1>m, <2>1, <2>2, <2>3
<1>9. CASE Patch
  <2> PICK meta \in BOOLEAN, status \in BOOLEAN :
        svc' = MergePatch(svc, run.before, Carried(meta, status))
    BY <1>9 DEF Patch
  <2>1. run' = Idle
    BY <1>9 DEF Patch
  <2>2. svc'.obj # "live" => SameStatus(svc', NoService)
    BY <1>t, <1>i, NoServiceStatus DEF MergePatch, Settle, Service
  <2> QED BY <1>x, <2>1, <2>2
<1>10. CASE Crash
  BY <1>10, <1>i, <1>x DEF Crash, SameStatus
<1>11. CASE \E e \in Time : e >= now /\ CreateService(e)
  <2>1. UNCHANGED run /\ svc.obj = "none" /\ svc'.obj = "live"
    BY <1>11 DEF CreateService, NoService, Blank
  <2>2. run = Idle
    BY <1>n, <2>1 DEF FinalizerInv, UntouchedInv
  <2> QED BY <1>x, <2>1, <2>2
<1>12. CASE DeleteService
  <2>1. UNCHANGED run /\ svc.obj = "live" /\ svc' = MarkDeleted(svc)
    BY <1>12 DEF DeleteService
  <2> QED BY <1>t, <1>o, <2>1, MarkDeletedStatus, NoServiceStatus
<1>13. CASE (\E e \in Time : SetExpiry(e)) \/ (\E b \in BOOLEAN : SetPending(b))
  <2>1. UNCHANGED run /\ svc.obj = "live" /\ svc'.obj = "live" /\ SameStatus(svc', svc)
    BY <1>13, <1>t DEF SetExpiry, SetPending, SameStatus, Service
  <2> QED BY <1>o, <2>1
<1>14. CASE World \/ InformerSync \/ UNCHANGED vars
  <2>1. UNCHANGED <<svc, run>>
    BY <1>14
    DEF World, VMUp, VMDisturbed, VMVanishes, CatalogDown, CatalogUp, RetireCatalog,
        Tick, InformerSync, vars, storeVars
  <2> QED BY <1>i, <2>1 DEF StatusInv, RunStatusInv, SameStatus
<1> QED
  BY <1>1, <1>2, <1>3, <1>4, <1>5, <1>6, <1>7, <1>8, <1>9, <1>10, <1>11, <1>12,
     <1>13, <1>14
  DEF Next, Controller, Reconcile, Users

LEMMA StatusInvariant ==
  ASSUME CacheLag = FALSE
  PROVE  Spec => [](TypeOK /\ FinalizerInv /\ StatusInv)
<1>1. Init => StatusInv
  <2> SUFFICES ASSUME Init PROVE StatusInv
    OBVIOUS
  <2>1. svc = NoService /\ run = Idle
    BY DEF Init, StoreInit
  <2> QED BY <2>1, IdleFacts, NoServiceStatus
          DEF StatusInv, RunStatusInv, Untouched, SameStatus, Idle
<1> QED BY <1>1, StepStatus, TypeCorrect, FinalizerInvariant, PTL DEF Spec

\* What a step may do to the status of a live object: the patch that ends a run
\* writes it, as the run has it or as the run has read it, and nothing else does.
LEMMA StatusWritten ==
  ASSUME TypeOK, FinalizerInv, StatusInv, [Next]_vars
  PROVE  \/ svc'.obj = "gone"
         \/ SameStatus(svc', svc)
         \/ svc.obj = "live" /\ run.step = "patch" /\ SameStatus(svc', run.after)
<1>t. /\ svc \in Service /\ run \in Run
      /\ run.before \in Service /\ run.after \in Service
  BY DEF TypeOK, StoreTypeOK, Run
<1>i. run.step # "idle" /\ svc.obj = "live" => SameStatus(svc, run.before)
  BY DEF StatusInv
<1>1. CASE AddFinalizer
  <2>1. /\ SameStatus(run.after, run.before)
        /\ svc.obj = "live" => SameStatus(svc, run.before)
    BY <1>1, <1>i DEF AddFinalizer, StatusInv, RunStatusInv, Untouched
  <2>2. CASE svc.obj = "live" /\ svc' = MergePatch(svc, run.before, run.after)
    <3>1. svc' = Gone \/ SameStatus(svc', run.after)
      BY <1>t, <2>1, <2>2, MergePatchStatus
    <3> QED BY <2>1, <2>2, <3>1, NoServiceStatus DEF SameStatus
  <2> QED BY <1>1, <2>2 DEF AddFinalizer, SameStatus
<1>2. CASE Patch
  <2> PICK meta \in BOOLEAN, status \in BOOLEAN :
        svc' = MergePatch(svc, run.before, Carried(meta, status))
    BY <1>2 DEF Patch
  <2> DEFINE c == Carried(meta, status)
  <2>0. CASE svc.obj # "live"
    BY <2>0 DEF MergePatch, SameStatus
  <2>1. CASE svc.obj = "live"
    <3>1. run.step = "patch" /\ SameStatus(svc, run.before) /\ c \in Service
      BY <1>2, <1>i, <1>t, <2>1, CarriedType DEF Patch
    <3>2. svc' = Gone \/ SameStatus(svc', c)
      BY <1>t, <2>1, <3>1, MergePatchStatus
    <3>3. SameStatus(c, run.after) \/ SameStatus(c, run.before)
      BY <1>t, CarriedStatus
    <3> HIDE DEF c
    <3> QED BY <2>1, <3>1, <3>2, <3>3, NoServiceStatus DEF SameStatus
  <2> QED BY <2>0, <2>1
<1>3. CASE DeleteObject \/ DeleteService
  <2>1. (svc.obj = "live" /\ svc' = MarkDeleted(svc)) \/ UNCHANGED svc
    BY <1>3 DEF DeleteObject, DeleteService
  <2> QED BY <1>t, <2>1, MarkDeletedStatus, NoServiceStatus DEF SameStatus
<1>4. CASE RemoveFinalizer
  BY <1>4, NoServiceStatus DEF RemoveFinalizer, SameStatus
<1>5. CASE \E e \in Time : CreateService(e)
  <2>1. PICK e \in Time : svc.obj = "none" /\ svc' = [NoService EXCEPT !.obj = "live", !.expiry = e]
    BY <1>5 DEF CreateService
  <2>2. SameStatus(svc, NoService) /\ SameStatus(svc', NoService)
    BY <2>1 DEF StatusInv, SameStatus, NoService, Blank
  <2> QED BY <2>2 DEF SameStatus
<1>8. CASE (\E e \in Time : SetExpiry(e)) \/ (\E b \in BOOLEAN : SetPending(b))
  BY <1>8, <1>t DEF SetExpiry, SetPending, SameStatus, Service
<1>6. CASE UNCHANGED svc
  BY <1>6 DEF SameStatus
<1>7. \/ UNCHANGED svc \/ AddFinalizer \/ Patch \/ DeleteObject \/ DeleteService
      \/ RemoveFinalizer \/ (\E e \in Time : CreateService(e))
      \/ (\E e \in Time : SetExpiry(e)) \/ (\E b \in BOOLEAN : SetPending(b))
  BY DEF Next, Controller, Reconcile, World, Users, vars, storeVars, StartBlocked, Start,
         DeleteVM, Adopt, CreateVM, CreateVMFails, GetVM, Crash, InformerSync, VMUp,
         VMDisturbed, VMVanishes, CatalogDown, CatalogUp, RetireCatalog, Tick
<1> QED BY <1>1, <1>2, <1>3, <1>4, <1>5, <1>6, <1>7, <1>8

\* While the cache does not lag, an EXPIRED service that is not removed changes
\* its state in one way only, whatever call is lost and whoever moves the expiry
\* meanwhile: a run that began on a blocked catalog makes it ERROR.
THEOREM ExpiredLeft ==
  ASSUME CacheLag = FALSE
  PROVE  Spec => ExpiredLeftOnlyBlocked
<1> DEFINE Kept == svc.state = "EXPIRED" =>
                     \/ svc'.state = "EXPIRED" \/ svc'.obj = "gone"
                     \/ svc'.state = "ERROR" /\ run.before.state = "EXPIRED"
           Began == /\ run.step = "idle" /\ run'.step # "idle"
                    /\ run'.before.state = "EXPIRED" /\ run'.after.state = "ERROR"
                    => catalog.retired \/ ~catalog.ready
<1>1. ASSUME TypeOK, FinalizerInv, StatusInv, [Next]_vars PROVE Kept
  <2> SUFFICES ASSUME svc.state = "EXPIRED"
               PROVE  \/ svc'.state = "EXPIRED" \/ svc'.obj = "gone"
                      \/ svc'.state = "ERROR" /\ run.before.state = "EXPIRED"
    OBVIOUS
  <2>1. svc.obj = "live"
    BY <1>1, NoServiceStatus DEF StatusInv, SameStatus
  <2>2. CASE run.step = "patch" /\ SameStatus(svc', run.after)
    BY <1>1, <2>1, <2>2 DEF StatusInv, RunStatusInv, SameStatus
  <2> QED BY <1>1, <2>1, <2>2, StatusWritten DEF SameStatus
<1>2. ASSUME TypeOK, [Next]_vars PROVE Began
  <2> SUFFICES ASSUME run.step = "idle", run'.step # "idle",
                      run'.before.state = "EXPIRED", run'.after.state = "ERROR"
               PROVE  catalog.retired \/ ~catalog.ready
    OBVIOUS
  <2>1. svc \in Service /\ Observed \in Service
    BY <1>2 DEF TypeOK, StoreTypeOK, Observed
  <2>2. CASE StartBlocked
    BY <2>2 DEF StartBlocked, Blocked
  <2>3. CASE Start
    <3>1. CASE Dispatch(Observed, Observed)
      <4>1. SameStatus(Observed, Observed)
        BY DEF SameStatus
      <4>2. /\ run'.before = Observed
            /\ \/ run'.after = Observed
               \/ run'.after = [Observed EXCEPT !.state = "EXPIRED"]
               \/ run'.after = [Observed EXCEPT !.state = "NEW"]
        BY <2>1, <3>1, <4>1, DispatchStatus
      <4> QED BY <2>1, <4>2 DEF Service
    <3>2. CASE Begin("addFinalizer", Observed, [Observed EXCEPT !.finalizer = TRUE])
      <4>1. run'.before = Observed /\ run'.after = [Observed EXCEPT !.finalizer = TRUE]
        BY <3>2 DEF Begin
      <4> QED BY <2>1, <4>1 DEF Service
    <3> QED BY <2>3, <3>1, <3>2 DEF Start
  <2>4. CASE UNCHANGED run \/ run' = Idle
    BY <2>4, IdleFacts
  <2> QED
    BY <1>2, <2>2, <2>3, <2>4
    DEF Next, Controller, Reconcile, World, Users, vars, storeVars, AddFinalizer,
        DeleteObject, DeleteVM, RemoveFinalizer, Adopt, CreateVM, CreateVMFails, GetVM,
        Patch, Crash, InformerSync, VMUp, VMDisturbed, VMVanishes, CatalogDown,
        CatalogUp, RetireCatalog, Tick, CreateService, DeleteService, SetExpiry,
        SetPending
<1>3. TypeOK /\ FinalizerInv /\ StatusInv /\ [Next]_vars => [Kept /\ Began]_vars
  BY <1>1, <1>2
<1> QED BY <1>3, StatusInvariant, PTL DEF Spec, ExpiredLeftOnlyBlocked

\* While the cache does not lag, no failure makes the controller delete a VM
\* that was delivered: only an expiry or a deletion it has read does.
THEOREM DeliveredVMStays ==
  ASSUME CacheLag = FALSE
  PROVE  Spec => DeliveredVMKept
<1>1. ASSUME TypeOK, FinalizerInv, StatusInv, [Next]_vars,
             NEW v \in VM, svc.successful, Running(v), vms'[v].status = "dying"
      PROVE  run.before.deleting \/ run.before.state = "EXPIRED"
  <2>v. vms \in [VM -> [status : VMStatus, active : Time \union {Unset}]]
    BY <1>1 DEF TypeOK
  <2>1. svc.obj = "live"
    BY <1>1, NoServiceStatus DEF StatusInv, SameStatus
  <2>2. CASE DeleteVM
    <3>1. run.step = "deleteVM"
      BY <2>2 DEF DeleteVM
    <3>2. SameStatus(svc, run.before) /\ RunStatusInv
      BY <1>1, <2>1, <3>1 DEF StatusInv
    <3>3. SameStatus(run.after, run.before) /\ MayDeleteVM(run.after)
      BY <3>1, <3>2 DEF RunStatusInv, Untouched
    <3>4. run.after.deleting = run.before.deleting
      BY <1>1 DEF FinalizerInv, RunInv
    <3> QED BY <1>1, <3>2, <3>3, <3>4 DEF SameStatus, MayDeleteVM
  <2>3. ASSUME NEW w \in VM, VMUp(w) \/ VMDisturbed(w) \/ VMVanishes(w)
        PROVE  FALSE
    <3>1. \/ vms'[v] = vms[v]
          \/ v = w /\ vms'[v].status \in {"ACTIVE", "OTHER", "ERROR", "gone"}
      BY <2>3, <2>v DEF VMUp, VMDisturbed, VMVanishes
    <3> QED BY <1>1, <3>1 DEF Running
  <2>4. CASE CreateVM
    <3>1. vms'[v] = vms[v] \/ vms'[v].status = "OTHER"
      BY <2>4, <2>v DEF CreateVM
    <3> QED BY <1>1, <3>1 DEF Running
  <2>5. CASE UNCHANGED vms
    BY <1>1, <2>5 DEF Running
  <2>6. \/ UNCHANGED vms \/ DeleteVM \/ CreateVM
        \/ \E w \in VM : VMUp(w) \/ VMDisturbed(w) \/ VMVanishes(w)
    BY <1>1, VMsWritten
  <2> QED BY <2>2, <2>3, <2>4, <2>5, <2>6
<1>2. TypeOK /\ FinalizerInv /\ StatusInv /\ [Next]_vars =>
        [\A v \in VM : svc.successful /\ Running(v) /\ vms'[v].status = "dying" =>
           run.before.deleting \/ run.before.state = "EXPIRED"]_vars
  BY <1>1
<1> QED BY <1>2, StatusInvariant, PTL DEF Spec, DeliveredVMKept

-------------------------------------------------------------------------------
(***************************************************************************)
(* The waiting time of IBM i. status.vm.created_at, where it is set, is    *)
(* not before the VM it is about became ACTIVE, in the stored object and   *)
(* in the one a run holds; that time of a VM never changes.                *)
(***************************************************************************)
Booted(w, o) ==
  o.createdAt # Unset => o.instance \in VM /\ w[o.instance].active <= o.createdAt

Waited(w, t, o) == o.instance \in VM /\ w[o.instance].active + InitWait <= t

SameVM(o, p) ==
  /\ o.instance = p.instance /\ o.createdAt = p.createdAt
  /\ o.successful = p.successful

ActiveInv ==
  \A v \in VM : /\ vms[v].active # Unset => vms[v].active <= now
                /\ vms[v].status = "ACTIVE" => vms[v].active # Unset

BootInv ==
  /\ ActiveInv
  /\ Booted(vms, svc) /\ Booted(vms, run.after)
  /\ run.after.successful /\ ~run.before.successful => Waited(vms, now, run.after)

LEMMA StepActive ==
  ASSUME TypeOK, ActiveInv, [Next]_vars
  PROVE  /\ ActiveInv'
         /\ \A v \in VM : \/ vms'[v].active = vms[v].active
                          \/ vms[v].active = Unset /\ vms'[v].active = now
<1>v. vms \in [VM -> [status : VMStatus, active : Time \union {Unset}]]
  BY DEF TypeOK
<1>n. now \in Nat /\ now' \in Nat /\ now <= now' /\ now # Unset
  BY Counters, StoreAssumption DEF TypeOK, StoreTypeOK, Time, Unset
\* It is enough to look at one VM.
<1> SUFFICES ASSUME NEW v \in VM
             PROVE  /\ vms'[v].active # Unset => vms'[v].active <= now'
                    /\ vms'[v].status = "ACTIVE" => vms'[v].active # Unset
                    /\ \/ vms'[v].active = vms[v].active
                       \/ vms[v].active = Unset /\ vms'[v].active = now
  BY DEF ActiveInv
<1>a. /\ vms[v].active # Unset => vms[v].active <= now /\ vms[v].active \in Nat
      /\ vms[v].status = "ACTIVE" => vms[v].active # Unset
  BY <1>v DEF ActiveInv, Time
\* A step that leaves the time alone and does not make the VM ACTIVE.
<1>k. ASSUME vms'[v].active = vms[v].active,
             vms'[v].status = "ACTIVE" => vms[v].status = "ACTIVE"
      PROVE  /\ vms'[v].active # Unset => vms'[v].active <= now'
             /\ vms'[v].status = "ACTIVE" => vms'[v].active # Unset
             /\ \/ vms'[v].active = vms[v].active
                \/ vms[v].active = Unset /\ vms'[v].active = now
  BY <1>a, <1>k, <1>n
<1>1. CASE UNCHANGED vms
  BY <1>1, <1>k
<1>2. CASE DeleteVM
  <2>1. CASE vms'[v] = [vms[v] EXCEPT !.status = "dying"]
    BY <1>k, <1>v, <2>1
  <2>2. vms'[v] = vms[v] \/ vms'[v] = [vms[v] EXCEPT !.status = "dying"]
    BY <1>2 DEF DeleteVM, CleanupVM
  <2> QED BY <1>k, <2>1, <2>2
<1>3. CASE CreateVM
  <2>1. vms'[v] = vms[v] \/ vms'[v] = [vms[v] EXCEPT !.status = "OTHER"]
    BY <1>3, <1>v DEF CreateVM
  <2>2. CASE vms'[v] = [vms[v] EXCEPT !.status = "OTHER"]
    BY <1>k, <1>v, <2>2
  <2> QED BY <1>k, <2>1, <2>2
<1>4. ASSUME NEW w \in VM, VMUp(w)
      PROVE  /\ vms'[v].active # Unset => vms'[v].active <= now'
             /\ vms'[v].status = "ACTIVE" => vms'[v].active # Unset
             /\ \/ vms'[v].active = vms[v].active
                \/ vms[v].active = Unset /\ vms'[v].active = now
  <2>1. /\ v # w => vms'[v] = vms[v]
        /\ v = w => vms'[v].active = IF vms[v].active = Unset THEN now ELSE vms[v].active
    BY <1>4, <1>v DEF VMUp
  <2> QED BY <1>a, <1>k, <1>n, <2>1
<1>5. ASSUME NEW w \in VM, VMDisturbed(w) \/ VMVanishes(w)
      PROVE  /\ vms'[v].active = vms[v].active
             /\ vms'[v].status = "ACTIVE" => vms[v].status = "ACTIVE"
  BY <1>5, <1>v DEF VMDisturbed, VMVanishes
<1> QED BY <1>1, <1>2, <1>3, <1>4, <1>5, <1>k, VMsWritten

LEMMA StepBoot ==
  ASSUME CacheLag = FALSE, TypeOK, FinalizerInv, StatusInv, BootInv, [Next]_vars
  PROVE  BootInv'
<1>t. /\ svc \in Service /\ run \in Run /\ now \in Time
      /\ run = [step |-> run.step, before |-> run.before, after |-> run.after]
      /\ run.before \in Service /\ run.after \in Service
      /\ vms \in [VM -> [status : VMStatus, active : Time \union {Unset}]]
  BY DEF TypeOK, StoreTypeOK, Run
<1>i. /\ ActiveInv /\ Booted(vms, svc) /\ Booted(vms, run.after)
      /\ run.after.successful /\ ~run.before.successful => Waited(vms, now, run.after)
      /\ RunStatusInv /\ Observed = svc
  BY DEF BootInv, StatusInv, Observed
<1>n. now' \in Time /\ now <= now'
  BY Counters
<1>a. /\ ActiveInv'
      /\ \A v \in VM : \/ vms'[v].active = vms[v].active
                       \/ vms[v].active = Unset /\ vms'[v].active = now
  BY <1>i, StepActive
\* What is known of a copy of the object stays known of it.
<1>b. ASSUME NEW o \in Service, Booted(vms, o)
      PROVE  Booted(vms', o)
  <2> SUFFICES ASSUME o.createdAt # Unset
               PROVE  o.instance \in VM /\ vms'[o.instance].active <= o.createdAt
    BY DEF Booted
  <2>1. o.instance \in VM /\ vms[o.instance].active <= o.createdAt /\ o.createdAt \in Time
    BY <1>b DEF Booted, Service
  <2>2. vms[o.instance].active # Unset
    BY <1>t, <2>1, StoreAssumption DEF Time, Unset
  <2> QED BY <1>a, <2>1, <2>2
<1>w. ASSUME NEW o \in Service, Waited(vms, now, o)
      PROVE  Waited(vms', now', o)
  <2>1. /\ o.instance \in VM /\ vms[o.instance].active + InitWait <= now
        /\ vms[o.instance].active \in Nat
    BY <1>t, <1>w, StoreAssumption DEF Waited, Time, Unset
  <2>2. vms[o.instance].active # Unset
    BY <1>t, <2>1, StoreAssumption, ControllerAssumption DEF Time, Unset
  <2> QED BY <1>a, <1>n, <1>t, <2>1, <2>2, ControllerAssumption DEF Waited, Time
<1>p. ASSUME NEW o, NEW p, NEW m, SameVM(o, p), Booted(m, p)
      PROVE  Booted(m, o)
  BY <1>p DEF SameVM, Booted
\* The stored object.
<1>s. Booted(vms', svc')
  <2>1. svc' \in Service /\ StatusInv'
    BY StepType, StepStatus DEF TypeOK, StoreTypeOK
  <2>2. CASE svc'.obj = "gone"
    BY <2>1, <2>2, NoServiceStatus DEF StatusInv, SameStatus, Booted
  <2>3. CASE SameStatus(svc', svc)
    BY <1>b, <1>i, <1>t, <2>3 DEF SameStatus, Booted
  <2>4. CASE SameStatus(svc', run.after)
    BY <1>b, <1>i, <1>t, <2>4 DEF SameStatus, Booted
  <2> QED BY <2>2, <2>3, <2>4, StatusWritten
\* The object in memory, by what the step leaves in it.
<1> DEFINE Kept == Booted(vms', run'.after) /\
                   (run'.after.successful /\ ~run'.before.successful =>
                      Waited(vms', now', run'.after))
<1>e. ASSUME Kept PROVE BootInv'
  BY <1>a, <1>e, <1>s DEF BootInv
<1>c. ASSUME SameVM(run'.after, svc), run'.before = svc
      PROVE  Kept
  BY <1>b, <1>c, <1>i, <1>t, <1>p DEF SameVM
<1>d. ASSUME SameVM(run'.after, run.after), run'.before = run.before
      PROVE  Kept
  <2>1. Booted(vms', run'.after)
    BY <1>b, <1>d, <1>i, <1>t, <1>p
  <2>2. ASSUME run'.after.successful /\ ~run'.before.successful
        PROVE  Waited(vms', now', run'.after)
    <3>1. Waited(vms', now', run.after)
      BY <1>d, <1>i, <1>t, <1>w, <2>2 DEF SameVM
    <3> QED BY <1>d, <3>1 DEF SameVM, Waited
  <2> QED BY <2>1, <2>2
<1>f. ASSUME run'.after.createdAt = Unset,
             run'.after.successful = run'.before.successful
      PROVE  Kept
  BY <1>f DEF Booted
<1>g. ASSUME NEW s, NEW a, Goto(s, a)
      PROVE  run'.step = s /\ run'.before = run.before /\ run'.after = a
  <2>1. run' = [step |-> s, before |-> run.before, after |-> a]
    BY <1>t, <1>g DEF Goto
  <2> QED BY <2>1
<1>h. ASSUME NEW s, NEW o, NEW a, Begin(s, o, a)
      PROVE  run'.step = s /\ run'.before = o /\ run'.after = a
  BY <1>h DEF Begin
<1>v. ASSUME NEW o \in Service
      PROVE  /\ SameVM(o, o)
             /\ \A s : SameVM([o EXCEPT !.state = s], o)
             /\ \A b : SameVM([o EXCEPT !.finalizer = b], o)
  BY DEF SameVM, Service
<1>x. ASSUME NEW o \in Service, NEW a \in Service, Dispatch(o, a), SameStatus(a, o)
      PROVE  run'.before = o /\ SameVM(run'.after, a)
  <2>1. /\ SameVM(a, a)
        /\ SameVM([a EXCEPT !.state = "EXPIRED"], a)
        /\ SameVM([a EXCEPT !.state = "NEW"], a)
    BY <1>v
  <2> QED BY <1>x, <2>1, DispatchStatus
<1> HIDE DEF Kept
<1>1. CASE StartBlocked
  <2>1. run'.before = svc /\ run'.after = [svc EXCEPT !.state = "ERROR"]
    BY <1>1, <1>i, <1>h DEF StartBlocked
  <2>2. SameVM([svc EXCEPT !.state = "ERROR"], svc)
    BY <1>t, <1>v
  <2> QED BY <1>c, <1>e, <2>1, <2>2
<1>2. CASE Start
  <2>1. CASE Dispatch(svc, svc)
    BY <1>c, <1>e, <1>t, <1>x, <2>1 DEF SameStatus
  <2>2. CASE Begin("addFinalizer", svc, [svc EXCEPT !.finalizer = TRUE])
    BY <1>c, <1>e, <1>h, <1>t, <1>v, <2>2
  <2> QED BY <1>2, <1>i, <2>1, <2>2 DEF Start
<1>3. CASE AddFinalizer
  <2>1. SameStatus(run.after, run.before)
    BY <1>3, <1>i DEF AddFinalizer, RunStatusInv, Untouched
  <2>2. CASE Dispatch(run.before, run.after)
    BY <1>d, <1>e, <1>t, <1>x, <2>1, <2>2
  <2>3. CASE Goto("patch", run.after)
    BY <1>d, <1>e, <1>g, <1>t, <1>v, <2>3
  <2> QED BY <1>3, <2>2, <2>3 DEF AddFinalizer
<1>4. CASE DeleteObject
  BY <1>4, <1>d, <1>e, <1>g, <1>t, <1>v DEF DeleteObject
<1>5. CASE DeleteVM
  <2> DEFINE c == Cleared(run.after)
  <2>1. /\ c \in Service /\ c.successful = run.before.successful
        /\ SameVM(c, run.after) \/ c.createdAt = Unset
    BY <1>5, <1>i, <1>t, ClearedType
    DEF DeleteVM, Cleared, Service, SameVM, RunStatusInv
  <2>2. /\ run'.before = run.before
        /\ \/ run'.after = c
           \/ run'.after = [c EXCEPT !.state = ""]
           \/ run'.after = run.after
    BY <1>5, <1>g DEF DeleteVM
  <2>3. SameVM(run'.after, c) \/ run'.after = run.after
    BY <1>v, <2>1, <2>2
  <2> HIDE DEF c
  <2> QED BY <1>d, <1>e, <1>f, <1>t, <1>v, <2>1, <2>2, <2>3 DEF SameVM
<1>6. CASE RemoveFinalizer
  <2>1. CASE run' = Idle
    BY <1>e, <1>f, <2>1, NoServiceStatus DEF Idle
  <2>2. CASE Goto("patch", [run.after EXCEPT !.finalizer = FALSE])
    BY <1>d, <1>e, <1>g, <1>t, <1>v, <2>2
  <2> QED BY <1>6, <2>1, <2>2 DEF RemoveFinalizer
<1>7. CASE Adopt \/ CreateVM \/ CreateVMFails
  <2>1. /\ run.after.createdAt = Unset
        /\ run.after.successful = run.before.successful
    BY <1>7, <1>i, StoreAssumption
    DEF Adopt, CreateVM, CreateVMFails, RunStatusInv, Booted
  <2>2. /\ run'.before = run.before
        /\ \/ \E v \in VM : run'.after = [run.after EXCEPT !.instance = v]
           \/ run'.after = [run.after EXCEPT !.state = "ERROR"]
    BY <1>7, <1>g DEF Adopt, CreateVM, CreateVMFails
  <2>3. /\ run'.after.createdAt = Unset
        /\ run'.after.successful = run'.before.successful
    BY <1>t, <2>1, <2>2 DEF Service
  <2> QED BY <1>e, <1>f, <2>3
<1>8. CASE GetVM
  <2>1. UNCHANGED <<vms, now>>
    BY <1>8 DEF GetVM
  <2>2. CASE \E s : Goto("patch", [run.after EXCEPT !.state = s])
    BY <1>d, <1>e, <1>g, <1>t, <1>v, <2>2
  <2>3. CASE /\ run.after.instance \in VM
             /\ vms[run.after.instance].active # Unset
             /\ Goto("patch", Served(run.after))
    <3> DEFINE a == run.after
               since == IF a.createdAt = Unset THEN now ELSE a.createdAt
    <3>1. /\ run'.before = run.before /\ run'.after = Served(a)
          /\ a \in Service /\ Booted(vms, a) /\ a.instance \in VM
          /\ a.successful = run.before.successful
      BY <1>8, <1>g, <1>i, <1>t, <2>3 DEF RunStatusInv, GetVM
    <3>2. /\ vms[a.instance].active <= since
          /\ since \in Time /\ vms[a.instance].active \in Time
      BY <1>i, <1>t, <2>3, <3>1 DEF ActiveInv, Booted, Service
    <3>3. CASE a.successful
      <4>1. SameVM(Served(a), a)
        BY <3>1, <3>3 DEF Served, SameVM, Service
      <4> QED BY <1>d, <1>e, <3>1, <4>1
    <3>4. CASE ~a.successful
      <4>1. /\ Served(a).instance = a.instance /\ Served(a).createdAt = since
            /\ Served(a).successful => ~(now < since + InitWait)
        BY <3>1, <3>4 DEF Served, Service
      <4>2. Booted(vms', Served(a))
        BY <2>1, <3>1, <3>2, <4>1 DEF Booted
      <4>3. Served(a).successful => Waited(vms', now', Served(a))
        BY <1>t, <2>1, <3>1, <3>2, <4>1, ControllerAssumption, StoreAssumption
        DEF Waited, Time
      <4> QED BY <1>e, <3>1, <4>2, <4>3 DEF Kept
    <3> QED BY <3>3, <3>4
  <2> QED BY <1>8, <1>i, <2>2, <2>3 DEF GetVM, ActiveInv
<1>9. CASE Patch \/ Crash
  <2>1. run' = Idle
    BY <1>9 DEF Patch, Crash
  <2> QED BY <1>e, <1>f, <2>1, NoServiceStatus DEF Idle
<1>10. CASE World \/ InformerSync \/ Users \/ UNCHANGED vars
  <2>1. UNCHANGED run
    BY <1>10
    DEF World, VMUp, VMDisturbed, VMVanishes, CatalogDown, CatalogUp, RetireCatalog,
        Tick, InformerSync, Users, CreateService, DeleteService, SetExpiry,
        SetPending, vars, storeVars
  <2> QED BY <1>d, <1>e, <1>t, <1>v, <2>1
<1> QED
  BY <1>1, <1>2, <1>3, <1>4, <1>5, <1>6, <1>7, <1>8, <1>9, <1>10
  DEF Next, Controller, Reconcile

\* While the cache does not lag, an IBM i service is delivered only when the VM
\* it has now has been ACTIVE for the whole waiting time, through every failure.
THEOREM BootWaits ==
  ASSUME CacheLag = FALSE
  PROVE  Spec => BootWaitHonoured
<1>1. Init => BootInv
  <2> SUFFICES ASSUME Init PROVE BootInv
    OBVIOUS
  <2>1. /\ svc = NoService /\ run = Idle
        /\ \A v \in VM : vms[v].active = Unset /\ vms[v].status = "absent"
    BY DEF Init, StoreInit
  <2> QED BY <2>1, NoServiceStatus DEF BootInv, ActiveInv, Booted, Idle
<1>2. TypeOK /\ FinalizerInv /\ StatusInv /\ BootInv /\ [Next]_vars => BootInv'
  BY StepBoot
<1>3. ASSUME TypeOK, FinalizerInv, StatusInv, BootInv, [Next]_vars,
             ~svc.successful, svc'.successful
      PROVE  \E v \in VM : v = svc'.instance /\ vms[v].active + InitWait <= now
  <2>1. StatusInv'
    BY <1>3, StepStatus
  <2>2. svc'.obj # "gone" /\ ~SameStatus(svc', svc)
    BY <1>3, <2>1, NoServiceStatus DEF StatusInv, SameStatus
  <2>3. svc.obj = "live" /\ run.step = "patch" /\ SameStatus(svc', run.after)
    BY <1>3, <2>2, StatusWritten
  <2>4. run.after.successful /\ ~run.before.successful
    BY <1>3, <2>3 DEF StatusInv, SameStatus
  <2> QED BY <1>3, <2>3, <2>4 DEF BootInv, Waited, SameStatus
<1>4. TypeOK /\ FinalizerInv /\ StatusInv /\ BootInv /\ [Next]_vars =>
        [~svc.successful /\ svc'.successful =>
           \E v \in VM : v = svc'.instance /\ vms[v].active + InitWait <= now]_vars
  BY <1>3
<1> QED BY <1>1, <1>2, <1>4, StatusInvariant, PTL DEF Spec, BootWaitHonoured

-------------------------------------------------------------------------------
(***************************************************************************)
(* The cleanup. As long as no call was lost, a VM that runs is known to    *)
(* the object, or to the run that has just made it, and its service lives; *)
(* from the cleanup on until the finalizer is off, no VM runs.             *)
(***************************************************************************)
Keeper ==
  IF run.step \in {"getVM", "patch"} THEN run.after.instance ELSE svc.instance

HeldInv ==
  /\ \A v \in VM : Running(v) => svc.obj = "live" /\ v = Keeper
  /\ run.step = "removeFinalizer" => \A v \in VM : ~Running(v)
  /\ run.before.finalizer /\ ~run.after.finalizer => \A v \in VM : ~Running(v)
  /\ run.step = "createVM" => svc.obj = "live"

LEMMA StepHeld ==
  ASSUME CacheLag = FALSE, TypeOK, FinalizerInv, StatusInv, HeldInv, [Next]_vars,
         UNCHANGED faults
  PROVE  HeldInv'
<1>t. /\ svc \in Service /\ run \in Run /\ faults \in Nat
      /\ run = [step |-> run.step, before |-> run.before, after |-> run.after]
      /\ run.before \in Service /\ run.after \in Service
      /\ vms \in [VM -> [status : VMStatus, active : Time \union {Unset}]]
  BY DEF TypeOK, StoreTypeOK, Run
<1>f. ~Fault
  BY <1>t DEF Fault
<1>i. /\ \A v \in VM : Running(v) => svc.obj = "live" /\ v = Keeper /\ svc.finalizer
      /\ run.step = "removeFinalizer" => \A v \in VM : ~Running(v)
      /\ run.before.finalizer /\ ~run.after.finalizer => \A v \in VM : ~Running(v)
      /\ run.step = "createVM" => svc.obj = "live" /\ svc.finalizer
      /\ RunStatusInv /\ Observed = svc
      /\ run.step # "idle" /\ svc.obj = "live" => SameStatus(svc, run.before)
      /\ svc.deleting => svc.finalizer
      /\ run.step = "addFinalizer" => run.after.finalizer /\ ~run.before.finalizer
      /\ run.before.finalizer /\ ~run.after.finalizer => run.step = "patch"
  BY DEF HeldInv, StatusInv, FinalizerInv, FinalizerBeforeVM, RunInv, Observed
<1>g. ASSUME NEW s, NEW a, Goto(s, a)
      PROVE  run'.step = s /\ run'.before = run.before /\ run'.after = a
  <2>1. run' = [step |-> s, before |-> run.before, after |-> a]
    BY <1>t, <1>g DEF Goto
  <2> QED BY <2>1
<1>h. ASSUME NEW s, NEW o, NEW a, Begin(s, o, a)
      PROVE  run'.step = s /\ run'.before = o /\ run'.after = a
  BY <1>h DEF Begin
<1>x. ASSUME NEW o \in Service, NEW a \in Service, Dispatch(o, a), SameStatus(a, o)
      PROVE  /\ run'.before = o
             /\ run'.after.instance = o.instance
             /\ run'.after.finalizer = a.finalizer
             /\ run'.step # "removeFinalizer"
  <2>1. /\ [a EXCEPT !.state = "EXPIRED"].instance = o.instance
        /\ [a EXCEPT !.state = "NEW"].instance = o.instance
        /\ a.instance = o.instance
    BY <1>x DEF Service, SameStatus
  <2> QED BY <1>x, <2>1, DispatchStatus, DispatchKeeps
\* A step that makes nothing run.
<1>n. (\A v \in VM : ~Running(v)') /\ run'.step # "createVM" => HeldInv'
  BY DEF HeldInv
\* A step that leaves the VMs alone.
<1>r. UNCHANGED vms => \A v \in VM : Running(v)' <=> Running(v)
  BY DEF Running
<1>u. ASSUME UNCHANGED vms, svc.obj = "live" => svc'.obj = "live",
             Keeper' = Keeper,
             run'.step # "removeFinalizer",
             run'.before.finalizer /\ ~run'.after.finalizer =>
               run.before.finalizer /\ ~run.after.finalizer,
             run'.step = "createVM" => svc.obj = "live"
      PROVE  HeldInv'
  BY <1>i, <1>r, <1>u DEF HeldInv
\* An object that a VM needs is still there after it was marked.
<1>k. svc.obj = "live" /\ svc' = MarkDeleted(svc) =>
        \/ svc'.obj = "live" /\ svc'.instance = svc.instance /\ svc.finalizer
        \/ ~svc.finalizer /\ \A v \in VM : ~Running(v)
  <2> SUFFICES ASSUME svc.obj = "live", svc' = MarkDeleted(svc), svc.finalizer
               PROVE  svc'.obj = "live" /\ svc'.instance = svc.instance
    BY <1>i
  <2> QED BY <1>t DEF MarkDeleted, Settle, Service
<1>1. CASE StartBlocked
  <2>1. /\ UNCHANGED <<svc, vms>> /\ run.step = "idle"
        /\ run'.step = "patch" /\ run'.before = svc
        /\ run'.after = [svc EXCEPT !.state = "ERROR"]
    BY <1>1, <1>i, <1>h DEF StartBlocked, storeVars
  <2>2. run'.after.instance = svc.instance /\ run'.after.finalizer = svc.finalizer
    BY <1>t, <2>1 DEF Service
  <2> QED BY <1>u, <2>1, <2>2 DEF Keeper
<1>2. CASE Start
  <2>1. UNCHANGED <<svc, vms>> /\ run.step = "idle" /\ svc.obj = "live"
    BY <1>2, <1>i DEF Start, storeVars
  <2>2. CASE Dispatch(svc, svc)
    <3>1. /\ run'.before = svc /\ run'.after.instance = svc.instance
          /\ run'.after.finalizer = svc.finalizer /\ run'.step # "removeFinalizer"
      BY <1>t, <1>x, <2>2 DEF SameStatus
    <3> QED BY <1>u, <2>1, <3>1 DEF Keeper
  <2>3. CASE Begin("addFinalizer", svc, [svc EXCEPT !.finalizer = TRUE])
    <3>1. /\ run'.before = svc /\ run'.step = "addFinalizer"
          /\ run'.after.finalizer
      BY <1>h, <1>t, <2>3 DEF Service
    <3> QED BY <1>u, <2>1, <3>1 DEF Keeper
  <2> QED BY <1>2, <1>i, <2>2, <2>3 DEF Start
<1>3. CASE AddFinalizer
  <2>1. /\ UNCHANGED vms /\ run.step = "addFinalizer" /\ run.after.finalizer
        /\ SameStatus(run.after, run.before)
    BY <1>3, <1>i DEF AddFinalizer, RunStatusInv, Untouched
  <2>2. CASE /\ svc.obj = "live" /\ Dispatch(run.before, run.after)
             /\ svc' = MergePatch(svc, run.before, run.after)
    <3>1. /\ run'.after.instance = svc.instance /\ run'.after.finalizer
          /\ run'.step # "removeFinalizer"
      BY <1>t, <1>i, <1>x, <2>1, <2>2 DEF SameStatus
    <3>2. svc'.obj = "live" /\ svc'.finalizer
      BY <1>t, <1>i, <2>1, <2>2, MergePatchKeeps
    <3>3. svc'.instance = svc.instance
      <4>1. SameStatus(svc', run.after)
        BY <1>t, <1>i, <2>1, <2>2, <3>2, MergePatchStatus, NoServiceStatus
      <4> QED BY <1>i, <2>1, <2>2, <4>1 DEF SameStatus
    <3> QED BY <1>u, <2>1, <2>2, <3>1, <3>2, <3>3 DEF Keeper
  <2>3. CASE svc.obj # "live" /\ Goto("patch", run.after)
    <3>1. \A v \in VM : ~Running(v)
      BY <1>i, <2>3
    <3> QED BY <1>g, <1>n, <1>r, <2>1, <2>3, <3>1
  <2> QED BY <1>3, <1>f, <2>2, <2>3 DEF AddFinalizer, Fails
<1>4. CASE DeleteObject
  <2>1. /\ UNCHANGED vms /\ run.step = "deleteObject"
        /\ run'.before = run.before /\ run'.after = run.after
        /\ run'.step \in {"deleteVM", "patch"}
    BY <1>4, <1>g DEF DeleteObject
  <2>2. CASE svc.obj # "live"
    <3>1. \A v \in VM : ~Running(v)
      BY <1>i, <2>2
    <3> QED BY <1>n, <1>r, <2>1, <3>1
  <2>3. CASE svc.obj = "live" /\ svc' = MarkDeleted(svc) /\ run'.step = "deleteVM"
    <3>1. CASE \A v \in VM : ~Running(v)
      BY <1>n, <1>r, <2>1, <3>1
    <3>2. CASE svc'.obj = "live" /\ svc'.instance = svc.instance
      BY <1>u, <2>1, <2>3, <3>2 DEF Keeper
    <3> QED BY <1>k, <2>3, <3>1, <3>2
  <2> QED BY <1>4, <1>f, <1>g, <2>2, <2>3 DEF DeleteObject, Fails
<1>5. CASE DeleteVM
  <2>1. /\ run.step = "deleteVM" /\ UNCHANGED svc /\ CleanupVM(run.after.instance)
        /\ run'.step \in {"removeFinalizer", "patch"}
    BY <1>5, <1>f, <1>g DEF DeleteVM
  <2>2. ASSUME NEW v \in VM, Running(v)'
        PROVE  FALSE
    <3>1. vms'[v] = IF v = run.after.instance /\ Listed(v)
                      THEN [vms[v] EXCEPT !.status = "dying"] ELSE vms[v]
      BY <2>1 DEF CleanupVM
    <3>2. CASE v = run.after.instance /\ Listed(v)
      <4>1. vms'[v].status = "dying"
        BY <1>t, <3>1, <3>2
      <4> QED BY <2>2, <4>1 DEF Running
    <3>3. CASE Running(v)
      <4>1. svc.obj = "live" /\ v = svc.instance
        BY <1>i, <2>1, <3>3 DEF Keeper
      <4>2. v = run.after.instance
        BY <1>i, <2>1, <4>1 DEF RunStatusInv, Untouched, SameStatus
      <4> QED BY <3>2, <3>3, <4>2 DEF Listed, Running
    <3> QED BY <2>2, <3>1, <3>2, <3>3 DEF Running
  <2> QED BY <1>n, <2>1, <2>2
<1>6. CASE RemoveFinalizer
  <2>1. /\ run.step = "removeFinalizer" /\ UNCHANGED vms
        /\ run'.step \in {"idle", "patch"}
    BY <1>6, <1>g, IdleFacts DEF RemoveFinalizer
  <2> QED BY <1>i, <1>n, <1>r, <2>1
<1>7. CASE Adopt \/ CreateVMFails
  <2>1. /\ run.step = "createVM" /\ UNCHANGED vms
        /\ run'.step \in {"getVM", "patch"}
    BY <1>7, <1>g DEF Adopt, CreateVMFails
  <2>2. svc.instance = NoVM
    BY <1>i, <2>1 DEF RunStatusInv, Untouched, SameStatus
  <2>3. \A v \in VM : ~Running(v)
    BY <1>i, <2>1, <2>2, StoreAssumption DEF Keeper
  <2> QED BY <1>n, <1>r, <2>1, <2>3
<1>8. CASE CreateVM
  <2> PICK v \in VM : /\ vms' = [vms EXCEPT ![v].status = "OTHER"]
                      /\ Goto("getVM", [run.after EXCEPT !.instance = v])
    BY <1>8, <1>f DEF CreateVM
  <2>1. /\ run.step = "createVM" /\ UNCHANGED svc
        /\ run'.step = "getVM" /\ run'.before = run.before
        /\ run'.after = [run.after EXCEPT !.instance = v]
        /\ \A w \in VM : ~Listed(w)
    BY <1>8, <1>g DEF CreateVM
  <2>2. run'.after.instance = v /\ run'.after.finalizer = run.after.finalizer
    BY <1>t, <2>1 DEF Service
  <2>3. \A w \in VM : Running(w)' => w = v
    BY <1>t, <2>1 DEF Running, Listed
  <2> QED BY <1>i, <2>1, <2>2, <2>3 DEF HeldInv, Keeper
<1>9. CASE GetVM
  <2>1. run.step = "getVM" /\ UNCHANGED <<svc, vms>>
    BY <1>9 DEF GetVM
  <2>2. ASSUME NEW a, Goto("patch", a), a.instance = run.after.instance,
               a.finalizer = run.after.finalizer
        PROVE  HeldInv'
    <3>1. /\ run'.step = "patch" /\ run'.before = run.before
          /\ run'.after.instance = run.after.instance
          /\ run'.after.finalizer = run.after.finalizer
      BY <1>g, <2>2
    <3> QED BY <1>u, <2>1, <3>1 DEF Keeper
  <2>3. \A s : /\ [run.after EXCEPT !.state = s].instance = run.after.instance
              /\ [run.after EXCEPT !.state = s].finalizer = run.after.finalizer
    BY <1>t DEF Service
  <2>4. /\ Served(run.after).instance = run.after.instance
        /\ Served(run.after).finalizer = run.after.finalizer
    BY <1>t DEF Served, Service
  <2>5. \/ Goto("patch", Served(run.after))
        \/ \E s : Goto("patch", [run.after EXCEPT !.state = s])
    BY <1>9 DEF GetVM
  <2> QED BY <2>2, <2>3, <2>4, <2>5
<1>10. CASE Patch
  <2>1. /\ run.step = "patch" /\ UNCHANGED vms /\ run' = Idle
        /\ svc' = MergePatch(svc, run.before, Carried(TRUE, TRUE))
    BY <1>10, <1>f DEF Patch
  <2>2. CASE \A v \in VM : ~Running(v)
    BY <1>n, <1>r, <2>1, <2>2, IdleFacts
  <2>3. CASE /\ svc.obj = "live" /\ svc.finalizer
             /\ ~(run.before.finalizer /\ ~run.after.finalizer)
    <3> DEFINE c == Carried(TRUE, TRUE)
    <3>1. /\ c \in Service /\ c.finalizer = run.after.finalizer
          /\ c.instance = run.after.instance
      BY <1>t, CarriedType DEF Carried, Service
    <3>2. svc' = MergePatch(svc, run.before, c) /\ SameStatus(svc, run.before)
      BY <1>i, <2>1, <2>3
    <3> HIDE DEF c
    <3>3. svc'.obj = "live"
      BY <1>t, <2>3, <3>1, <3>2, MergePatchKeeps DEF Service
    <3>4. svc'.instance = run.after.instance
      <4>1. svc' = Gone \/ SameStatus(svc', c)
        BY <1>t, <2>3, <3>1, <3>2, MergePatchStatus
      <4> QED BY <3>1, <3>3, <4>1, NoServiceStatus DEF SameStatus
    <3> QED BY <1>u, <2>1, <3>3, <3>4, IdleFacts DEF Keeper
  <2> QED BY <1>i, <2>2, <2>3
<1>11. CASE Crash \/ CatalogDown
  BY <1>11, <1>f DEF Crash, CatalogDown
<1>12. CASE \E e \in Time : CreateService(e)
  <2>1. /\ UNCHANGED <<run, vms>> /\ svc.obj = "none"
    BY <1>12 DEF CreateService
  <2>2. run = Idle /\ \A v \in VM : ~Running(v)
    BY <1>i, <2>1 DEF FinalizerInv, UntouchedInv
  <2> QED BY <1>n, <1>r, <2>1, <2>2, IdleFacts
<1>13. CASE DeleteService
  <2>1. UNCHANGED <<run, vms>> /\ svc.obj = "live" /\ svc' = MarkDeleted(svc)
    BY <1>13 DEF DeleteService
  <2>2. CASE svc'.obj = "live" /\ svc'.instance = svc.instance
    BY <1>i, <1>r, <2>1, <2>2 DEF HeldInv, Keeper
  <2>3. CASE (\A v \in VM : ~Running(v)) /\ run.step # "createVM"
    BY <1>n, <1>r, <2>1, <2>3
  <2> QED BY <1>i, <1>k, <2>1, <2>2, <2>3
<1>14. CASE (\E e \in Time : SetExpiry(e)) \/ (\E b \in BOOLEAN : SetPending(b))
  <2>1. /\ UNCHANGED <<run, vms>> /\ svc.obj = "live" /\ svc'.obj = "live"
        /\ svc'.instance = svc.instance
    BY <1>14, <1>t DEF SetExpiry, SetPending, Service
  <2> QED BY <1>i, <1>r, <2>1 DEF HeldInv, Keeper
<1>15. ASSUME NEW v \in VM, VMUp(v) \/ VMDisturbed(v) \/ VMVanishes(v)
       PROVE  HeldInv'
  <2>1. UNCHANGED <<svc, run>>
    BY <1>15 DEF VMUp, VMDisturbed, VMVanishes, storeVars
  <2>2. \A w \in VM : Running(w)' => Running(w)
    BY <1>15, <1>t DEF VMUp, VMDisturbed, VMVanishes, Running
  <2> QED BY <1>i, <2>1, <2>2 DEF HeldInv, Keeper
<1>16. CASE CatalogUp \/ RetireCatalog \/ Tick \/ InformerSync \/ UNCHANGED vars
  <2>1. UNCHANGED <<svc, run, vms>>
    BY <1>16 DEF CatalogUp, RetireCatalog, Tick, InformerSync, vars, storeVars
  <2> QED BY <1>i, <1>r, <2>1 DEF HeldInv, Keeper
<1> QED
  BY <1>1, <1>2, <1>3, <1>4, <1>5, <1>6, <1>7, <1>8, <1>9, <1>10, <1>11, <1>12,
     <1>13, <1>14, <1>15, <1>16
  DEF Next, Controller, Reconcile, World, Users

\* While the cache does not lag and as long as no call was lost, an object that
\* is gone has left no VM running: without an instance id there is nothing to
\* clean up, as VM.Delete claims. (With a lost call there may be; see README.)
THEOREM CleanedUp ==
  ASSUME CacheLag = FALSE
  PROVE  Spec => []NothingLeftBehind
<1>1. Init => HeldInv
  <2> SUFFICES ASSUME Init PROVE HeldInv
    OBVIOUS
  <2>1. /\ svc = NoService /\ run = Idle /\ \A v \in VM : ~Running(v)
    BY DEF Init, StoreInit, Running
  <2> QED BY <2>1, IdleFacts DEF HeldInv
<1>2. ASSUME TypeOK, FinalizerInv, StatusInv, faults = 0 => HeldInv, [Next]_vars, faults' = 0
      PROVE  HeldInv'
  <2>1. faults = 0
    BY <1>2, Counters DEF TypeOK, StoreTypeOK
  <2> QED BY <1>2, <2>1, StepHeld
<1>3. /\ TypeOK /\ FinalizerInv /\ StatusInv /\ (faults = 0 => HeldInv) /\ [Next]_vars
      => (faults = 0 => HeldInv)'
  BY <1>2
<1>4. (faults = 0 => HeldInv) => NothingLeftBehind
  BY DEF HeldInv, NothingLeftBehind
<1> QED BY <1>1, <1>3, <1>4, StatusInvariant, PTL DEF Spec

-------------------------------------------------------------------------------
(***************************************************************************)
(* With lost calls too: a run that is to take the finalizer off has seen   *)
(* the VM that the status names deleted.                                   *)
(***************************************************************************)
ClearedInv ==
  run.step = "removeFinalizer" \/ (run.before.finalizer /\ ~run.after.finalizer) =>
    \A v \in VM : v = run.before.instance => ~Running(v)

LEMMA StepCleared ==
  ASSUME TypeOK, FinalizerInv, StatusInv, ClearedInv, [Next]_vars
  PROVE  ClearedInv'
<1>t. /\ svc \in Service /\ run \in Run
      /\ run.before \in Service /\ run.after \in Service
      /\ vms \in [VM -> [status : VMStatus, active : Time \union {Unset}]]
  BY DEF TypeOK, StoreTypeOK, Run
<1>f. FinalizerInv' /\ TypeOK'
  BY StepFinalizer, StepType
<1>1. CASE DeleteVM
  <2>1. SameStatus(run.after, run.before) /\ run'.before = run.before
    BY <1>1, <1>t DEF DeleteVM, StatusInv, RunStatusInv, Untouched, Goto, Run
  <2>2. CASE CleanupVM(run.after.instance)
    <3>1. \A v \in VM : v = run.after.instance => ~Running(v)'
      BY <1>t, <2>2 DEF CleanupVM, Running, Listed, VMStatus
    <3> QED BY <2>1, <3>1 DEF ClearedInv, SameStatus
  <2>3. CASE UNCHANGED vms /\ Goto("patch", run.after)
    <3>1. run'.after = run.after /\ run'.step = "patch"
      BY <1>t, <2>3 DEF Goto, Run
    <3> QED BY <2>1, <2>3, <3>1 DEF ClearedInv, Running
  <2> QED BY <1>1, <2>2, <2>3 DEF DeleteVM
<1>2. CASE RemoveFinalizer
  <2>1. run.step = "removeFinalizer" /\ UNCHANGED vms
    BY <1>2 DEF RemoveFinalizer
  <2>2. run' = Idle \/ run'.before = run.before
    BY <1>2, <1>t DEF RemoveFinalizer, Goto, Run
  <2> QED BY <2>1, <2>2, IdleFacts DEF ClearedInv, Running
<1>3. CASE UNCHANGED run
  <2>1. \A v \in VM : Running(v)' => Running(v)
    <3>1. CASE DeleteVM \/ CreateVM
      <4>1. run'.step \in {"removeFinalizer", "patch", "getVM"} /\ run.step \in {"deleteVM", "createVM"}
        BY <3>1, <1>t DEF DeleteVM, CreateVM, Goto, Run
      <4> QED BY <1>3, <4>1
    <3>2. ASSUME NEW w \in VM, VMUp(w) \/ VMDisturbed(w) \/ VMVanishes(w)
          PROVE  \A v \in VM : Running(v)' => Running(v)
      BY <1>t, <3>2 DEF VMUp, VMDisturbed, VMVanishes, Running
    <3>3. CASE UNCHANGED vms
      BY <3>3 DEF Running
    <3> QED BY <3>1, <3>2, <3>3, VMsWritten
  <2> QED BY <1>3, <2>1 DEF ClearedInv
<1>4. CASE run' = Idle
  BY <1>4, IdleFacts DEF ClearedInv
\* The steps that lead elsewhere leave the finalizer of the copy alone, or set it.
<1>5. ASSUME run'.step # "removeFinalizer", run'.before.finalizer => run'.after.finalizer
      PROVE  ClearedInv'
  BY <1>5 DEF ClearedInv
<1>g. ASSUME NEW s, NEW a, Goto(s, a)
      PROVE  run'.step = s /\ run'.before = run.before /\ run'.after = a
  BY <1>g, <1>t DEF Goto, Run
<1>d. ASSUME NEW o \in Service, NEW a \in Service, Dispatch(o, a), SameStatus(a, o),
             o.finalizer => a.finalizer
      PROVE  ClearedInv'
  <2>1. /\ run'.before = o
        /\ run'.step \in {"patch", "deleteVM", "deleteObject", "createVM", "getVM"}
        /\ \/ run'.after = a
           \/ run'.after = [a EXCEPT !.state = "EXPIRED"]
           \/ run'.after = [a EXCEPT !.state = "NEW"]
    BY <1>d, DispatchStatus
  <2>2. run'.after.finalizer = a.finalizer
    BY <2>1 DEF Service
  <2> QED BY <1>5, <1>d, <2>1, <2>2
<1>o. Observed \in Service
  BY DEF TypeOK, StoreTypeOK, Observed
<1>6. CASE StartBlocked
  <2>1. /\ run'.step = "patch" /\ run'.before = Observed
        /\ run'.after = [Observed EXCEPT !.state = "ERROR"]
    BY <1>6 DEF StartBlocked, Begin
  <2> QED BY <1>5, <1>o, <2>1 DEF Service
<1>7. CASE Start
  <2>1. CASE Begin("addFinalizer", Observed, [Observed EXCEPT !.finalizer = TRUE])
    <3>1. /\ run'.step = "addFinalizer"
          /\ run'.after = [Observed EXCEPT !.finalizer = TRUE]
      BY <2>1 DEF Begin
    <3> QED BY <1>5, <1>o, <3>1 DEF Service
  <2>2. CASE Dispatch(Observed, Observed)
    BY <1>d, <1>o, <2>2 DEF SameStatus
  <2> QED BY <1>7, <2>1, <2>2 DEF Start
<1>8. CASE AddFinalizer
  <2>1. /\ SameStatus(run.after, run.before) /\ run.after.finalizer
    BY <1>8 DEF AddFinalizer, StatusInv, RunStatusInv, Untouched, FinalizerInv, RunInv
  <2>2. CASE Dispatch(run.before, run.after)
    BY <1>d, <1>t, <2>1, <2>2
  <2>3. CASE Goto("patch", run.after)
    <3>1. run'.step = "patch" /\ run'.after = run.after
      BY <1>g, <2>3
    <3> QED BY <1>5, <2>1, <3>1
  <2> QED BY <1>8, <2>2, <2>3 DEF AddFinalizer
<1>9. CASE DeleteObject \/ Adopt \/ CreateVM \/ CreateVMFails \/ GetVM
  <2>1. run.before.finalizer => run.after.finalizer
    BY <1>9
    DEF DeleteObject, Adopt, CreateVM, CreateVMFails, GetVM, FinalizerInv, RunInv
  <2>2. \E s \in {"deleteVM", "patch", "getVM"}, a \in Service :
          a.finalizer = run.after.finalizer /\ Goto(s, a)
    <3>1. CASE DeleteObject
      BY <1>t, <3>1 DEF DeleteObject
    <3>2. ASSUME NEW v \in VM, NEW s \in ServiceState
          PROVE  /\ [run.after EXCEPT !.instance = v] \in Service
                 /\ [run.after EXCEPT !.instance = v].finalizer = run.after.finalizer
                 /\ [run.after EXCEPT !.state = s] \in Service
                 /\ [run.after EXCEPT !.state = s].finalizer = run.after.finalizer
      BY <1>t DEF Service
    <3>3. Served(run.after) \in Service /\ Served(run.after).finalizer = run.after.finalizer
      <4>1. Served(run.after) \in Service
        BY <1>t, ServedType DEF TypeOK, StoreTypeOK
      <4> QED BY <1>t, <4>1 DEF Served, Service
    <3>4. \A s \in ServiceState :
             /\ [run.after EXCEPT !.state = s] \in Service
             /\ [run.after EXCEPT !.state = s].finalizer = run.after.finalizer
      BY <1>t DEF Service
    <3>5. CASE Adopt \/ CreateVM \/ CreateVMFails
      BY <3>2, <3>4, <3>5 DEF Adopt, CreateVM, CreateVMFails, ServiceState
    <3>6. CASE GetVM
      BY <3>3, <3>4, <3>6 DEF GetVM, ServiceState
    <3> QED BY <1>9, <3>1, <3>5, <3>6
  <2> PICK s \in {"deleteVM", "patch", "getVM"}, a \in Service :
         a.finalizer = run.after.finalizer /\ Goto(s, a)
    BY <2>2
  <2>3. run'.step = s /\ run'.before = run.before /\ run'.after = a
    BY <1>g
  <2> QED BY <1>5, <2>1, <2>3
<1> QED
  BY <1>1, <1>2, <1>3, <1>4, <1>6, <1>7, <1>8, <1>9
  DEF Next, Controller, Reconcile, World, Users, vars, storeVars, Patch, Crash,
      InformerSync, VMUp, VMDisturbed, VMVanishes, CatalogDown, CatalogUp,
      RetireCatalog, Tick, CreateService, DeleteService, SetExpiry, SetPending

\* While the cache does not lag, no failure makes the object go while the VM its
\* status names is running.
THEOREM RecordedCleaned ==
  ASSUME CacheLag = FALSE
  PROVE  Spec => RecordedVMCleaned
<1>1. Init => ClearedInv
  <2> SUFFICES ASSUME Init PROVE ClearedInv
    OBVIOUS
  <2> QED BY IdleFacts DEF Init, ClearedInv
<1>2. ASSUME TypeOK, FinalizerInv, StatusInv, ClearedInv, [Next]_vars,
             svc.obj = "live", svc'.obj = "gone", NEW v \in VM, v = svc.instance
      PROVE  ~Running(v)
  <2>t. /\ svc \in Service /\ run \in Run
        /\ run.before \in Service /\ run.after \in Service
    BY <1>2 DEF TypeOK, StoreTypeOK, Run
  <2>i. /\ run.step # "idle" => SameStatus(svc, run.before)
        /\ svc.deleting => svc.finalizer
        /\ Running(v) => svc.finalizer
        /\ run.step = "addFinalizer" => run.after.finalizer
    BY <1>2 DEF StatusInv, FinalizerInv, FinalizerBeforeVM, RunInv
  <2>g. NoService.obj # "gone"
    BY NoServiceStatus
  <2>1. CASE svc' = MarkDeleted(svc)
    BY <1>2, <2>1, <2>i, <2>t DEF MarkDeleted, Settle, Service
  <2>2. CASE RemoveFinalizer
    BY <1>2, <2>2, <2>i DEF RemoveFinalizer, ClearedInv, SameStatus
  <2>3. ASSUME NEW a \in Service, svc' = MergePatch(svc, run.before, a)
        PROVE  run.before.finalizer /\ ~a.finalizer
    BY <1>2, <2>3, <2>i, <2>t DEF MergePatch, Merged, Settle, Service
  <2>4. CASE AddFinalizer
    <3>1. UNCHANGED svc \/ svc' = MergePatch(svc, run.before, run.after)
      BY <2>4 DEF AddFinalizer
    <3> QED BY <1>2, <2>3, <2>4, <2>i, <2>t, <3>1 DEF AddFinalizer
  <2>5. CASE Patch
    <3> PICK meta \in BOOLEAN, status \in BOOLEAN :
          svc' = MergePatch(svc, run.before, Carried(meta, status))
      BY <2>5 DEF Patch
    <3>1. Carried(meta, status) \in Service
      BY <2>t, CarriedType
    <3>2. run.before.finalizer /\ ~Carried(meta, status).finalizer
      BY <2>3, <3>1
    <3>3. run.before.finalizer /\ ~run.after.finalizer
      BY <2>t, <3>2 DEF Carried, Service
    <3> QED BY <1>2, <2>5, <2>i, <3>3 DEF Patch, ClearedInv, SameStatus
  <2>6. CASE svc'.obj # "gone" \/ UNCHANGED svc
    BY <1>2, <2>6
  <2>7. ASSUME NEW e, svc' = [svc EXCEPT !.expiry = e] \/ svc' = [svc EXCEPT !.pending = e]
        PROVE  UNCHANGED svc.obj
    BY <2>7, <2>t DEF Service
  <2> QED
    BY <1>2, <2>1, <2>2, <2>4, <2>5, <2>6, <2>7
    DEF Next, Controller, Reconcile, World, Users, vars, storeVars, StartBlocked, Start,
        DeleteObject, DeleteVM, Adopt, CreateVM, CreateVMFails, GetVM, Crash,
        InformerSync, VMUp, VMDisturbed, VMVanishes, CatalogDown, CatalogUp,
        RetireCatalog, Tick, CreateService, DeleteService, SetExpiry, SetPending
<1>3. TypeOK /\ FinalizerInv /\ StatusInv /\ ClearedInv /\ [Next]_vars => ClearedInv'
  BY StepCleared
<1>4. TypeOK /\ FinalizerInv /\ StatusInv /\ ClearedInv /\ [Next]_vars =>
        [svc.obj = "live" /\ svc'.obj = "gone" =>
           \A v \in VM : v = svc.instance => ~Running(v)]_vars
  BY <1>2
<1> QED BY <1>1, <1>3, <1>4, StatusInvariant, PTL DEF Spec, RecordedVMCleaned

===============================================================================
