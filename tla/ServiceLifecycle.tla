--------------------------- MODULE ServiceLifecycle ---------------------------
(***************************************************************************)
(* The life of a service: the PAC controller and the request handlers of   *)
(* pac-go-server, which meet in the Service object. The controller reads   *)
(* the expiry and the annotation; the handlers write them. Everything the  *)
(* controller guarantees in the weakest environment it guarantees here,    *)
(* since this specification implements the one of ServiceController.       *)
(***************************************************************************)
EXTENDS ServiceController, ExpiryRequests, FiniteSets

\* The users of ServiceController are those who may edit the service.
ASSUME LifecycleAssumption == MayEdit = TRUE

lifecycleVars == <<svc, catalog, now, faults, cached, run, vms, reqs, http, errors,
                   amiss>>

LifecycleInit == Init /\ RequestsInit

HandlersAct == Handlers /\ UNCHANGED <<catalog, now, faults, cached, run, vms>>

Others ==
  /\ \/ Controller
     \/ World
     \/ \E e \in Time : e >= now /\ CreateService(e)
     \/ DeleteService
  /\ UNCHANGED requestVars

LifecycleNext == HandlersAct \/ Others

LifecycleSpec == LifecycleInit /\ [][LifecycleNext]_lifecycleVars

(***************************************************************************)
(* A handler that runs goes on to its end; whether an administrator ever   *)
(* decides, or a user ever asks, is left open.                             *)
(***************************************************************************)
LifecycleFairness ==
  /\ WF_lifecycleVars(Reconcile /\ UNCHANGED requestVars)
  /\ WF_lifecycleVars(InformerSync /\ UNCHANGED requestVars)
  /\ WF_lifecycleVars(CatalogUp /\ UNCHANGED requestVars)
  /\ WF_lifecycleVars(Tick /\ UNCHANGED requestVars)
  /\ \A v \in VM : WF_lifecycleVars(VMVanishes(v) /\ UNCHANGED requestVars)
  /\ \A t \in Thread :
       WF_lifecycleVars(Resume(t) /\ UNCHANGED <<catalog, now, faults, cached, run, vms>>)

FairLifecycleSpec == LifecycleSpec /\ LifecycleFairness

-------------------------------------------------------------------------------
\* Every variable holds a value of its type, in the composition too.
LifecycleTypeOK == TypeOK /\ RequestsTypeOK

\* The handlers are users the controller was checked against: they move the
\* expiry and the annotation of a live service, and touch nothing of its status.
ImplementsController == Spec

(***************************************************************************)
(* UpdateServiceExpiryRequest refuses a second request while one is open,  *)
(* but looks and inserts in two calls: as many requests can be open as     *)
(* handlers run at once, and never more, however many are asked, decided   *)
(* or withdrawn, and whichever handlers fail.                              *)
(***************************************************************************)
OpenRequestsBounded == Cardinality(Opened) <= Cardinality(Thread)

(***************************************************************************)
(* Between two handlers the annotation the controller goes by says exactly *)
(* whether a request is open in MongoDB, unless two handlers met, one      *)
(* failed halfway, an open request was withdrawn or a decided one was      *)
(* approved: nothing else sets the two stores apart.                       *)
(***************************************************************************)
DriftNeedsMishap ==
  AllReady /\ svc.obj = "live" /\ amiss = {} => (svc.pending <=> Opened # {})

(***************************************************************************)
(* The expiry the user was promised never moves back: what was checked at  *)
(* the time of asking still holds at the time of approving, whatever       *)
(* failed or was withdrawn in between, unless two handlers met or a        *)
(* decided request was approved.                                           *)
(***************************************************************************)
ShorteningNeedsRace ==
  [][svc.obj = "live" /\ svc'.obj = "live" /\ svc'.expiry < svc.expiry
     => amiss' \intersect {"met", "again"} # {}]_lifecycleVars

\* A service past its expiry with no open request eventually loses its VM,
\* unless something came between the handlers that can leave the annotation set.
ExpiryTakesEffect ==
  svc.obj = "live" /\ now > svc.expiry /\ Opened = {}
    ~> \/ \A v \in VM : ~Running(v)
       \/ now <= svc.expiry
       \/ Opened # {}
       \/ amiss # {}

===============================================================================
