----------------------------- MODULE ServiceStore -----------------------------
(***************************************************************************)
(* The Kubernetes side of one PAC service, shared by the controller and by *)
(* the API server: the Service object, the catalog it is made from, the    *)
(* clock, and the operations of the Kubernetes API server the two programs *)
(* use on the Service.                                                     *)
(*                                                                         *)
(* One service is enough: the controller's work queue handles the services *)
(* one by one under their names, and two services meet only in a catalog,  *)
(* which here changes by itself.                                           *)
(***************************************************************************)
EXTENDS Naturals

CONSTANTS
  VM,          \* the instance ids PowerVS can hand out for this service
  NoVM,        \* the empty status.vm.instance_id
  MaxTime,     \* bound on the clock
  MaxFaults    \* bound on the number of disturbances (lost calls, crashes, ...)

ASSUME StoreAssumption ==
  /\ NoVM \notin VM
  /\ MaxTime \in Nat
  /\ MaxFaults \in Nat

VARIABLES
  svc,         \* the Service object in the Kubernetes API server
  catalog,     \* spec.retired and status.ready of its catalog
  now,         \* the clock
  faults       \* how many disturbances happened so far

storeVars == <<svc, catalog, now, faults>>

Time == 0 .. MaxTime
Unset == MaxTime + 1          \* a nil status.vm.created_at

ServiceState ==
  {"", "NEW", "IN_PROGRESS", "CREATED", "ERROR", "FAILED", "EXPIRED"}

(***************************************************************************)
(* obj says whether the object exists: names are random, a deleted service *)
(* never comes back. pending is the pending-extension-request annotation.  *)
(***************************************************************************)
Service ==
  [obj        : {"none", "live", "gone"},
   deleting   : BOOLEAN,
   finalizer  : BOOLEAN,
   pending    : BOOLEAN,
   expiry     : Time,
   state      : ServiceState,
   instance   : VM \union {NoVM},
   createdAt  : Time \union {Unset},
   successful : BOOLEAN]

Blank(o) ==
  [obj |-> o, deleting |-> FALSE, finalizer |-> FALSE, pending |-> FALSE,
   expiry |-> 0, state |-> "", instance |-> NoVM, createdAt |-> Unset,
   successful |-> FALSE]

NoService == Blank("none")
Gone == Blank("gone")

(***************************************************************************)
(* The API server removes an object marked for deletion once no finalizer  *)
(* is left on it.                                                          *)
(***************************************************************************)
Settle(o) == IF o.deleting /\ ~o.finalizer THEN Gone ELSE o

MarkDeleted(o) == Settle([o EXCEPT !.deleting = TRUE])

(***************************************************************************)
(* A JSON merge patch, as the cluster-api patch helper sends it: only what *)
(* differs between the object as it was read and the object as it is now   *)
(* in memory is written, whatever happened to the stored object meanwhile. *)
(***************************************************************************)
Merged(stored, before, after) == IF after = before THEN stored ELSE after

MergePatch(o, before, after) ==
  IF o.obj # "live" THEN o ELSE Settle(
    [o EXCEPT !.finalizer  = Merged(@, before.finalizer, after.finalizer),
              !.state      = Merged(@, before.state, after.state),
              !.instance   = Merged(@, before.instance, after.instance),
              !.createdAt  = Merged(@, before.createdAt, after.createdAt),
              !.successful = Merged(@, before.successful, after.successful)])

-------------------------------------------------------------------------------

StoreInit ==
  /\ svc = NoService
  /\ catalog = [retired |-> FALSE, ready |-> TRUE]
  /\ now = 0
  /\ faults = 0

StoreTypeOK ==
  /\ svc \in Service
  /\ catalog \in [retired : BOOLEAN, ready : BOOLEAN]
  /\ now \in Time
  /\ faults \in 0 .. MaxFaults

\* One of the bounded disturbances happens in this step.
Fault ==
  /\ faults < MaxFaults
  /\ faults' = faults + 1

\* A call fails for a reason the model knows, or by a disturbance.
Fails(reason) == (reason /\ UNCHANGED faults) \/ Fault

===============================================================================
