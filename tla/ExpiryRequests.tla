---------------------------- MODULE ExpiryRequests ----------------------------
(***************************************************************************)
(* The service-expiry requests of pac-go-server (services/request.go): a   *)
(* user asks for a later expiry, an administrator approves or rejects. A   *)
(* request is a document in MongoDB; an open one must show on the Service  *)
(* as the pending-extension annotation, which keeps the controller from    *)
(* expiring the service. No transaction spans the two stores, so a handler *)
(* is a sequence of steps, one for each call to a store, and the gin       *)
(* server runs any number of handlers at once.                             *)
(*                                                                         *)
(* kubeClient reads and updates the Service with its resourceVersion: the  *)
(* update either applies to what was read or fails, so that each of its    *)
(* methods is one step here.                                               *)
(***************************************************************************)
EXTENDS ServiceStore

CONSTANTS
  Request,        \* the ids MongoDB can hand out
  NoRequest,
  Thread,         \* the handlers that may run at once
  MaxExtension,   \* six months
  MaxErrors,      \* bound on the number of failed calls and abandoned handlers
  MayWithdraw,    \* may a request be deleted?
  MayReapprove    \* may a request that is not open be approved?

ASSUME RequestsAssumption ==
  /\ NoRequest \notin Request
  /\ MaxExtension \in Nat
  /\ MaxErrors \in Nat
  /\ MayWithdraw \in BOOLEAN
  /\ MayReapprove \in BOOLEAN

VARIABLES
  reqs,           \* the collection "requests" of MongoDB, for this service
  http,           \* what each handler is about to do
  errors,         \* how many calls failed so far
  amiss           \* what came between the handlers; not in the code, and
                  \* read by the properties only

requestVars == <<reqs, http, errors, amiss>>

RequestState == {"none", "NEW", "APPROVED", "REJECTED", "deleted"}
Stored(r) == reqs[r].state \in {"NEW", "APPROVED", "REJECTED"}
Open(r) == reqs[r].state = "NEW"
Opened == {r \in Request : Open(r)}

HandlerStep == {"ready", "askLookup", "askInsert", "askAnnotate",
                "approveExtend", "approveClear", "approveMark",
                "rejectMark", "rejectClear"}

Ready == [step |-> "ready", req |-> NoRequest, expiry |-> 0]
AllReady == \A t \in Thread : http[t] = Ready

At(t, step) == http[t].step = step
Starts(t, step, r, e) ==
  http' = [http EXCEPT ![t] = [step |-> step, req |-> r, expiry |-> e]]
Then(t, step) == http' = [http EXCEPT ![t].step = step]
Done(t) == http' = [http EXCEPT ![t] = Ready]
SetState(r, s) == reqs' = [reqs EXCEPT ![r].state = IF Stored(r) THEN s ELSE @]

Error ==
  /\ errors < MaxErrors
  /\ errors' = errors + 1

(***************************************************************************)
(* What may come between the look of a handler and its last write:         *)
(*   "met"        another handler writes after the look-up; a new expiry   *)
(*                is in the way even of one that has only begun;           *)
(*   "failed"     a handler ends between the write to one store and the    *)
(*                write to the other;                                      *)
(*   "withdrawn"  the document of an open request is deleted;              *)
(*   "again"      a request decided already is approved.                   *)
(***************************************************************************)
Mishap == {"met", "failed", "withdrawn", "again"}

Halfway(t) == http[t].step \in {"askAnnotate", "approveMark", "rejectClear"}
Midway(t) == http[t].step \notin {"ready", "askLookup"}
Note(causes) == amiss' = amiss \union causes
Met(t) == {c \in {"met"} : \E u \in Thread \ {t} : Midway(u)}
MetAny(t) == {c \in {"met"} : \E u \in Thread \ {t} : ~At(u, "ready")}

-------------------------------------------------------------------------------
\* Mutant: an earlier expiry may be asked for.
AskStartAny(t, e) ==
  /\ At(t, "ready")
  /\ svc.obj = "live"
  /\ now <= svc.expiry
  /\ e <= svc.expiry + MaxExtension
  /\ ~catalog.retired
  /\ Starts(t, "askLookup", NoRequest, e)
  /\ UNCHANGED <<svc, reqs, errors, amiss>>

(***************************************************************************)
(* UpdateServiceExpiryRequest: the service must not be expired, the new    *)
(* expiry lies between the current one and six months later, the catalog   *)
(* is not retired, and the service has no open request.                    *)
(***************************************************************************)
AskStart(t, e) ==
  /\ At(t, "ready")
  /\ svc.obj = "live"
  /\ now <= svc.expiry
  /\ svc.expiry <= e /\ e <= svc.expiry + MaxExtension
  /\ ~catalog.retired
  /\ Starts(t, "askLookup", NoRequest, e)
  /\ UNCHANGED <<svc, reqs, errors, amiss>>

\* Mutant: the open requests are not looked at.
AskLookupBlind(t) ==
  /\ At(t, "askLookup")
  /\ Then(t, "askInsert")
  /\ UNCHANGED <<svc, reqs, errors, amiss>>

AskLookup(t) ==
  /\ At(t, "askLookup")
  /\ IF \E r \in Request : Open(r) THEN Done(t) ELSE Then(t, "askInsert")
  /\ UNCHANGED <<svc, reqs, errors, amiss>>

AskInsert(t, r) ==
  /\ At(t, "askInsert")
  /\ reqs[r].state = "none"
  /\ reqs' = [reqs EXCEPT ![r] = [state |-> "NEW", expiry |-> http[t].expiry]]
  /\ Then(t, "askAnnotate")
  /\ Note(Met(t))
  /\ UNCHANGED <<svc, errors>>

\* Mutant: the extension brings the service back.
ExtendRevives(e) == svc' = [svc EXCEPT !.expiry = e, !.state = "CREATED"]

\* UpdateServicePendingExtensionRequestAnnotation, and UpdateServiceExpiry.
Annotate(b) == svc' = IF svc.obj = "live" THEN [svc EXCEPT !.pending = b] ELSE svc
Extend(e) == svc' = [svc EXCEPT !.expiry = e]

AskAnnotate(t) ==
  /\ At(t, "askAnnotate")
  /\ Annotate(TRUE)
  /\ Done(t)
  /\ Note(Met(t))
  /\ UNCHANGED <<reqs, errors>>

(***************************************************************************)
(* ApproveRequest: whatever state the request is in, the service gets the  *)
(* expiry the request names and loses the annotation, and the request is   *)
(* marked. A failure to clear the annotation is only logged.               *)
(***************************************************************************)
ApproveStart(t, r) ==
  /\ At(t, "ready")
  /\ Stored(r)
  /\ \/ Open(r) /\ Note({})
     \/ ~Open(r) /\ MayReapprove /\ Note({"again"})
  /\ Starts(t, "approveExtend", r, reqs[r].expiry)
  /\ UNCHANGED <<svc, reqs, errors>>

ApproveExtend(t) ==
  /\ At(t, "approveExtend")
  /\ \/ /\ svc.obj = "live"
        /\ Extend(http[t].expiry)
        /\ Then(t, "approveClear")
        /\ Note(MetAny(t))
     \/ svc.obj # "live" /\ Done(t) /\ UNCHANGED <<svc, amiss>>
  /\ UNCHANGED <<reqs, errors>>

\* Mutant: the annotation is forgotten.
ApproveKeeps(t) ==
  /\ At(t, "approveClear")
  /\ Then(t, "approveMark")
  /\ UNCHANGED <<svc, reqs, errors, amiss>>

ApproveClear(t) ==
  /\ At(t, "approveClear")
  /\ \/ Annotate(FALSE) /\ Note(Met(t)) /\ UNCHANGED errors
     \/ Error /\ Note({"failed"}) /\ UNCHANGED svc
  /\ Then(t, "approveMark")
  /\ UNCHANGED reqs

ApproveMark(t) ==
  /\ At(t, "approveMark")
  /\ SetState(http[t].req, "APPROVED")
  /\ Done(t)
  /\ Note(Met(t))
  /\ UNCHANGED <<svc, errors>>

\* RejectRequest looks at the state first, and marks before it clears.
RejectStart(t, r) ==
  /\ At(t, "ready")
  /\ Open(r)
  /\ Starts(t, "rejectMark", r, 0)
  /\ UNCHANGED <<svc, reqs, errors, amiss>>

RejectMark(t) ==
  /\ At(t, "rejectMark")
  /\ SetState(http[t].req, "REJECTED")
  /\ Then(t, "rejectClear")
  /\ Note(Met(t))
  /\ UNCHANGED <<svc, errors>>

\* Mutant: the annotation is forgotten.
RejectKeeps(t) ==
  /\ At(t, "rejectClear")
  /\ Done(t)
  /\ UNCHANGED <<svc, reqs, errors, amiss>>

RejectClear(t) ==
  /\ At(t, "rejectClear")
  /\ Annotate(FALSE)
  /\ Done(t)
  /\ Note(Met(t))
  /\ UNCHANGED <<reqs, errors>>

\* DeleteRequest, for the user who asked or for an administrator. Only the
\* document goes.
Withdraw(t, r) ==
  /\ MayWithdraw
  /\ At(t, "ready")
  /\ Stored(r)
  /\ reqs' = [reqs EXCEPT ![r].state = "deleted"]
  /\ Note(Met(t) \union {c \in {"withdrawn"} : Open(r)})
  /\ UNCHANGED <<svc, http, errors>>

\* A call to a store fails and the handler returns, or the server dies.
Abandon(t) ==
  /\ ~At(t, "ready")
  /\ Error
  /\ Done(t)
  /\ Note({c \in {"failed"} : Halfway(t)})
  /\ UNCHANGED <<svc, reqs>>

Resume(t) ==
  \/ AskLookup(t) \/ (\E r \in Request : AskInsert(t, r)) \/ AskAnnotate(t)
  \/ ApproveExtend(t) \/ ApproveClear(t) \/ ApproveMark(t)
  \/ RejectMark(t) \/ RejectClear(t)

Accept(t) ==
  \/ \E e \in Time : AskStart(t, e)
  \/ \E r \in Request : ApproveStart(t, r) \/ RejectStart(t, r) \/ Withdraw(t, r)

Handlers == \E t \in Thread : Accept(t) \/ Resume(t) \/ Abandon(t)

RequestsInit ==
  /\ reqs = [r \in Request |-> [state |-> "none", expiry |-> 0]]
  /\ http = [t \in Thread |-> Ready]
  /\ errors = 0
  /\ amiss = {}

RequestsTypeOK ==
  /\ reqs \in [Request -> [state : RequestState, expiry : Time]]
  /\ http \in [Thread -> [step : HandlerStep, req : Request \union {NoRequest},
                          expiry : Time]]
  /\ errors \in 0 .. MaxErrors
  /\ amiss \subseteq Mishap

===============================================================================
