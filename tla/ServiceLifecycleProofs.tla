------------------------ MODULE ServiceLifecycleProofs ------------------------
(***************************************************************************)
(* The request handlers and the controller together implement the          *)
(* specification of the controller alone, so that what is proved of it     *)
(* holds whatever requests are asked, approved, rejected or deleted, by    *)
(* any number of handlers at once. Of the requests themselves: no more are *)
(* open than handlers run, and request, annotation and expiry agree until  *)
(* handlers meet, fail halfway, or take an open request away.              *)
(***************************************************************************)
EXTENDS ServiceLifecycle, ServiceControllerProofs, FiniteSetTheorems

HandlerFrame == <<catalog, now, faults, cached, run, vms>>

\* A handler writes an expiry that a request names, which is a time.
LEMMA HandlerType ==
  ASSUME RequestsTypeOK, StoreTypeOK, NEW t \in Thread,
         Accept(t) \/ Resume(t) \/ Abandon(t)
  PROVE  RequestsTypeOK'
<1> USE DEF RequestsTypeOK, At, Starts, Then, Done, HandlerStep
<1>z. 0 \in Time
  BY StoreAssumption DEF Time
<1>r. Ready \in [step : HandlerStep, req : Request \union {NoRequest}, expiry : Time]
  BY <1>z DEF Ready
<1>s. ASSUME NEW r, NEW s \in RequestState, SetState(r, s)
      PROVE  reqs' \in [Request -> [state : RequestState, expiry : Time]]
  BY <1>s DEF SetState
<1>e. ASSUME Error PROVE errors' \in 0 .. MaxErrors
  BY <1>e, RequestsAssumption DEF Error
<1>n. ASSUME NEW c \in SUBSET Mishap, Note(c) PROVE amiss' \subseteq Mishap
  BY <1>n DEF Note
<1>m. Met(t) \subseteq Mishap /\ MetAny(t) \subseteq Mishap
  BY DEF Met, MetAny, Mishap
<1>1. CASE \E e \in Time : AskStart(t, e)
  <2>1. PICK e \in Time : AskStart(t, e)
    BY <1>1
  <2>2. /\ UNCHANGED <<reqs, errors, amiss>>
        /\ http' = [http EXCEPT ![t] =
                      [step |-> "askLookup", req |-> NoRequest, expiry |-> e]]
    BY <2>1 DEF AskStart
  <2> QED BY <2>2
<1>2. CASE AskLookup(t)
  BY <1>2, <1>r DEF AskLookup
<1>3. CASE \E r \in Request : AskInsert(t, r)
  BY <1>3, <1>m, <1>n, SMTT(20) DEF AskInsert, RequestState
<1>4. CASE AskAnnotate(t) \/ RejectClear(t)
  BY <1>4, <1>m, <1>n, <1>r DEF AskAnnotate, RejectClear
<1>5. CASE \E r \in Request : ApproveStart(t, r)
  <2>1. PICK r \in Request : ApproveStart(t, r)
    BY <1>5
  <2>2. amiss' \subseteq Mishap
    BY <2>1 DEF ApproveStart, Note, Mishap
  <2>3. http' = [http EXCEPT ![t] =
                   [step |-> "approveExtend", req |-> r, expiry |-> reqs[r].expiry]]
    BY <2>1 DEF ApproveStart
  <2>4. UNCHANGED <<reqs, errors>>
    BY <2>1 DEF ApproveStart
  <2> QED BY <2>2, <2>3, <2>4
<1>6. CASE ApproveExtend(t)
  BY <1>6, <1>m, <1>n, <1>r DEF ApproveExtend
<1>7. CASE ApproveClear(t)
  BY <1>7, <1>e, <1>m DEF ApproveClear, Note, Mishap
<1>8. CASE ApproveMark(t)
  <2>1. reqs' \in [Request -> [state : RequestState, expiry : Time]]
    BY <1>8, <1>s DEF ApproveMark, RequestState
  <2> QED BY <1>8, <1>m, <1>n, <1>r, <2>1 DEF ApproveMark
<1>9. CASE \E r \in Request : RejectStart(t, r)
  BY <1>9, <1>z DEF RejectStart
<1>10. CASE RejectMark(t)
  <2>1. reqs' \in [Request -> [state : RequestState, expiry : Time]]
    BY <1>10, <1>s DEF RejectMark, RequestState
  <2> QED BY <1>10, <1>m, <1>n, <2>1 DEF RejectMark
<1>11. CASE \E r \in Request : Withdraw(t, r)
  BY <1>11, <1>m DEF Withdraw, RequestState, Note, Mishap
<1>12. CASE Abandon(t)
  BY <1>12, <1>r, <1>e DEF Abandon, Note, Mishap
<1> QED
  BY <1>1, <1>2, <1>3, <1>4, <1>5, <1>6, <1>7, <1>8, <1>9, <1>10, <1>11, <1>12
  DEF Accept, Resume

\* What a handler does to the Service, one of the users may do.
LEMMA HandlerIsUser ==
  ASSUME RequestsTypeOK, NEW t \in Thread, Accept(t) \/ Resume(t) \/ Abandon(t),
         UNCHANGED HandlerFrame
  PROVE  Users \/ UNCHANGED vars
<1>1. http[t].expiry \in Time
  BY DEF RequestsTypeOK
<1>2. ASSUME NEW b \in BOOLEAN, Annotate(b)
      PROVE  Users \/ UNCHANGED vars
  <2>1. CASE svc.obj = "live"
    BY <1>2, <2>1, LifecycleAssumption
    DEF Annotate, Users, SetPending, HandlerFrame
  <2>2. CASE svc.obj # "live"
    BY <1>2, <2>2 DEF Annotate, HandlerFrame, vars
  <2> QED BY <2>1, <2>2
<1>3. ASSUME svc.obj = "live", Extend(http[t].expiry)
      PROVE  Users
  BY <1>1, <1>3, LifecycleAssumption DEF Extend, Users, SetExpiry, HandlerFrame
<1>4. CASE UNCHANGED svc
  BY <1>4 DEF HandlerFrame, vars
<1>5. CASE AskAnnotate(t) \/ ApproveClear(t) \/ RejectClear(t)
  BY <1>2, <1>4, <1>5 DEF AskAnnotate, ApproveClear, RejectClear
<1>6. CASE ApproveExtend(t)
  BY <1>3, <1>4, <1>6 DEF ApproveExtend
<1> QED
  BY <1>4, <1>5, <1>6
  DEF Accept, Resume, Abandon, AskStart, AskLookup, AskInsert, ApproveStart,
      ApproveMark, RejectStart, RejectMark, Withdraw

LEMMA LifecycleStep ==
  TypeOK /\ RequestsTypeOK /\ [LifecycleNext]_lifecycleVars =>
    RequestsTypeOK' /\ [Next]_vars
<1> SUFFICES ASSUME TypeOK, RequestsTypeOK, [LifecycleNext]_lifecycleVars
             PROVE  RequestsTypeOK' /\ [Next]_vars
  OBVIOUS
<1>1. CASE HandlersAct
  <2> PICK t \in Thread : Accept(t) \/ Resume(t) \/ Abandon(t)
    BY <1>1 DEF HandlersAct, Handlers
  <2>1. UNCHANGED HandlerFrame
    BY <1>1 DEF HandlersAct, HandlerFrame
  <2>2. RequestsTypeOK'
    BY HandlerType DEF TypeOK
  <2>3. Users \/ UNCHANGED vars
    BY <2>1, HandlerIsUser
  <2> QED BY <2>2, <2>3 DEF Next
<1>2. CASE Others
  <2>1. UNCHANGED <<reqs, http, errors, amiss>>
    BY <1>2 DEF Others, requestVars
  <2>2. RequestsTypeOK'
    BY <2>1 DEF RequestsTypeOK
  <2>3. Next
    BY <1>2 DEF Others, Next, Users
  <2> QED BY <2>2, <2>3
<1>3. CASE UNCHANGED lifecycleVars
  BY <1>3 DEF lifecycleVars, vars, RequestsTypeOK
<1> QED BY <1>1, <1>2, <1>3 DEF LifecycleNext

LEMMA LifecycleInitial == LifecycleInit => Init /\ TypeOK /\ RequestsTypeOK
<1> SUFFICES ASSUME LifecycleInit PROVE Init /\ TypeOK /\ RequestsTypeOK
  OBVIOUS
<1>1. Init /\ TypeOK
  BY InitType DEF LifecycleInit
<1>2. RequestsTypeOK
  BY StoreAssumption, RequestsAssumption
  DEF LifecycleInit, RequestsInit, RequestsTypeOK, Ready, HandlerStep, RequestState, Time
<1> QED BY <1>1, <1>2

\* The life of a service is a behaviour of the controller's specification.
THEOREM Refinement == LifecycleSpec => ImplementsController
BY LifecycleInitial, LifecycleStep, StepType, PTL
DEF LifecycleSpec, ImplementsController, Spec

\* All variables keep their types, those of the handlers too.
THEOREM LifecycleTypeCorrect == LifecycleSpec => []LifecycleTypeOK
BY LifecycleInitial, LifecycleStep, StepType, PTL
DEF LifecycleSpec, LifecycleTypeOK

\* So, whatever the requests do, there is one VM at most, never without the
\* finalizer.
COROLLARY LifecycleSafe == LifecycleSpec => [](AtMostOneVM /\ FinalizerBeforeVM)
BY Refinement, OneVM, FinalizerFirst, PTL DEF ImplementsController

\* While the informer cache does not lag, what the controller guarantees of the
\* status holds whatever the handlers do meanwhile.
COROLLARY LifecycleStatus ==
  ASSUME CacheLag = FALSE
  PROVE  LifecycleSpec => /\ ExpiredLeftOnlyBlocked /\ DeliveredVMKept
                          /\ BootWaitHonoured /\ RecordedVMCleaned
                          /\ []NothingLeftBehind
BY Refinement, ExpiredLeft, DeliveredVMStays, BootWaits, RecordedCleaned, CleanedUp, PTL
DEF ImplementsController


-------------------------------------------------------------------------------
(***************************************************************************)
(* The requests. Moves says what a step of a handler does, Alone what it   *)
(* finds the others at when no two handlers have met.                      *)
(***************************************************************************)
Steps(t) == Accept(t) \/ Resume(t) \/ Abandon(t)

\* All but the handlers leave the expiry and the annotation of a live service
\* alone, and make a service only once.
LEMMA OthersKeep ==
  ASSUME TypeOK, Others \/ UNCHANGED lifecycleVars
  PROVE  /\ UNCHANGED requestVars
         /\ svc'.obj = "none" => svc.obj = "none"
         /\ svc'.obj = "live" =>
              \/ svc.obj = "none" /\ ~svc'.pending
              \/ /\ svc.obj = "live"
                 /\ svc'.expiry = svc.expiry /\ svc'.pending = svc.pending
<1>t. svc \in Service /\ run \in Run
  BY DEF TypeOK, StoreTypeOK
<1>1. UNCHANGED requestVars
  BY DEF Others, lifecycleVars, requestVars
<1> DEFINE Keeps == /\ svc'.obj = "none" => svc.obj = "none"
                    /\ svc'.obj = "live" =>
                         \/ svc.obj = "none" /\ ~svc'.pending
                         \/ /\ svc.obj = "live"
                            /\ svc'.expiry = svc.expiry /\ svc'.pending = svc.pending
<1>2. ASSUME NEW b, NEW a, svc' = MergePatch(svc, b, a)
      PROVE  Keeps
  BY <1>2, <1>t, GoneFacts DEF MergePatch, Settle, Service
<1>3. ASSUME svc.obj = "live", svc' = MarkDeleted(svc)
      PROVE  Keeps
  BY <1>3, <1>t, GoneFacts DEF MarkDeleted, Settle, Service
<1>4. ASSUME svc' = Gone PROVE Keeps
  BY <1>4, GoneFacts
<1>5. ASSUME UNCHANGED svc PROVE Keeps
  BY <1>5, <1>t DEF Service
<1>6. ASSUME svc.obj = "none", svc'.obj = "live", ~svc'.pending PROVE Keeps
  BY <1>6
<1>7. \/ \E b, a : svc' = MergePatch(svc, b, a)
      \/ svc.obj = "live" /\ svc' = MarkDeleted(svc)
      \/ svc' = Gone \/ UNCHANGED svc
      \/ svc.obj = "none" /\ svc'.obj = "live" /\ ~svc'.pending
  <2>1. CASE \E e \in Time : e >= now /\ CreateService(e)
    BY <2>1 DEF CreateService, NoService, Blank
  <2>2. CASE UNCHANGED lifecycleVars
    BY <2>2 DEF lifecycleVars
  <2>3. CASE Controller
    BY <2>3
    DEF Controller, Reconcile, StartBlocked, Start, AddFinalizer, DeleteObject,
        DeleteVM, RemoveFinalizer, Adopt, CreateVM, CreateVMFails, GetVM, Patch,
        Crash, InformerSync, storeVars
  <2>4. CASE World
    BY <2>4
    DEF World, VMUp, VMDisturbed, VMVanishes, CatalogDown, CatalogUp, RetireCatalog,
        Tick, storeVars
  <2>5. CASE DeleteService
    BY <2>5 DEF DeleteService
  <2> QED BY <2>1, <2>2, <2>3, <2>4, <2>5 DEF Others
<1> QED BY <1>1, <1>2, <1>3, <1>4, <1>5, <1>6, <1>7

\* SetState closes an open request, and opens none.
LEMMA SetStateOpens ==
  ASSUME RequestsTypeOK, NEW r, NEW s \in {"APPROVED", "REJECTED"}, SetState(r, s)
  PROVE  \A q \in Request : /\ Open(q)' <=> Open(q) /\ q # r
                            /\ reqs'[q].expiry = reqs[q].expiry
BY DEF SetState, Open, Stored, RequestsTypeOK

\* A handler moves itself only, and what went amiss is not forgotten.
LEMMA OthersWait ==
  ASSUME RequestsTypeOK, NEW t \in Thread, Steps(t)
  PROVE  /\ \A u \in Thread \ {t} : http'[u] = http[u]
         /\ amiss \subseteq amiss'
<1>h. http \in [Thread -> [step : HandlerStep, req : Request \union {NoRequest},
                           expiry : Time]]
  BY DEF RequestsTypeOK
<1>1. \E h : http' = [http EXCEPT ![t] = h]
  <2>1. CASE UNCHANGED http
    <3>1. http' = [http EXCEPT ![t] = http[t]]
      BY <1>h, <2>1
    <3> QED BY <3>1
  <2> QED
    BY <2>1
    DEF Steps, Accept, Resume, Abandon, AskStart, AskLookup, AskInsert, AskAnnotate,
        ApproveStart, ApproveExtend, ApproveClear, ApproveMark, RejectStart,
        RejectMark, RejectClear, Withdraw, Starts, Then, Done
<1>2. \E c : amiss' = amiss \union c
  <2>1. UNCHANGED amiss => amiss' = amiss \union {}
    OBVIOUS
  <2> QED
    BY <2>1
    DEF Steps, Accept, Resume, Abandon, AskStart, AskLookup, AskInsert, AskAnnotate,
        ApproveStart, ApproveExtend, ApproveClear, ApproveMark, RejectStart,
        RejectMark, RejectClear, Withdraw, Note
<1> QED BY <1>h, <1>1, <1>2

\* Unless two handlers met, one that writes finds none of the others past its
\* look-up, and one that moves the expiry finds them all at rest.
LEMMA Alone ==
  ASSUME RequestsTypeOK, svc \in Service, NEW t \in Thread, Steps(t),
         "met" \notin amiss', NEW u \in Thread, u # t
  PROVE  /\ Midway(u) => UNCHANGED <<svc, reqs>>
         /\ ~At(u, "ready") => svc'.expiry = svc.expiry
<1>1. ASSUME NEW c, Note(Met(t)) \/ Note(Met(t) \union c)
      PROVE  ~Midway(u)
  BY <1>1 DEF Note, Met
<1>2. ASSUME Note(MetAny(t))
      PROVE  At(u, "ready")
  BY <1>2 DEF Note, MetAny
<1>3. ASSUME NEW b, Annotate(b)
      PROVE  svc'.expiry = svc.expiry
  BY <1>3 DEF Annotate, Service
<1>4. At(u, "ready") => ~Midway(u)
  BY DEF At, Midway
<1>5. \/ UNCHANGED <<svc, reqs>>
      \/ svc'.expiry = svc.expiry /\ ~Midway(u)
      \/ At(u, "ready")
  <2>1. CASE \/ (\E e \in Time : AskStart(t, e)) \/ AskLookup(t)
            \/ \E r \in Request : ApproveStart(t, r) \/ RejectStart(t, r)
    BY <2>1 DEF AskStart, AskLookup, ApproveStart, RejectStart
  <2>2. CASE \/ (\E r \in Request : AskInsert(t, r) \/ Withdraw(t, r))
            \/ ApproveMark(t) \/ RejectMark(t)
    BY <1>1, <2>2 DEF AskInsert, Withdraw, ApproveMark, RejectMark
  <2>3. CASE AskAnnotate(t) \/ ApproveClear(t) \/ RejectClear(t)
    BY <1>1, <1>3, <2>3 DEF AskAnnotate, ApproveClear, RejectClear
  <2>4. CASE ApproveExtend(t)
    BY <1>2, <2>4 DEF ApproveExtend
  <2>5. CASE Abandon(t)
    BY <2>5 DEF Abandon
  <2> QED BY <2>1, <2>2, <2>3, <2>4, <2>5 DEF Steps, Accept, Resume
<1> QED BY <1>4, <1>5

(***************************************************************************)
(* The moves of a handler: it only looks, begins or gives up; it inserts;  *)
(* it writes the annotation; it extends; it closes a request; it deletes.  *)
(***************************************************************************)
Looks(t) ==
  /\ UNCHANGED <<svc, reqs>>
  /\ \/ /\ At(t, "ready") /\ At(t, "askLookup")'
        /\ svc.obj = "live" /\ svc.expiry <= http'[t].expiry
     \/ /\ At(t, "askLookup") /\ At(t, "askInsert")'
        /\ Opened = {} /\ http'[t].expiry = http[t].expiry
     \/ /\ At(t, "ready") /\ At(t, "approveExtend")'
        /\ http'[t].req \in Request /\ Stored(http'[t].req)
        /\ reqs[http'[t].req].expiry = http'[t].expiry
        /\ Open(http'[t].req) \/ "again" \in amiss'
     \/ /\ At(t, "ready") /\ At(t, "rejectMark")'
        /\ http'[t].req \in Request /\ Open(http'[t].req)
     \/ /\ At(t, "approveClear") /\ At(t, "approveMark")'
        /\ "failed" \in amiss'
     \/ /\ ~At(t, "ready") /\ At(t, "ready")'
        /\ Halfway(t) => "failed" \in amiss'

Inserts(t) ==
  /\ UNCHANGED svc
  /\ At(t, "askInsert") /\ At(t, "askAnnotate")'
  /\ \E r \in Request :
       /\ ~Open(r) /\ Opened' = Opened \union {r}
       /\ \A q \in Request \ {r} : reqs'[q] = reqs[q]
       /\ reqs'[r].expiry = http[t].expiry

Annotates(t) ==
  /\ UNCHANGED reqs
  /\ svc'.obj = svc.obj /\ svc'.expiry = svc.expiry
  /\ \/ At(t, "askAnnotate") /\ At(t, "ready")' /\ (svc.obj = "live" => svc'.pending)
     \/ At(t, "rejectClear") /\ At(t, "ready")' /\ (svc.obj = "live" => ~svc'.pending)
     \/ /\ At(t, "approveClear") /\ At(t, "approveMark")'
        /\ svc.obj = "live" => ~svc'.pending
        /\ http'[t].req = http[t].req
        /\ "met" \notin amiss' => \A u \in Thread \ {t} : ~Midway(u)

Extends(t) ==
  /\ UNCHANGED reqs
  /\ At(t, "approveExtend") /\ At(t, "approveClear")'
  /\ svc'.obj = svc.obj /\ svc'.pending = svc.pending
  /\ svc'.expiry = http[t].expiry
  /\ http'[t].req = http[t].req /\ http'[t].expiry = http[t].expiry

Closes(t) ==
  /\ UNCHANGED svc
  /\ \/ At(t, "approveMark") /\ At(t, "ready")'
     \/ At(t, "rejectMark") /\ At(t, "rejectClear")'
  /\ \A q \in Request : /\ Open(q)' <=> Open(q) /\ q # http[t].req
                        /\ reqs'[q].expiry = reqs[q].expiry

Withdraws(t) ==
  /\ UNCHANGED svc
  /\ At(t, "ready") /\ At(t, "ready")'
  /\ \A q \in Request : /\ Open(q)' => Open(q)
                        /\ Open(q) => Open(q)' \/ "withdrawn" \in amiss'
                        /\ reqs'[q].expiry = reqs[q].expiry

LEMMA Moves ==
  ASSUME RequestsTypeOK, svc \in Service, NEW t \in Thread, Steps(t)
  PROVE  \/ Looks(t) \/ Inserts(t) \/ Annotates(t) \/ Extends(t) \/ Closes(t)
         \/ Withdraws(t)
<1>h. /\ http \in [Thread -> [step : HandlerStep, req : Request \union {NoRequest},
                              expiry : Time]]
      /\ reqs \in [Request -> [state : RequestState, expiry : Time]]
  BY DEF RequestsTypeOK
<1>t. ASSUME NEW s, Then(t, s)
      PROVE  /\ http'[t].step = s
             /\ http'[t].req = http[t].req /\ http'[t].expiry = http[t].expiry
  BY <1>h, <1>t DEF Then
<1>s. ASSUME NEW s, NEW r, NEW e, Starts(t, s, r, e)
      PROVE  http'[t].step = s /\ http'[t].req = r /\ http'[t].expiry = e
  BY <1>h, <1>s DEF Starts
<1>d. Done(t) => http'[t].step = "ready"
  BY <1>h DEF Done, Ready
<1>a. ASSUME NEW b \in BOOLEAN, Annotate(b)
      PROVE  /\ svc'.obj = svc.obj /\ svc'.expiry = svc.expiry
             /\ svc.obj = "live" => svc'.pending = b
  BY <1>a DEF Annotate, Service
<1>1. ASSUME NEW e \in Time, AskStart(t, e)
      PROVE  Looks(t)
  BY <1>1, <1>s DEF AskStart, Looks, At
<1>2. CASE AskLookup(t)
  <2>1. CASE Opened = {}
    BY <1>2, <1>t, <2>1 DEF AskLookup, Opened, Looks, At
  <2>2. CASE Opened # {}
    BY <1>2, <1>d, <2>2 DEF AskLookup, Opened, Looks, At, Halfway
  <2> QED BY <2>1, <2>2
<1>3. ASSUME NEW r \in Request, AskInsert(t, r)
      PROVE  Inserts(t)
  <2>1. /\ reqs'[r].state = "NEW" /\ reqs'[r].expiry = http[t].expiry
        /\ \A q \in Request \ {r} : reqs'[q] = reqs[q]
    BY <1>3, <1>h DEF AskInsert
  <2>2. ~Open(r) /\ Opened' = Opened \union {r}
    BY <1>3, <2>1 DEF AskInsert, Opened, Open
  <2> QED BY <1>3, <1>t, <2>1, <2>2 DEF AskInsert, Inserts, At
<1>4. CASE AskAnnotate(t) \/ RejectClear(t)
  BY <1>4, <1>a, <1>d DEF AskAnnotate, RejectClear, Annotates, At
<1>5. ASSUME NEW r \in Request, ApproveStart(t, r)
      PROVE  Looks(t)
  <2>1. Open(r) \/ "again" \in amiss'
    BY <1>5 DEF ApproveStart, Note
  <2> QED BY <1>5, <1>s, <2>1 DEF ApproveStart, Looks, At
<1>6. CASE ApproveExtend(t)
  <2>1. CASE svc.obj = "live" /\ Extend(http[t].expiry) /\ Then(t, "approveClear")
    <3>1. svc'.obj = svc.obj /\ svc'.pending = svc.pending /\ svc'.expiry = http[t].expiry
      BY <2>1 DEF Extend, Service
    <3> QED BY <1>6, <1>t, <2>1, <3>1 DEF ApproveExtend, Extends, At
  <2>2. CASE Done(t) /\ UNCHANGED svc
    BY <1>6, <1>d, <2>2 DEF ApproveExtend, Looks, At, Halfway
  <2> QED BY <1>6, <2>1, <2>2 DEF ApproveExtend
<1>7. CASE ApproveClear(t)
  <2>1. http'[t].step = "approveMark" /\ http'[t].req = http[t].req
    BY <1>7, <1>t DEF ApproveClear
  <2>2. CASE Annotate(FALSE) /\ Note(Met(t))
    <3>1. "met" \notin amiss' => \A u \in Thread \ {t} : ~Midway(u)
      BY <2>2 DEF Note, Met
    <3> QED BY <1>7, <1>a, <2>1, <2>2, <3>1 DEF ApproveClear, Annotates, At
  <2>3. CASE Note({"failed"}) /\ UNCHANGED svc
    BY <1>7, <2>1, <2>3 DEF ApproveClear, Looks, At, Note
  <2> QED BY <1>7, <2>2, <2>3 DEF ApproveClear
<1>8. CASE ApproveMark(t)
  BY <1>8, <1>d, SetStateOpens DEF ApproveMark, Closes, At
<1>9. ASSUME NEW r \in Request, RejectStart(t, r)
      PROVE  Looks(t)
  BY <1>9, <1>s DEF RejectStart, Looks, At
<1>10. CASE RejectMark(t)
  BY <1>10, <1>t, SetStateOpens DEF RejectMark, Closes, At
<1>11. ASSUME NEW r \in Request, Withdraw(t, r)
       PROVE  Withdraws(t)
  <2>1. \A q \in Request : /\ Open(q)' <=> Open(q) /\ q # r
                           /\ reqs'[q].expiry = reqs[q].expiry
    BY <1>11, <1>h DEF Withdraw, Open
  <2>2. Open(r) => "withdrawn" \in amiss'
    BY <1>11 DEF Withdraw, Note
  <2> QED BY <1>11, <2>1, <2>2 DEF Withdraw, Withdraws, At
<1>12. CASE Abandon(t)
  <2>1. Halfway(t) => "failed" \in amiss'
    BY <1>12 DEF Abandon, Note
  <2> QED BY <1>12, <1>d, <2>1 DEF Abandon, Looks, At
<1> QED
  BY <1>1, <1>2, <1>3, <1>4, <1>5, <1>6, <1>7, <1>8, <1>9, <1>10, <1>11, <1>12
  DEF Steps, Accept, Resume

-------------------------------------------------------------------------------
(***************************************************************************)
(* Nothing is asked of a service that was not made yet. What the look-up   *)
(* found still holds at the insertion, unless handlers met.                *)
(***************************************************************************)
NoneInv ==
  svc.obj = "none" => AllReady /\ \A r \in Request : reqs[r].state = "none"

OpenInv ==
  "met" \notin amiss =>
    /\ \A r, q \in Opened : r = q
    /\ \A t \in Thread : At(t, "askInsert") => Opened = {}

LEMMA StepNone ==
  ASSUME TypeOK, RequestsTypeOK, NoneInv, [LifecycleNext]_lifecycleVars
  PROVE  NoneInv'
<1>1. ASSUME NEW t \in Thread, Steps(t) PROVE NoneInv'
  <2>1. ~At(t, "ready") \/ (\E r \in Request : Stored(r)) \/ svc.obj = "live"
    BY <1>1
    DEF Steps, Accept, Resume, Abandon, AskStart, AskLookup, AskInsert, AskAnnotate,
        ApproveStart, ApproveExtend, ApproveClear, ApproveMark, RejectStart,
        RejectMark, RejectClear, Withdraw, At, Open, Stored
  <2>2. svc.obj # "none"
    BY <2>1 DEF NoneInv, AllReady, At, Ready, Stored
  <2>3. svc'.obj = svc.obj
    BY <1>1, Moves
    DEF Looks, Inserts, Annotates, Extends, Closes, Withdraws, TypeOK, StoreTypeOK
  <2> QED BY <2>2, <2>3 DEF NoneInv
<1>2. CASE Others \/ UNCHANGED lifecycleVars
  BY <1>2, OthersKeep DEF requestVars, NoneInv, AllReady
<1> QED BY <1>1, <1>2 DEF LifecycleNext, HandlersAct, Handlers, Steps

LEMMA StepOpen ==
  ASSUME TypeOK, RequestsTypeOK, OpenInv, [LifecycleNext]_lifecycleVars
  PROVE  OpenInv'
<1>1. ASSUME NEW t \in Thread, Steps(t), "met" \notin amiss'
      PROVE  /\ \A r, q \in Opened' : r = q
             /\ \A u \in Thread : At(u, "askInsert")' => Opened' = {}
  <2>0. /\ \A r, q \in Opened : r = q
        /\ \A u \in Thread : At(u, "askInsert") => Opened = {}
    BY <1>1, OthersWait DEF OpenInv
  <2>s. svc \in Service
    BY DEF TypeOK, StoreTypeOK
  <2>o. ASSUME NEW u \in Thread, u # t, At(u, "askInsert")'
        PROVE  At(u, "askInsert") /\ UNCHANGED reqs
    <3>1. At(u, "askInsert") /\ Midway(u)
      BY <2>o, <1>1, OthersWait DEF At, Midway
    <3> QED BY <3>1, <2>o, <2>s, <1>1, Alone
  <2>1. CASE Looks(t) \/ Annotates(t) \/ Extends(t)
    <3>1. Opened' = Opened
      BY <2>1 DEF Looks, Annotates, Extends, Opened, Open
    <3>2. At(t, "askInsert")' => Opened = {}
      BY <2>1 DEF Looks, Annotates, Extends, At
    <3> QED BY <2>0, <2>o, <3>1, <3>2
  <2>2. CASE Inserts(t)
    <3>1. Opened = {}
      BY <2>0, <2>2 DEF Inserts
    <3>2. \A u \in Thread : ~At(u, "askInsert")'
      <4>1. ~At(t, "askInsert")'
        BY <2>2 DEF Inserts, At
      <4>2. ~UNCHANGED reqs
        BY <2>2, <3>1 DEF Inserts, Opened, Open
      <4> QED BY <2>o, <4>1, <4>2
    <3> QED BY <2>2, <3>1, <3>2 DEF Inserts
  <2>3. CASE Closes(t) \/ Withdraws(t)
    <3>1. Opened' \subseteq Opened
      BY <2>3 DEF Closes, Withdraws, Opened
    <3>2. ~At(t, "askInsert")'
      BY <2>3 DEF Closes, Withdraws, At
    <3> QED BY <2>0, <2>o, <3>1, <3>2 DEF Opened, Open
  <2> QED BY <1>1, <2>1, <2>2, <2>3, <2>s, Moves
<1>2. CASE Others \/ UNCHANGED lifecycleVars
  BY <1>2, OthersKeep DEF requestVars, OpenInv, Opened, Open, At
<1> QED BY <1>1, <1>2 DEF LifecycleNext, HandlersAct, Handlers, OpenInv, Steps

LEMMA RequestsBegin ==
  LifecycleInit => /\ NoneInv /\ OpenInv /\ Opened = {} /\ amiss = {}
                   /\ svc.obj = "none"
                   /\ \A t \in Thread : http[t].step = "ready"
<1> SUFFICES ASSUME LifecycleInit
             PROVE  /\ NoneInv /\ OpenInv /\ Opened = {} /\ amiss = {}
                    /\ svc.obj = "none"
                    /\ \A t \in Thread : http[t].step = "ready"
  OBVIOUS
<1>1. /\ svc = NoService /\ http = [t \in Thread |-> Ready] /\ amiss = {}
      /\ reqs = [r \in Request |-> [state |-> "none", expiry |-> 0]]
  BY DEF LifecycleInit, Init, StoreInit, RequestsInit
<1> QED BY <1>1, NoServiceStatus DEF NoneInv, OpenInv, Opened, Open, At, AllReady, Ready

-------------------------------------------------------------------------------
(***************************************************************************)
(* How many can be open. A handler goes on to insert only if it found no   *)
(* request open: from then on each handler that is to insert inserts one.  *)
(***************************************************************************)
Inserting == {t \in Thread : At(t, "askInsert")}

BoundInv ==
  /\ IsFiniteSet(Opened)
  /\ Cardinality(Opened) + Cardinality(Inserting) <= Cardinality(Thread)

LEMMA StepBound ==
  ASSUME IsFiniteSet(Thread), TypeOK, RequestsTypeOK, BoundInv,
         [LifecycleNext]_lifecycleVars
  PROVE  BoundInv'
<1>f. /\ IsFiniteSet(Inserting) /\ IsFiniteSet(Inserting')
      /\ Cardinality(Inserting) \in Nat /\ Cardinality(Inserting') \in Nat
      /\ Cardinality(Opened) \in Nat /\ Cardinality(Thread) \in Nat
      /\ Cardinality(Inserting') <= Cardinality(Thread)
  <2>1. Inserting \subseteq Thread /\ Inserting' \subseteq Thread
    BY DEF Inserting
  <2>2. IsFiniteSet(Inserting) /\ IsFiniteSet(Inserting')
    BY <2>1, FS_Subset
  <2> QED BY <2>1, <2>2, FS_Subset, FS_CardinalityType DEF BoundInv
<1>s. ASSUME Opened' \subseteq Opened, Inserting' \subseteq Inserting
      PROVE  BoundInv'
  <2>1. /\ IsFiniteSet(Opened')
        /\ Cardinality(Opened') \in Nat /\ Cardinality(Opened') <= Cardinality(Opened)
        /\ Cardinality(Inserting') <= Cardinality(Inserting)
    BY <1>f, <1>s, FS_Subset, FS_CardinalityType DEF BoundInv
  <2> QED BY <1>f, <2>1 DEF BoundInv
<1>1. ASSUME NEW t \in Thread, Steps(t)
      PROVE  BoundInv'
  <2>s. svc \in Service
    BY DEF TypeOK, StoreTypeOK
  <2>i. \A u \in Thread \ {t} : At(u, "askInsert")' <=> At(u, "askInsert")
    BY <1>1, OthersWait DEF At
  <2>1. CASE Inserts(t)
    <3>1. PICK r \in Request : ~Open(r) /\ Opened' = Opened \union {r}
      BY <2>1 DEF Inserts
    <3>2. Inserting' = Inserting \ {t} /\ t \in Inserting
      BY <2>1, <2>i DEF Inserts, Inserting, At
    <3>3. Cardinality(Inserting') = Cardinality(Inserting) - 1
      BY <1>f, <3>2, FS_RemoveElement
    <3>4. r \notin Opened
      BY <3>1 DEF Opened
    <3>5. IsFiniteSet(Opened') /\ Cardinality(Opened') = Cardinality(Opened) + 1
      BY <3>1, <3>4, FS_AddElement DEF BoundInv
    <3> QED BY <1>f, <3>3, <3>5 DEF BoundInv
  <2>2. CASE Looks(t) /\ At(t, "askInsert")'
    <3>1. Opened' = Opened /\ Opened = {}
      BY <2>2 DEF Looks, Opened, Open, At
    <3> QED BY <1>f, <3>1, FS_EmptySet DEF BoundInv
  <2>3. CASE ~At(t, "askInsert")' /\ Opened' \subseteq Opened
    <3>1. Inserting' \subseteq Inserting
      BY <2>3, <2>i DEF Inserting
    <3> QED BY <1>s, <2>3, <3>1
  <2>4. ASSUME \/ Looks(t) /\ ~At(t, "askInsert")'
               \/ Annotates(t) \/ Extends(t) \/ Closes(t) \/ Withdraws(t)
        PROVE  ~At(t, "askInsert")' /\ Opened' \subseteq Opened
    BY <2>4 DEF Looks, Annotates, Extends, Closes, Withdraws, At, Opened, Open
  <2> QED BY <1>1, <2>1, <2>2, <2>3, <2>4, <2>s, Moves
<1>2. CASE Others \/ UNCHANGED lifecycleVars
  <2>1. Opened' = Opened /\ Inserting' = Inserting
    BY <1>2, OthersKeep DEF requestVars, Opened, Open, Inserting, At
  <2> QED BY <1>s, <2>1
<1> QED BY <1>1, <1>2 DEF LifecycleNext, HandlersAct, Handlers, Steps

\* However many are asked for, decided or withdrawn, and whichever handlers fail,
\* no more requests of a service are ever open than handlers run.
THEOREM RequestsBounded ==
  ASSUME IsFiniteSet(Thread)
  PROVE  LifecycleSpec => []OpenRequestsBounded
<1>1. LifecycleInit => BoundInv
  <2> SUFFICES ASSUME LifecycleInit PROVE BoundInv
    OBVIOUS
  <2>1. Opened = {} /\ Inserting = {}
    BY RequestsBegin DEF Inserting, At
  <2> QED BY <2>1, FS_EmptySet, FS_CardinalityType DEF BoundInv
<1>2. TypeOK /\ RequestsTypeOK /\ BoundInv /\ [LifecycleNext]_lifecycleVars => BoundInv'
  BY StepBound
<1>3. BoundInv => OpenRequestsBounded
  <2> SUFFICES ASSUME BoundInv PROVE OpenRequestsBounded
    OBVIOUS
  <2>1. IsFiniteSet(Inserting)
    BY FS_Subset DEF Inserting
  <2> QED BY <2>1, FS_CardinalityType DEF BoundInv, OpenRequestsBounded
<1> QED BY <1>1, <1>2, <1>3, LifecycleTypeCorrect, PTL DEF LifecycleSpec, LifecycleTypeOK

-------------------------------------------------------------------------------
(***************************************************************************)
(* What is asked, or about to be approved, is no earlier than what the     *)
(* service has; an approval carries the expiry of the request it is about, *)
(* still open.                                                             *)
(***************************************************************************)
AskedLater == svc.obj = "live" => \A r \in Opened : svc.expiry <= reqs[r].expiry

BringsLater(t) ==
  svc.obj = "live" /\ http[t].step \in {"askLookup", "askInsert", "approveExtend"} =>
    svc.expiry <= http[t].expiry

CarriesOut(t) ==
  http[t].step \in {"approveExtend", "approveClear"} =>
    /\ http[t].req \in Request /\ Open(http[t].req)
    /\ reqs[http[t].req].expiry = http[t].expiry

PromiseInv ==
  amiss \intersect {"met", "again"} = {} =>
    AskedLater /\ \A t \in Thread : BringsLater(t) /\ CarriesOut(t)

LEMMA StepPromise ==
  ASSUME TypeOK, RequestsTypeOK, NoneInv, OpenInv, PromiseInv,
         [LifecycleNext]_lifecycleVars
  PROVE  /\ PromiseInv'
         /\ svc.obj = "live" /\ svc'.obj = "live" /\ svc'.expiry < svc.expiry =>
              amiss' \intersect {"met", "again"} # {}
<1>h. /\ svc \in Service /\ svc.expiry \in Nat
      /\ \A t \in Thread : http[t].expiry \in Nat
      /\ \A r \in Request : reqs[r].expiry \in Nat
  BY DEF TypeOK, StoreTypeOK, RequestsTypeOK, Service, Time
<1>1. ASSUME NEW t \in Thread, Steps(t), "met" \notin amiss', "again" \notin amiss'
      PROVE  PromiseInv' /\ (svc.obj = "live" => svc.expiry <= svc'.expiry)
  <2>0. /\ AskedLater
        /\ \A u \in Thread : BringsLater(u) /\ CarriesOut(u)
        /\ \A r, q \in Opened : r = q
    BY <1>1, OthersWait DEF PromiseInv, OpenInv
  <2>s. svc'.obj = svc.obj
    BY <1>1, <1>h, Moves DEF Looks, Inserts, Annotates, Extends, Closes, Withdraws
  \* The other handlers.
  <2>o. ASSUME NEW u \in Thread, u # t
        PROVE  BringsLater(u)' /\ CarriesOut(u)'
    <3>1. http'[u] = http[u] /\ BringsLater(u) /\ CarriesOut(u)
      BY <2>0, <2>o, <1>1, OthersWait
    <3>2. /\ Midway(u) => UNCHANGED <<svc, reqs>>
          /\ ~At(u, "ready") => svc'.expiry = svc.expiry
      BY <2>o, <1>1, <1>h, Alone
    <3>3. BringsLater(u)'
      <4>1. CASE At(u, "ready")
        BY <3>1, <4>1 DEF BringsLater, At
      <4>2. CASE ~At(u, "ready")
        BY <2>s, <3>1, <3>2, <4>2 DEF BringsLater
      <4> QED BY <4>1, <4>2
    <3>4. CarriesOut(u)'
      <4>1. CASE Midway(u)
        BY <3>1, <3>2, <4>1 DEF CarriesOut, Open
      <4>2. CASE ~Midway(u)
        BY <3>1, <4>2 DEF CarriesOut, Midway
      <4> QED BY <4>1, <4>2
    <3> QED BY <3>3, <3>4
  <2>g. ASSUME AskedLater', BringsLater(t)', CarriesOut(t)'
        PROVE  PromiseInv'
    BY <2>g, <2>o DEF PromiseInv
  <2>1. CASE Looks(t)
    <3>1. UNCHANGED <<svc, reqs>> /\ Opened' = Opened
      BY <2>1 DEF Looks, Opened, Open
    <3>2. AskedLater'
      BY <2>0, <3>1 DEF AskedLater
    <3>3. BringsLater(t)'
      <4>1. CASE At(t, "ready") /\ At(t, "approveExtend")'
        <5>1. /\ http'[t].req \in Opened
              /\ reqs[http'[t].req].expiry = http'[t].expiry
          BY <1>1, <2>1, <4>1 DEF Looks, At, Opened
        <5> QED BY <2>0, <3>1, <5>1 DEF BringsLater, AskedLater
      <4>2. CASE ~At(t, "approveExtend")'
        BY <2>0, <2>1, <3>1, <4>2 DEF Looks, At, BringsLater
      <4> QED BY <2>1, <4>1, <4>2 DEF Looks, At
    <3>4. CarriesOut(t)'
      BY <1>1, <2>1, <3>1 DEF Looks, At, CarriesOut, Open
    <3> QED BY <1>h, <2>g, <3>1, <3>2, <3>3, <3>4
  <2>2. CASE Inserts(t)
    <3>1. /\ UNCHANGED svc /\ http[t].step = "askInsert" /\ http'[t].step = "askAnnotate"
      BY <2>2 DEF Inserts, At
    <3>2. PICK r \in Request : /\ Opened' = Opened \union {r}
                               /\ \A q \in Request \ {r} : reqs'[q] = reqs[q]
                               /\ reqs'[r].expiry = http[t].expiry
      BY <2>2 DEF Inserts
    <3>3. svc.obj = "live" => \A q \in Opened' : svc.expiry <= reqs'[q].expiry
      BY <2>0, <3>1, <3>2 DEF Opened, AskedLater, BringsLater
    <3> QED BY <1>h, <2>g, <3>1, <3>3 DEF AskedLater, BringsLater, CarriesOut
  <2>3. CASE Annotates(t)
    <3>1. /\ svc'.obj = svc.obj /\ svc'.expiry = svc.expiry /\ UNCHANGED reqs
          /\ http'[t].step \in {"ready", "approveMark"} /\ Opened' = Opened
      BY <2>3 DEF Annotates, At, Opened, Open
    <3> QED BY <1>h, <2>0, <2>g, <3>1 DEF AskedLater, BringsLater, CarriesOut
  <2>4. CASE Extends(t)
    <3>1. /\ UNCHANGED reqs /\ Opened' = Opened
          /\ http[t].step = "approveExtend" /\ http'[t].step = "approveClear"
          /\ svc'.obj = svc.obj /\ svc'.expiry = http[t].expiry
          /\ http'[t].req = http[t].req /\ http'[t].expiry = http[t].expiry
      BY <2>4 DEF Extends, At, Opened, Open
    <3>2. /\ http[t].req \in Opened /\ reqs[http[t].req].expiry = http[t].expiry
          /\ svc.obj = "live" => svc.expiry <= http[t].expiry
      BY <2>0, <3>1 DEF CarriesOut, BringsLater, Opened
    <3>3. AskedLater'
      <4>1. \A r \in Opened' : r = http[t].req
        BY <2>0, <3>1, <3>2
      <4>2. \A r \in Opened' : reqs'[r].expiry = svc'.expiry
        BY <3>1, <3>2, <4>1
      <4> QED BY <1>h, <3>1, <4>2 DEF AskedLater
    <3>4. BringsLater(t)'
      BY <3>1 DEF BringsLater
    <3>5. CarriesOut(t)'
      BY <3>1, <3>2 DEF CarriesOut, Opened, Open
    <3> QED BY <1>h, <2>g, <3>1, <3>2, <3>3, <3>4, <3>5
  <2>5. CASE Closes(t) \/ Withdraws(t)
    <3>1. /\ UNCHANGED svc /\ http'[t].step \in {"ready", "rejectClear"}
          /\ \A r \in Opened' : r \in Opened /\ reqs'[r].expiry = reqs[r].expiry
      BY <2>5 DEF Closes, Withdraws, At, Opened
    <3> QED BY <1>h, <2>0, <2>g, <3>1 DEF AskedLater, BringsLater, CarriesOut
  <2> QED BY <1>1, <1>h, <2>1, <2>2, <2>3, <2>4, <2>5, Moves
<1>2. CASE Others \/ UNCHANGED lifecycleVars
  <2>1. /\ UNCHANGED <<reqs, http, amiss>> /\ Opened' = Opened
        /\ svc'.obj = "live" =>
             svc.obj = "none" \/ (svc.obj = "live" /\ svc'.expiry = svc.expiry)
    BY <1>2, OthersKeep DEF requestVars, Opened, Open
  <2>2. svc.obj = "none" => Opened = {} /\ \A t \in Thread : http[t].step = "ready"
    BY DEF NoneInv, AllReady, Ready, Opened, Open
  <2>3. ~(svc.obj = "live" /\ svc'.obj = "live" /\ svc'.expiry < svc.expiry)
    BY <1>h, <2>1
  <2>4. PromiseInv'
    <3>1. CASE svc.obj = "none"
      BY <2>1, <2>2, <3>1 DEF PromiseInv, AskedLater, BringsLater, CarriesOut
    <3>2. CASE svc.obj # "none"
      BY <2>1, <3>2 DEF PromiseInv, AskedLater, BringsLater, CarriesOut, Open
    <3> QED BY <3>1, <3>2
  <2> QED BY <2>1, <2>3, <2>4
<1>3. ASSUME NEW t \in Thread, Steps(t)
      PROVE  /\ PromiseInv'
             /\ svc.obj = "live" /\ svc'.obj = "live" /\ svc'.expiry < svc.expiry =>
                  amiss' \intersect {"met", "again"} # {}
  <2>1. CASE amiss' \intersect {"met", "again"} # {}
    BY <2>1 DEF PromiseInv
  <2>2. CASE "met" \notin amiss' /\ "again" \notin amiss'
    <3>1. svc'.expiry \in Nat
      BY <1>3, <1>h, Moves DEF Looks, Inserts, Annotates, Extends, Closes, Withdraws
    <3> QED BY <1>1, <1>3, <1>h, <2>2, <3>1
  <2> QED BY <2>1, <2>2
<1> QED BY <1>2, <1>3 DEF LifecycleNext, HandlersAct, Handlers, Steps

\* No approval shortens the life of a service, unless handlers met or a decided
\* request was approved: the check made when the user asked still holds when an
\* administrator approves, even one whose approval failed midway.
THEOREM ExpiryOnlyGrows == LifecycleSpec => ShorteningNeedsRace
<1>1. LifecycleInit => NoneInv /\ OpenInv /\ PromiseInv
  BY RequestsBegin DEF PromiseInv, AskedLater, BringsLater, CarriesOut
<1>2. /\ TypeOK /\ RequestsTypeOK /\ NoneInv /\ OpenInv /\ PromiseInv
      /\ [LifecycleNext]_lifecycleVars
      => NoneInv' /\ OpenInv' /\ PromiseInv'
  BY StepNone, StepOpen, StepPromise
<1>3. /\ TypeOK /\ RequestsTypeOK /\ NoneInv /\ OpenInv /\ PromiseInv
      /\ [LifecycleNext]_lifecycleVars
      => [svc.obj = "live" /\ svc'.obj = "live" /\ svc'.expiry < svc.expiry
          => amiss' \intersect {"met", "again"} # {}]_lifecycleVars
  BY StepPromise
<1> QED
  BY <1>1, <1>2, <1>3, LifecycleTypeCorrect, PTL
  DEF LifecycleSpec, LifecycleTypeOK, ShorteningNeedsRace

-------------------------------------------------------------------------------
(***************************************************************************)
(* Request and annotation. One handler at most is between the write to one *)
(* store and the write to the other, and only meanwhile do they differ.    *)
(***************************************************************************)
TrackInv ==
  amiss = {} =>
    /\ svc.obj = "live" /\ (\A t \in Thread : ~Halfway(t)) =>
         (svc.pending <=> Opened # {})
    /\ \A t \in Thread :
         /\ At(t, "askAnnotate") => Opened # {}
         /\ At(t, "rejectClear") => Opened = {}
         /\ At(t, "approveMark") /\ svc.obj = "live" => ~svc.pending
         /\ http[t].step \in {"approveExtend", "approveClear", "approveMark", "rejectMark"}
            => http[t].req \in Opened
    /\ \A t, u \in Thread : Halfway(t) /\ Halfway(u) => t = u

LEMMA StepTrack ==
  ASSUME TypeOK, RequestsTypeOK, NoneInv, OpenInv, TrackInv,
         [LifecycleNext]_lifecycleVars
  PROVE  TrackInv'
<1>h. svc \in Service
  BY DEF TypeOK, StoreTypeOK
<1>1. ASSUME NEW t \in Thread, Steps(t), amiss' = {}
      PROVE  TrackInv'
  <2>0. /\ svc.obj = "live" /\ (\A u \in Thread : ~Halfway(u)) =>
             (svc.pending <=> Opened # {})
        /\ \A u \in Thread :
             /\ At(u, "askAnnotate") => Opened # {}
             /\ At(u, "rejectClear") => Opened = {}
             /\ At(u, "approveMark") /\ svc.obj = "live" => ~svc.pending
             /\ http[u].step \in {"approveExtend", "approveClear", "approveMark", "rejectMark"}
                => http[u].req \in Opened
        /\ \A u, v \in Thread : Halfway(u) /\ Halfway(v) => u = v
        /\ \A r, q \in Opened : r = q
    BY <1>1, OthersWait DEF TrackInv, OpenInv
  <2>m. \A u \in Thread : Halfway(u) => Midway(u)
    BY DEF Halfway, Midway
  \* The other handlers: one past its look-up sees no write.
  <2>w. \A u \in Thread \ {t} : /\ http'[u] = http[u]
                                /\ Halfway(u)' <=> Halfway(u)
                                /\ Midway(u) => UNCHANGED <<svc, reqs>>
    BY <1>1, <1>h, OthersWait, Alone DEF Halfway
  <2>o. ASSUME NEW u \in Thread \ {t}
        PROVE  /\ At(u, "askAnnotate")' => Opened' # {}
               /\ At(u, "rejectClear")' => Opened' = {}
               /\ At(u, "approveMark")' /\ svc'.obj = "live" => ~svc'.pending
               /\ http'[u].step \in {"approveExtend", "approveClear", "approveMark", "rejectMark"}
                  => http'[u].req \in Opened'
    <3>1. CASE Midway(u)
      BY <2>0, <2>o, <2>w, <3>1 DEF At, Opened, Open
    <3>2. CASE ~Midway(u)
      BY <2>o, <2>w, <3>2 DEF Midway, At
    <3> QED BY <3>1, <3>2
  <2>g. ASSUME svc'.obj = "live" /\ (\A u \in Thread : ~Halfway(u)') =>
                 (svc'.pending <=> Opened' # {}),
               /\ At(t, "askAnnotate")' => Opened' # {}
               /\ At(t, "rejectClear")' => Opened' = {}
               /\ At(t, "approveMark")' /\ svc'.obj = "live" => ~svc'.pending
               /\ http'[t].step \in {"approveExtend", "approveClear", "approveMark", "rejectMark"}
                  => http'[t].req \in Opened',
               Halfway(t)' => \A u \in Thread \ {t} : ~Halfway(u)
        PROVE  TrackInv'
    <3>1. \A u, v \in Thread : Halfway(u)' /\ Halfway(v)' => u = v
      BY <2>0, <2>g, <2>w
    <3> QED BY <2>g, <2>o, <3>1 DEF TrackInv
  <2>a. ~UNCHANGED <<svc, reqs>> => \A u \in Thread \ {t} : ~Halfway(u)
    BY <2>m, <2>w
  <2>1. CASE Looks(t)
    <3>1. UNCHANGED <<svc, reqs>> /\ Opened' = Opened /\ ~Halfway(t) /\ ~Halfway(t)'
      BY <1>1, <2>1 DEF Looks, Opened, Open, At, Halfway
    <3>2. /\ ~At(t, "askAnnotate")' /\ ~At(t, "rejectClear")' /\ ~At(t, "approveMark")'
          /\ http'[t].step \in {"approveExtend", "approveClear", "approveMark", "rejectMark"}
             => http'[t].req \in Opened
      BY <1>1, <2>1 DEF Looks, At, Opened
    <3>3. (\A u \in Thread : ~Halfway(u)') => \A u \in Thread : ~Halfway(u)
      BY <2>w, <3>1
    <3> QED BY <2>0, <2>g, <3>1, <3>2, <3>3
  <2>2. CASE Inserts(t)
    <3>1. /\ UNCHANGED svc /\ http'[t].step = "askAnnotate" /\ Opened' # {} /\ Opened' # Opened
      BY <2>2 DEF Inserts, At, Opened
    <3>2. ~UNCHANGED reqs /\ Halfway(t)'
      BY <3>1 DEF Opened, Open, Halfway
    <3> QED BY <2>a, <2>g, <3>1, <3>2 DEF At
  <2>3. CASE Annotates(t)
    <3>1. UNCHANGED reqs /\ Opened' = Opened /\ svc'.obj = svc.obj
      BY <2>3 DEF Annotates, Opened, Open
    <3>2. CASE At(t, "askAnnotate") /\ At(t, "ready")' /\ (svc.obj = "live" => svc'.pending)
      BY <2>0, <2>g, <3>1, <3>2 DEF At, Halfway
    <3>3. CASE At(t, "rejectClear") /\ At(t, "ready")' /\ (svc.obj = "live" => ~svc'.pending)
      BY <2>0, <2>g, <3>1, <3>3 DEF At, Halfway
    <3>4. CASE /\ At(t, "approveClear") /\ At(t, "approveMark")'
               /\ svc.obj = "live" => ~svc'.pending
               /\ http'[t].req = http[t].req
               /\ "met" \notin amiss' => \A u \in Thread \ {t} : ~Midway(u)
      <4>1. http'[t].req \in Opened' /\ Halfway(t)'
        BY <2>0, <3>1, <3>4 DEF At, Halfway
      <4>2. \A u \in Thread \ {t} : ~Halfway(u)
        BY <1>1, <2>m, <3>4
      <4> QED BY <2>g, <3>1, <3>4, <4>1, <4>2 DEF At
    <3> QED BY <2>3, <3>2, <3>3, <3>4 DEF Annotates
  <2>4. CASE Extends(t)
    <3>1. /\ UNCHANGED reqs /\ Opened' = Opened /\ svc'.obj = svc.obj
          /\ svc'.pending = svc.pending
          /\ http[t].step = "approveExtend" /\ http'[t].step = "approveClear"
          /\ http'[t].req = http[t].req
      BY <2>4 DEF Extends, At, Opened, Open
    <3>2. (\A u \in Thread : ~Halfway(u)') => \A u \in Thread : ~Halfway(u)
      BY <2>w, <3>1 DEF Halfway
    <3> QED BY <2>0, <2>g, <3>1, <3>2 DEF At, Halfway
  <2>5. CASE Closes(t)
    <3>1. /\ UNCHANGED svc /\ http[t].step \in {"approveMark", "rejectMark"}
          /\ \A q \in Request : Open(q)' <=> Open(q) /\ q # http[t].req
      BY <2>5 DEF Closes, At
    <3>2. http[t].req \in Opened
      BY <2>0, <3>1
    <3>3. Opened' = {} /\ ~UNCHANGED reqs
      BY <2>0, <3>1, <3>2 DEF Opened, Open
    <3>4. CASE At(t, "approveMark") /\ At(t, "ready")'
      BY <2>0, <2>g, <3>1, <3>3, <3>4 DEF At, Halfway
    <3>5. CASE At(t, "rejectMark") /\ At(t, "rejectClear")'
      BY <2>a, <2>g, <3>1, <3>3, <3>5 DEF At, Halfway
    <3> QED BY <2>5, <3>4, <3>5 DEF Closes
  <2>6. CASE Withdraws(t)
    <3>1. UNCHANGED svc /\ Opened' = Opened /\ ~Halfway(t) /\ ~Halfway(t)'
      BY <1>1, <2>6 DEF Withdraws, Opened, At, Halfway
    <3>2. http'[t].step = "ready"
      BY <2>6 DEF Withdraws, At
    <3>3. (\A u \in Thread : ~Halfway(u)') => \A u \in Thread : ~Halfway(u)
      BY <2>w, <3>1
    <3> QED BY <2>0, <2>g, <3>1, <3>2, <3>3 DEF At
  <2> QED BY <1>1, <1>h, <2>1, <2>2, <2>3, <2>4, <2>5, <2>6, Moves
<1>2. CASE Others \/ UNCHANGED lifecycleVars
  <2>1. /\ UNCHANGED <<reqs, http, amiss>> /\ Opened' = Opened
        /\ svc'.obj = "live" =>
             \/ svc.obj = "none" /\ ~svc'.pending
             \/ svc.obj = "live" /\ svc'.pending = svc.pending
    BY <1>2, OthersKeep DEF requestVars, Opened, Open
  <2>2. svc.obj = "none" => Opened = {} /\ \A t \in Thread : http[t].step = "ready"
    BY DEF NoneInv, AllReady, Ready, Opened, Open
  <2> QED BY <2>1, <2>2 DEF TrackInv, At, Halfway
<1>3. CASE amiss' # {}
  BY <1>3 DEF TrackInv
<1> QED BY <1>1, <1>2, <1>3 DEF LifecycleNext, HandlersAct, Handlers, Steps

\* Whatever the handlers do, the annotation says between two of them exactly
\* whether a request is open, as long as none met another, failed halfway, took an
\* open request away or approved a decided one.
THEOREM PendingTracks == LifecycleSpec => []DriftNeedsMishap
<1>1. LifecycleInit => NoneInv /\ OpenInv /\ TrackInv
  BY RequestsBegin DEF TrackInv, At, Halfway
<1>2. /\ TypeOK /\ RequestsTypeOK /\ NoneInv /\ OpenInv /\ TrackInv
      /\ [LifecycleNext]_lifecycleVars
      => NoneInv' /\ OpenInv' /\ TrackInv'
  BY StepNone, StepOpen, StepTrack
<1>3. TrackInv => DriftNeedsMishap
  BY DEF TrackInv, DriftNeedsMishap, AllReady, Ready, Halfway
<1> QED BY <1>1, <1>2, <1>3, LifecycleTypeCorrect, PTL DEF LifecycleSpec, LifecycleTypeOK

===============================================================================
