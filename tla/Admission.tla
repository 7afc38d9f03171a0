------------------------------- MODULE Admission -------------------------------
(***************************************************************************)
(* What one user may deploy: the catalogs and their controller             *)
(* (controllers/app/catalog_controller.go, services/catalog.go), the       *)
(* quotas of the groups (services/quota.go), and CreateService             *)
(* (services/service.go), which reads the catalog, then the quota, then    *)
(* what is used, and creates the service last. A catalog is kept, by a     *)
(* finalizer, while it owns services; the service controller makes a       *)
(* service owned in its first run. Of the service controller there is only *)
(* what admission and catalogs see of it: ServiceController has the rest.  *)
(***************************************************************************)
EXTENDS Integers, Sequences, FiniteSetsExt

CONSTANTS
  Catalog, NoCatalog,
  Service,      \* the names generateServiceName can give
  Group,
  Thread,       \* the handlers that may run at once
  MaxSize,      \* bound on CPU, in hundredths, and memory
  Below         \* how far below zero a catalog's may be

ASSUME AdmissionAssumption ==
  /\ IsFiniteSet(Service) /\ IsFiniteSet(Thread)
  /\ NoCatalog \notin Catalog
  /\ MaxSize \in Nat /\ Below \in Nat

VARIABLES
  catalogs,     \* the Catalog objects
  look,         \* what the run of the catalog controller on each is about to do
  services,     \* the Service objects of the user
  quotas,       \* the collection "quota": the documents of each group, oldest first
  member,       \* the groups of the user, in Keycloak
  http          \* what each handler is about to do

admissionVars == <<catalogs, look, services, quotas, member, http>>

Amount == -Below .. MaxSize
Size == [cpu : Amount, memory : Amount]
Zero == [cpu |-> 0, memory |-> 0]

\* ValidateQuotaFields: both are positive.
QuotaSize == [cpu : 1 .. MaxSize, memory : 1 .. MaxSize]

\* validateCreateCatalogParams refuses what is exactly zero: less passes, and a
\* CPU that CastFloatToStr rounds to 0.00.
CatalogSize == [cpu : Amount, memory : Amount \ {0}]

Plus(a, b) == [cpu |-> a.cpu + b.cpu, memory |-> a.memory + b.memory]
Fits(a, b) == a.cpu <= b.cpu /\ a.memory <= b.memory

NewCatalog(size) ==
  [state |-> "live", deleting |-> FALSE, finalizer |-> FALSE,
   retired |-> FALSE, ready |-> FALSE, size |-> size]
NoneYet == [NewCatalog(Zero) EXCEPT !.state = "none"]
Exists(c) == catalogs[c].state = "live"

\* state "new" stands for every state but CREATED and EXPIRED.
NoService == [state |-> "none", catalog |-> NoCatalog, owned |-> FALSE, deleting |-> FALSE]
There(s) == services[s].state \in {"new", "created", "expired"}
Owned(s, c) == There(s) /\ services[s].owned /\ services[s].catalog = c

\* A run of the catalog controller. late is not in the code: the services that
\* came to be owned after the run looked at them.
Idle == [step |-> "idle", late |-> {}]

\* stale is not in the code: a service, a quota or a membership changed after
\* the handler read the quota.
Ready == [step |-> "ready", catalog |-> NoCatalog, groups |-> {}, size |-> Zero,
          stale |-> FALSE]
At(t, step) == http[t].step = step
Done(t) == http' = [http EXCEPT ![t] = Ready]

Outdated(own) == http' = [t \in Thread |->
  IF t \in own THEN Ready
  ELSE [http[t] EXCEPT !.stale = @ \/ http[t].step \in {"used", "create"}]]

-------------------------------------------------------------------------------
\* What the user has and uses.

\* getUserQuota and getMaxCapacity: the most CPU of any group and the most
\* memory of any group, 0 when there is none.
UserQuota(groups) ==
  LET docs == UNION {{quotas[g][i] : i \in DOMAIN quotas[g]} : g \in groups}
  IN [cpu |-> Max({0} \union {d.cpu : d \in docs}),
      memory |-> Max({0} \union {d.memory : d \in docs})]

\* getUsedQuota: all services that are not expired count.
Counted == {s \in Service : services[s].state \in {"new", "created"}}

SizeOf(s) == catalogs[services[s].catalog].size
Used ==
  [cpu |-> MapThenSumSet(LAMBDA s : SizeOf(s).cpu, Counted),
   memory |-> MapThenSumSet(LAMBDA s : SizeOf(s).memory, Counted)]

\* The catalog of every service that counts is asked for.
UsedKnown == \A s \in Counted : Exists(services[s].catalog)

\* Mutant: what the user has already is forgotten.
AdmitsAlone(quota, size) == Fits(size, quota)

\* CreateService: what would remain is not negative. CPUs are float64: when they
\* add up to exactly the quota, the rounding decides.
MayAdmit(quota, size) == Fits(Plus(Used, size), quota)
MustAdmit(quota, size) == MayAdmit(quota, size) /\ Plus(Used, size).cpu # quota.cpu

-------------------------------------------------------------------------------
\* CreateService: the token's groups and the catalog; a catalog that is being
\* deleted is still there.
CreateService(t, c) ==
  /\ At(t, "ready")
  /\ Exists(c) /\ ~catalogs[c].retired /\ catalogs[c].ready
  /\ http' = [http EXCEPT ![t] =
       [Ready EXCEPT !.step = "quota", !.catalog = c, !.groups = member]]
  /\ UNCHANGED <<catalogs, look, services, quotas, member>>

ReadQuota(t) ==
  /\ At(t, "quota")
  /\ http' = [http EXCEPT ![t].step = "used", ![t].size = UserQuota(http[t].groups),
                          ![t].groups = {}, ![t].stale = http[t].groups # member]
  /\ UNCHANGED <<catalogs, look, services, quotas, member>>

ReadUsed(t) ==
  /\ At(t, "used")
  /\ \/ /\ UsedKnown /\ MayAdmit(http[t].size, catalogs[http[t].catalog].size)
        /\ http' = [http EXCEPT ![t].step = "create", ![t].size = Zero]
     \/ /\ ~(UsedKnown /\ MustAdmit(http[t].size, catalogs[http[t].catalog].size))
        /\ Done(t)
  /\ UNCHANGED <<catalogs, look, services, quotas, member>>

Create(t, s) ==
  /\ At(t, "create")
  /\ services[s].state = "none"
  /\ services' = [services EXCEPT ![s] =
       [NoService EXCEPT !.state = "new", !.catalog = http[t].catalog]]
  /\ Outdated({t})
  /\ UNCHANGED <<catalogs, look, quotas, member>>

\* The finalizer comes with the owner: before, the object goes at once.
DeleteService(s) ==
  /\ There(s)
  /\ services' = [services EXCEPT ![s] =
       IF @.owned THEN [@ EXCEPT !.deleting = TRUE] ELSE [@ EXCEPT !.state = "gone"]]
  /\ Outdated({})
  /\ UNCHANGED <<catalogs, look, quotas, member>>

(***************************************************************************)
(* A run of the service controller: without its catalog it fails; unless   *)
(* CREATED, it goes no further than ERROR under a catalog that is retired  *)
(* or not ready; else the service is owned, and finishes its deletion or   *)
(* moves on.                                                               *)
(***************************************************************************)
ReconcileService(s) ==
  LET c == services[s].catalog
      held == services[s].state # "created" /\ (catalogs[c].retired \/ ~catalogs[c].ready)
      later == CASE services[s].state = "new" -> {"new", "created", "expired"}
                 [] services[s].state = "created" -> {"created", "expired"}
                 [] OTHER -> {"expired"}
  IN /\ There(s) /\ Exists(c)
     /\ IF held
        THEN services' = [services EXCEPT ![s].state = "new"] /\ UNCHANGED look
        ELSE /\ \E state \in IF services[s].deleting THEN {"gone"} ELSE later :
                  services' = [services EXCEPT ![s].state = state, ![s].owned = TRUE]
             /\ look' = [look EXCEPT ![c].late =
                  IF look[c].step = "release" /\ ~services[s].owned THEN @ \union {s} ELSE @]
     /\ Outdated({})
     /\ UNCHANGED <<catalogs, quotas, member>>

-------------------------------------------------------------------------------
\* Mutant: the group's quota is not looked up.
NoQuotaYetBlind(g) == g \in Group

\* GetQuotaForGroupID found no document.
NoQuotaYet(g) == quotas[g] = <<>>

\* CreateQuota and UpdateQuota look first and write next.
CreateQuota(t, g, size) ==
  /\ At(t, "ready")
  /\ NoQuotaYet(g)
  /\ http' = [http EXCEPT ![t] =
       [Ready EXCEPT !.step = "insertQuota", !.groups = {g}, !.size = size]]
  /\ UNCHANGED <<catalogs, look, services, quotas, member>>

InsertQuota(t) ==
  /\ At(t, "insertQuota")
  /\ quotas' = [g \in Group |-> IF g \in http[t].groups
                                THEN Append(quotas[g], http[t].size) ELSE quotas[g]]
  /\ Outdated({t})
  /\ UNCHANGED <<catalogs, look, services, member>>

UpdateQuota(t, g, size) ==
  /\ At(t, "ready")
  /\ quotas[g] # <<>>
  /\ http' = [http EXCEPT ![t] =
       [Ready EXCEPT !.step = "setQuota", !.groups = {g}, !.size = size]]
  /\ UNCHANGED <<catalogs, look, services, quotas, member>>

\* db.UpdateQuota and db.DeleteQuota take one document, the oldest.
SetQuota(t) ==
  /\ At(t, "setQuota")
  /\ quotas' = [g \in Group |-> IF g \in http[t].groups /\ quotas[g] # <<>>
                                THEN [quotas[g] EXCEPT ![1] = http[t].size]
                                ELSE quotas[g]]
  /\ Outdated({t})
  /\ UNCHANGED <<catalogs, look, services, member>>

DeleteQuota(g) ==
  /\ quotas[g] # <<>>
  /\ quotas' = [quotas EXCEPT ![g] = Tail(@)]
  /\ Outdated({})
  /\ UNCHANGED <<catalogs, look, services, member>>

\* The user is moved to other groups (Accounts).
Moved(groups) ==
  /\ groups # member
  /\ member' = groups
  /\ Outdated({})
  /\ UNCHANGED <<catalogs, look, services, quotas>>

-------------------------------------------------------------------------------
\* Catalogs. A name is used once.
CreateCatalog(c, size) ==
  /\ catalogs[c].state = "none"
  /\ catalogs' = [catalogs EXCEPT ![c] = NewCatalog(size)]
  /\ UNCHANGED <<look, services, quotas, member, http>>

\* kubeClient.RetireCatalog. What a run has read of the object is out of date
\* now, and its update of the finalizer fails.
RetireCatalog(c) ==
  /\ Exists(c) /\ ~catalogs[c].retired
  /\ catalogs' = [catalogs EXCEPT ![c].retired = TRUE]
  /\ look' = [look EXCEPT ![c] = IF @.step = "release" THEN Idle ELSE @]
  /\ UNCHANGED <<services, quotas, member, http>>

DeleteCatalog(c) ==
  /\ Exists(c) /\ ~catalogs[c].deleting
  /\ catalogs' = [catalogs EXCEPT ![c] =
       IF @.finalizer THEN [@ EXCEPT !.deleting = TRUE] ELSE [@ EXCEPT !.state = "gone"]]
  /\ UNCHANGED <<look, services, quotas, member, http>>

\* Mutant: only the services that were delivered are looked at.
OwnsCreated(c) == \E s \in Service : Owned(s, c) /\ services[s].state = "created"

\* Mutant: services that are gone hold the catalog.
OwnsEver(c) == \E s \in Service : services[s].owned /\ services[s].catalog = c

\* filterOwnedServices.
Owns(c) == \E s \in Service : Owned(s, c)

(***************************************************************************)
(* The first half of a run of the catalog controller: a catalog that stays *)
(* gets the finalizer and, unless retired, is checked against the          *)
(* platform; one that is being deleted loses the finalizer if it owns no   *)
(* service, and else the run fails and is repeated.                        *)
(***************************************************************************)
LookAtCatalog(c) ==
  /\ Exists(c) /\ look[c].step = "idle"
  /\ IF catalogs[c].deleting
     THEN /\ ~Owns(c)
          /\ look' = [look EXCEPT ![c].step = "release"]
          /\ UNCHANGED catalogs
     ELSE /\ catalogs' = [catalogs EXCEPT ![c].finalizer = TRUE]
          /\ look' = [look EXCEPT ![c].step = IF catalogs[c].retired THEN "idle" ELSE "check"]
  /\ UNCHANGED <<services, quotas, member, http>>

ReleaseCatalog(c) ==
  /\ look[c].step = "release"
  /\ catalogs' = [catalogs EXCEPT ![c].state = "gone"]
  /\ look' = [look EXCEPT ![c].step = "idle"]
  /\ UNCHANGED <<services, quotas, member, http>>

\* reconcileVMCatalog and the deferred patch of the status, whatever happened
\* to the object meanwhile.
PublishReady(c) ==
  /\ look[c].step = "check"
  /\ \E ready \in BOOLEAN : catalogs' = [catalogs EXCEPT ![c].ready = ready]
  /\ look' = [look EXCEPT ![c] = Idle]
  /\ UNCHANGED <<services, quotas, member, http>>

\* A call fails, the controller or the API server dies.
RunFails(c) ==
  /\ look[c].step \in {"release", "check"}
  /\ look' = [look EXCEPT ![c] = Idle]
  /\ UNCHANGED <<catalogs, services, quotas, member, http>>

Abandon(t) ==
  /\ ~At(t, "ready")
  /\ Done(t)
  /\ UNCHANGED <<catalogs, look, services, quotas, member>>

-------------------------------------------------------------------------------
Init ==
  /\ catalogs = [c \in Catalog |-> NoneYet]
  /\ look = [c \in Catalog |-> Idle]
  /\ services = [s \in Service |-> NoService]
  /\ quotas = [g \in Group |-> <<>>]
  /\ member = {}
  /\ http = [t \in Thread |-> Ready]

Handle(t) ==
  \/ \E c \in Catalog : CreateService(t, c)
  \/ ReadQuota(t) \/ ReadUsed(t) \/ (\E s \in Service : Create(t, s))
  \/ \E g \in Group, size \in QuotaSize : CreateQuota(t, g, size) \/ UpdateQuota(t, g, size)
  \/ InsertQuota(t) \/ SetQuota(t)
  \/ Abandon(t)

AtOnce ==
  \/ \E s \in Service : DeleteService(s)
  \/ \E g \in Group : DeleteQuota(g)
  \/ \E groups \in SUBSET Group : Moved(groups)
  \/ \E c \in Catalog :
       \/ RetireCatalog(c) \/ DeleteCatalog(c)
       \/ \E size \in CatalogSize : CreateCatalog(c, size)

Controllers ==
  \/ \E s \in Service : ReconcileService(s)
  \/ \E c \in Catalog :
       LookAtCatalog(c) \/ ReleaseCatalog(c) \/ PublishReady(c) \/ RunFails(c)

Next == AtOnce \/ Controllers \/ \E t \in Thread : Handle(t)

\* A run of a controller ends; failed runs are repeated, and do not fail for ever.
Fairness ==
  /\ \A s \in Service : WF_admissionVars(ReconcileService(s) /\ services' # services)
  /\ \A c \in Catalog : /\ WF_admissionVars(LookAtCatalog(c))
                        /\ WF_admissionVars(PublishReady(c) \/ RunFails(c))
                        /\ SF_admissionVars(ReleaseCatalog(c))

Spec == Init /\ [][Next]_admissionVars

-------------------------------------------------------------------------------
\* The types of the variables.
TypeOK ==
  /\ catalogs \in [Catalog -> [state : {"none", "live", "gone"}, deleting : BOOLEAN,
       finalizer : BOOLEAN, retired : BOOLEAN, ready : BOOLEAN, size : Size]]
  /\ look \in [Catalog -> [step : {"idle", "release", "check"}, late : SUBSET Service]]
  /\ services \in [Service -> [state : {"none", "new", "created", "expired", "gone"},
       catalog : Catalog \union {NoCatalog}, owned : BOOLEAN, deleting : BOOLEAN]]
  /\ quotas \in [Group -> Seq(Size)]
  /\ member \subseteq Group
  /\ http \in [Thread -> [step : {"ready", "quota", "used", "create", "insertQuota", "setQuota"},
       catalog : Catalog \union {NoCatalog}, groups : SUBSET Group, size : Size,
       stale : BOOLEAN]]

\* A creation takes the user past the quota only if a service, a quota or a
\* membership changed after this handler read the quota: one request at a time
\* never does ("user does not have quota to provision resource").
OverdraftNeedsRace ==
  [][\A t \in Thread :
       /\ At(t, "create") /\ services' # services /\ http'[t] = Ready
       /\ UsedKnown'
       => http[t].stale \/ Fits(Used', UserQuota(member)')]_admissionVars

\* Two administrators who create the quota of a group at once leave two
\* documents, but there are never more than there are handlers.
FewQuotaDocuments ==
  \A g \in Group : Len(quotas[g]) <= Cardinality(Thread)

\* A catalog goes only when it owns no service, other than one that came to be
\* owned while the controller was letting the catalog go ("finalizer not
\* removed since catalog still owning services"). Without its catalog a service
\* could not be deleted, and would keep its user from creating another one.
OwnedKeepsCatalog ==
  \A c \in Catalog, s \in Service :
    catalogs[c].state = "gone" /\ Owned(s, c) => s \in look[c].late

\* A deleted catalog goes once its services are deleted, unless it is retired
\* or not ready: then a service that was never delivered waits for the catalog,
\* and the catalog for the service.
DeletedCatalogGoes ==
  \A c \in Catalog :
    catalogs[c].deleting ~>
      \/ catalogs[c].state = "gone"
      \/ catalogs[c].retired \/ ~catalogs[c].ready
      \/ \E s \in Service : There(s) /\ services[s].catalog = c /\ ~services[s].deleting

===============================================================================
