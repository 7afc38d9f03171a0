---------------------------- MODULE AdmissionProofs ----------------------------
(***************************************************************************)
(* Theorems of Admission, for any number of catalogs, services, groups and *)
(* handlers: the variables have their types, a catalog that still owns a   *)
(* service goes only under one that came late, a group never has more      *)
(* quota documents than there are handlers, and only a race takes a user   *)
(* past the quota.                                                         *)
(***************************************************************************)
EXTENDS Admission, FiniteSetTheorems, SequenceTheorems, WellFoundedInduction, TLAPS

CatalogRecord ==
  [state : {"none", "live", "gone"}, deleting : BOOLEAN,
   finalizer : BOOLEAN, retired : BOOLEAN, ready : BOOLEAN, size : Size]
Run == [step : {"idle", "release", "check"}, late : SUBSET Service]
ServiceRecord ==
  [state : {"none", "new", "created", "expired", "gone"},
   catalog : Catalog \union {NoCatalog}, owned : BOOLEAN, deleting : BOOLEAN]
Handler ==
  [step : {"ready", "quota", "used", "create", "insertQuota", "setQuota"},
   catalog : Catalog \union {NoCatalog}, groups : SUBSET Group, size : Size, stale : BOOLEAN]

LEMMA TypeParts ==
  TypeOK <=>
    /\ catalogs \in [Catalog -> CatalogRecord]
    /\ look \in [Catalog -> Run]
    /\ services \in [Service -> ServiceRecord]
    /\ quotas \in [Group -> Seq(Size)]
    /\ member \subseteq Group
    /\ http \in [Thread -> Handler]
  BY DEF TypeOK, CatalogRecord, Run, ServiceRecord, Handler

-------------------------------------------------------------------------------
LEMMA AmountIsInt == Amount \subseteq Int /\ 0 \in Amount
  BY AdmissionAssumption DEF Amount

\* What a user may have at most is a size.
LEMMA MaxIsIn ==
  ASSUME NEW S \in SUBSET Amount, S # {}
  PROVE  Max(S) \in Amount
<1> DEFINE HasMax(X) == \E m \in X : \A x \in X : m >= x
           Bad == {X \in SUBSET S : X # {} /\ ~HasMax(X)}
<1>0. IsFiniteSet(S)
  <2>1. -Below \in Int /\ MaxSize \in Int
    BY AdmissionAssumption
  <2>2. IsFiniteSet(Amount)
    BY <2>1, FS_Interval DEF Amount
  <2> QED BY <2>2, FS_Subset
<1>1. HasMax(S)
  <2> SUFFICES ASSUME ~HasMax(S) PROVE FALSE
    OBVIOUS
  <2>1. Bad # {}
    OBVIOUS
  <2>2. Bad \subseteq FiniteSubsetsOf(S)
    BY <1>0, FS_Subset DEF FiniteSubsetsOf
  <2>3. PICK X \in Bad : \A Y \in Bad : <<Y, X>> \notin StrictSubsetOrdering(S)
    <3> HIDE DEF Bad
    <3> QED BY <1>0, <2>1, <2>2, WFMin, FS_StrictSubsetOrderingWellFounded
  <2>4. PICK y \in X : TRUE
    OBVIOUS
  <2>5. X \ {y} # {}
    <3> SUFFICES ASSUME X = {y} PROVE FALSE
      BY <2>4
    <3>1. y \in Int
      BY <2>4, AmountIsInt
    <3> QED BY <3>1
  <2>6. <<X \ {y}, X>> \in StrictSubsetOrdering(S)
    BY <2>4 DEF StrictSubsetOrdering
  <2>7. HasMax(X \ {y})
    BY <2>3, <2>5, <2>6
  <2>8. PICK m \in X \ {y} : \A x \in X \ {y} : m >= x
    BY <2>7
  <2>9. m \in Int /\ y \in Int
    BY <2>4, AmountIsInt
  <2>10. HasMax(X)
    <3>1. CASE m >= y
      BY <2>8, <3>1
    <3>2. CASE y > m
      <4>1. \A x \in X : x \in Int
        BY AmountIsInt
      <4>2. \A x \in X : y >= x
        BY <2>8, <2>9, <3>2, <4>1
      <4> QED BY <2>4, <4>2
    <3> QED BY <2>9, <3>1, <3>2
  <2> QED BY <2>10
<1>2. Max(S) \in S
  BY <1>1 DEF Max
<1> QED BY <1>2

LEMMA QuotaTyped ==
  ASSUME TypeOK, NEW groups \in SUBSET Group
  PROVE  UserQuota(groups) \in Size
<1> DEFINE docs == UNION {{quotas[g][i] : i \in DOMAIN quotas[g]} : g \in groups}
           Cpus == {0} \union {d.cpu : d \in docs}
           Memories == {0} \union {d.memory : d \in docs}
<1>1. docs \subseteq Size
  <2>1. \A g \in groups : quotas[g] \in Seq(Size)
    BY TypeParts
  <2>2. \A g \in groups : \A i \in DOMAIN quotas[g] : quotas[g][i] \in Size
    BY <2>1, ElementOfSeq, LenProperties
  <2> QED BY <2>2
<1>2. 0 \in Amount
  BY AmountIsInt
<1>3. Cpus \subseteq Amount /\ Cpus # {}
  BY <1>1, <1>2 DEF Size
<1>4. Memories \subseteq Amount /\ Memories # {}
  BY <1>1, <1>2 DEF Size
<1>5. Max(Cpus) \in Amount /\ Max(Memories) \in Amount
  <2> HIDE DEF Cpus, Memories
  <2> QED BY <1>3, <1>4, MaxIsIn
<1>6. UserQuota(groups) = [cpu |-> Max(Cpus), memory |-> Max(Memories)]
  BY DEF UserQuota
<1> HIDE DEF Cpus, Memories
<1> QED BY <1>5, <1>6 DEF Size

LEMMA SizesTyped == Zero \in Size /\ QuotaSize \subseteq Size /\ CatalogSize \subseteq Size
<1>1. 1 .. MaxSize \subseteq Amount
  BY AdmissionAssumption DEF Amount
<1> QED BY <1>1, AmountIsInt DEF Zero, Size, QuotaSize, CatalogSize

LEMMA ReadyTyped == Ready \in Handler
  BY SizesTyped DEF Ready, Handler

LEMMA IdleTyped == Idle \in Run
  BY DEF Idle, Run

LEMMA DoneTyped ==
  ASSUME NEW t \in Thread, http \in [Thread -> Handler], Done(t)
  PROVE  http' \in [Thread -> Handler]
  BY ReadyTyped DEF Done

LEMMA OutdatedTyped ==
  ASSUME NEW own, http \in [Thread -> Handler], Outdated(own)
  PROVE  http' \in [Thread -> Handler]
<1>1. \A t \in Thread :
        [http[t] EXCEPT !.stale = @ \/ http[t].step \in {"used", "create"}] \in Handler
  BY DEF Handler
<1> QED BY <1>1, ReadyTyped DEF Outdated

\* A handler that goes on keeps its type, whatever it read.
LEMMA Rewritten ==
  ASSUME NEW f \in [Thread -> Handler], NEW t \in Thread,
         NEW step \in {"used", "create"}, NEW size \in Size
  PROVE  [f EXCEPT ![t].step = step, ![t].size = size] \in [Thread -> Handler]
<1>1. f[t] \in Handler
  OBVIOUS
<1>2. [f[t] EXCEPT !.step = step, !.size = size] \in Handler
  BY <1>1 DEF Handler
<1>3. [f EXCEPT ![t].step = step, ![t].size = size]
        = [f EXCEPT ![t] = [f[t] EXCEPT !.step = step, !.size = size]]
  OBVIOUS
<1>4. \A h \in Handler : [f EXCEPT ![t] = h] \in [Thread -> Handler]
  OBVIOUS
<1> QED BY <1>2, <1>3, <1>4

LEMMA Reread ==
  ASSUME NEW f \in [Thread -> Handler], NEW t \in Thread,
         NEW size \in Size, NEW b \in BOOLEAN
  PROVE  [f EXCEPT ![t].step = "used", ![t].size = size, ![t].groups = {}, ![t].stale = b]
           \in [Thread -> Handler]
<1>1. f[t] \in Handler
  OBVIOUS
<1>2. [f[t] EXCEPT !.step = "used", !.size = size, !.groups = {}, !.stale = b] \in Handler
  BY <1>1 DEF Handler
<1>3. [f EXCEPT ![t].step = "used", ![t].size = size, ![t].groups = {}, ![t].stale = b]
        = [f EXCEPT ![t] =
             [f[t] EXCEPT !.step = "used", !.size = size, !.groups = {}, !.stale = b]]
  OBVIOUS
<1>4. \A h \in Handler : [f EXCEPT ![t] = h] \in [Thread -> Handler]
  OBVIOUS
<1> QED BY <1>2, <1>3, <1>4

LEMMA HandlersTyped ==
  ASSUME TypeOK, Next
  PROVE  http' \in [Thread -> Handler]
<1>0. http \in [Thread -> Handler]
  BY TypeParts
<1>1. CASE AtOnce
  BY <1>0, <1>1, OutdatedTyped
  DEF AtOnce, DeleteService, DeleteQuota, Moved, RetireCatalog, DeleteCatalog, CreateCatalog
<1>2. CASE Controllers
  BY <1>0, <1>2, OutdatedTyped
  DEF Controllers, ReconcileService, LookAtCatalog, ReleaseCatalog, PublishReady, RunFails
<1>3. ASSUME NEW t \in Thread, Handle(t) PROVE http' \in [Thread -> Handler]
  <2>1. ASSUME NEW c \in Catalog, CreateService(t, c) PROVE http' \in [Thread -> Handler]
    <3>1. [Ready EXCEPT !.step = "quota", !.catalog = c, !.groups = member] \in Handler
      BY ReadyTyped, TypeParts DEF Handler
    <3> QED BY <1>0, <2>1, <3>1 DEF CreateService
  <2>2. ASSUME ReadQuota(t) PROVE http' \in [Thread -> Handler]
    <3>1. UserQuota(http[t].groups) \in Size
      BY <1>0, QuotaTyped DEF Handler
    <3>2. \A b \in BOOLEAN :
            [http EXCEPT ![t].step = "used", ![t].size = UserQuota(http[t].groups),
                         ![t].groups = {}, ![t].stale = b] \in [Thread -> Handler]
      BY <1>0, <3>1, Reread
    <3> QED BY <2>2, <3>2 DEF ReadQuota
  <2>3. ASSUME ReadUsed(t) PROVE http' \in [Thread -> Handler]
    <3>1. CASE Done(t)
      BY <1>0, <3>1, DoneTyped
    <3>2. CASE http' = [http EXCEPT ![t].step = "create", ![t].size = Zero]
      BY <1>0, <3>2, SizesTyped, Rewritten
    <3> QED BY <2>3, <3>1, <3>2 DEF ReadUsed
  <2>4. ASSUME NEW g \in Group, NEW size \in QuotaSize,
               CreateQuota(t, g, size) \/ UpdateQuota(t, g, size)
        PROVE  http' \in [Thread -> Handler]
    <3>1. \A step \in {"insertQuota", "setQuota"} :
            [Ready EXCEPT !.step = step, !.groups = {g}, !.size = size] \in Handler
      BY ReadyTyped, SizesTyped DEF Handler
    <3> QED BY <1>0, <2>4, <3>1 DEF CreateQuota, UpdateQuota
  <2>5. ASSUME (\E s \in Service : Create(t, s)) \/ InsertQuota(t) \/ SetQuota(t)
        PROVE  http' \in [Thread -> Handler]
    BY <1>0, <2>5, OutdatedTyped DEF Create, InsertQuota, SetQuota
  <2>6. ASSUME Abandon(t) PROVE http' \in [Thread -> Handler]
    BY <1>0, <2>6, DoneTyped DEF Abandon
  <2> QED BY <1>3, <2>1, <2>2, <2>3, <2>4, <2>5, <2>6 DEF Handle
<1> QED BY <1>1, <1>2, <1>3 DEF Next

LEMMA QuotasTyped ==
  ASSUME TypeOK, Next
  PROVE  quotas' \in [Group -> Seq(Size)]
<1>0. quotas \in [Group -> Seq(Size)] /\ http \in [Thread -> Handler]
  BY TypeParts
<1>1. ASSUME UNCHANGED quotas PROVE quotas' \in [Group -> Seq(Size)]
  BY <1>0, <1>1
<1>2. ASSUME NEW g \in Group, DeleteQuota(g) PROVE quotas' \in [Group -> Seq(Size)]
  <2>1. Tail(quotas[g]) \in Seq(Size)
    BY <1>0, <1>2, HeadTailProperties DEF DeleteQuota
  <2> QED BY <1>0, <1>2, <2>1 DEF DeleteQuota
<1>3. ASSUME NEW t \in Thread, InsertQuota(t) PROVE quotas' \in [Group -> Seq(Size)]
  <2>1. \A g \in Group : Append(quotas[g], http[t].size) \in Seq(Size)
    BY <1>0, AppendProperties DEF Handler
  <2> QED BY <1>0, <1>3, <2>1 DEF InsertQuota
<1>4. ASSUME NEW t \in Thread, SetQuota(t) PROVE quotas' \in [Group -> Seq(Size)]
  <2>1. ASSUME NEW g \in Group, quotas[g] # <<>>
        PROVE  [quotas[g] EXCEPT ![1] = http[t].size] \in Seq(Size)
    <3>1. quotas[g] \in Seq(Size) /\ http[t].size \in Size
      BY <1>0 DEF Handler
    <3> QED BY <3>1, <2>1, ExceptSeq, EmptySeq, LenProperties
  <2> QED BY <1>0, <1>4, <2>1 DEF SetQuota
<1>5. CASE AtOnce
  BY <1>1, <1>2, <1>5
  DEF AtOnce, DeleteService, Moved, RetireCatalog, DeleteCatalog, CreateCatalog
<1>6. CASE Controllers
  BY <1>1, <1>6
  DEF Controllers, ReconcileService, LookAtCatalog, ReleaseCatalog, PublishReady, RunFails
<1>7. ASSUME NEW t \in Thread, Handle(t) PROVE quotas' \in [Group -> Seq(Size)]
  BY <1>1, <1>3, <1>4, <1>7
  DEF Handle, CreateService, ReadQuota, ReadUsed, Create, CreateQuota, UpdateQuota, Abandon
<1> QED BY <1>5, <1>6, <1>7 DEF Next

LEMMA ObjectsTyped ==
  ASSUME TypeOK, Next
  PROVE  /\ catalogs' \in [Catalog -> CatalogRecord] /\ look' \in [Catalog -> Run]
         /\ services' \in [Service -> ServiceRecord] /\ member' \subseteq Group
<1> DEFINE Good == /\ catalogs' \in [Catalog -> CatalogRecord] /\ look' \in [Catalog -> Run]
                   /\ services' \in [Service -> ServiceRecord] /\ member' \subseteq Group
<1>0. /\ catalogs \in [Catalog -> CatalogRecord] /\ look \in [Catalog -> Run]
      /\ services \in [Service -> ServiceRecord] /\ member \subseteq Group
  BY TypeParts
<1>1. ASSUME UNCHANGED <<catalogs, look, services, member>> PROVE Good
  BY <1>0, <1>1
<1>2. ASSUME NEW t \in Thread, NEW s \in Service, Create(t, s) PROVE Good
  <2>1. http[t].catalog \in Catalog \union {NoCatalog}
    BY TypeParts DEF Handler
  <2>2. [NoService EXCEPT !.state = "new", !.catalog = http[t].catalog] \in ServiceRecord
    BY <2>1 DEF NoService, ServiceRecord
  <2> QED BY <1>0, <1>2, <2>2 DEF Create
<1>3. ASSUME NEW s \in Service, DeleteService(s) PROVE Good
  BY <1>0, <1>3 DEF DeleteService, ServiceRecord
<1>4. ASSUME NEW s \in Service, ReconcileService(s) PROVE Good
  <2>1. services' \in [Service -> ServiceRecord]
    <3>1. \A state \in {"none", "new", "created", "expired", "gone"} :
            [services EXCEPT ![s].state = state] \in [Service -> ServiceRecord]
      BY <1>0 DEF ServiceRecord
    <3>2. \A state \in {"none", "new", "created", "expired", "gone"} :
            [services EXCEPT ![s].state = state, ![s].owned = TRUE] \in [Service -> ServiceRecord]
      BY <1>0 DEF ServiceRecord
    <3> QED BY <1>4, <3>1, <3>2 DEF ReconcileService
  <2>2. look' \in [Catalog -> Run]
    BY <1>0, <1>4 DEF ReconcileService, Run
  <2> QED BY <1>0, <1>4, <2>1, <2>2 DEF ReconcileService
<1>5. ASSUME NEW c \in Catalog, RetireCatalog(c) \/ DeleteCatalog(c) PROVE Good
  <2>1. catalogs' \in [Catalog -> CatalogRecord]
    <3>1. \A d \in Catalog, b \in BOOLEAN :
            /\ [catalogs[d] EXCEPT !.retired = b] \in CatalogRecord
            /\ [catalogs[d] EXCEPT !.deleting = b] \in CatalogRecord
            /\ [catalogs[d] EXCEPT !.state = "gone"] \in CatalogRecord
      BY <1>0 DEF CatalogRecord
    <3>2. CASE RetireCatalog(c)
      BY <1>0, <3>1, <3>2 DEF RetireCatalog
    <3>3. CASE DeleteCatalog(c)
      BY <1>0, <3>1, <3>3 DEF DeleteCatalog
    <3> QED BY <1>5, <3>2, <3>3
  <2>2. look' \in [Catalog -> Run]
    BY <1>0, <1>5, IdleTyped DEF RetireCatalog, DeleteCatalog
  <2> QED BY <1>0, <1>5, <2>1, <2>2 DEF RetireCatalog, DeleteCatalog
<1>6. ASSUME NEW c \in Catalog, NEW size \in CatalogSize, CreateCatalog(c, size) PROVE Good
  <2>1. NewCatalog(size) \in CatalogRecord
    BY SizesTyped DEF NewCatalog, CatalogRecord
  <2> QED BY <1>0, <1>6, <2>1 DEF CreateCatalog
<1>7. ASSUME NEW c \in Catalog, LookAtCatalog(c) \/ ReleaseCatalog(c) PROVE Good
  <2>1. catalogs' \in [Catalog -> CatalogRecord]
    <3>1. \A d \in Catalog :
            /\ [catalogs[d] EXCEPT !.finalizer = TRUE] \in CatalogRecord
            /\ [catalogs[d] EXCEPT !.state = "gone"] \in CatalogRecord
      BY <1>0 DEF CatalogRecord
    <3>2. CASE LookAtCatalog(c)
      BY <1>0, <3>1, <3>2 DEF LookAtCatalog
    <3>3. CASE ReleaseCatalog(c)
      BY <1>0, <3>1, <3>3 DEF ReleaseCatalog
    <3> QED BY <1>7, <3>2, <3>3
  <2>2. look' \in [Catalog -> Run]
    BY <1>0, <1>7 DEF LookAtCatalog, ReleaseCatalog, Run
  <2> QED BY <1>0, <1>7, <2>1, <2>2 DEF LookAtCatalog, ReleaseCatalog
<1>8. ASSUME NEW c \in Catalog, PublishReady(c) \/ RunFails(c) PROVE Good
  <2>1. catalogs' \in [Catalog -> CatalogRecord]
    BY <1>0, <1>8 DEF PublishReady, RunFails, CatalogRecord
  <2>2. look' \in [Catalog -> Run]
    BY <1>0, <1>8, IdleTyped DEF PublishReady, RunFails
  <2> QED BY <1>0, <1>8, <2>1, <2>2 DEF PublishReady, RunFails
<1>9. ASSUME NEW groups \in SUBSET Group, Moved(groups) PROVE Good
  BY <1>0, <1>9 DEF Moved
<1>10. CASE AtOnce
  BY <1>1, <1>3, <1>5, <1>6, <1>9, <1>10 DEF AtOnce, DeleteQuota
<1>11. CASE Controllers
  BY <1>4, <1>7, <1>8, <1>11 DEF Controllers
<1>12. ASSUME NEW t \in Thread, Handle(t) PROVE Good
  BY <1>1, <1>2, <1>12
  DEF Handle, CreateService, ReadQuota, ReadUsed, CreateQuota, UpdateQuota, InsertQuota,
      SetQuota, Abandon
<1> QED BY <1>10, <1>11, <1>12 DEF Next

LEMMA TypeInit == Init => TypeOK
<1> SUFFICES ASSUME Init PROVE TypeOK
  OBVIOUS
<1>1. NoneYet \in CatalogRecord
  BY SizesTyped DEF NoneYet, NewCatalog, CatalogRecord
<1>2. Idle \in Run /\ NoService \in ServiceRecord /\ <<>> \in Seq(Size)
  BY EmptySeq DEF Idle, Run, NoService, ServiceRecord
<1> QED BY <1>1, <1>2, ReadyTyped, TypeParts DEF Init

LEMMA TypeStep == TypeOK /\ [Next]_admissionVars => TypeOK'
<1>1. ASSUME TypeOK, Next PROVE TypeOK'
  BY <1>1, HandlersTyped, QuotasTyped, ObjectsTyped DEF TypeOK, CatalogRecord, Run,
     ServiceRecord, Handler
<1>2. ASSUME TypeOK, UNCHANGED admissionVars PROVE TypeOK'
  BY <1>2 DEF TypeOK, admissionVars
<1> QED BY <1>1, <1>2

\* The variables have their types.
THEOREM AdmissionTypeCorrect == Spec => []TypeOK
  BY TypeInit, TypeStep, PTL DEF Spec

-------------------------------------------------------------------------------
\* A catalog with anything to lose has the finalizer: one that is ready, that is
\* being deleted or looked at, or whose service was delivered or is owned. While
\* it is being let go, and after, it owns only what came late.
Guarded(c) ==
  /\ look[c].step # "idle" => Exists(c) /\ catalogs[c].finalizer
  /\ catalogs[c].ready \/ catalogs[c].deleting => catalogs[c].finalizer
  /\ catalogs[c].state = "none" => ~catalogs[c].finalizer
  /\ \A s \in Service :
       services[s].catalog = c /\ (services[s].owned \/ services[s].state = "created")
         => catalogs[c].finalizer

OnlyLate(c) ==
  catalogs[c].state = "gone" \/ look[c].step = "release"
    => \A s \in Service : Owned(s, c) => s \in look[c].late

CatalogInv == \A c \in Catalog : Guarded(c) /\ OnlyLate(c)

LEMMA CatalogInit == Init => CatalogInv
  BY DEF Init, CatalogInv, Guarded, OnlyLate, Exists, Idle, NoneYet, NewCatalog, NoService,
     Owned, There

LEMMA ServicesMove ==
  ASSUME TypeOK, CatalogInv,
         \/ \E t \in Thread, s \in Service : Create(t, s)
         \/ \E s \in Service : DeleteService(s) \/ ReconcileService(s)
  PROVE  CatalogInv'
<1>0. /\ catalogs \in [Catalog -> CatalogRecord] /\ look \in [Catalog -> Run]
      /\ services \in [Service -> ServiceRecord]
  BY TypeParts
<1>1. ASSUME NEW t \in Thread, NEW s \in Service, Create(t, s) PROVE CatalogInv'
  <2>1. /\ services' = [services EXCEPT ![s] = services'[s]]
        /\ ~services'[s].owned /\ services'[s].state = "new"
    BY <1>0, <1>1 DEF Create, NoService, ServiceRecord
  <2> QED BY <1>0, <1>1, <2>1 DEF Create, CatalogInv, Guarded, OnlyLate, Exists, Owned, There
<1>2. ASSUME NEW s \in Service, DeleteService(s) PROVE CatalogInv'
  <2>1. /\ services' = [services EXCEPT ![s] = services'[s]]
        /\ services'[s].owned = services[s].owned /\ services'[s].catalog = services[s].catalog
        /\ services'[s].state = services[s].state \/ services'[s].state = "gone"
    BY <1>0, <1>2 DEF DeleteService, ServiceRecord
  <2> QED BY <1>0, <1>2, <2>1
      DEF DeleteService, CatalogInv, Guarded, OnlyLate, Exists, Owned, There
<1>3. ASSUME NEW s \in Service, ReconcileService(s) PROVE CatalogInv'
  <2> DEFINE c == services[s].catalog
             held == services[s].state # "created" /\ (catalogs[c].retired \/ ~catalogs[c].ready)
  <2>1. CASE held
    <3>1. services' = [services EXCEPT ![s].state = "new"] /\ UNCHANGED <<look, catalogs>>
      BY <1>3, <2>1 DEF ReconcileService
    <3>2. /\ services' = [services EXCEPT ![s] = services'[s]]
          /\ services'[s].owned = services[s].owned
          /\ services'[s].catalog = services[s].catalog /\ services'[s].state = "new"
      BY <1>0, <3>1 DEF ServiceRecord
    <3>3. There(s)
      BY <1>3 DEF ReconcileService
    <3> QED BY <1>0, <3>1, <3>2, <3>3
        DEF CatalogInv, Guarded, OnlyLate, Exists, Owned, There
  <2>2. CASE ~held
    <3>1. /\ \E state \in {"new", "created", "expired", "gone"} :
               services' = [services EXCEPT ![s].state = state, ![s].owned = TRUE]
          /\ UNCHANGED catalogs
          /\ look' = [look EXCEPT ![c].late =
               IF look[c].step = "release" /\ ~services[s].owned THEN @ \union {s} ELSE @]
          /\ Exists(c) /\ There(s)
      BY <1>3, <2>2 DEF ReconcileService
    <3>2. /\ services' = [services EXCEPT ![s] = services'[s]]
          /\ services'[s].catalog = services[s].catalog
      BY <1>0, <3>1 DEF ServiceRecord
    <3>3. \A d \in Catalog : look'[d].step = look[d].step /\ look[d].late \subseteq look'[d].late
      BY <1>0, <3>1 DEF Run
    <3>4. ASSUME NEW d \in Catalog PROVE Guarded(d)'
      <4>1. d = c => catalogs[d].finalizer
        BY <2>2 DEF CatalogInv, Guarded
      <4> QED BY <1>0, <3>1, <3>2, <3>3, <4>1 DEF CatalogInv, Guarded, Exists
    <3>5. ASSUME NEW d \in Catalog PROVE OnlyLate(d)'
      <4>1. CASE d = c
        <5>1. look[c].step = "release" => s \in look'[c].late
          <6>1. CASE services[s].owned
            BY <1>0, <3>1, <3>3, <4>1, <6>1 DEF CatalogInv, OnlyLate, Owned
          <6>2. CASE ~services[s].owned
            BY <1>0, <3>1, <4>1, <6>2 DEF Run
          <6> QED BY <6>1, <6>2
        <5>2. catalogs'[c].state # "gone"
          BY <3>1 DEF Exists
        <5> QED BY <1>0, <3>1, <3>2, <3>3, <4>1, <5>1, <5>2
            DEF CatalogInv, OnlyLate, Owned, There
      <4>2. CASE d # c
        BY <1>0, <3>1, <3>2, <3>3, <4>2 DEF CatalogInv, OnlyLate, Owned, There
      <4> QED BY <4>1, <4>2
    <3> QED BY <3>4, <3>5 DEF CatalogInv
  <2> QED BY <2>1, <2>2
<1> QED BY <1>1, <1>2, <1>3

LEMMA CatalogsMove ==
  ASSUME TypeOK, CatalogInv, NEW c \in Catalog,
         \/ RetireCatalog(c) \/ DeleteCatalog(c) \/ \E size \in CatalogSize : CreateCatalog(c, size)
         \/ LookAtCatalog(c) \/ ReleaseCatalog(c) \/ PublishReady(c) \/ RunFails(c)
  PROVE  CatalogInv'
<1>0. /\ catalogs \in [Catalog -> CatalogRecord] /\ look \in [Catalog -> Run]
      /\ services \in [Service -> ServiceRecord]
  BY TypeParts
<1>a. UNCHANGED services
  BY DEF RetireCatalog, DeleteCatalog, CreateCatalog, LookAtCatalog, ReleaseCatalog,
         PublishReady, RunFails
<1>b. ASSUME NEW d \in Catalog, d # c PROVE Guarded(d)' /\ OnlyLate(d)'
  <2>1. catalogs'[d] = catalogs[d] /\ look'[d] = look[d]
    BY <1>0, <1>b DEF RetireCatalog, DeleteCatalog, CreateCatalog, LookAtCatalog,
       ReleaseCatalog, PublishReady, RunFails
  <2> QED BY <1>a, <2>1 DEF CatalogInv, Guarded, OnlyLate, Exists, Owned, There
<1>c. Guarded(c) /\ OnlyLate(c)
  BY DEF CatalogInv
<1>1. CASE RetireCatalog(c)
  <2>1. Guarded(c)' /\ OnlyLate(c)'
    BY <1>0, <1>1, <1>a, <1>c
    DEF RetireCatalog, Guarded, OnlyLate, Exists, Owned, There, Idle, CatalogRecord, Run
  <2> QED BY <1>b, <2>1 DEF CatalogInv
<1>2. CASE DeleteCatalog(c)
  <2>1. Guarded(c)' /\ OnlyLate(c)'
    BY <1>0, <1>2, <1>a, <1>c
    DEF DeleteCatalog, Guarded, OnlyLate, Exists, Owned, There, CatalogRecord, Run
  <2> QED BY <1>b, <2>1 DEF CatalogInv
<1>3. ASSUME NEW size \in CatalogSize, CreateCatalog(c, size) PROVE CatalogInv'
  <2>1. Guarded(c)' /\ OnlyLate(c)'
    BY <1>0, <1>3, <1>a, <1>c
    DEF CreateCatalog, NewCatalog, Guarded, OnlyLate, Exists, Owned, There, CatalogRecord, Run
  <2> QED BY <1>b, <2>1 DEF CatalogInv
<1>4. CASE LookAtCatalog(c)
  <2>1. Guarded(c)' /\ OnlyLate(c)'
    <3>1. CASE catalogs[c].deleting
      BY <1>0, <1>4, <1>a, <1>c, <3>1
      DEF LookAtCatalog, Guarded, OnlyLate, Exists, Owns, Owned, There, CatalogRecord, Run
    <3>2. CASE ~catalogs[c].deleting
      BY <1>0, <1>4, <1>a, <1>c, <3>2
      DEF LookAtCatalog, Guarded, OnlyLate, Exists, Owned, There, CatalogRecord, Run
    <3> QED BY <3>1, <3>2
  <2> QED BY <1>b, <2>1 DEF CatalogInv
<1>5. CASE ReleaseCatalog(c)
  <2>1. Guarded(c)' /\ OnlyLate(c)'
    BY <1>0, <1>5, <1>a, <1>c
    DEF ReleaseCatalog, Guarded, OnlyLate, Exists, Owned, There, CatalogRecord, Run
  <2> QED BY <1>b, <2>1 DEF CatalogInv
<1>6. CASE PublishReady(c)
  <2>1. Guarded(c)' /\ OnlyLate(c)'
    BY <1>0, <1>6, <1>a, <1>c
    DEF PublishReady, Guarded, OnlyLate, Exists, Owned, There, Idle, CatalogRecord, Run
  <2> QED BY <1>b, <2>1 DEF CatalogInv
<1>7. CASE RunFails(c)
  <2>1. Guarded(c)' /\ OnlyLate(c)'
    BY <1>0, <1>7, <1>a, <1>c
    DEF RunFails, Guarded, OnlyLate, Exists, Owned, There, Idle, CatalogRecord, Run
  <2> QED BY <1>b, <2>1 DEF CatalogInv
<1> QED BY <1>1, <1>2, <1>3, <1>4, <1>5, <1>6, <1>7

LEMMA CatalogStep == TypeOK /\ CatalogInv /\ [Next]_admissionVars => CatalogInv'
<1> SUFFICES ASSUME TypeOK, CatalogInv, [Next]_admissionVars PROVE CatalogInv'
  OBVIOUS
<1>1. ASSUME UNCHANGED <<catalogs, look, services>> PROVE CatalogInv'
  BY <1>1 DEF CatalogInv, Guarded, OnlyLate, Exists, Owned, There
<1>2. CASE AtOnce
  BY <1>1, <1>2, ServicesMove, CatalogsMove DEF AtOnce, DeleteQuota, Moved
<1>3. CASE Controllers
  BY <1>3, ServicesMove, CatalogsMove DEF Controllers
<1>4. ASSUME NEW t \in Thread, Handle(t) PROVE CatalogInv'
  BY <1>1, <1>4, ServicesMove
  DEF Handle, CreateService, ReadQuota, ReadUsed, CreateQuota, UpdateQuota, InsertQuota,
      SetQuota, Abandon
<1> QED BY <1>1, <1>2, <1>3, <1>4 DEF Next, admissionVars

\* A catalog that is gone owns no service, but those that came to be owned while
\* its controller was letting it go.
THEOREM CatalogKept == Spec => []OwnedKeepsCatalog
<1>1. CatalogInv => OwnedKeepsCatalog
  BY DEF CatalogInv, OnlyLate, OwnedKeepsCatalog
<1> QED BY <1>1, TypeInit, TypeStep, CatalogInit, CatalogStep, PTL DEF Spec

-------------------------------------------------------------------------------
\* The handlers that are about to insert a quota of a group.
Inserting(g) == {t \in Thread : At(t, "insertQuota") /\ g \in http[t].groups}

\* A document and a handler that is about to insert one stand for one handler each.
DocumentsInv == \A g \in Group : Len(quotas[g]) + Cardinality(Inserting(g)) <= Cardinality(Thread)

LEMMA InsertingFinite ==
  \A g \in Group : Cardinality(Inserting(g)) \in Nat /\ Cardinality(Inserting(g)) <= Cardinality(Thread)
<1> TAKE g \in Group
<1>1. Inserting(g) \in SUBSET Thread
  BY DEF Inserting
<1> QED BY <1>1, FS_Subset, FS_CardinalityType, AdmissionAssumption

LEMMA DocumentsInit == Init => DocumentsInv
<1> SUFFICES ASSUME Init, NEW g \in Group
             PROVE  Len(quotas[g]) + Cardinality(Inserting(g)) <= Cardinality(Thread)
  BY DEF DocumentsInv
<1>1. Len(quotas[g]) = 0
  BY EmptySeq DEF Init
<1> QED BY <1>1, InsertingFinite, FS_CardinalityType, AdmissionAssumption

\* A step that adds neither a document nor a handler.
LEMMA NoMoreDocuments ==
  ASSUME TypeOK, TypeOK', DocumentsInv, NEW g \in Group,
         Len(quotas'[g]) <= Len(quotas[g]), Inserting(g)' \subseteq Inserting(g)
  PROVE  Len(quotas'[g]) + Cardinality(Inserting(g)') <= Cardinality(Thread)
<1>1. IsFiniteSet(Inserting(g))
  BY FS_Subset, AdmissionAssumption DEF Inserting
<1>2. Cardinality(Inserting(g)') <= Cardinality(Inserting(g)) /\ Cardinality(Inserting(g)') \in Nat
  <2> DEFINE I == Inserting(g)
             J == Inserting(g)'
  <2>1. J \in SUBSET I /\ IsFiniteSet(I)
    BY <1>1
  <2> HIDE DEF I, J
  <2>2. Cardinality(J) <= Cardinality(I) /\ IsFiniteSet(J)
    BY <2>1, FS_Subset
  <2>3. Cardinality(J) \in Nat
    BY <2>2, FS_CardinalityType
  <2> QED BY <2>2, <2>3 DEF I, J
<1>3. Len(quotas[g]) \in Nat /\ Len(quotas'[g]) \in Nat
  <2>1. quotas[g] \in Seq(Size) /\ quotas'[g] \in Seq(Size)
    BY TypeParts DEF TypeOK
  <2> QED BY <2>1, LenProperties
<1>4. Cardinality(Inserting(g)) \in Nat /\ Cardinality(Thread) \in Nat
  BY InsertingFinite, FS_CardinalityType, AdmissionAssumption
<1>5. Len(quotas[g]) + Cardinality(Inserting(g)) <= Cardinality(Thread)
  BY DEF DocumentsInv
<1> HIDE DEF Inserting
<1> QED BY <1>2, <1>3, <1>4, <1>5

\* The handlers whose step and groups a step leaves alone, or sends home.
LEMMA OutdatedInserts ==
  ASSUME TypeOK, NEW own, Outdated(own)
  PROVE  \A g \in Group : Inserting(g)' = Inserting(g) \ own
<1>1. \A t \in Thread \ own : http'[t].step = http[t].step /\ http'[t].groups = http[t].groups
  BY TypeParts DEF Outdated, Handler
<1>2. \A t \in Thread : t \in own => http'[t].step = "ready"
  BY DEF Outdated, Ready
<1> QED BY <1>1, <1>2 DEF Inserting, At

LEMMA OthersInsert ==
  ASSUME TypeOK, NEW t \in Thread, http' = [http EXCEPT ![t] = http'[t]],
         http'[t].step # "insertQuota", UNCHANGED quotas
  PROVE  \A g \in Group : Inserting(g)' \subseteq Inserting(g)
  BY TypeParts DEF Inserting, At

LEMMA DocumentsStep == TypeOK /\ TypeOK' /\ DocumentsInv /\ [Next]_admissionVars => DocumentsInv'
<1> SUFFICES ASSUME TypeOK, TypeOK', DocumentsInv, [Next]_admissionVars, NEW g \in Group
             PROVE  Len(quotas'[g]) + Cardinality(Inserting(g)') <= Cardinality(Thread)
  BY DEF DocumentsInv
<1> DEFINE Goal == Len(quotas'[g]) + Cardinality(Inserting(g)') <= Cardinality(Thread)
<1>a. /\ quotas[g] \in Seq(Size) /\ Len(quotas[g]) \in Nat
      /\ quotas \in [Group -> Seq(Size)] /\ http \in [Thread -> Handler]
  BY TypeParts, LenProperties
<1>b. Cardinality(Inserting(g)) \in Nat /\ Cardinality(Thread) \in Nat
  BY InsertingFinite, FS_CardinalityType, AdmissionAssumption
<1>c. ASSUME UNCHANGED quotas, Inserting(g)' \subseteq Inserting(g) PROVE Goal
  BY <1>a, <1>c, NoMoreDocuments
<1>d. ASSUME UNCHANGED <<quotas, http>> PROVE Goal
  BY <1>c, <1>d DEF Inserting, At
<1>e. ASSUME NEW own, UNCHANGED quotas, Outdated(own) PROVE Goal
  BY <1>c, <1>e, OutdatedInserts
<1>f. ASSUME NEW t \in Thread, http' = [http EXCEPT ![t] = http'[t]],
             http'[t].step # "insertQuota", UNCHANGED quotas
      PROVE  Goal
  BY <1>c, <1>f, OthersInsert
<1>1. ASSUME NEW t \in Thread, NEW k \in Group, NEW size \in QuotaSize, CreateQuota(t, k, size)
      PROVE  Goal
  <2>1. CASE k = g
    <3>1. Len(quotas'[g]) = 0
      BY <1>1, <2>1, EmptySeq DEF CreateQuota, NoQuotaYet
    <3>2. Inserting(g)' \in SUBSET Thread
      BY DEF Inserting
    <3>3. Cardinality(Inserting(g)') <= Cardinality(Thread) /\ Cardinality(Inserting(g)') \in Nat
      BY <3>2, FS_Subset, FS_CardinalityType, AdmissionAssumption
    <3> QED BY <1>b, <3>1, <3>3
  <2>2. CASE k # g
    <3>1. http' = [http EXCEPT ![t] = http'[t]] /\ http'[t].groups = {k} /\ UNCHANGED quotas
      BY <1>a, <1>1 DEF CreateQuota, Ready
    <3>2. Inserting(g)' \subseteq Inserting(g)
      BY <1>a, <2>2, <3>1 DEF Inserting, At
    <3> QED BY <1>c, <3>1, <3>2
  <2> QED BY <2>1, <2>2
<1>2. ASSUME NEW t \in Thread, InsertQuota(t) PROVE Goal
  <2>1. Inserting(g)' = Inserting(g) \ {t}
    BY <1>2, OutdatedInserts DEF InsertQuota
  <2>2. CASE g \in http[t].groups
    <3>1. t \in Inserting(g)
      BY <1>2, <2>2 DEF InsertQuota, Inserting
    <3>2. IsFiniteSet(Inserting(g))
      BY FS_Subset, AdmissionAssumption DEF Inserting
    <3>3. Cardinality(Inserting(g) \ {t}) = Cardinality(Inserting(g)) - 1
      BY <3>1, <3>2, FS_RemoveElement
    <3>4. Cardinality(Inserting(g)') = Cardinality(Inserting(g)) - 1
      BY <2>1, <3>3
    <3>5. Len(quotas'[g]) = Len(quotas[g]) + 1
      <4>1. quotas'[g] = Append(quotas[g], http[t].size) /\ http[t].size \in Size
        BY <1>a, <1>2, <2>2 DEF InsertQuota, Handler
      <4> QED BY <1>a, <4>1, AppendProperties
    <3>6. Len(quotas[g]) + Cardinality(Inserting(g)) <= Cardinality(Thread)
      BY DEF DocumentsInv
    <3> QED BY <1>a, <1>b, <3>4, <3>5, <3>6
  <2>3. CASE g \notin http[t].groups
    <3>1. quotas'[g] = quotas[g]
      BY <1>a, <1>2, <2>3 DEF InsertQuota
    <3>2. Len(quotas'[g]) <= Len(quotas[g]) /\ Inserting(g)' \subseteq Inserting(g)
      BY <1>a, <2>1, <3>1
    <3> QED BY <3>2, NoMoreDocuments
  <2> QED BY <2>2, <2>3
<1>3. ASSUME NEW t \in Thread, SetQuota(t) PROVE Goal
  <2>1. Inserting(g)' \subseteq Inserting(g)
    BY <1>3, OutdatedInserts DEF SetQuota
  <2>2. Len(quotas'[g]) = Len(quotas[g])
    <3>1. CASE g \in http[t].groups /\ quotas[g] # <<>>
      <4>1. quotas'[g] = [quotas[g] EXCEPT ![1] = http[t].size] /\ http[t].size \in Size
        BY <1>a, <1>3, <3>1 DEF SetQuota, Handler
      <4>2. 1 \in 1 .. Len(quotas[g])
        BY <1>a, <3>1, EmptySeq
      <4> QED BY <1>a, <4>1, <4>2, ExceptSeq
    <3>2. CASE ~(g \in http[t].groups /\ quotas[g] # <<>>)
      BY <1>a, <1>3, <3>2 DEF SetQuota
    <3> QED BY <3>1, <3>2
  <2> QED BY <1>a, <2>1, <2>2, NoMoreDocuments
<1>4. ASSUME NEW k \in Group, DeleteQuota(k) PROVE Goal
  <2>1. Inserting(g)' \subseteq Inserting(g)
    BY <1>4, OutdatedInserts DEF DeleteQuota
  <2>2. Len(quotas'[g]) <= Len(quotas[g])
    <3>1. CASE k = g
      <4>1. quotas'[g] = Tail(quotas[g]) /\ quotas[g] # <<>>
        BY <1>a, <1>4, <3>1 DEF DeleteQuota
      <4>2. Len(Tail(quotas[g])) = Len(quotas[g]) - 1
        BY <1>a, <4>1, HeadTailProperties
      <4> QED BY <1>a, <4>1, <4>2
    <3>2. CASE k # g
      BY <1>a, <1>4, <3>2 DEF DeleteQuota
    <3> QED BY <3>1, <3>2
  <2> QED BY <2>1, <2>2, NoMoreDocuments
<1>5. CASE AtOnce
  <2>1. \A k \in Group : DeleteQuota(k) => Goal
    BY <1>4
  <2> QED BY <1>5, <1>d, <1>e, <2>1
      DEF AtOnce, DeleteService, Moved, RetireCatalog, DeleteCatalog, CreateCatalog
<1>6. CASE Controllers
  BY <1>6, <1>d, <1>e
  DEF Controllers, ReconcileService, LookAtCatalog, ReleaseCatalog, PublishReady, RunFails
<1>7. ASSUME NEW t \in Thread, Handle(t) PROVE Goal
  <2>1. ASSUME \/ \E c \in Catalog : CreateService(t, c)
               \/ ReadQuota(t) \/ ReadUsed(t) \/ Abandon(t)
               \/ \E k \in Group, size \in QuotaSize : UpdateQuota(t, k, size)
        PROVE  Goal
    <3>1. UNCHANGED quotas
      BY <2>1 DEF CreateService, ReadQuota, ReadUsed, Abandon, UpdateQuota
    <3>2. http' = [http EXCEPT ![t] = http'[t]] /\ http'[t].step # "insertQuota"
      <4>1. ASSUME \E c \in Catalog : CreateService(t, c)
            PROVE  http' = [http EXCEPT ![t] = http'[t]] /\ http'[t].step # "insertQuota"
        BY <1>a, <4>1 DEF CreateService, Ready
      <4>2. ASSUME ReadQuota(t)
            PROVE  http' = [http EXCEPT ![t] = http'[t]] /\ http'[t].step # "insertQuota"
        <5> HIDE DEF UserQuota
        <5> QED BY <1>a, <4>2 DEF ReadQuota, Handler
      <4>3. ASSUME ReadUsed(t) \/ Abandon(t)
            PROVE  http' = [http EXCEPT ![t] = http'[t]] /\ http'[t].step # "insertQuota"
        BY <1>a, <4>3 DEF ReadUsed, Abandon, Done, Ready, Handler
      <4>4. ASSUME \E k \in Group, size \in QuotaSize : UpdateQuota(t, k, size)
            PROVE  http' = [http EXCEPT ![t] = http'[t]] /\ http'[t].step # "insertQuota"
        BY <1>a, <4>4 DEF UpdateQuota, Ready
      <4> QED BY <2>1, <4>1, <4>2, <4>3, <4>4
    <3> QED BY <1>f, <3>1, <3>2
  <2>2. ASSUME NEW s \in Service, Create(t, s) PROVE Goal
    BY <2>2, <1>e DEF Create
  <2> QED BY <1>7, <1>1, <1>2, <1>3, <2>1, <2>2 DEF Handle
<1>8. CASE UNCHANGED admissionVars
  BY <1>8, <1>d DEF admissionVars
<1> QED BY <1>5, <1>6, <1>7, <1>8 DEF Next

\* A group has no more quota documents than there are handlers: each comes from
\* a handler that found none.
THEOREM DocumentsAreFew == Spec => []FewQuotaDocuments
<1>1. TypeOK /\ DocumentsInv => FewQuotaDocuments
  <2> SUFFICES ASSUME TypeOK, DocumentsInv, NEW g \in Group
               PROVE  Len(quotas[g]) <= Cardinality(Thread)
    BY DEF FewQuotaDocuments
  <2>1. Len(quotas[g]) \in Nat
    BY TypeParts, LenProperties
  <2>2. Cardinality(Inserting(g)) \in Nat /\ Cardinality(Thread) \in Nat
    BY InsertingFinite, FS_CardinalityType, AdmissionAssumption
  <2>3. Len(quotas[g]) + Cardinality(Inserting(g)) <= Cardinality(Thread)
    BY DEF DocumentsInv
  <2> QED BY <2>1, <2>2, <2>3
<1> QED BY <1>1, TypeInit, TypeStep, DocumentsInit, DocumentsStep, PTL DEF Spec


-------------------------------------------------------------------------------
(***************************************************************************)
(* What the services of a user add up to: facts about the sum of w over a  *)
(* finite set, which the fold computes by taking out one chosen element    *)
(* after the other. g holds the sums over all subsets of S.                *)
(***************************************************************************)
Chosen(s) == CHOOSE x \in s : TRUE

IsSum(g, w, S) ==
  g = [s \in SUBSET S |-> IF s = {} THEN 0 ELSE w[Chosen(s)] + g[s \ {Chosen(s)}]]

LEMMA ChosenIn == ASSUME NEW s, s # {} PROVE Chosen(s) \in s
  BY DEF Chosen

LEMMA SumOfSome ==
  ASSUME NEW S, NEW w, NEW g, IsSum(g, w, S)
  PROVE  /\ g[{}] = 0
         /\ \A s \in SUBSET S : s # {} => g[s] = w[Chosen(s)] + g[s \ {Chosen(s)}]
  BY DEF IsSum

\* Of the subsets of a finite set that are bad, one has no smaller one that is.
LEMMA SmallestBad ==
  ASSUME NEW S, IsFiniteSet(S), NEW Bad \in SUBSET SUBSET S, Bad # {}
  PROVE  \E X \in Bad : \A Y \in SUBSET X : Y # X => Y \notin Bad
<1>1. Bad \subseteq FiniteSubsetsOf(S)
  BY FS_Subset DEF FiniteSubsetsOf
<1>2. PICK X \in Bad : \A Y \in Bad : <<Y, X>> \notin StrictSubsetOrdering(S)
  BY <1>1, WFMin, FS_StrictSubsetOrderingWellFounded
<1> QED BY <1>2 DEF StrictSubsetOrdering

\* A sum does not depend on what it is not over.
LEMMA SumAgrees ==
  ASSUME NEW S, NEW T, NEW w, NEW v, NEW g, NEW h, IsSum(g, w, S), IsSum(h, v, T),
         NEW U \in SUBSET (S \intersect T), IsFiniteSet(U), \A x \in U : w[x] = v[x]
  PROVE  g[U] = h[U]
<1> DEFINE Bad == {X \in SUBSET U : g[X] # h[X]}
<1> SUFFICES ASSUME Bad # {} PROVE FALSE
  OBVIOUS
<1>1. PICK X \in Bad : \A Y \in SUBSET X : Y # X => Y \notin Bad
  <2> HIDE DEF Bad
  <2>1. Bad \in SUBSET SUBSET U
    BY DEF Bad
  <2> QED BY <2>1, SmallestBad
<1>2. CASE X = {}
  BY <1>2, SumOfSome
<1>3. CASE X # {}
  <2> DEFINE x == Chosen(X)
  <2>1. x \in X
    BY <1>3, ChosenIn
  <2>2. g[X \ {x}] = h[X \ {x}]
    BY <1>1, <2>1
  <2>3. g[X] = w[x] + g[X \ {x}] /\ h[X] = v[x] + h[X \ {x}]
    <3>1. X \in SUBSET S /\ X \in SUBSET T
      OBVIOUS
    <3> QED BY <1>3, <3>1, SumOfSome
  <2> QED BY <2>1, <2>2, <2>3
<1> QED BY <1>2, <1>3

LEMMA SumExists ==
  ASSUME NEW S, NEW w, IsFiniteSet(S)
  PROVE  \E g : IsSum(g, w, S)
<1> DEFINE Bad == {X \in SUBSET S : ~\E g : IsSum(g, w, X)}
<1> SUFFICES ASSUME Bad # {} PROVE FALSE
  OBVIOUS
<1>1. PICK X \in Bad : \A Y \in SUBSET X : Y # X => Y \notin Bad
  <2> HIDE DEF Bad
  <2>1. Bad \in SUBSET SUBSET S
    BY DEF Bad
  <2> QED BY <2>1, SmallestBad
<1> DEFINE of(Y) == CHOOSE g : IsSum(g, w, Y)
           G == [Y \in SUBSET X |-> of(Y)[Y]]
           F == [Y \in SUBSET X |-> IF Y = {} THEN 0 ELSE w[Chosen(Y)] + G[Y \ {Chosen(Y)}]]
<1>2. \A Y \in SUBSET X : Y # X => IsSum(of(Y), w, Y)
  <2> TAKE Y \in SUBSET X
  <2> HAVE Y # X
  <2>1. Y \in SUBSET S /\ Y \notin Bad
    BY <1>1
  <2>2. \E g : IsSum(g, w, Y)
    BY <2>1
  <2> QED BY <2>2
<1>3. \A Y \in SUBSET X : IsFiniteSet(Y)
  BY <1>1, FS_Subset
<1>4. ASSUME NEW Y \in SUBSET X, Y # X PROVE F[Y] = G[Y]
  <2>1. IsSum(of(Y), w, Y) /\ G[Y] = of(Y)[Y]
    BY <1>2, <1>4
  <2>2. CASE Y = {}
    BY <2>1, <2>2, SumOfSome
  <2>3. CASE Y # {}
    <3> DEFINE y == Chosen(Y)
               Z == Y \ {y}
    <3>1. y \in Y /\ Z \in SUBSET X /\ Z # X /\ Z \in SUBSET Y
      BY <2>3, ChosenIn
    <3>2. IsSum(of(Z), w, Z) /\ G[Z] = of(Z)[Z]
      BY <1>2, <3>1
    <3> HIDE DEF of
    <3>3. of(Z)[Z] = of(Y)[Z]
      <4>1. Z \in SUBSET (Z \intersect Y) /\ IsFiniteSet(Z)
        BY <1>3, <3>1
      <4> HIDE DEF Z
      <4> QED BY <2>1, <3>2, <4>1, SumAgrees
    <3>4. of(Y)[Y] = w[y] + of(Y)[Z]
      BY <2>1, <2>3, SumOfSome
    <3> QED BY <2>1, <2>3, <3>2, <3>3, <3>4
  <2> QED BY <2>2, <2>3
<1>5. IsSum(F, w, X)
  <2>1. ASSUME NEW Y \in SUBSET X, Y # {}
        PROVE  G[Y \ {Chosen(Y)}] = F[Y \ {Chosen(Y)}]
    <3>1. Y \ {Chosen(Y)} \in SUBSET X /\ Y \ {Chosen(Y)} # X
      BY <2>1, ChosenIn
    <3> HIDE DEF F, G
    <3> QED BY <1>4, <3>1
  <2>2. F = [Y \in SUBSET X |-> IF Y = {} THEN 0 ELSE w[Chosen(Y)] + G[Y \ {Chosen(Y)}]]
    OBVIOUS
  <2> HIDE DEF F, G
  <2>3. F = [Y \in SUBSET X |-> IF Y = {} THEN 0 ELSE w[Chosen(Y)] + F[Y \ {Chosen(Y)}]]
    BY <2>1, <2>2
  <2> QED BY <2>3 DEF IsSum
<1> QED BY <1>1, <1>5

\* It does not matter which element is taken out.
LEMMA SumTakesOut ==
  ASSUME NEW S, IsFiniteSet(S), NEW w, \A x \in S : w[x] \in Int, NEW g, IsSum(g, w, S)
  PROVE  /\ g[S] \in Int
         /\ \A a \in S : g[S] = g[S \ {a}] + w[a]
<1>0. \A X \in SUBSET S : X # {} => g[X] = w[Chosen(X)] + g[X \ {Chosen(X)}]
  BY DEF IsSum
<1>1. \A X \in SUBSET S : g[X] \in Int
  <2> DEFINE Bad == {X \in SUBSET S : g[X] \notin Int}
  <2> SUFFICES ASSUME Bad # {} PROVE FALSE
    OBVIOUS
  <2>1. PICK X \in Bad : \A Y \in SUBSET X : Y # X => Y \notin Bad
    <3> HIDE DEF Bad
    <3>1. Bad \in SUBSET SUBSET S
      BY DEF Bad
    <3> QED BY <3>1, SmallestBad
  <2>2. CASE X = {}
    BY <2>2, SumOfSome
  <2>3. CASE X # {}
    <3> DEFINE x == Chosen(X)
    <3>1. x \in X
      BY <2>3, ChosenIn
    <3>2. g[X \ {x}] \in Int
      BY <2>1, <3>1
    <3>3. g[X] = w[x] + g[X \ {x}]
      <4>1. X \in SUBSET S
        OBVIOUS
      <4> QED BY <1>0, <2>3, <4>1
    <3> QED BY <3>1, <3>2, <3>3
  <2> QED BY <2>2, <2>3
<1>2. \A X \in SUBSET S : \A a \in X : g[X] = g[X \ {a}] + w[a]
  <2> DEFINE Bad == {X \in SUBSET S : \E a \in X : g[X] # g[X \ {a}] + w[a]}
  <2> SUFFICES ASSUME Bad # {} PROVE FALSE
    OBVIOUS
  <2>1. PICK X \in Bad : \A Y \in SUBSET X : Y # X => Y \notin Bad
    <3> HIDE DEF Bad
    <3>1. Bad \in SUBSET SUBSET S
      BY DEF Bad
    <3> QED BY <3>1, SmallestBad
  <2>2. PICK a \in X : g[X] # g[X \ {a}] + w[a]
    OBVIOUS
  <2> DEFINE x == Chosen(X)
  <2>3. /\ x \in X /\ w[x] \in Int /\ w[a] \in Int
        /\ g[X \ {x}] \in Int /\ g[X \ {a}] \in Int /\ g[(X \ {x}) \ {a}] \in Int
    BY <1>1, ChosenIn
  <2>4. g[X] = w[x] + g[X \ {x}]
    <3>1. X \in SUBSET S /\ X # {}
      OBVIOUS
    <3> QED BY <1>0, <3>1
  <2>5. CASE a = x
    BY <2>2, <2>3, <2>4, <2>5
  <2>6. CASE a # x
    <3> DEFINE Z == (X \ {x}) \ {a}
    <3>1. g[X \ {x}] = g[Z] + w[a]
      BY <2>1, <2>3, <2>6
    <3>2. g[X \ {a}] = g[Z] + w[x]
      <4>1. (X \ {a}) \ {x} = Z /\ X \ {a} \in SUBSET X /\ X \ {a} # X /\ x \in X \ {a}
        BY <2>3, <2>6
      <4> QED BY <2>1, <4>1
    <3> HIDE DEF Z
    <3> QED BY <2>2, <2>3, <2>4, <3>1, <3>2 DEF Z
  <2> QED BY <2>5, <2>6
<1> QED BY <1>1, <1>2


-------------------------------------------------------------------------------
(***************************************************************************)
(* The catalog of a service, and the one that a handler is at work with,   *)
(* was created some time, and keeps its size. What a handler has read of   *)
(* the quota still is so, and what it has admitted still fits, unless      *)
(* somebody changed a service, a quota or a membership.                    *)
(***************************************************************************)
Named(c) == c \in Catalog /\ catalogs[c].state # "none"

NamedInv ==
  /\ \A s \in Service : services[s].state # "none" => Named(services[s].catalog)
  /\ \A t \in Thread : http[t].step \in {"quota", "used", "create"} => Named(http[t].catalog)

Current(t) ==
  ~http[t].stale =>
    /\ At(t, "used") => http[t].size = UserQuota(member)
    /\ At(t, "create") => MayAdmit(UserQuota(member), catalogs[http[t].catalog].size)

AdmittedInv == \A t \in Thread : Current(t)

CpuOf == [s \in Service |-> SizeOf(s).cpu]
MemoryOf == [s \in Service |-> SizeOf(s).memory]

UsedSums(g, h) ==
  /\ IsSum(g, CpuOf, Counted) /\ IsSum(h, MemoryOf, Counted)
  /\ Used = [cpu |-> g[Counted], memory |-> h[Counted]]

HasSums == \E g, h : UsedSums(g, h)

LEMMA UsedIsSum == HasSums
<1> DEFINE CpuSum(g) ==
             g = [s \in SUBSET Counted |->
                    IF s = {} THEN 0
                    ELSE SizeOf(CHOOSE x \in s : TRUE).cpu + g[s \ {CHOOSE x \in s : TRUE}]]
           MemorySum(g) ==
             g = [s \in SUBSET Counted |->
                    IF s = {} THEN 0
                    ELSE SizeOf(CHOOSE x \in s : TRUE).memory + g[s \ {CHOOSE x \in s : TRUE}]]
<1>1. IsFiniteSet(Counted) /\ Counted \subseteq Service
  BY FS_Subset, AdmissionAssumption DEF Counted
<1>2. \A s \in SUBSET Counted : s # {} => Chosen(s) \in Service
  BY <1>1, ChosenIn
<1>3. ASSUME NEW g PROVE CpuSum(g) <=> IsSum(g, CpuOf, Counted)
  BY <1>2 DEF IsSum, CpuOf, Chosen
<1>4. ASSUME NEW g PROVE MemorySum(g) <=> IsSum(g, MemoryOf, Counted)
  BY <1>2 DEF IsSum, MemoryOf, Chosen
<1> HIDE DEF CpuSum, MemorySum
<1>5. (\E g : CpuSum(g)) /\ (\E g : MemorySum(g))
  BY <1>1, <1>3, <1>4, SumExists
<1>6. CpuSum(CHOOSE g : CpuSum(g)) /\ MemorySum(CHOOSE g : MemorySum(g))
  BY <1>5
<1>7. /\ MapThenSumSet(LAMBDA s : SizeOf(s).cpu, Counted) = (CHOOSE g : CpuSum(g))[Counted]
      /\ MapThenSumSet(LAMBDA s : SizeOf(s).memory, Counted)
           = (CHOOSE g : MemorySum(g))[Counted]
  BY Zenon DEF MapThenSumSet, MapThenFoldSet, CpuSum, MemorySum
<1>8. UsedSums(CHOOSE g : CpuSum(g), CHOOSE g : MemorySum(g))
  BY <1>3, <1>4, <1>6, <1>7 DEF UsedSums, Used
<1> QED BY <1>8 DEF HasSums

\* The services that count, each with a size.
LEMMA UsedTyped ==
  ASSUME TypeOK, NamedInv
  PROVE  /\ Used.cpu \in Int /\ Used.memory \in Int
         /\ IsFiniteSet(Counted) /\ Counted \subseteq Service
         /\ \A s \in Counted : CpuOf[s] \in Int /\ MemoryOf[s] \in Int
<1>1. IsFiniteSet(Counted) /\ Counted \subseteq Service
  BY FS_Subset, AdmissionAssumption DEF Counted
<1>2. ASSUME NEW s \in Counted PROVE CpuOf[s] \in Int /\ MemoryOf[s] \in Int
  <2>1. services[s].catalog \in Catalog
    BY DEF NamedInv, Named, Counted
  <2>2. catalogs[services[s].catalog].size \in Size
    BY <2>1, TypeParts DEF CatalogRecord
  <2> QED BY <1>1, <2>2, AmountIsInt DEF CpuOf, MemoryOf, SizeOf, Size
<1>3. PICK g, h : /\ IsSum(g, CpuOf, Counted) /\ IsSum(h, MemoryOf, Counted)
                  /\ Used = [cpu |-> g[Counted], memory |-> h[Counted]]
  BY UsedIsSum DEF HasSums, UsedSums
<1>4. g[Counted] \in Int /\ h[Counted] \in Int
  BY <1>1, <1>2, <1>3, SumTakesOut
<1> QED BY <1>1, <1>2, <1>3, <1>4

LEMMA UsedKept ==
  ASSUME TypeOK, NamedInv, Counted' = Counted,
         \A s \in Counted : SizeOf(s)' = SizeOf(s)
  PROVE  Used' = Used
<1>1. IsFiniteSet(Counted) /\ Counted \subseteq Service
  BY UsedTyped
<1>2. PICK g, h : /\ IsSum(g, CpuOf, Counted) /\ IsSum(h, MemoryOf, Counted)
                  /\ Used = [cpu |-> g[Counted], memory |-> h[Counted]]
  BY UsedIsSum DEF HasSums, UsedSums
<1>3. HasSums'
  BY UsedIsSum, PTL
<1>4. PICK i, j : /\ IsSum(i, CpuOf', Counted) /\ IsSum(j, MemoryOf', Counted)
                  /\ Used' = [cpu |-> i[Counted], memory |-> j[Counted]]
  BY <1>3 DEF HasSums, UsedSums
<1>5. \A s \in Counted : CpuOf'[s] = CpuOf[s] /\ MemoryOf'[s] = MemoryOf[s]
  BY <1>1 DEF CpuOf, MemoryOf
<1>6. i[Counted] = g[Counted]
  BY <1>1, <1>2, <1>4, <1>5, SumAgrees
<1>7. j[Counted] = h[Counted]
  BY <1>1, <1>2, <1>4, <1>5, SumAgrees
<1> QED BY <1>2, <1>4, <1>6, <1>7

LEMMA UsedGrows ==
  ASSUME TypeOK, NamedInv, NEW s \in Service, NEW c \in Catalog,
         services[s].state = "none", UNCHANGED catalogs,
         services' = [services EXCEPT ![s] =
           [NoService EXCEPT !.state = "new", !.catalog = c]]
  PROVE  Used' = Plus(Used, catalogs[c].size)
<1>0. services \in [Service -> ServiceRecord] /\ catalogs[c].size \in Size
  BY TypeParts DEF CatalogRecord
<1>1. /\ s \notin Counted /\ Counted' = Counted \union {s} /\ SizeOf(s)' = catalogs[c].size
      /\ \A x \in Counted : SizeOf(x)' = SizeOf(x)
  BY <1>0 DEF Counted, SizeOf, NoService
<1>2. /\ IsFiniteSet(Counted) /\ Counted \subseteq Service
      /\ Used.cpu \in Int /\ Used.memory \in Int
      /\ \A x \in Counted : CpuOf[x] \in Int /\ MemoryOf[x] \in Int
  BY UsedTyped
<1> DEFINE New == Counted \union {s}
<1>3. IsFiniteSet(New) /\ New \subseteq Service /\ New \ {s} = Counted /\ s \in New
  BY <1>1, <1>2, FS_AddElement
<1>4. PICK g, h : /\ IsSum(g, CpuOf, Counted) /\ IsSum(h, MemoryOf, Counted)
                  /\ Used = [cpu |-> g[Counted], memory |-> h[Counted]]
  BY UsedIsSum DEF HasSums, UsedSums
<1>5. HasSums'
  BY UsedIsSum, PTL
<1>6. PICK i, j : /\ IsSum(i, CpuOf', New) /\ IsSum(j, MemoryOf', New)
                  /\ Used' = [cpu |-> i[New], memory |-> j[New]]
  BY <1>1, <1>5 DEF HasSums, UsedSums
<1>7. /\ \A x \in Counted : CpuOf'[x] = CpuOf[x] /\ MemoryOf'[x] = MemoryOf[x]
      /\ CpuOf'[s] = catalogs[c].size.cpu /\ MemoryOf'[s] = catalogs[c].size.memory
  BY <1>1, <1>2 DEF CpuOf, MemoryOf
<1>8. catalogs[c].size.cpu \in Int /\ catalogs[c].size.memory \in Int
  BY <1>0, AmountIsInt DEF Size
<1>9. \A x \in New : CpuOf'[x] \in Int /\ MemoryOf'[x] \in Int
  BY <1>2, <1>7, <1>8
<1> HIDE DEF New
<1>10. i[New] = i[Counted] + catalogs[c].size.cpu
  <2>1. \A a \in New : i[New] = i[New \ {a}] + CpuOf'[a]
    BY <1>3, <1>6, <1>9, SumTakesOut
  <2> QED BY <1>3, <1>7, <2>1
<1>11. j[New] = j[Counted] + catalogs[c].size.memory
  <2>1. \A a \in New : j[New] = j[New \ {a}] + MemoryOf'[a]
    BY <1>3, <1>6, <1>9, SumTakesOut
  <2> QED BY <1>3, <1>7, <2>1
<1>12. Counted \in SUBSET (New \intersect Counted)
  BY <1>3
<1>13. i[Counted] = g[Counted]
  BY <1>2, <1>4, <1>6, <1>7, <1>12, SumAgrees
<1>14. j[Counted] = h[Counted]
  BY <1>2, <1>4, <1>6, <1>7, <1>12, SumAgrees
<1> QED BY <1>4, <1>6, <1>10, <1>11, <1>13, <1>14 DEF Plus


LEMMA NamedInit == Init => NamedInv
  BY DEF Init, NamedInv, NoService, Ready

\* A catalog never goes back to not having been made, nor changes its size.
LEMMA CatalogsLast ==
  ASSUME TypeOK, [Next]_admissionVars, NEW c, Named(c)
  PROVE  Named(c)' /\ catalogs'[c].size = catalogs[c].size
<1>0. catalogs \in [Catalog -> CatalogRecord] /\ c \in Catalog /\ catalogs[c].state # "none"
  BY TypeParts DEF Named
<1> SUFFICES catalogs'[c].state # "none" /\ catalogs'[c].size = catalogs[c].size
  BY <1>0 DEF Named
<1>1. CASE UNCHANGED catalogs
  BY <1>0, <1>1
<1>2. CASE AtOnce
  BY <1>0, <1>1, <1>2
  DEF AtOnce, DeleteService, DeleteQuota, Moved, RetireCatalog, DeleteCatalog, CreateCatalog,
      CatalogRecord
<1>3. CASE Controllers
  <2>1. ASSUME NEW s \in Service, ReconcileService(s) PROVE UNCHANGED catalogs
    BY <2>1 DEF ReconcileService
  <2>2. ASSUME NEW d \in Catalog, LookAtCatalog(d)
        PROVE  catalogs'[c].state # "none" /\ catalogs'[c].size = catalogs[c].size
    BY <1>0, <2>2 DEF LookAtCatalog, CatalogRecord
  <2>3. ASSUME NEW d \in Catalog, ReleaseCatalog(d) \/ PublishReady(d) \/ RunFails(d)
        PROVE  catalogs'[c].state # "none" /\ catalogs'[c].size = catalogs[c].size
    BY <1>0, <2>3 DEF ReleaseCatalog, PublishReady, RunFails, CatalogRecord
  <2> QED BY <1>1, <1>3, <2>1, <2>2, <2>3 DEF Controllers
<1>4. ASSUME NEW t \in Thread, Handle(t) PROVE UNCHANGED catalogs
  BY <1>4 DEF Handle, CreateService, ReadQuota, ReadUsed, Create, CreateQuota, UpdateQuota,
     InsertQuota, SetQuota, Abandon
<1> QED BY <1>1, <1>2, <1>3, <1>4 DEF Next, admissionVars

\* What a handler works on, it worked on before or has just looked up.
LEMMA HandlersFollow ==
  ASSUME TypeOK, [Next]_admissionVars, NEW t \in Thread,
         http'[t].step \in {"quota", "used", "create"}
  PROVE  \/ Named(http'[t].catalog)
         \/ /\ http[t].step \in {"quota", "used", "create"}
            /\ http'[t].catalog = http[t].catalog
<1>0. http \in [Thread -> Handler]
  BY TypeParts
<1>1. ASSUME NEW own, Outdated(own)
      PROVE  http'[t].step = http[t].step /\ http'[t].catalog = http[t].catalog
  BY <1>0, <1>1 DEF Outdated, Ready, Handler
<1>2. CASE AtOnce
  BY <1>1, <1>2
  DEF AtOnce, DeleteService, DeleteQuota, Moved, RetireCatalog, DeleteCatalog, CreateCatalog
<1>3. CASE Controllers
  BY <1>1, <1>3
  DEF Controllers, ReconcileService, LookAtCatalog, ReleaseCatalog, PublishReady, RunFails
<1>4. ASSUME NEW u \in Thread, Handle(u)
      PROVE  \/ Named(http'[t].catalog)
             \/ /\ http[t].step \in {"quota", "used", "create"}
                /\ http'[t].catalog = http[t].catalog
  <2>1. ASSUME NEW c \in Catalog, CreateService(u, c)
        PROVE  Named(http'[t].catalog) \/ http'[t] = http[t]
    BY <1>0, <2>1 DEF CreateService, Ready, Named, Exists
  <2>2. ASSUME ReadQuota(u)
        PROVE  /\ http[t].step \in {"quota", "used", "create"}
               /\ http'[t].catalog = http[t].catalog
    <3> HIDE DEF UserQuota
    <3> QED BY <1>0, <2>2 DEF ReadQuota, At, Handler
  <2>3. ASSUME ReadUsed(u)
        PROVE  /\ http[t].step \in {"quota", "used", "create"}
               /\ http'[t].catalog = http[t].catalog
    BY <1>0, <2>3 DEF ReadUsed, Done, At, Ready, Handler
  <2>4. ASSUME \/ \E s \in Service : Create(u, s)
               \/ InsertQuota(u) \/ SetQuota(u)
        PROVE  http'[t].step = http[t].step /\ http'[t].catalog = http[t].catalog
    BY <1>1, <2>4 DEF Create, InsertQuota, SetQuota
  <2>5. ASSUME \/ \E g \in Group, size \in QuotaSize :
                    CreateQuota(u, g, size) \/ UpdateQuota(u, g, size)
               \/ Abandon(u)
        PROVE  http'[t] = http[t]
    <3>1. CASE Abandon(u)
      BY <1>0, <3>1 DEF Abandon, Done, Ready
    <3>2. ASSUME NEW g \in Group, NEW size \in QuotaSize,
                 CreateQuota(u, g, size) \/ UpdateQuota(u, g, size)
          PROVE  http'[t] = http[t]
      <4>1. \E step \in {"insertQuota", "setQuota"} :
              http' = [http EXCEPT ![u] =
                        [Ready EXCEPT !.step = step, !.groups = {g}, !.size = size]]
        BY <3>2 DEF CreateQuota, UpdateQuota
      <4> QED BY <1>0, <4>1 DEF Ready
    <3> QED BY <2>5, <3>1, <3>2
  <2> QED BY <1>4, <2>1, <2>2, <2>3, <2>4, <2>5 DEF Handle
<1> QED BY <1>2, <1>3, <1>4 DEF Next, admissionVars

\* The same of services.
LEMMA ServicesFollow ==
  ASSUME TypeOK, NamedInv, [Next]_admissionVars, NEW s \in Service,
         services'[s].state # "none"
  PROVE  Named(services'[s].catalog)
<1>0. services \in [Service -> ServiceRecord]
  BY TypeParts
<1>1. ASSUME services[s].state # "none", services'[s].catalog = services[s].catalog
      PROVE  Named(services'[s].catalog)
  BY <1>1 DEF NamedInv
<1>2. ASSUME NEW r \in Service, DeleteService(r) PROVE Named(services'[s].catalog)
  BY <1>0, <1>1, <1>2 DEF DeleteService, There, ServiceRecord
<1>3. ASSUME NEW r \in Service, ReconcileService(r) PROVE Named(services'[s].catalog)
  <2>1. There(r) /\ services'[s].catalog = services[s].catalog
    <3>1. \/ services' = [services EXCEPT ![r].state = "new"]
          \/ \E state \in {"new", "created", "expired", "gone"} :
               services' = [services EXCEPT ![r].state = state, ![r].owned = TRUE]
      BY <1>3 DEF ReconcileService
    <3> QED BY <1>0, <1>3, <3>1 DEF ReconcileService, ServiceRecord
  <2>2. s # r => services'[s] = services[s]
    BY <1>0, <1>3 DEF ReconcileService
  <2> QED BY <1>1, <2>1, <2>2 DEF There
<1>4. ASSUME NEW t \in Thread, NEW r \in Service, Create(t, r)
      PROVE  Named(services'[s].catalog)
  <2>1. CASE s = r
    BY <1>0, <1>4, <2>1 DEF Create, NamedInv, At, NoService
  <2>2. CASE s # r
    BY <1>0, <1>1, <1>4, <2>2 DEF Create
  <2> QED BY <2>1, <2>2
<1>5. CASE UNCHANGED services
  BY <1>1, <1>5
<1>6. CASE AtOnce
  BY <1>2, <1>5, <1>6
  DEF AtOnce, DeleteQuota, Moved, RetireCatalog, DeleteCatalog, CreateCatalog
<1>7. CASE Controllers
  BY <1>3, <1>5, <1>7 DEF Controllers, LookAtCatalog, ReleaseCatalog, PublishReady, RunFails
<1>8. ASSUME NEW t \in Thread, Handle(t) PROVE Named(services'[s].catalog)
  BY <1>4, <1>5, <1>8 DEF Handle, CreateService, ReadQuota, ReadUsed, CreateQuota, UpdateQuota,
     InsertQuota, SetQuota, Abandon
<1> QED BY <1>5, <1>6, <1>7, <1>8 DEF Next, admissionVars

LEMMA NamedStep == TypeOK /\ NamedInv /\ [Next]_admissionVars => NamedInv'
<1> SUFFICES ASSUME TypeOK, NamedInv, [Next]_admissionVars PROVE NamedInv'
  OBVIOUS
<1>1. ASSUME NEW s \in Service, services'[s].state # "none"
      PROVE  Named(services[s].catalog)'
  BY <1>1, ServicesFollow, CatalogsLast
<1>2. ASSUME NEW t \in Thread, http'[t].step \in {"quota", "used", "create"}
      PROVE  Named(http[t].catalog)'
  <2>1. Named(http'[t].catalog)
    BY <1>2, HandlersFollow DEF NamedInv
  <2> QED BY <2>1, CatalogsLast
<1> QED BY <1>1, <1>2 DEF NamedInv


LEMMA AdmittedInit == Init => AdmittedInv
  BY DEF Init, AdmittedInv, Current, At, Ready

\* Whoever changes a service, a quota or a membership makes every other handler's
\* reading stale.
LEMMA OutdatedCurrent ==
  ASSUME TypeOK, NEW own, Outdated(own)
  PROVE  AdmittedInv' /\ \A t \in Thread \ own : http'[t].step = http[t].step
<1>0. http \in [Thread -> Handler]
  BY TypeParts
<1>1. ASSUME NEW t \in Thread
      PROVE  /\ http'[t].stale \/ http'[t].step \notin {"used", "create"}
             /\ t \notin own => http'[t].step = http[t].step
  BY <1>0, <1>1 DEF Outdated, Ready, Handler
<1> QED BY <1>1 DEF AdmittedInv, Current, At

\* When services, quotas and memberships stay, so does what is used and allowed.
LEMMA StaysCurrent ==
  ASSUME TypeOK, NamedInv, AdmittedInv, [Next]_admissionVars,
         UNCHANGED <<services, quotas, member>>
  PROVE  /\ Used' = Used /\ UserQuota(member)' = UserQuota(member)
         /\ \A t \in Thread : http'[t] = http[t] => Current(t)'
<1>1. Counted' = Counted /\ UserQuota(member)' = UserQuota(member)
  BY DEF Counted, UserQuota
<1>2. \A s \in Counted : SizeOf(s)' = SizeOf(s)
  <2> TAKE s \in Counted
  <2>1. Named(services[s].catalog)
    BY DEF Counted, NamedInv
  <2> QED BY <2>1, CatalogsLast DEF SizeOf
<1>3. Used' = Used
  BY <1>1, <1>2, UsedKept
<1>4. ASSUME NEW t \in Thread, http'[t] = http[t] PROVE Current(t)'
  <2>1. Current(t)
    BY DEF AdmittedInv
  <2>2. At(t, "create")' => catalogs'[http'[t].catalog].size = catalogs[http[t].catalog].size
    <3> SUFFICES ASSUME At(t, "create")'
                 PROVE  catalogs'[http'[t].catalog].size = catalogs[http[t].catalog].size
      OBVIOUS
    <3>1. Named(http[t].catalog)
      BY <1>4 DEF At, NamedInv
    <3> QED BY <1>4, <3>1, CatalogsLast
  <2> HIDE DEF Used, UserQuota
  <2> QED BY <1>1, <1>3, <1>4, <2>1, <2>2 DEF Current, At, MayAdmit, Fits, Plus
<1> QED BY <1>1, <1>3, <1>4

LEMMA AdmittedStep ==
  TypeOK /\ NamedInv /\ AdmittedInv /\ [Next]_admissionVars => AdmittedInv'
<1> SUFFICES ASSUME TypeOK, NamedInv, AdmittedInv, [Next]_admissionVars PROVE AdmittedInv'
  OBVIOUS
<1> USE DEF AdmittedInv
<1>0. http \in [Thread -> Handler]
  BY TypeParts
<1>1. ASSUME UNCHANGED <<services, quotas, member, http>> PROVE AdmittedInv'
  BY <1>1, StaysCurrent
<1>2. ASSUME NEW own, Outdated(own) PROVE AdmittedInv'
  BY <1>2, OutdatedCurrent
<1>3. ASSUME NEW t \in Thread, UNCHANGED <<services, quotas, member>>,
             \A u \in Thread \ {t} : http'[u] = http[u], Current(t)'
      PROVE  AdmittedInv'
  BY <1>3, StaysCurrent
<1>4. CASE UNCHANGED admissionVars
  BY <1>1, <1>4 DEF admissionVars
<1>5. CASE AtOnce
  <2>1. ASSUME NEW s \in Service, DeleteService(s) PROVE AdmittedInv'
    <3>1. Outdated({})
      BY <2>1 DEF DeleteService
    <3> QED BY <1>2, <3>1
  <2> QED BY <1>1, <1>2, <1>5, <2>1
      DEF AtOnce, DeleteQuota, Moved, RetireCatalog, DeleteCatalog, CreateCatalog
<1>6. CASE Controllers
  <2>1. ASSUME NEW s \in Service, ReconcileService(s) PROVE AdmittedInv'
    <3>1. Outdated({})
      BY <2>1 DEF ReconcileService
    <3> QED BY <1>2, <3>1
  <2>2. ASSUME NEW c \in Catalog,
               LookAtCatalog(c) \/ ReleaseCatalog(c) \/ PublishReady(c) \/ RunFails(c)
        PROVE  AdmittedInv'
    BY <1>1, <2>2 DEF LookAtCatalog, ReleaseCatalog, PublishReady, RunFails
  <2> QED BY <1>6, <2>1, <2>2 DEF Controllers
<1>7. ASSUME NEW t \in Thread, Handle(t) PROVE AdmittedInv'
  <2>1. ASSUME \/ \E c \in Catalog : CreateService(t, c)
               \/ \E g \in Group, size \in QuotaSize :
                    CreateQuota(t, g, size) \/ UpdateQuota(t, g, size)
               \/ Abandon(t)
        PROVE  AdmittedInv'
    <3>1. /\ UNCHANGED <<services, quotas, member>>
          /\ \A u \in Thread \ {t} : http'[u] = http[u]
          /\ http'[t].step \notin {"used", "create"}
      <4>1. CASE \E c \in Catalog : CreateService(t, c)
        BY <1>0, <4>1 DEF CreateService, Ready
      <4>2. CASE \E g \in Group, size \in QuotaSize :
                   CreateQuota(t, g, size) \/ UpdateQuota(t, g, size)
        BY <1>0, <4>2 DEF CreateQuota, UpdateQuota, Ready
      <4>3. CASE Abandon(t)
        BY <1>0, <4>3 DEF Abandon, Done, Ready
      <4> QED BY <2>1, <4>1, <4>2, <4>3
    <3>2. Current(t)'
      BY <3>1 DEF Current, At
    <3> QED BY <1>3, <3>1, <3>2
  <2>2. ASSUME ReadQuota(t) PROVE AdmittedInv'
    <3> HIDE DEF UserQuota
    <3>1. /\ UNCHANGED <<services, quotas, member>>
          /\ \A u \in Thread \ {t} : http'[u] = http[u]
          /\ http'[t].step = "used" /\ http'[t].size = UserQuota(http[t].groups)
          /\ http'[t].stale = (http[t].groups # member)
      BY <1>0, <2>2 DEF ReadQuota, Handler
    <3>2. UserQuota(member)' = UserQuota(member)
      BY <3>1, StaysCurrent
    <3>3. Current(t)'
      BY <3>1, <3>2 DEF Current, At
    <3> QED BY <1>3, <3>1, <3>3
  <2>3. ASSUME ReadUsed(t) PROVE AdmittedInv'
    <3>1. CASE Done(t)
      <4>1. /\ UNCHANGED <<services, quotas, member>>
            /\ \A u \in Thread \ {t} : http'[u] = http[u]
            /\ http'[t].step = "ready"
        BY <1>0, <2>3, <3>1 DEF ReadUsed, Done, Ready
      <4>2. Current(t)'
        BY <4>1 DEF Current, At
      <4> QED BY <1>3, <4>1, <4>2
    <3>2. CASE ~Done(t)
      <4>1. /\ At(t, "used") /\ UNCHANGED <<catalogs, services, quotas, member>>
            /\ MayAdmit(http[t].size, catalogs[http[t].catalog].size)
            /\ http' = [http EXCEPT ![t].step = "create", ![t].size = Zero]
        BY <2>3, <3>2 DEF ReadUsed
      <4>2. /\ \A u \in Thread \ {t} : http'[u] = http[u]
            /\ http'[t].stale = http[t].stale /\ http'[t].catalog = http[t].catalog
            /\ http'[t].step = "create"
        BY <1>0, <4>1 DEF Handler
      <4>3. Used' = Used /\ UserQuota(member)' = UserQuota(member) /\ Current(t)
        BY <4>1, StaysCurrent
      <4> HIDE DEF Used, UserQuota
      <4>4. Current(t)'
        BY <4>1, <4>2, <4>3 DEF Current, At, MayAdmit, Fits, Plus
      <4> QED BY <1>3, <4>1, <4>2, <4>4
    <3> QED BY <3>1, <3>2
  <2>4. ASSUME (\E s \in Service : Create(t, s)) \/ InsertQuota(t) \/ SetQuota(t)
        PROVE  AdmittedInv'
    BY <1>2, <2>4 DEF Create, InsertQuota, SetQuota
  <2> QED BY <1>7, <2>1, <2>2, <2>3, <2>4 DEF Handle
<1> QED BY <1>4, <1>5, <1>6, <1>7 DEF Next

\* A creation takes the user past the quota only if a service, a quota or a
\* membership changed after the handler read the quota.
THEOREM OverdraftRaces == Spec => OverdraftNeedsRace
<1>1. ASSUME TypeOK, NamedInv, AdmittedInv, [Next]_admissionVars, NEW t \in Thread,
             At(t, "create"), services' # services, http'[t] = Ready, ~http[t].stale
      PROVE  Fits(Used', UserQuota(member)')
  <2>0. http \in [Thread -> Handler] /\ http[t].step = "create" /\ http'[t].step = "ready"
    BY <1>1, TypeParts DEF At, Ready
  <2>1. ASSUME NEW own, Outdated(own) PROVE t \in own
    BY <1>1, <2>0, <2>1, OutdatedCurrent
  <2>2. \E s \in Service : Create(t, s)
    <3>1. ASSUME NEW s \in Service, DeleteService(s) \/ ReconcileService(s) PROVE FALSE
      <4>1. Outdated({})
        BY <3>1 DEF DeleteService, ReconcileService
      <4> QED BY <2>1, <4>1
    <3>2. ASSUME NEW u \in Thread, NEW s \in Service, Create(u, s) PROVE u = t
      BY <2>1, <3>2 DEF Create
    <3>3. ~AtOnce
      BY <1>1, <3>1
      DEF AtOnce, DeleteQuota, Moved, RetireCatalog, DeleteCatalog, CreateCatalog
    <3>4. ~Controllers
      BY <1>1, <3>1 DEF Controllers, LookAtCatalog, ReleaseCatalog, PublishReady, RunFails
    <3>5. PICK u \in Thread : Handle(u)
      BY <1>1, <3>3, <3>4 DEF Next, admissionVars
    <3>6. \E s \in Service : Create(u, s)
      BY <1>1, <3>5 DEF Handle, CreateService, ReadQuota, ReadUsed, CreateQuota, UpdateQuota,
         InsertQuota, SetQuota, Abandon
    <3> QED BY <3>2, <3>6
  <2>3. PICK s \in Service : Create(t, s)
    BY <2>2
  <2> DEFINE c == http[t].catalog
  <2>4. /\ c \in Catalog /\ services[s].state = "none" /\ UNCHANGED <<catalogs, quotas, member>>
        /\ services' = [services EXCEPT ![s] = [NoService EXCEPT !.state = "new", !.catalog = c]]
    BY <1>1, <2>0, <2>3 DEF Create, NamedInv, Named
  <2>5. Used' = Plus(Used, catalogs[c].size)
    BY <1>1, <2>4, UsedGrows
  <2>6. UserQuota(member)' = UserQuota(member)
    BY <2>4 DEF UserQuota
  <2>7. Fits(Plus(Used, catalogs[c].size), UserQuota(member))
    BY <1>1 DEF AdmittedInv, Current, MayAdmit
  <2> QED BY <2>5, <2>6, <2>7 DEF Fits
<1>2. TypeOK /\ NamedInv /\ AdmittedInv /\ [Next]_admissionVars
        => [\A t \in Thread :
              /\ At(t, "create") /\ services' # services /\ http'[t] = Ready
              /\ UsedKnown'
              => http[t].stale \/ Fits(Used', UserQuota(member)')]_admissionVars
  BY <1>1
<1> QED BY <1>2, TypeInit, TypeStep, NamedInit, NamedStep, AdmittedInit, AdmittedStep, PTL
        DEF Spec, OverdraftNeedsRace

===============================================================================
