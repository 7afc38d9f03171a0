-------------------------- MODULE ProvisioningProofs --------------------------
(***************************************************************************)
(* Theorems of Provisioning, for any number of services, of disks and of   *)
(* failures: the variables have their types, a VM has all its volumes, no  *)
(* volume is forgotten but by a failure, and no failed run goes untold but *)
(* for a recent notice.                                                    *)
(***************************************************************************)
EXTENDS Provisioning, TLAPS

Step == {"rest", "find", "network", "volumes", "cleanup", "getVM", "notify"}
Volume == Server \X (1 .. Disks)
VolumeState == {"none", "free", "attached"}
RunType == [step : Step, server : Server \union {NoServer}, made : SUBSET (1 .. Disks),
            next : 1 .. Disks + 1]

VMsOK == vms \in [Server -> {"none", "building", "active", "error"}]
VolumesOK == volumes \in [Volume -> VolumeState]
RunOK == run \in RunType /\ (run.step # "rest" => run.server \in Server)
LeftOK == left \subseteq Volume
KnownOK == networks \in {0, 1} /\ wanted \subseteq Server /\ instance \subseteq Server
AgesOK == cache \in [Key -> 0 .. Never] /\ told \in [Key -> 0 .. Never]
MishapsOK == mishaps \in 0 .. MaxMishaps

\* What the run has made so far: nothing before the first volume, one after the
\* other then, nothing of its own once the VM has them.
MadeInOrder ==
  /\ run.step \in {"find", "network"} => run.made = {} /\ run.next = 1
  /\ run.step = "volumes" => run.made = 1 .. run.next - 1
  /\ run.step \in {"rest", "getVM"} => run.made = {}

\* A volume in the hands of a run that will attach it or clean it up is free;
\* when the run only has to notify, the volume is attached or was left behind.
MadeIsFree ==
  /\ run.step \in {"volumes", "cleanup"} =>
       \A i \in run.made : volumes[<<run.server, i>>] = "free"
  /\ run.step = "notify" =>
       \A i \in run.made : \/ volumes[<<run.server, i>>] # "free"
                           \/ <<run.server, i>> \in left

\* A notice that would silence another stands for an event not older than it.
ToldOfNotices == \A k \in Key : cache[k] <= MinInterval => told[k] <= cache[k]

TypeInv == VMsOK /\ VolumesOK /\ RunOK /\ LeftOK /\ KnownOK /\ AgesOK /\ MishapsOK
VolumeInv == MadeInOrder /\ MadeIsFree /\ VMComplete /\ NoVolumeForgotten

LEMMA TypeInvIsType == TypeInv => ProvisioningTypeOK
  BY DEF TypeInv, VMsOK, VolumesOK, RunOK, LeftOK, KnownOK, AgesOK, MishapsOK,
         ProvisioningTypeOK, RunType, Step, Volume, VolumeState

-------------------------------------------------------------------------------
\* Types.
LEMMA RestingTyped == Resting \in RunType
  BY ProvisioningAssumption DEF Resting, RunType, Step

LEMMA NeverIsNat == Never \in Nat /\ MinInterval \in Nat /\ MinInterval < Never /\ 0 \in 0 .. Never
  BY ProvisioningAssumption DEF Never

LEMMA GotoTyped ==
  ASSUME RunOK, NEW step \in Step \ {"rest"}, Goto(step), run.server \in Server
  PROVE  RunOK'
  BY DEF RunOK, RunType, Goto

LEMMA RestTyped ==
  ASSUME run' = Resting
  PROVE  RunOK'
  BY RestingTyped DEF RunOK, Resting

LEMMA AgeTyped ==
  ASSUME NEW ages \in [Key -> 0 .. Never]
  PROVE  Age(ages) \in [Key -> 0 .. Never]
  BY NeverIsNat DEF Age

LEMMA RunStep ==
  ASSUME TypeInv, MadeInOrder, ProvisioningNext
  PROVE  RunOK'
<1>0. RunOK /\ Disks \in Nat
  BY ProvisioningAssumption DEF TypeInv
<1>a. ASSUME UNCHANGED run PROVE RunOK'
  BY <1>0, <1>a DEF RunOK
<1>1. ASSUME NEW s \in Server, Reconcile(s) PROVE RunOK'
  BY <1>1, RestingTyped DEF Reconcile, RunOK, RunType, Step, Resting
<1>2. ASSUME NEW s \in Server, FindVM(s) \/ UseNetwork(s) PROVE RunOK'
  BY <1>0, <1>2, GotoTyped DEF FindVM, UseNetwork, On, Step
<1>3. ASSUME NEW s \in Server, CreateVolume(s) PROVE RunOK'
  <2>1. /\ run \in RunType /\ run.step = "volumes" /\ run.server = s
        /\ run.next \in 1 .. Disks /\ run.next + 1 \in 1 .. Disks + 1
        /\ run.made \union {run.next} \in SUBSET (1 .. Disks)
    BY <1>0, <1>3 DEF CreateVolume, On, RunOK, RunType
  <2>2. CASE run' = [run EXCEPT !.made = @ \union {run.next}, !.next = @ + 1]
    BY <2>1, <2>2 DEF RunOK, RunType, Step
  <2>3. CASE run' = GiveUpVolumes
    BY <2>1, <2>3 DEF GiveUpVolumes, RunOK, RunType, Step
  <2> QED BY <1>3, <2>2, <2>3 DEF CreateVolume
<1>4. ASSUME NEW s \in Server, CreateVM(s) PROVE RunOK'
  BY <1>0, <1>4 DEF CreateVM, On, RunOK, RunType, Step
<1>5. ASSUME NEW s \in Server, CleanUp(s) PROVE RunOK'
  <2>1. run \in RunType /\ run.step = "cleanup" /\ run.server = s
    BY <1>0, <1>5 DEF CleanUp, On, RunOK
  <2>2. CASE Goto("notify")
    BY <1>0, <2>1, <2>2, GotoTyped DEF Step
  <2>3. ASSUME NEW i, run' = [run EXCEPT !.made = @ \ {i}] PROVE RunOK'
    BY <2>1, <2>3 DEF RunOK, RunType
  <2> QED BY <1>5, <2>2, <2>3 DEF CleanUp
<1>6. ASSUME NEW s \in Server, CallFails(s) PROVE RunOK'
  <2>1. CASE run' = Resting
    BY <2>1, RestTyped
  <2>2. CASE run.server = s /\ Goto("notify")
    BY <1>0, <2>2, GotoTyped DEF Step
  <2>3. CASE run.server = s /\ run' = GiveUpVolumes
    BY <1>0, <2>3 DEF GiveUpVolumes, RunOK, RunType, Step
  <2> QED BY <1>6, <2>1, <2>2, <2>3 DEF CallFails, On
<1>7. ASSUME NEW s \in Server, GetVM(s) \/ Notify(s) PROVE RunOK'
  BY <1>0, <1>7, GotoTyped, RestTyped DEF GetVM, Notify, On, Step
<1>8. CASE Restart
  BY <1>8, RestTyped DEF Restart
<1>9. ASSUME NEW s \in Server, Delete(s) \/ \E how \in {"active", "error"} : Build(s, how)
      PROVE  RunOK'
  BY <1>9, <1>a DEF Delete, Build
<1>10. CASE AddressesTaken \/ TimeGoesBy
  BY <1>10, <1>a DEF AddressesTaken, TimeGoesBy
<1> QED BY <1>1, <1>2, <1>3, <1>4, <1>5, <1>6, <1>7, <1>8, <1>9, <1>10
        DEF ProvisioningNext, Calls

LEMMA PlatformStep ==
  ASSUME TypeInv, ProvisioningNext
  PROVE  VMsOK' /\ VolumesOK' /\ LeftOK'
<1> DEFINE Good == VMsOK' /\ VolumesOK' /\ LeftOK'
<1>0. VMsOK /\ VolumesOK /\ LeftOK /\ run.made \subseteq 1 .. Disks /\ DOMAIN volumes = Volume
  BY DEF TypeInv, RunOK, RunType, VolumesOK
<1>a. ASSUME UNCHANGED <<vms, volumes, left>> PROVE Good
  BY <1>0, <1>a DEF VMsOK, VolumesOK, LeftOK
<1>b. ASSUME NEW v \in Volume, NEW state \in VolumeState, volumes' = [volumes EXCEPT ![v] = state]
      PROVE  VolumesOK'
  BY <1>0, <1>b DEF VolumesOK
<1>c. ASSUME NEW v \in Volume, left' = left \union {v} PROVE LeftOK'
  BY <1>0, <1>c DEF LeftOK
<1>d. ASSUME NEW s \in Server, MakeVM(s) PROVE VMsOK' /\ VolumesOK'
  BY <1>0, <1>d DEF MakeVM, VMsOK, VolumesOK, VolumeState
<1>1. ASSUME NEW s \in Server, CreateVolume(s) PROVE Good
  <2>1. <<s, run.next>> \in Volume
    BY <1>1 DEF TypeInv, RunOK, RunType, CreateVolume, Volume
  <2> QED BY <1>0, <1>1, <1>a, <1>b, <2>1 DEF CreateVolume, VMsOK, LeftOK, VolumeState
<1>2. ASSUME NEW s \in Server, CreateVM(s) PROVE Good
  BY <1>0, <1>2, <1>d DEF CreateVM, LeftOK
<1>3. ASSUME NEW s \in Server, CleanUp(s) PROVE Good
  <2>1. \A i \in ToCleanUp : <<s, i>> \in Volume
    BY <1>0 DEF ToCleanUp, Volume
  <2> QED BY <1>0, <1>3, <1>a, <1>b, <1>c, <2>1 DEF CleanUp, VMsOK, VolumesOK, LeftOK, VolumeState
<1>4. ASSUME NEW s \in Server, CallFails(s) PROVE Good
  <2>1. {s} \X run.made \subseteq Volume
    BY <1>0 DEF Volume
  <2>2. run.next <= Disks => <<s, run.next>> \in Volume
    BY DEF TypeInv, RunOK, RunType, Volume
  <2>3. CASE /\ UNCHANGED vms /\ run.next <= Disks
             /\ volumes' = [volumes EXCEPT ![<<s, run.next>>] = "free"]
             /\ left' = left \union {<<s, run.next>>}
    BY <1>0, <1>b, <1>c, <2>2, <2>3 DEF VMsOK, VolumeState
  <2>4. CASE left' = left \union ({s} \X run.made) /\ UNCHANGED <<vms, volumes>>
    BY <1>0, <2>1, <2>4 DEF VMsOK, VolumesOK, LeftOK
  <2>5. CASE MakeVM(s) /\ UNCHANGED left
    BY <1>0, <1>d, <2>5 DEF LeftOK
  <2> QED BY <1>4, <1>a, <2>3, <2>4, <2>5 DEF CallFails
<1>5. ASSUME NEW s \in Server, Delete(s) PROVE Good
  <2>1. CASE UNCHANGED <<vms, volumes>>
    BY <1>5, <1>a, <2>1 DEF Delete
  <2>2. CASE s \in instance
    BY <1>0, <1>5, <2>2 DEF Delete, VMsOK, VolumesOK, LeftOK, VolumeState
  <2> QED BY <1>5, <2>1, <2>2 DEF Delete
<1>6. CASE Restart
  BY <1>0, <1>6 DEF Restart, platform, VMsOK, VolumesOK, LeftOK
<1>7. ASSUME NEW s \in Server, NEW how \in {"active", "error"}, Build(s, how) PROVE Good
  BY <1>0, <1>7 DEF Build, VMsOK, VolumesOK, LeftOK
<1>8. ASSUME NEW s \in Server, Reconcile(s) \/ FindVM(s) \/ UseNetwork(s) \/ GetVM(s) \/ Notify(s)
      PROVE  Good
  BY <1>8, <1>a DEF Reconcile, FindVM, UseNetwork, GetVM, Notify, platform
<1>9. CASE AddressesTaken \/ TimeGoesBy
  BY <1>9, <1>a DEF AddressesTaken, TimeGoesBy, platform
<1> QED BY <1>1, <1>2, <1>3, <1>4, <1>5, <1>6, <1>7, <1>8, <1>9 DEF ProvisioningNext, Calls

LEMMA RestStep ==
  ASSUME TypeInv, ProvisioningNext
  PROVE  KnownOK' /\ AgesOK' /\ MishapsOK'
<1>0. KnownOK /\ AgesOK /\ MishapsOK /\ MaxMishaps \in Nat
  BY ProvisioningAssumption DEF TypeInv
<1>1. KnownOK'
  <2>1. ASSUME NEW s \in Server,
               \/ Reconcile(s) \/ Calls(s) \/ CallFails(s) \/ Delete(s)
               \/ \E how \in {"active", "error"} : Build(s, how)
        PROVE  KnownOK'
    BY <1>0, <2>1 DEF KnownOK, Reconcile, Calls, CallFails, Delete, Build, FindVM, UseNetwork,
       CreateVolume, CreateVM, CleanUp, GetVM, Notify, platform
  <2> QED BY <1>0, <2>1 DEF KnownOK, ProvisioningNext, Restart, AddressesTaken, TimeGoesBy, platform
<1>2. AgesOK'
  <2>1. \A s \in Server : s \in Key /\ KeyOf(s) \in Key
    BY DEF Key, KeyOf
  <2>2. \A k \in Key, n \in {0, Never} :
          /\ [cache EXCEPT ![k] = n] \in [Key -> 0 .. Never]
          /\ [told EXCEPT ![k] = n] \in [Key -> 0 .. Never]
    BY <1>0, NeverIsNat DEF AgesOK
  <2>3. ASSUME NEW s \in Server, GetVM(s) PROVE AgesOK'
    <3>1. cache' = [cache EXCEPT ![s] = Never] \/ UNCHANGED cache
      BY <1>0, <2>3 DEF GetVM, AgesOK
    <3> QED BY <1>0, <2>1, <2>2, <2>3, <3>1 DEF GetVM, AgesOK
  <2>4. ASSUME NEW s \in Server, Notify(s) PROVE AgesOK'
    BY <1>0, <2>1, <2>2, <2>4 DEF Notify, AgesOK, Recorded
  <2>5. CASE Restart
    BY <1>0, <2>5, NeverIsNat DEF Restart, AgesOK
  <2>6. CASE TimeGoesBy
    BY <1>0, <2>6, AgeTyped DEF TimeGoesBy, AgesOK
  <2>7. ASSUME UNCHANGED <<cache, told>> PROVE AgesOK'
    BY <1>0, <2>7 DEF AgesOK
  <2> QED BY <2>3, <2>4, <2>5, <2>6, <2>7
          DEF ProvisioningNext, Calls, Reconcile, CallFails, Delete, Build, FindVM, UseNetwork,
              CreateVolume, CreateVM, CleanUp, AddressesTaken
<1>3. MishapsOK'
  <2>1. UNCHANGED mishaps \/ Mishap
    BY DEF ProvisioningNext, Calls, Reconcile, CallFails, Delete, Build, FindVM, UseNetwork,
       CreateVolume, CreateVM, CleanUp, GetVM, Notify, Restart, AddressesTaken, TimeGoesBy
  <2> QED BY <1>0, <2>1 DEF MishapsOK, Mishap
<1> QED BY <1>1, <1>2, <1>3

-------------------------------------------------------------------------------
\* Volumes.
LEMMA Attached ==
  ASSUME TypeInv, VolumeInv, NEW s \in Server, On(s, "volumes"), run.next > Disks, MakeVM(s)
  PROVE  /\ VMComplete'
         /\ \A i \in run.made : volumes'[<<s, i>>] = "attached"
         /\ \A v \in Volume : volumes'[v] = "free" => volumes[v] = "free" /\ ~(v[1] = s /\ v[2] \in run.made)
<1>1. run.made = 1 .. Disks
  <2>1. run.next \in 1 .. Disks + 1 /\ Disks \in Nat /\ run.made = 1 .. run.next - 1
    BY ProvisioningAssumption DEF TypeInv, RunOK, RunType, VolumeInv, MadeInOrder, On
  <2>2. run.next - 1 = Disks
    BY <2>1
  <2> QED BY <2>1, <2>2
<1>2. \A v \in Volume : volumes'[v] = IF v[1] = s /\ v[2] \in run.made THEN "attached" ELSE volumes[v]
  BY DEF MakeVM, TypeInv, VolumesOK
<1>3. \A v \in Volume : v = <<v[1], v[2]>> /\ v[1] \in Server /\ v[2] \in 1 .. Disks
  BY DEF Volume
<1>4. \A r \in Server, i \in 1 .. Disks : <<r, i>> \in Volume
  BY DEF Volume
<1>5. \A r \in Server : vms'[r] = IF r = s THEN "building" ELSE vms[r]
  BY DEF MakeVM, TypeInv, VMsOK
<1>6. VMComplete'
  <2> SUFFICES ASSUME NEW r \in Server, vms'[r] # "none", NEW i \in 1 .. Disks
               PROVE  volumes'[<<r, i>>] = "attached"
    BY DEF VMComplete
  <2>1. CASE r = s
    BY <1>1, <1>2, <1>4, <2>1
  <2>2. CASE r # s
    BY <1>2, <1>4, <1>5, <2>2 DEF VolumeInv, VMComplete
  <2> QED BY <2>1, <2>2
<1>7. \A i \in run.made : volumes'[<<s, i>>] = "attached"
  BY <1>1, <1>2, <1>4
<1> QED BY <1>2, <1>6, <1>7

\* A step that leaves VMs and volumes alone, and lets go of nothing.
LEMMA Untouched ==
  ASSUME TypeInv, VolumeInv, UNCHANGED <<vms, volumes>>, left \subseteq left',
         \A i \in run.made : \/ i \in run'.made /\ run'.server = run.server
                             \/ volumes[<<run.server, i>>] # "free"
                             \/ <<run.server, i>> \in left'
  PROVE  VMComplete' /\ NoVolumeForgotten'
<1>1. VMComplete'
  BY DEF VolumeInv, VMComplete
<1>2. NoVolumeForgotten'
  <2> SUFFICES ASSUME NEW v \in DOMAIN volumes, volumes[v] = "free"
               PROVE  v \in left' \/ (run'.server = v[1] /\ v[2] \in run'.made)
    BY DEF NoVolumeForgotten
  <2>1. v = <<v[1], v[2]>>
    BY DEF TypeInv, VolumesOK, Volume
  <2>2. v \in left \/ (run.server = v[1] /\ v[2] \in run.made)
    BY DEF VolumeInv, NoVolumeForgotten
  <2> QED BY <2>1, <2>2
<1> QED BY <1>1, <1>2

LEMMA VolumeStep ==
  ASSUME TypeInv, VolumeInv, ProvisioningNext
  PROVE  VolumeInv'
<1>0. /\ VMsOK /\ VolumesOK /\ RunOK /\ LeftOK /\ Disks \in Nat /\ DOMAIN volumes = Volume
      /\ MadeInOrder /\ MadeIsFree /\ VMComplete /\ NoVolumeForgotten
  BY ProvisioningAssumption DEF TypeInv, VolumeInv, VolumesOK
<1>a. \A v \in Volume : v = <<v[1], v[2]>> /\ v[1] \in Server /\ v[2] \in 1 .. Disks
  BY DEF Volume
<1>b. \A r \in Server, i \in 1 .. Disks : <<r, i>> \in Volume
  BY DEF Volume
<1>c. ASSUME UNCHANGED <<vms, volumes, run, left>> PROVE VolumeInv'
  BY <1>0, <1>c DEF VolumeInv, MadeInOrder, MadeIsFree, VMComplete, NoVolumeForgotten
<1>d. ASSUME UNCHANGED <<vms, volumes, left>>, run.made = {} PROVE VMComplete' /\ NoVolumeForgotten'
  BY <1>d, Untouched
<1>1. ASSUME NEW s \in Server, Reconcile(s) PROVE VolumeInv'
  <2>1. run.made = {} /\ run'.made = {} /\ run'.next = 1 /\ run'.step \in {"getVM", "find"}
    BY <1>1 DEF Reconcile, Resting
  <2> QED BY <1>1, <1>d, <2>1 DEF Reconcile, platform, VolumeInv, MadeInOrder, MadeIsFree
<1>2. ASSUME NEW s \in Server, FindVM(s) \/ UseNetwork(s) PROVE VolumeInv'
  <2>1. /\ run.made = {} /\ run'.made = {} /\ run'.next = 1
        /\ run'.step \in {"getVM", "network", "volumes"}
    BY <1>0, <1>2 DEF FindVM, UseNetwork, On, Goto, MadeInOrder, RunOK, RunType
  <2> QED BY <1>2, <1>d, <2>1
          DEF FindVM, UseNetwork, platform, VolumeInv, MadeInOrder, MadeIsFree
<1>3. ASSUME NEW s \in Server, CreateVolume(s) PROVE VolumeInv'
  <2>1. /\ run.step = "volumes" /\ run.server = s /\ run.next \in 1 .. Disks
        /\ run.made = 1 .. run.next - 1 /\ <<s, run.next>> \in Volume
    BY <1>0, <1>3, <1>b DEF CreateVolume, On, MadeInOrder, RunOK, RunType
  <2>2. CASE volumes[<<s, run.next>>] = "none"
    <3>1. /\ volumes' = [volumes EXCEPT ![<<s, run.next>>] = "free"] /\ UNCHANGED <<vms, left>>
          /\ run' = [run EXCEPT !.made = @ \union {run.next}, !.next = @ + 1]
      BY <1>3, <2>2 DEF CreateVolume
    <3>2. /\ run'.step = "volumes" /\ run'.server = s /\ run'.next = run.next + 1
          /\ run'.made = run.made \union {run.next}
      BY <1>0, <2>1, <3>1 DEF RunOK, RunType
    <3>3. MadeInOrder'
      <4>1. 1 .. run.next = (1 .. run.next - 1) \union {run.next} /\ run'.next - 1 = run.next
        BY <2>1, <3>2
      <4> QED BY <2>1, <3>2, <4>1 DEF MadeInOrder
    <3>4. MadeIsFree'
      <4> SUFFICES ASSUME NEW i \in run'.made PROVE volumes'[<<s, i>>] = "free"
        BY <3>2 DEF MadeIsFree
      <4>1. <<s, i>> \in Volume
        BY <1>0, <1>b, <2>1, <3>2 DEF RunOK, RunType
      <4> QED BY <1>0, <2>1, <3>1, <3>2, <4>1 DEF MadeIsFree, VolumesOK
    <3>5. VMComplete'
      <4> SUFFICES ASSUME NEW r \in Server, vms'[r] # "none", NEW i \in 1 .. Disks
                   PROVE  volumes'[<<r, i>>] = "attached"
        BY DEF VMComplete
      <4>1. volumes[<<r, i>>] = "attached"
        BY <1>0, <3>1 DEF VMComplete
      <4> QED BY <1>0, <1>b, <2>2, <3>1, <4>1 DEF VolumesOK
    <3>6. NoVolumeForgotten'
      <4> SUFFICES ASSUME NEW v \in Volume, volumes'[v] = "free"
                   PROVE  v \in left' \/ (run'.server = v[1] /\ v[2] \in run'.made)
        BY <1>0, <3>1 DEF NoVolumeForgotten, VolumesOK
      <4>1. CASE v = <<s, run.next>>
        BY <3>2, <4>1
      <4>2. CASE v # <<s, run.next>>
        BY <1>0, <2>1, <3>1, <3>2, <4>2 DEF NoVolumeForgotten, VolumesOK
      <4> QED BY <4>1, <4>2
    <3> QED BY <3>3, <3>4, <3>5, <3>6 DEF VolumeInv
  <2>3. CASE volumes[<<s, run.next>>] # "none"
    <3>1. /\ UNCHANGED <<vms, volumes, left>>
          /\ run'.step = "cleanup" /\ run'.server = run.server /\ run'.made = run.made
      BY <1>0, <1>3, <2>3 DEF CreateVolume, GiveUpVolumes, RunOK, RunType
    <3> QED BY <1>0, <2>1, <3>1, Untouched DEF VolumeInv, MadeInOrder, MadeIsFree
  <2> QED BY <2>2, <2>3
<1>4. ASSUME NEW s \in Server, CreateVM(s) PROVE VolumeInv'
  <2>1. run'.step = "getVM" /\ run'.made = {} /\ UNCHANGED left /\ run.server = s
    BY <1>0, <1>4 DEF CreateVM, On, RunOK, RunType
  <2>2. DOMAIN volumes' = Volume
    BY <1>0, <1>4 DEF CreateVM, MakeVM
  <2>3. /\ VMComplete'
        /\ \A v \in Volume : volumes'[v] = "free" => volumes[v] = "free" /\ ~(v[1] = s /\ v[2] \in run.made)
    BY <1>4, Attached DEF CreateVM
  <2>4. NoVolumeForgotten'
    BY <1>0, <2>1, <2>2, <2>3 DEF NoVolumeForgotten
  <2> QED BY <2>1, <2>3, <2>4 DEF VolumeInv, MadeInOrder, MadeIsFree
<1>5. ASSUME NEW s \in Server, CleanUp(s) PROVE VolumeInv'
  <2>0. run.step = "cleanup" /\ run.server = s
    BY <1>5 DEF CleanUp, On
  <2>1. CASE ToCleanUp = {}
    <3>1. /\ run'.step = "notify" /\ run'.server = run.server /\ run'.made = run.made
          /\ run.made = {} /\ UNCHANGED <<vms, volumes, left>>
      BY <1>0, <1>5, <2>1 DEF CleanUp, Goto, ToCleanUp, RunOK, RunType
    <3> QED BY <1>d, <3>1 DEF VolumeInv, MadeInOrder, MadeIsFree
  <2>2. ASSUME NEW i \in ToCleanUp, run' = [run EXCEPT !.made = @ \ {i}], UNCHANGED vms,
               \/ volumes' = [volumes EXCEPT ![<<s, i>>] = "none"] /\ UNCHANGED left
               \/ left' = left \union {<<s, i>>} /\ UNCHANGED volumes
        PROVE  VolumeInv'
    <3>1. /\ run'.step = "cleanup" /\ run'.server = s /\ run'.made = run.made \ {i}
          /\ i \in run.made /\ i \in 1 .. Disks /\ <<s, i>> \in Volume
      BY <1>0, <1>b, <2>0, <2>2 DEF RunOK, RunType, ToCleanUp
    <3>2. \A j \in 1 .. Disks : <<s, j>> = <<s, i>> => j = i
      OBVIOUS
    <3>3. volumes[<<s, i>>] = "free"
      BY <1>0, <2>0, <3>1 DEF MadeIsFree
    <3>4. CASE volumes' = [volumes EXCEPT ![<<s, i>>] = "none"] /\ UNCHANGED left
      <4>1. \A v \in Volume : volumes'[v] = IF v = <<s, i>> THEN "none" ELSE volumes[v]
        BY <1>0, <3>4 DEF VolumesOK
      <4>2. MadeIsFree'
        <5> SUFFICES ASSUME NEW j \in run'.made PROVE volumes'[<<s, j>>] = "free"
          BY <3>1 DEF MadeIsFree
        <5>1. <<s, j>> \in Volume /\ <<s, j>> # <<s, i>>
          BY <1>0, <1>b, <3>1 DEF RunOK, RunType
        <5> QED BY <1>0, <2>0, <3>1, <4>1, <5>1 DEF MadeIsFree
      <4>3. VMComplete'
        <5> SUFFICES ASSUME NEW r \in Server, vms[r] # "none", NEW j \in 1 .. Disks
                     PROVE  volumes'[<<r, j>>] = "attached"
          BY <2>2 DEF VMComplete
        <5>1. volumes[<<r, j>>] = "attached" /\ <<r, j>> \in Volume
          BY <1>0, <1>b DEF VMComplete
        <5> QED BY <3>3, <4>1, <5>1
      <4>4. NoVolumeForgotten'
        <5> SUFFICES ASSUME NEW v \in Volume, volumes'[v] = "free"
                     PROVE  v \in left' \/ (run'.server = v[1] /\ v[2] \in run'.made)
          BY <1>0, <3>4 DEF NoVolumeForgotten, VolumesOK
        <5>1. volumes[v] = "free" /\ v # <<s, i>>
          BY <4>1
        <5>2. v = <<v[1], v[2]>>
          BY <1>a
        <5> QED BY <1>0, <2>0, <3>1, <3>4, <5>1, <5>2 DEF NoVolumeForgotten
      <4> QED BY <3>1, <4>2, <4>3, <4>4 DEF VolumeInv, MadeInOrder
    <3>5. CASE left' = left \union {<<s, i>>} /\ UNCHANGED volumes
      <4>1. VMComplete' /\ NoVolumeForgotten'
        BY <2>0, <2>2, <3>1, <3>5, Untouched
      <4> QED BY <1>0, <2>0, <3>1, <3>5, <4>1 DEF VolumeInv, MadeInOrder, MadeIsFree
    <3> QED BY <2>2, <3>4, <3>5
  <2> QED BY <1>5, <2>1, <2>2 DEF CleanUp
<1>6. ASSUME NEW s \in Server, CallFails(s) PROVE VolumeInv'
  <2>1. CASE run.step \in {"find", "network"} /\ Goto("notify") /\ UNCHANGED <<vms, volumes, left>>
    <3>1. run.made = {} /\ run'.made = {} /\ run'.step = "notify"
      BY <1>0, <2>1 DEF Goto, MadeInOrder, RunOK, RunType
    <3> QED BY <1>d, <2>1, <3>1 DEF VolumeInv, MadeInOrder, MadeIsFree
  <2>2. CASE /\ On(s, "volumes") /\ run' = GiveUpVolumes /\ UNCHANGED <<vms, volumes, left>>
    <3>1. run'.step = "cleanup" /\ run'.server = run.server /\ run'.made = run.made
      BY <1>0, <2>2 DEF GiveUpVolumes, RunOK, RunType
    <3> QED BY <1>0, <2>2, <3>1, Untouched DEF VolumeInv, MadeInOrder, MadeIsFree, On
  <2>3. CASE /\ On(s, "volumes") /\ run.next <= Disks /\ run' = GiveUpVolumes /\ UNCHANGED vms
             /\ volumes[<<s, run.next>>] = "none"
             /\ volumes' = [volumes EXCEPT ![<<s, run.next>>] = "free"]
             /\ left' = left \union {<<s, run.next>>}
    <3>1. /\ run'.step = "cleanup" /\ run'.server = run.server /\ run'.made = run.made
          /\ run.step = "volumes" /\ run.server = s /\ run.made \subseteq 1 .. Disks
          /\ <<s, run.next>> \in Volume
      BY <1>0, <1>b, <2>3 DEF GiveUpVolumes, RunOK, RunType, On
    <3>2. \A v \in Volume : volumes'[v] = IF v = <<s, run.next>> THEN "free" ELSE volumes[v]
      BY <1>0, <2>3 DEF VolumesOK
    <3>3. MadeIsFree'
      BY <1>0, <1>b, <3>1, <3>2 DEF MadeIsFree
    <3>4. VMComplete'
      <4> SUFFICES ASSUME NEW r \in Server, vms[r] # "none", NEW j \in 1 .. Disks
                   PROVE  volumes'[<<r, j>>] = "attached"
        BY <2>3 DEF VMComplete
      <4>1. volumes[<<r, j>>] = "attached" /\ <<r, j>> \in Volume
        BY <1>0, <1>b DEF VMComplete
      <4> QED BY <2>3, <3>2, <4>1
    <3>5. NoVolumeForgotten'
      <4>1. DOMAIN volumes' = Volume
        BY <1>0, <2>3
      <4> QED BY <1>0, <2>3, <3>1, <3>2, <4>1 DEF NoVolumeForgotten
    <3> QED BY <3>1, <3>3, <3>4, <3>5 DEF VolumeInv, MadeInOrder
  <2>4. CASE /\ On(s, "volumes") /\ Goto("notify")
             /\ left' = left \union ({s} \X run.made) /\ UNCHANGED <<vms, volumes>>
    <3>1. /\ run'.step = "notify" /\ run'.server = run.server /\ run'.made = run.made
          /\ run.server = s
      BY <1>0, <2>4 DEF Goto, RunOK, RunType, On
    <3>2. \A i \in run.made : <<s, i>> \in left'
      BY <2>4
    <3> QED BY <2>4, <3>1, <3>2, Untouched DEF VolumeInv, MadeInOrder, MadeIsFree
  <2>5. CASE On(s, "volumes") /\ run.next > Disks /\ Goto("notify") /\ MakeVM(s) /\ UNCHANGED left
    <3>1. /\ run'.step = "notify" /\ run'.server = run.server /\ run'.made = run.made
          /\ run.server = s
      BY <1>0, <2>5 DEF Goto, RunOK, RunType, On
    <3>2. /\ VMComplete' /\ \A i \in run.made : volumes'[<<s, i>>] = "attached"
          /\ \A v \in Volume : volumes'[v] = "free" => volumes[v] = "free"
      BY <2>5, Attached
    <3>3. DOMAIN volumes' = Volume
      BY <1>0, <2>5 DEF MakeVM
    <3>4. NoVolumeForgotten'
      BY <1>0, <2>5, <3>1, <3>2, <3>3 DEF NoVolumeForgotten
    <3> QED BY <3>1, <3>2, <3>4 DEF VolumeInv, MadeInOrder, MadeIsFree
  <2>6. CASE On(s, "getVM") /\ run' = Resting /\ UNCHANGED <<vms, volumes, left>>
    <3>1. run.made = {} /\ run'.made = {} /\ run'.step = "rest"
      BY <1>0, <2>6 DEF Resting, MadeInOrder, On
    <3> QED BY <1>d, <2>6, <3>1 DEF VolumeInv, MadeInOrder, MadeIsFree
  <2> QED BY <1>6, <2>1, <2>2, <2>3, <2>4, <2>5, <2>6 DEF CallFails
<1>7. ASSUME NEW s \in Server, GetVM(s) PROVE VolumeInv'
  <2>1. run.made = {} /\ run'.made = {} /\ run'.step \in {"rest", "notify"}
    BY <1>0, <1>7 DEF GetVM, On, Goto, Resting, MadeInOrder, RunOK, RunType
  <2> QED BY <1>7, <1>d, <2>1 DEF GetVM, platform, VolumeInv, MadeInOrder, MadeIsFree
<1>8. ASSUME NEW s \in Server, Notify(s) PROVE VolumeInv'
  <2>1. /\ run.step = "notify" /\ run'.made = {} /\ run'.step = "rest"
        /\ UNCHANGED <<vms, volumes, left>>
    BY <1>8 DEF Notify, On, Resting, platform
  <2>2. VMComplete' /\ NoVolumeForgotten'
    BY <1>0, <2>1, Untouched DEF MadeIsFree
  <2> QED BY <2>1, <2>2 DEF VolumeInv, MadeInOrder, MadeIsFree
<1>9. ASSUME NEW s \in Server, Delete(s) PROVE VolumeInv'
  <2>1. run.made = {} /\ run.step = "rest" /\ UNCHANGED <<run, left>>
    BY <1>9 DEF Delete, Resting
  <2>2. CASE UNCHANGED <<vms, volumes>>
    BY <1>c, <2>1, <2>2
  <2>3. CASE s \in instance
    <3>1. /\ \A r \in Server : vms'[r] = IF r = s THEN "none" ELSE vms[r]
          /\ DOMAIN volumes' = Volume
          /\ \A v \in Volume : volumes'[v] =
               IF v[1] = s /\ volumes[v] = "attached" THEN "none" ELSE volumes[v]
      BY <1>0, <1>9, <2>3 DEF Delete, VMsOK
    <3>2. VMComplete'
      BY <1>0, <1>b, <3>1 DEF VMComplete
    <3>3. NoVolumeForgotten'
      BY <1>0, <2>1, <3>1 DEF NoVolumeForgotten
    <3> QED BY <2>1, <3>2, <3>3 DEF VolumeInv, MadeInOrder, MadeIsFree
  <2> QED BY <1>9, <2>2, <2>3 DEF Delete
<1>10. CASE Restart
  <2>1. /\ run'.made = {} /\ run'.step = "rest" /\ UNCHANGED <<vms, volumes>>
        /\ left \subseteq left'
        /\ \A v \in Volume : v[1] = run.server /\ v[2] \in run.made /\ volumes[v] = "free" => v \in left'
    BY <1>0, <1>10 DEF Restart, Resting, platform
  <2>2. \A i \in run.made : volumes[<<run.server, i>>] # "free" \/ <<run.server, i>> \in left'
    <3> TAKE i \in run.made
    <3>1. run.step # "rest"
      BY <1>0 DEF MadeInOrder
    <3>2. <<run.server, i>> \in Volume
      BY <1>0, <1>b, <3>1 DEF RunOK, RunType
    <3> QED BY <2>1, <3>2
  <2>3. VMComplete' /\ NoVolumeForgotten'
    BY <2>1, <2>2, Untouched
  <2> QED BY <2>1, <2>3 DEF VolumeInv, MadeInOrder, MadeIsFree
<1>11. ASSUME NEW s \in Server, NEW how \in {"active", "error"}, Build(s, how) PROVE VolumeInv'
  <2>1. UNCHANGED <<volumes, run, left>> /\ \A r \in Server : vms'[r] # "none" => vms[r] # "none"
    BY <1>0, <1>11 DEF Build, VMsOK
  <2> QED BY <1>0, <2>1 DEF VolumeInv, MadeInOrder, MadeIsFree, VMComplete, NoVolumeForgotten
<1>12. CASE AddressesTaken \/ TimeGoesBy
  BY <1>12, <1>c DEF AddressesTaken, TimeGoesBy, platform
<1> QED BY <1>1, <1>2, <1>3, <1>4, <1>5, <1>6, <1>7, <1>8, <1>9, <1>10, <1>11, <1>12
        DEF ProvisioningNext, Calls

LEMMA Initially == ProvisioningInit => TypeInv /\ VolumeInv /\ ToldOfNotices
<1> SUFFICES ASSUME ProvisioningInit PROVE TypeInv /\ VolumeInv /\ ToldOfNotices
  OBVIOUS
<1>1. TypeInv
  BY RestingTyped, NeverIsNat, ProvisioningAssumption
  DEF ProvisioningInit, TypeInv, VMsOK, VolumesOK, RunOK, LeftOK, KnownOK, AgesOK, MishapsOK,
      Resting, Volume, VolumeState
<1>2. VolumeInv
  BY DEF ProvisioningInit, VolumeInv, MadeInOrder, MadeIsFree, VMComplete, NoVolumeForgotten, Resting
<1>3. ToldOfNotices
  BY NeverIsNat DEF ProvisioningInit, ToldOfNotices
<1> QED BY <1>1, <1>2, <1>3

LEMMA Inductive ==
  TypeInv /\ VolumeInv /\ [ProvisioningNext]_provisioningVars => TypeInv' /\ VolumeInv'
<1>1. ASSUME TypeInv, VolumeInv, ProvisioningNext PROVE TypeInv' /\ VolumeInv'
  <2>1. RunOK'
    BY <1>1, RunStep DEF VolumeInv
  <2> QED BY <1>1, <2>1, PlatformStep, RestStep, VolumeStep DEF TypeInv
<1>2. ASSUME TypeInv, VolumeInv, UNCHANGED provisioningVars PROVE TypeInv' /\ VolumeInv'
  BY <1>2 DEF provisioningVars, TypeInv, VMsOK, VolumesOK, RunOK, LeftOK, KnownOK, AgesOK, MishapsOK,
              VolumeInv, MadeInOrder, MadeIsFree, VMComplete, NoVolumeForgotten
<1> QED BY <1>1, <1>2

\* The variables have their types.
THEOREM ProvisioningTypeCorrect == ProvisioningSpec => []ProvisioningTypeOK
  BY TypeInvIsType, Initially, Inductive, PTL DEF ProvisioningSpec

\* Every VM has all the volumes its catalog asks for, whichever calls failed.
THEOREM VMsAreComplete == ProvisioningSpec => []VMComplete
<1>1. VolumeInv => VMComplete
  BY DEF VolumeInv
<1> QED BY <1>1, Initially, Inductive, PTL DEF ProvisioningSpec

\* A free volume is in the hands of a run, or a failure left it behind.
THEOREM VolumesAccountedFor == ProvisioningSpec => []NoVolumeForgotten
<1>1. VolumeInv => NoVolumeForgotten
  BY DEF VolumeInv
<1> QED BY <1>1, Initially, Inductive, PTL DEF ProvisioningSpec

-------------------------------------------------------------------------------
\* Notices.
LEMMA NoticesStep ==
  TypeInv /\ ToldOfNotices /\ [ProvisioningNext]_provisioningVars => ToldOfNotices'
<1> SUFFICES ASSUME TypeInv, ToldOfNotices, [ProvisioningNext]_provisioningVars
             PROVE  ToldOfNotices'
  OBVIOUS
<1>0. AgesOK
  BY DEF TypeInv
<1>a. ASSUME UNCHANGED <<cache, told>> PROVE ToldOfNotices'
  BY <1>a DEF ToldOfNotices
<1>1. ASSUME NEW s \in Server, GetVM(s) PROVE ToldOfNotices'
  <2>1. UNCHANGED told /\ \A k \in Key : cache'[k] = cache[k] \/ cache'[k] = Never
    BY <1>0, <1>1 DEF GetVM, AgesOK
  <2> QED BY <1>0, <2>1, NeverIsNat DEF ToldOfNotices, AgesOK
<1>2. ASSUME NEW s \in Server, Notify(s) PROVE ToldOfNotices'
  <2>1. KeyOf(s) \in Key
    BY DEF KeyOf, Key
  <2>2. CASE cache' = [cache EXCEPT ![KeyOf(s)] = 0] /\ told' = [told EXCEPT ![KeyOf(s)] = 0]
    BY <1>0, <2>1, <2>2 DEF ToldOfNotices, AgesOK
  <2> QED BY <1>2, <1>a, <2>2 DEF Notify, Recorded
<1>3. CASE Restart
  BY <1>3, NeverIsNat DEF Restart, ToldOfNotices
<1>4. CASE TimeGoesBy
  <2> SUFFICES ASSUME NEW k \in Key, cache'[k] <= MinInterval PROVE told'[k] <= cache'[k]
    BY DEF ToldOfNotices
  <2>1. /\ cache'[k] = IF cache[k] < Never THEN cache[k] + 1 ELSE Never
        /\ told'[k] = IF told[k] < Never THEN told[k] + 1 ELSE Never
    BY <1>4 DEF TimeGoesBy, Age
  <2>2. cache[k] \in 0 .. Never /\ told[k] \in 0 .. Never
    BY <1>0 DEF AgesOK
  <2>3. cache[k] <= MinInterval => told[k] <= cache[k]
    BY DEF ToldOfNotices
  <2> QED BY <2>1, <2>2, <2>3, NeverIsNat
<1>5. CASE UNCHANGED provisioningVars
  BY <1>5, <1>a DEF provisioningVars
<1> QED BY <1>a, <1>1, <1>2, <1>3, <1>4, <1>5
        DEF ProvisioningNext, Calls, Reconcile, CallFails, Delete, Build, FindVM, UseNetwork,
            CreateVolume, CreateVM, CleanUp, AddressesTaken

LEMMA OnlyNotifyEnds ==
  ASSUME TypeInv, [ProvisioningNext]_provisioningVars, NEW s \in Server,
         On(s, "notify"), run' = Resting, mishaps' = mishaps
  PROVE  Notify(s)
<1>1. ~Mishap
  BY DEF TypeInv, MishapsOK, Mishap
<1>2. run' # run
  BY DEF On, Resting
<1> QED BY <1>1, <1>2
        DEF ProvisioningNext, Calls, Reconcile, CallFails, Delete, Build, FindVM, UseNetwork, On,
            CreateVolume, CreateVM, CleanUp, GetVM, Notify, Restart, AddressesTaken, TimeGoesBy,
            Resting, provisioningVars

\* A run that failed ends without an event only where one of the same key was
\* stored within the interval, or where the event could not be stored.
THEOREM SilenceHasAReason == ProvisioningSpec => UntoldNeedsRecent
<1>1. TypeInv /\ ToldOfNotices /\ [ProvisioningNext]_provisioningVars
        => [\A s \in Server : On(s, "notify") /\ run' = Resting /\ mishaps' = mishaps
                              => told'[KeyOf(s)] <= MinInterval]_provisioningVars
  <2> SUFFICES ASSUME TypeInv, ToldOfNotices, [ProvisioningNext]_provisioningVars,
                      NEW s \in Server, On(s, "notify"), run' = Resting, mishaps' = mishaps
               PROVE  told'[KeyOf(s)] <= MinInterval
    OBVIOUS
  <2>1. Notify(s)
    BY OnlyNotifyEnds
  <2>2. KeyOf(s) \in Key /\ AgesOK
    BY DEF KeyOf, Key, TypeInv
  <2>3. CASE ShouldNotify(KeyOf(s))
    <3>1. told' = [told EXCEPT ![KeyOf(s)] = 0]
      BY <2>1, <2>2, <2>3 DEF Notify, TypeInv, MishapsOK, Mishap
    <3> QED BY <2>2, <3>1, NeverIsNat DEF AgesOK
  <2>4. CASE ~ShouldNotify(KeyOf(s))
    <3>1. cache[KeyOf(s)] <= MinInterval /\ UNCHANGED told
      BY <2>1, <2>2, <2>4, NeverIsNat DEF Notify, ShouldNotify, AgesOK
    <3>2. told[KeyOf(s)] <= cache[KeyOf(s)]
      BY <2>2, <3>1 DEF ToldOfNotices
    <3> QED BY <2>2, <3>1, <3>2, NeverIsNat DEF AgesOK
  <2> QED BY <2>3, <2>4
<1> QED BY <1>1, Initially, Inductive, NoticesStep, PTL DEF ProvisioningSpec, UntoldNeedsRecent

===============================================================================
