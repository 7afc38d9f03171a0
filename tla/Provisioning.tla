----------------------------- MODULE Provisioning -----------------------------
(***************************************************************************)
(* How the service controller makes the VM of a service, call by call      *)
(* (controllers/app/service/vm.go), and tells of a failure                 *)
(* (controllers/app/scope/service.go). ServiceController takes all of this *)
(* for one step; here are the public network and the data volumes that are *)
(* made before the VM and deleted with it, what stays behind when a call   *)
(* in between fails, and the memory of the notices already given, which    *)
(* only the running program has. One run of the controller is at work at a *)
(* time.                                                                   *)
(***************************************************************************)
EXTENDS Naturals, FiniteSets

CONSTANTS
  Server, NoServer,  \* the services, and the VMs that bear their names
  Disks,             \* how many data volumes the catalog asks for
  MinInterval,       \* minIntervalMinutes
  MaxMishaps         \* bound on the calls that fail and on the restarts

ASSUME ProvisioningAssumption ==
  /\ NoServer \notin Server
  /\ Disks \in Nat
  /\ MinInterval \in Nat \ {0}
  /\ MaxMishaps \in Nat

VARIABLES
  vms,       \* PowerVS: the VM of each name
  volumes,   \* PowerVS: the data volumes of each name, with a VM or without
  networks,  \* PowerVS: how many public networks with a free address there are
  wanted,    \* the services that exist and are not being deleted
  instance,  \* the services whose status has the InstanceID
  run,       \* what the run of the controller is about to do
  cache,     \* notificationCache: the age of the last notice under each key
  told,      \* not in the code: the age of the last event of each key
  left,      \* not in the code: the volumes whose VM, or whose own answer or
             \* deletion, failed them
  mishaps

provisioningVars ==
  <<vms, volumes, networks, wanted, instance, run, cache, told, left, mishaps>>
platform == <<vms, volumes, networks>>

Resting == [step |-> "rest", server |-> NoServer, made |-> {}, next |-> 1]
On(s, step) == run.step = step /\ run.server = s
Goto(step) == run' = [run EXCEPT !.step = step]

\* NoServer is the key the services without a VM share, the type of the event.
Key == Server \union {NoServer}
Never == MinInterval + 1
Age(ages) == [k \in Key |-> IF ages[k] < Never THEN ages[k] + 1 ELSE Never]
Mishap == mishaps < MaxMishaps /\ mishaps' = mishaps + 1

-------------------------------------------------------------------------------
\* VM.Reconcile.
Reconcile(s) ==
  /\ run = Resting /\ s \in wanted
  /\ run' = [Resting EXCEPT !.server = s,
                            !.step = IF s \in instance THEN "getVM" ELSE "find"]
  /\ UNCHANGED <<platform, wanted, instance, cache, told, left, mishaps>>

\* Mutant: the VMs are not looked through.
FoundNone(s) == FALSE

\* createVM: a VM of this name is there already.
Found(s) == vms[s] # "none"

FindVM(s) ==
  /\ On(s, "find")
  /\ Goto(IF Found(s) THEN "getVM" ELSE "network")
  /\ UNCHANGED <<platform, wanted, instance, cache, told, left, mishaps>>

\* getAvailablePubNetwork, or else CreateNetwork; the image is looked up too.
UseNetwork(s) ==
  /\ On(s, "network")
  /\ networks' = IF networks = 0 THEN 1 ELSE networks
  /\ Goto("volumes")
  /\ UNCHANGED <<vms, volumes, wanted, instance, cache, told, left, mishaps>>

\* Mutant: a volume that could not be made is passed over.
PassOver == [run EXCEPT !.next = @ + 1]

\* What createVolumes does when a volume cannot be made.
GiveUpVolumes == [run EXCEPT !.step = "cleanup"]

\* createVolumes: a name that is taken is an error ("fail if it already exists").
CreateVolume(s) ==
  /\ On(s, "volumes") /\ run.next <= Disks
  /\ IF volumes[<<s, run.next>>] = "none"
     THEN /\ volumes' = [volumes EXCEPT ![<<s, run.next>>] = "free"]
          /\ run' = [run EXCEPT !.made = @ \union {run.next}, !.next = @ + 1]
     ELSE run' = GiveUpVolumes /\ UNCHANGED volumes
  /\ UNCHANGED <<vms, networks, wanted, instance, cache, told, left, mishaps>>

\* What CreateVM does in PowerVS: the volumes of the run are attached.
MakeVM(s) ==
  /\ vms[s] = "none"
  /\ vms' = [vms EXCEPT ![s] = "building"]
  /\ volumes' = [v \in DOMAIN volumes |->
       IF v[1] = s /\ v[2] \in run.made THEN "attached" ELSE volumes[v]]

CreateVM(s) ==
  /\ On(s, "volumes") /\ run.next > Disks
  /\ MakeVM(s)
  /\ run' = [run EXCEPT !.step = "getVM", !.made = {}]
  /\ UNCHANGED <<networks, wanted, instance, cache, told, left, mishaps>>

\* Mutant: nothing is cleaned up.
ToCleanUpNone == {}

\* cleanupVolumes: those made in this run, one call for each.
ToCleanUp == run.made

CleanUp(s) ==
  /\ On(s, "cleanup")
  /\ IF ToCleanUp = {}
     THEN Goto("notify") /\ UNCHANGED <<volumes, left, mishaps>>
     ELSE \E i \in ToCleanUp :
            /\ run' = [run EXCEPT !.made = @ \ {i}]
            /\ \/ volumes' = [volumes EXCEPT ![<<s, i>>] = "none"] /\ UNCHANGED <<left, mishaps>>
               \/ Mishap /\ left' = left \union {<<s, i>>} /\ UNCHANGED volumes
  /\ UNCHANGED <<vms, networks, wanted, instance, cache, told>>

\* A call fails, with or without having done its work. After CreateVM failed
\* the volumes are not cleaned up. Where GetVM fails the InstanceID is known and
\* patched into the status already.
CallFails(s) ==
  /\ Mishap
  /\ \/ /\ run.step \in {"find", "network"} /\ run.server = s
        /\ Goto("notify") /\ UNCHANGED <<vms, volumes, left>>
     \/ /\ On(s, "volumes") /\ run.next <= Disks
        /\ run' = GiveUpVolumes
        /\ \/ UNCHANGED <<volumes, left>>
           \/ /\ volumes[<<s, run.next>>] = "none"
              /\ volumes' = [volumes EXCEPT ![<<s, run.next>>] = "free"]
              /\ left' = left \union {<<s, run.next>>}
        /\ UNCHANGED vms
     \/ /\ On(s, "volumes") /\ run.next > Disks
        /\ Goto("notify")
        /\ \/ left' = left \union ({s} \X run.made) /\ UNCHANGED <<vms, volumes>>
           \/ MakeVM(s) /\ UNCHANGED left
     \/ On(s, "getVM") /\ run' = Resting /\ UNCHANGED <<vms, volumes, left>>
  /\ instance' = IF On(s, "getVM") THEN instance \union {s} ELSE instance
  /\ UNCHANGED <<networks, wanted, cache, told>>

\* updateStatus, and the deferred patch of the status, whose failures are in
\* ServiceController. A VM in ERROR is told of;
\* when the VM is ACTIVE, ClearNotificationCache forgets what was told.
GetVM(s) ==
  /\ On(s, "getVM")
  /\ instance' = instance \union {s}
  /\ IF vms[s] = "error" THEN Goto("notify") ELSE run' = Resting
  /\ cache' = [cache EXCEPT ![s] = IF vms[s] = "active" THEN Never ELSE @]
  /\ UNCHANGED <<platform, wanted, told, left, mishaps>>

\* determineNotificationKey, as the status has it now.
KeyOf(s) == IF s \in instance THEN s ELSE NoServer

\* shouldNotifyForKey.
ShouldNotify(key) == cache[key] > MinInterval

\* Mutant: it is recorded whether or not the event was stored.
RecordedAnyway(key, stored) == [cache EXCEPT ![key] = 0]

\* recordNotification, after the event was stored.
Recorded(key, stored) == IF stored THEN [cache EXCEPT ![key] = 0] ELSE cache

\* NotifyServiceCreationFailure.
Notify(s) ==
  LET key == KeyOf(s)
  IN /\ On(s, "notify")
     /\ \/ /\ ShouldNotify(key)
           /\ \E stored \in BOOLEAN :
                /\ cache' = Recorded(key, stored)
                /\ told' = IF stored THEN [told EXCEPT ![key] = 0] ELSE told
                /\ IF stored THEN UNCHANGED mishaps ELSE Mishap
        \/ ~ShouldNotify(key) /\ UNCHANGED <<cache, told, mishaps>>
     /\ run' = Resting
     /\ UNCHANGED <<platform, wanted, instance, left>>

\* VM.Delete: without an InstanceID there is nothing to delete; DeleteVMWithVolumes
\* takes the attached volumes along.
Delete(s) ==
  /\ run = Resting /\ s \in wanted
  /\ wanted' = wanted \ {s}
  /\ instance' = instance \ {s}
  /\ IF s \in instance
     THEN /\ vms' = [vms EXCEPT ![s] = "none"]
          /\ volumes' = [v \in DOMAIN volumes |->
               IF v[1] = s /\ volumes[v] = "attached" THEN "none" ELSE volumes[v]]
     ELSE UNCHANGED <<vms, volumes>>
  /\ UNCHANGED <<networks, run, cache, told, left, mishaps>>

\* The manager is started again.
Restart ==
  /\ Mishap
  /\ run' = Resting
  /\ cache' = [k \in Key |-> Never]
  /\ left' = left \union {v \in DOMAIN volumes :
       v[1] = run.server /\ v[2] \in run.made /\ volumes[v] = "free"}
  /\ UNCHANGED <<platform, wanted, instance, told>>

\* PowerVS finishes or fails to make a VM; the last address of a network goes.
Build(s, how) ==
  /\ vms[s] = "building"
  /\ vms' = [vms EXCEPT ![s] = how]
  /\ UNCHANGED <<volumes, networks, wanted, instance, run, cache, told, left, mishaps>>

AddressesTaken ==
  /\ networks > 0 /\ networks' = 0
  /\ UNCHANGED <<vms, volumes, wanted, instance, run, cache, told, left, mishaps>>

TimeGoesBy ==
  /\ Age(told) # told
  /\ cache' = Age(cache) /\ told' = Age(told)
  /\ UNCHANGED <<platform, wanted, instance, run, left, mishaps>>

ProvisioningInit ==
  /\ vms = [s \in Server |-> "none"]
  /\ volumes = [v \in Server \X (1 .. Disks) |-> "none"]
  /\ networks = 0
  /\ wanted \in SUBSET Server /\ instance = {}
  /\ run = Resting
  /\ cache = [k \in Key |-> Never] /\ told = [k \in Key |-> Never]
  /\ left = {}
  /\ mishaps = 0

Calls(s) ==
  \/ FindVM(s) \/ UseNetwork(s) \/ CreateVolume(s) \/ CreateVM(s)
  \/ CleanUp(s) \/ GetVM(s) \/ Notify(s)

ProvisioningNext ==
  \/ \E s \in Server :
       Reconcile(s) \/ Calls(s) \/ CallFails(s) \/ Delete(s)
       \/ \E how \in {"active", "error"} : Build(s, how)
  \/ Restart \/ AddressesTaken \/ TimeGoesBy

\* Runs end, and every service has its turn.
ProvisioningFairness ==
  \A s \in Server : WF_provisioningVars(Calls(s)) /\ SF_provisioningVars(Reconcile(s))

ProvisioningSpec ==
  ProvisioningInit /\ [][ProvisioningNext]_provisioningVars /\ ProvisioningFairness

-------------------------------------------------------------------------------
\* The types of the variables.
ProvisioningTypeOK ==
  /\ vms \in [Server -> {"none", "building", "active", "error"}]
  /\ volumes \in [Server \X (1 .. Disks) -> {"none", "free", "attached"}]
  /\ networks \in {0, 1}
  /\ wanted \subseteq Server /\ instance \subseteq Server
  /\ run \in [step : {"rest", "find", "network", "volumes", "cleanup", "getVM", "notify"},
              server : Server \union {NoServer}, made : SUBSET (1 .. Disks),
              next : 1 .. Disks + 1]
  /\ cache \in [Key -> 0 .. Never] /\ told \in [Key -> 0 .. Never]
  /\ left \subseteq Server \X (1 .. Disks)
  /\ mishaps \in 0 .. MaxMishaps

\* A VM has all the volumes its catalog asks for.
VMComplete ==
  \A s \in Server : vms[s] # "none" =>
    \A i \in 1 .. Disks : volumes[<<s, i>>] = "attached"

\* A volume is attached, or in the hands of the run that made it, or its VM
\* could not be made, or the call that made it or was to delete it failed, or
\* the manager died: nothing else leaves one behind.
NoVolumeForgotten ==
  \A v \in DOMAIN volumes : volumes[v] = "free" =>
    v \in left \/ (run.server = v[1] /\ v[2] \in run.made)

\* A failed run goes untold only if an event under the same key was stored less
\* than the interval before, though one of another service without a VM may be
\* meant; or if the event could not be stored.
UntoldNeedsRecent ==
  [][\A s \in Server :
       On(s, "notify") /\ run' = Resting /\ mishaps' = mishaps
       => told'[KeyOf(s)] <= MinInterval]_provisioningVars

\* A service that stays comes to know its VM, however often the controller and
\* its calls failed on the way, unless a volume was left behind: its name stays
\* taken, and every further run fails on it.
KnownUnlessLeft ==
  \A s \in Server :
    s \in wanted ~> s \in instance \/ s \notin wanted \/ \E v \in left : v[1] = s

===============================================================================
