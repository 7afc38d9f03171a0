------------------------------ MODULE MCAdmission ------------------------------
(***************************************************************************)
(* Admission for TLC. One run goes through several casts: two handlers at  *)
(* once on a catalog that stays and the quota of one group; one handler,   *)
(* the quotas of several groups and a membership that changes; a catalog   *)
(* that is retired and deleted under two services. A cast only bounds who  *)
(* acts and what there is to act upon.                                     *)
(***************************************************************************)
EXTENDS Admission

CONSTANTS c1, s1, g1, t1

VARIABLE cast

Of(cpu, memory) == [cpu |-> cpu, memory |-> memory]
Every == {"none", "new", "created", "expired", "gone"}

Cast(threads, size, service, states, group, quota, goes) ==
  [threads |-> threads, size |-> size, service |-> service, states |-> states,
   group |-> group, quota |-> quota, goes |-> goes]

Casts ==
  {Cast(Thread, {Of(1, 1), Of(-1, 1)}, Service, {"none", "new"}, {g1}, {Of(1, 1), Of(2, 2)}, FALSE),
   Cast({t1}, {Of(1, 1), Of(0, 1), Of(-1, 1)}, {s1}, Every, Group, {Of(1, 2), Of(2, 1), Of(2, 2)}, FALSE),
   Cast({t1}, {Of(1, 1)}, Service, Every, {g1}, {Of(2, 2)}, TRUE)}

\* Where catalogs do not go, they are ready before anything else happens; where
\* they do, the user has a group and a quota before there are any.
Within ==
  /\ \A t \in Thread \ cast.threads : At(t, "ready")
  /\ \A c \in Catalog :
       /\ Exists(c) => catalogs[c].size \in cast.size
       /\ ~cast.goes => /\ ~catalogs[c].deleting /\ ~catalogs[c].retired
                        /\ catalogs[c].state # "gone"
                        /\ catalogs[c].ready => look[c] = Idle
  /\ \A s \in Service :
       /\ services[s].state \in cast.states
       /\ services[s].state # "none" => s \in cast.service
  /\ member \subseteq cast.group
  /\ \A g \in Group : \A i \in DOMAIN quotas[g] :
       g \in cast.group /\ quotas[g][i] \in cast.quota
  /\ cast.goes \/ catalogs[c1].ready
     \/ (member = {} /\ \A t \in Thread : At(t, "ready"))
  /\ cast.goes => (member = {g1} /\ quotas[g1] # <<>>) \/ catalogs = [c \in Catalog |-> NoneYet]

MCInit == Init /\ cast \in Casts
MCNext == Next /\ UNCHANGED cast /\ Within'
MCSpec == MCInit /\ [][MCNext]_<<admissionVars, cast>> /\ Fairness

===============================================================================
