------------------------------ MODULE MCAccounts ------------------------------
(***************************************************************************)
(* Accounts for TLC. One run goes through several casts: two administrators *)
(* at work on the groups of a user; the account of a user, and of an       *)
(* administrator, deleted while its owner goes on; two forms of one user   *)
(* at once. A cast only bounds who acts and what there is to act upon.     *)
(***************************************************************************)
EXTENDS Accounts, TLC

CONSTANTS u1, a1, g1, r1

VARIABLE cast

Moves == ApprovalSteps \union ChangeSteps \union {"insertRequest", "reject", "mark"}
Deletion == {"dropServices", "dropKeys", "removeUser", "dropTerms", "mark"}

Cast(for, steps, key, group, request) ==
  [for |-> {for, Nobody}, steps |-> steps \union {"ready"}, key |-> key,
   group |-> group, request |-> request]

Casts ==
  {Cast(u1, Moves, {}, Group, Request),
   Cast(u1, Deletion \union {"insertKey", "createService"}, Key, {g1}, {r1}),
   Cast(u1, Deletion \union {"accept"}, {}, {g1}, {r1}),
   Cast(a1, Deletion \union {"insertKey"}, Key, {g1}, {r1}),
   Cast(Nobody, {"insertKey", "insertRequest"}, Key, Group, Request)}

\* Others than u1 only make keys and decide.
Within ==
  /\ \A t \in Thread :
       /\ http[t].step \in cast.steps /\ http[t].for \in cast.for
       /\ http[t].step \in {"createService", "insertRequest", "accept"} => http[t].by = u1
  /\ \A u \in User : member[u] \subseteq IF u = u1 THEN cast.group ELSE {g1}
  /\ \A k \in Key : keys[k].state = "live" => k \in cast.key
  /\ \A r \in Request : requests[r].state = "NEW" => r \in cast.request

MCInit == Init /\ cast \in Casts /\ Within
MCNext == Next /\ UNCHANGED cast /\ Within'
MCSpec == MCInit /\ [][MCNext]_<<accountVars, cast>>

Symmetry == Permutations(Thread) \union Permutations(Key)

===============================================================================
