-------------------------------- MODULE MCChat --------------------------------
(***************************************************************************)
(* Chat for TLC. One run goes through several casts, each of them strong   *)
(* where the others are weak: two tabs and an end by an administrator, or  *)
(* an answer, with nothing disturbed; one tab and calls about numbers that *)
(* do not exist; one tab and two replies with a failure or a shutdown; a   *)
(* shutdown with a failure in it; one tab, somebody watching, a failure. A *)
(* cast only bounds who acts, and up to which number administrators call.  *)
(***************************************************************************)
EXTENDS Chat

CONSTANTS s1, m1, r1

VARIABLE cast

Cast(tabs, says, calls, watchers, upto, faulty) ==
  [tabs |-> tabs, says |-> says, calls |-> calls, watchers |-> watchers,
   upto |-> upto, faults |-> faulty]

Casts ==
  {Cast(Session, Message, Ending, {}, 1, 0),
   Cast(Session, {m1}, {r1}, {}, 1, 0),
   Cast({s1}, Message, Ending \union {r1}, {}, 2, 0),
   Cast({s1}, {m1}, Reply, {}, 1, 1),
   Cast({}, {}, Reply, {}, 1, MaxFaults),
   Cast({s1}, Message, {r1}, Watcher, 1, 1)}

Within ==
  /\ \A s \in Session \ cast.tabs : session[s] = Off
  /\ \A s \in Session : session[s].msg \in cast.says \union {NoMessage}
  /\ \A a \in Reply \union Ending :
       call[a] # NoCall => a \in cast.calls /\ call[a].conv <= cast.upto
  /\ \A w \in Watcher :
       watch[w] # Nothing => w \in cast.watchers /\ watch[w] <= cast.upto
  /\ faults <= cast.faults

MCInit == Init /\ cast \in Casts
MCNext == Next /\ UNCHANGED cast /\ Within'
MCVars == <<chatVars, cast>>
MCSpec == MCInit /\ [][MCNext]_MCVars /\ Fairness

===============================================================================
