-------------------------- MODULE MCServiceLifecycle --------------------------
\* TLC instances of ServiceLifecycle; the values are in the .cfg files.
EXTENDS ServiceLifecycle, TLC

\* Instance ids, request ids and handlers are interchangeable (safety only).
Symmetry == Permutations(VM) \union Permutations(Request) \union Permutations(Thread)

\* The behaviours in which the controller does nothing.
QuietNext ==
  \/ HandlersAct
  \/ /\ \/ Tick
        \/ \E e \in Time : e >= now /\ CreateService(e)
        \/ DeleteService
     /\ UNCHANGED requestVars

QuietSpec == LifecycleInit /\ [][QuietNext]_lifecycleVars

===============================================================================
