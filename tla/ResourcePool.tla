---------------------------- MODULE ResourcePool ----------------------------
(***************************************************************************)
(* What a pool promises, without limits, counters or timers: a resource    *)
(* that is taken is nobody else's until it is given back, and one that     *)
(* left the pool for good is never handed out again, whoever cleans up,    *)
(* replenishes or shuts down meanwhile.                                    *)
(*                                                                         *)
(* NebulaConnectionManager and LSPClientPool implement this module         *)
(* (ImplementsPool there).                                                 *)
(***************************************************************************)
CONSTANTS
    Users,          \* the calls that take a resource, each at most once at a time
    Resources,      \* what may be in the pool
    NoResource      \* of no user

VARIABLES
    free,       \* what can be taken
    held,       \* what each user has taken
    made        \* what was ever created

poolVars == <<free, held, made>>

PoolInit ==
    /\ free = {} /\ made = {}
    /\ held = [u \in Users |-> NoResource]

\* A resource that never was there before is offered to all, is taken by the
\* user it was made for, or never gets into the pool.
Make(r) ==
    /\ r \notin made
    /\ made' = made \cup {r}
    /\ \/ free' = free \cup {r} /\ UNCHANGED held
       \/ \E u \in Users : /\ held[u] = NoResource
                           /\ held' = [held EXCEPT ![u] = r]
                           /\ UNCHANGED free
       \/ UNCHANGED <<free, held>>

Take(u, r) ==
    /\ held[u] = NoResource /\ r \in free
    /\ free' = free \ {r}
    /\ held' = [held EXCEPT ![u] = r]
    /\ UNCHANGED made

\* What a user gives back can be taken again, or is gone.
GiveBack(u) ==
    /\ held[u] # NoResource
    /\ free' \in {free, free \cup {held[u]}}
    /\ held' = [held EXCEPT ![u] = NoResource]
    /\ UNCHANGED made

\* Only what nobody holds leaves the pool, and it does for good.
Retire ==
    /\ free' \subseteq free
    /\ UNCHANGED <<held, made>>

PoolNext ==
    \/ \E r \in Resources : Make(r) \/ \E u \in Users : Take(u, r)
    \/ \E u \in Users : GiveBack(u)
    \/ Retire

PoolSpec == PoolInit /\ [][PoolNext]_poolVars
=============================================================================
