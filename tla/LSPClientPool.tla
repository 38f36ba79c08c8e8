--------------------------- MODULE LSPClientPool ---------------------------
(***************************************************************************)
(* The pool of language servers of src/services/lsp/LSPClientPool.ts, the  *)
(* clients it hands out (LSPClient.ts) and the calls of LSPManager.ts that *)
(* use it: initialize preloads, every get operation acquires a client,     *)
(* sends one request and releases the client in its finally block, the     *)
(* timers of released clients close what is idle, shutdown closes all.     *)
(*                                                                         *)
(* One action is the code between two awaits.  A client is named after the *)
(* call that created it and the round of its loop.                         *)
(***************************************************************************)
EXTENDS Integers, FiniteSets

CONSTANTS
    Users,              \* the calls of getSymbols, getDiagnostics and their like
    Preloads,           \* the calls of initialize
    Shutdowns,          \* the calls of shutdown
    Root,               \* the workspace each operation and initialize is about
    MaxConnections,
    InitialConnections

Callers == Users \cup Preloads
Procs == Callers \cup Shutdowns

ASSUME ProcsAssumption ==
    /\ IsFiniteSet(Callers)
    /\ Users \cap Preloads = {} /\ Callers \cap Shutdowns = {}
ASSUME SizeAssumption == MaxConnections \in Nat /\ InitialConnections \in Nat \ {0}

Clients == (Users \X {1}) \cup (Preloads \X (1..InitialConnections))

VARIABLES
    isInitialized,      \* of the manager
    clients,            \* the clients in the map of the pool
    active,             \* those of them with isActive
    activeConnections,
    timers,             \* how many timers of scheduleCleanup are running
    stage,              \* each client: "none", "starting" until initialize is answered,
                        \* "open", "closing" while its shutdown awaits, "closed"
    pending,            \* the calls whose request is in pendingRequests of their client
    pc,                 \* where each call stands
    client,             \* the client a get operation uses
    round,              \* i of the loop of preload
    listed,             \* the clients whose shutdown a shutdown of the pool awaits
    preloaded,          \* history: the clients that preload acquired
    forgotten,          \* history: what a shutdown dropped from the map without closing it
    eased               \* history: an acquire went past the limit, or beside another creation

poolVars == <<clients, active, activeConnections>>
procVars == <<client, round, listed>>
histVars == <<preloaded, forgotten, eased>>
vars == <<isInitialized, poolVars, timers, stage, pending, pc, procVars, histVars>>

None == <<>>
InUse == {u \in Users : pc[u] \in {"request", "settled"}}
Creating == {a \in Callers : pc[a] = "creating"}
Idle == clients \ active
Of(w) == {c \in clients : Root[c[1]] = w}

TypeOK ==
    /\ isInitialized \in BOOLEAN /\ eased \in BOOLEAN
    /\ active \subseteq clients /\ clients \subseteq Clients
    /\ activeConnections \in Int /\ timers \in Nat
    /\ stage \in [Clients -> {"none", "starting", "open", "closing", "closed"}]
    /\ pending \subseteq Users
    /\ pc \in [Procs -> {"idle", "creating", "request", "settled", "loading", "closing", "done"}]
    /\ client \in [Users -> Clients \cup {None}]
    /\ round \in [Preloads -> Nat]
    /\ listed \in [Shutdowns -> SUBSET Clients]
    /\ preloaded \subseteq Clients /\ forgotten \subseteq Clients

Init ==
    /\ isInitialized = FALSE
    /\ clients = {} /\ active = {} /\ activeConnections = 0 /\ timers = 0
    /\ stage = [c \in Clients |-> "none"]
    /\ pending = {}
    /\ pc = [p \in Procs |-> "idle"]
    /\ client = [u \in Users |-> None]
    /\ round = [p \in Preloads |-> 0]
    /\ listed = [d \in Shutdowns |-> {}]
    /\ preloaded = {} /\ forgotten = {} /\ eased = FALSE

Goto(p, label) == pc' = [pc EXCEPT ![p] = label]

-----------------------------------------------------------------------------
(* acquire *)

\* Fault: an idle client is handed out without isActive.
ReuseInactive(a, c) ==
    /\ c \in Idle \cap Of(Root[a])
    /\ UNCHANGED <<poolVars, timers, eased>>

\* An idle client of the workspace, whether its server still runs or not.
Reuse(a, c) ==
    /\ c \in Idle \cap Of(Root[a])
    /\ active' = active \cup {c}
    /\ UNCHANGED <<clients, activeConnections, timers, eased>>

\* Fault: the limit is off by one.
CreateAtLimit(a, c) ==
    /\ Idle \cap Of(Root[a]) = {}
    /\ activeConnections <= MaxConnections /\ UNCHANGED timers
    /\ eased' = (eased \/ Creating # {})
    /\ stage' = [stage EXCEPT ![c] = "starting"]
    /\ Goto(a, "creating")

\* Below the limit, or above it with an idle client to recycle: that is
\* released once more, which frees nothing, and the new one is created.
Create(a, c) ==
    /\ Idle \cap Of(Root[a]) = {}
    /\ \/ activeConnections < MaxConnections /\ UNCHANGED timers
       \/ activeConnections >= MaxConnections /\ Idle # {} /\ timers' = timers + 1
    /\ eased' = (eased \/ activeConnections >= MaxConnections \/ Creating # {})
    /\ stage' = [stage EXCEPT ![c] = "starting"]
    /\ Goto(a, "creating")

\* 'Maximum connections reached': nothing is idle, or only what was released
\* within this millisecond.
Refused(a) ==
    /\ Idle \cap Of(Root[a]) = {}
    /\ activeConnections >= MaxConnections

\* initialize of the client was answered: the pool counts and holds it.
Opened(c) ==
    /\ stage' = [stage EXCEPT ![c] = "open"]
    /\ clients' = clients \cup {c} /\ active' = active \cup {c}
    /\ activeConnections' = activeConnections + 1

-----------------------------------------------------------------------------
(* A get operation of LSPManager: acquire, one request, release *)

\* sendRequest throws when the server is gone.
Ask(u, c) ==
    /\ client' = [client EXCEPT ![u] = c]
    /\ \/ stage[c] # "closed" /\ pending' = pending \cup {u} /\ Goto(u, "request")
       \/ stage[c] = "closed" /\ UNCHANGED pending /\ Goto(u, "settled")

GetWithIdle(u) ==
    /\ pc[u] = "idle" /\ isInitialized
    /\ \E c \in Clients : Reuse(u, c) /\ Ask(u, c)
    /\ UNCHANGED <<isInitialized, stage, round, listed, preloaded, forgotten>>

GetWithNew(u) ==
    /\ pc[u] = "idle" /\ isInitialized
    /\ Create(u, <<u, 1>>)
    /\ UNCHANGED <<isInitialized, poolVars, pending, procVars, preloaded, forgotten>>

GetRefused(u) ==
    /\ pc[u] = "idle" /\ isInitialized /\ Refused(u)
    /\ Goto(u, "done")
    /\ UNCHANGED <<isInitialized, poolVars, timers, stage, pending, procVars, histVars>>

Created(u) ==
    /\ pc[u] = "creating"
    /\ Opened(<<u, 1>>)
    /\ client' = [client EXCEPT ![u] = <<u, 1>>]
    /\ pending' = pending \cup {u}
    /\ Goto(u, "request")
    /\ UNCHANGED <<isInitialized, timers, round, listed, histVars>>

\* No language server is configured, it does not start, it exits, or initialize
\* fails or times out: what was started is killed.
CreateFails(u) ==
    /\ pc[u] = "creating"
    /\ stage' = [stage EXCEPT ![<<u, 1>>] = "closed"]
    /\ Goto(u, "done")
    /\ UNCHANGED <<isInitialized, poolVars, timers, pending, procVars, histVars>>

\* An answer, an error or the timeout, whichever comes first.
Settle(u) ==
    /\ pc[u] = "request" /\ u \in pending
    /\ pending' = pending \ {u}
    /\ Goto(u, "settled")
    /\ UNCHANGED <<isInitialized, poolVars, timers, stage, procVars, histVars>>

\* release in the finally block; a client that the pool no longer holds is ignored.
Release(u) ==
    /\ pc[u] = "settled"
    /\ \/ client[u] \in clients /\ active' = active \ {client[u]} /\ timers' = timers + 1
       \/ client[u] \notin clients /\ UNCHANGED <<active, timers>>
    /\ Goto(u, "done")
    /\ UNCHANGED <<isInitialized, clients, activeConnections, stage, pending, procVars, histVars>>

-----------------------------------------------------------------------------
(* The end of a language server *)

Asking(c) == {u \in pending : client[u] = c}

\* Fault: the pending requests are dropped with their timers and never settle.
DropPending(c) ==
    /\ stage' = [stage EXCEPT ![c] = "closed"]
    /\ pending' = pending \ Asking(c)
    /\ UNCHANGED pc

\* cleanup of the client: 'Connection closed' for all that is pending.
Cleanup(c) ==
    /\ stage' = [stage EXCEPT ![c] = "closed"]
    /\ pending' = pending \ Asking(c)
    /\ pc' = [p \in Procs |-> IF p \in Asking(c) THEN "settled" ELSE pc[p]]

\* The process exits; the pool is not told.
Exit(c) ==
    /\ stage[c] = "open"
    /\ Cleanup(c)
    /\ UNCHANGED <<isInitialized, poolVars, timers, procVars, histVars>>

\* shutdown of the client: answered, refused, timed out, or the process exited.
Closed(c) ==
    /\ stage[c] = "closing"
    /\ Cleanup(c)
    /\ UNCHANGED <<isInitialized, poolVars, timers, procVars, histVars>>

\* shutdown is called for the clients in S; for one that is closed it is over at once.
Close(S) == stage' = [c \in Clients |-> IF c \in S /\ stage[c] = "open" THEN "closing" ELSE stage[c]]

-----------------------------------------------------------------------------
(* cleanupIdleConnections, preload and shutdown of the pool *)

\* Fault: what is idle is closed and removed, but still counted.
CleanupUncounted ==
    /\ timers > 0 /\ timers' = timers - 1
    /\ \E S \in SUBSET Idle : clients' = clients \ S /\ Close(S)
    /\ UNCHANGED <<isInitialized, active, activeConnections, pending, pc, procVars, histVars>>

\* A timer fires: it closes the clients that are idle for more than idleTimeout,
\* which may be any of the idle ones.
CleanupIdle ==
    /\ timers > 0 /\ timers' = timers - 1
    /\ \E S \in SUBSET Idle :
          /\ clients' = clients \ S
          /\ activeConnections' = activeConnections - Cardinality(S)
          /\ Close(S)
    /\ UNCHANGED <<isInitialized, active, pending, pc, procVars, histVars>>

\* The rounds that preload has behind it: it starts with what the workspace has.
Done(p) == IF pc[p] = "idle" THEN Cardinality(Of(Root[p])) ELSE round[p]

Loading(p) == pc[p] \in {"idle", "loading"} /\ Done(p) < InitialConnections

\* acquire hands out an idle client: it stays active.
PreloadIdle(p) ==
    /\ Loading(p)
    /\ \E c \in Clients : Reuse(p, c) /\ preloaded' = preloaded \cup {c}
    /\ round' = [round EXCEPT ![p] = Done(p) + 1]
    /\ Goto(p, "loading")
    /\ UNCHANGED <<isInitialized, stage, pending, client, listed, forgotten>>

PreloadNew(p) ==
    /\ Loading(p)
    /\ Create(p, <<p, Done(p) + 1>>)
    /\ round' = [round EXCEPT ![p] = Done(p)]
    /\ UNCHANGED <<isInitialized, poolVars, pending, client, listed, preloaded, forgotten>>

Preloaded(p) ==
    /\ pc[p] = "creating"
    /\ Opened(<<p, round[p] + 1>>)
    /\ preloaded' = preloaded \cup {<<p, round[p] + 1>>}
    /\ round' = [round EXCEPT ![p] = @ + 1]
    /\ Goto(p, "loading")
    /\ UNCHANGED <<isInitialized, timers, pending, client, listed, forgotten, eased>>

\* The 'error' event has no listener, so emit throws and initialize rejects.
PreloadFails(p) ==
    /\ \/ Loading(p) /\ Refused(p) /\ UNCHANGED stage
       \/ pc[p] = "creating" /\ stage' = [stage EXCEPT ![<<p, round[p] + 1>>] = "closed"]
    /\ Goto(p, "done")
    /\ UNCHANGED <<isInitialized, poolVars, timers, pending, procVars, histVars>>

Initialized(p) ==
    /\ pc[p] \in {"idle", "loading"} /\ Done(p) >= InitialConnections
    /\ isInitialized' = TRUE
    /\ Goto(p, "done")
    /\ UNCHANGED <<poolVars, timers, stage, pending, procVars, histVars>>

Shutdown(d) ==
    /\ pc[d] = "idle" /\ isInitialized
    /\ listed' = [listed EXCEPT ![d] = clients]
    /\ Close(clients)
    /\ Goto(d, "closing")
    /\ UNCHANGED <<isInitialized, poolVars, timers, pending, client, round, histVars>>

\* All listed clients are closed; the map is cleared with what joined it meanwhile.
ShutdownEnds(d) ==
    /\ pc[d] = "closing"
    /\ \A c \in listed[d] : stage[c] # "closing"
    /\ forgotten' = forgotten \cup (clients \ listed[d])
    /\ clients' = {} /\ active' = {} /\ activeConnections' = 0
    /\ isInitialized' = FALSE
    /\ Goto(d, "done")
    /\ UNCHANGED <<timers, stage, pending, procVars, preloaded, eased>>

-----------------------------------------------------------------------------
Getting(u) ==
    GetWithIdle(u) \/ GetWithNew(u) \/ GetRefused(u) \/ Created(u) \/ CreateFails(u) \/ Settle(u) \/ Release(u)

Preloading(p) ==
    PreloadIdle(p) \/ PreloadNew(p) \/ Preloaded(p) \/ PreloadFails(p) \/ Initialized(p)

Next ==
    \/ \E u \in Users : Getting(u)
    \/ \E p \in Preloads : Preloading(p)
    \/ \E d \in Shutdowns : Shutdown(d) \/ ShutdownEnds(d)
    \/ \E c \in Clients : Exit(c) \/ Closed(c)
    \/ CleanupIdle

Spec == Init /\ [][Next]_vars

\* Every request of a client has a timeout, its shutdown and its initialize
\* included, and queued continuations run.  Nobody has to call, no server to exit.
Fairness ==
    /\ \A u \in Users : WF_vars(Created(u) \/ CreateFails(u) \/ Settle(u) \/ Release(u))
    /\ \A p \in Preloads : WF_vars(pc[p] # "idle" /\ Preloading(p))
    /\ \A d \in Shutdowns : WF_vars(ShutdownEnds(d))
    /\ \A c \in Clients : WF_vars(Closed(c))

FairSpec == Spec /\ Fairness

-----------------------------------------------------------------------------
(* What must be true. *)

\* acquire never hands out a client that another operation uses or a preload
\* keeps, and no cleanup removes a client that is in use: only a shutdown does.
SoleUse ==
    /\ \A u, v \in InUse : client[u] = client[v] => u = v
    /\ \A u \in InUse : client[u] \in clients => client[u] \in active \ preloaded

\* activeConnections counts the clients of the pool; one that is taken has an
\* operation that will release it or was preloaded; and no server runs that the
\* pool has lost track of, but those that a shutdown cleared from the map while
\* it awaited others: failures, exits and cleanups leak nothing.
Accounted ==
    /\ activeConnections = Cardinality(clients)
    /\ active \subseteq {client[u] : u \in InUse} \cup preloaded
    /\ \A c \in Clients : stage[c] = "open" => c \in clients \cup forgotten

\* The limit is kept, with what is being created, until an acquire recycles at
\* the limit or two creations overlap.
LimitUntilEased == ~eased => activeConnections + Cardinality(Creating) <= MaxConnections

\* Every operation, initialize and shutdown returns, whatever the servers do:
\* no request is left without an answer, an error or a timer.
EveryCallReturns == \A p \in Procs : pc[p] \notin {"idle", "done"} ~> pc[p] = "done"

-----------------------------------------------------------------------------
(* What the clients promise to the get operations. *)

PoolHeld == [u \in Users |-> IF u \in InUse THEN client[u] ELSE None]
PoolMade == {c \in Clients : stage[c] \notin {"none", "starting"}}

P == INSTANCE ResourcePool WITH
        Resources <- Clients, NoResource <- None,
        free <- Idle, held <- PoolHeld, made <- PoolMade

\* acquire and release keep the promise of a pool: a client in use is nobody
\* else's, and one that a preload kept, or that a cleanup or a shutdown took out
\* of the map, is never handed out again, although operations still release it.
ImplementsPool == P!PoolSpec
=============================================================================
