--------------------------- MODULE ProjectIsolation ---------------------------
(***************************************************************************)
(* Which collection and which space the calls of StorageCoordinator.ts     *)
(* reach.  Every project has its own, but the services that know of them   *)
(* are shared: VectorStorageService.ts keeps one current collection, and   *)
(* GraphPersistenceService.ts sends one USE statement, which reaches one   *)
(* session of the pool of NebulaConnectionManager.ts.                      *)
(*                                                                         *)
(* One action is the code between two awaits that wait for a database, the *)
(* embedder or a timer.  A query that follows another one at once gets the *)
(* connection the other gave back, for the pool is a stack: such queries   *)
(* are one hold of the connection.                                         *)
(***************************************************************************)
EXTENDS Naturals, Sequences, FiniteSets, SequencesExt

CONSTANTS
    Stores, Searches,   \* the calls of store and of searchVectors
    Projects, Project,  \* the projects, and that of each call
    Default,            \* the configured collection
    None,               \* no collection, the configured space, nobody
    Connections,        \* as many as maxPoolSize allows
    MinPoolSize

Calls == Stores \cup Searches

ASSUME ProjectAssumption ==
    /\ Project \in [Calls -> Projects] /\ Default \notin Projects /\ None \notin Projects \cup {Default} \cup Calls
    /\ Stores \cap Searches = {}
    /\ IsFiniteSet(Connections) /\ MinPoolSize \in 0..Cardinality(Connections) /\ None \notin Connections

Collections == Projects \cup {Default}
Spaces == Projects \cup {None}

VARIABLES
    isInitialized,      \* of the vector storage
    collection,         \* currentCollection
    projectResources,   \* the projects that have been prepared
    pool,               \* connectionPool, the last one on top
    session,            \* the space each connection uses
    current,            \* the call that has the current transaction
    pc, goal, round,    \* where each call stands, the collection it initialises, the write it is at
    conn, late,         \* the connection it uses; connections of writes that timed out
    points, nodes,      \* the collections, the spaces each call has sent requests to
    settled,            \* history: the project whose USE the next query finds, if alone
    crossed, unsettled  \* history: calls during which another collection was
                        \* initialised; calls that wrote to a space not settled.
                        \* These four are forgotten when the call returns

vectorVars == <<isInitialized, collection, goal, crossed>>
graphVars == <<pool, session, conn, late, nodes, settled, unsettled>>
callVars == <<projectResources, current, pc, round>>
vars == <<vectorVars, graphVars, callVars, points>>

\* The steps a call takes without waiting, and those at which it waits.
Running == {"initialize", "space", "begin", "check", "read", "graph", "return"}
Steps == Running \cup {"idle", "connect", "collection", "wait", "use",
                       "embed", "write", "close", "done"}

TypeOK ==
    /\ isInitialized \in BOOLEAN /\ collection \in Collections \cup {None}
    /\ projectResources \subseteq Projects
    /\ pool \in Seq(Connections) /\ session \in [Connections -> Spaces]
    /\ current \in Stores \cup {None}
    /\ pc \in [Calls -> Steps] /\ goal \in [Calls -> Collections] /\ round \in [Calls -> 1..2]
    /\ conn \in [Calls -> Connections \cup {None}] /\ late \subseteq Connections
    /\ points \in [Calls -> SUBSET (Collections \cup {None})] /\ nodes \in [Calls -> SUBSET Spaces]
    /\ settled \in Spaces /\ crossed \subseteq Calls /\ unsettled \subseteq Calls

\* After main.ts, which ignores that the vector storage could not be initialised.
Init ==
    /\ \/ isInitialized = TRUE /\ collection = Default
       \/ isInitialized = FALSE /\ collection \in {Default, None}
    /\ projectResources = {}
    /\ pool \in [1..MinPoolSize -> Connections] /\ IsInjective(pool)
    /\ session = [k \in Connections |-> None]
    /\ current = None
    /\ pc = [c \in Calls |-> "idle"] /\ goal = [c \in Calls |-> Project[c]] /\ round = [c \in Calls |-> 1]
    /\ conn = [c \in Calls |-> None] /\ late = {}
    /\ points = [c \in Calls |-> {}] /\ nodes = [c \in Calls |-> {}]
    /\ settled = None /\ crossed = {} /\ unsettled = {}

-----------------------------------------------------------------------------
Underway == {c \in Calls : pc[c] \notin {"idle", "done"}}

\* A call that waits goes on when no other one runs.
At(c, step) == pc[c] = step /\ \A d \in Calls \ {c} : pc[d] \notin Running

Goto(c, step) == pc' = [pc EXCEPT ![c] = step]

\* store and searchVectors: a project that was prepared once is not prepared again.
Start(c) ==
    /\ At(c, "idle")
    /\ IF Project[c] \in projectResources
       THEN /\ Goto(c, IF c \in Stores THEN "begin" ELSE "embed")
            /\ crossed' = IF collection # Project[c] THEN crossed \cup {c} ELSE crossed
       ELSE Goto(c, "initialize") /\ UNCHANGED crossed
    /\ UNCHANGED <<isInitialized, collection, goal, graphVars, projectResources, current, round, points>>

-----------------------------------------------------------------------------
(* VectorStorageService.initialize *)

\* What follows, though the answer may be false.
Initialized(c) == Goto(c, IF goal[c] # Default THEN "space" ELSE IF c \in Stores THEN "embed" ELSE "read")

\* Whatever other project a call is about, it is with this collection now.
Assign(c) ==
    /\ collection' = goal[c]
    /\ crossed' = crossed \cup {d \in Underway : Project[d] # goal[c]}
    /\ Goto(c, "collection")

\* Fault: a storage that is initialised is left as it is.
InitializeOnce(c) ==
    /\ At(c, "initialize")
    /\ IF isInitialized THEN Initialized(c) /\ UNCHANGED <<collection, crossed>>
       ELSE Assign(c)
    /\ UNCHANGED <<isInitialized, goal, graphVars, projectResources, current, round, points>>

\* The client may have to connect first.
Initialize(c) ==
    /\ At(c, "initialize")
    /\ \/ /\ isInitialized /\ collection = goal[c]
          /\ Initialized(c) /\ UNCHANGED <<collection, crossed>>
       \/ /\ ~(isInitialized /\ collection = goal[c])
          /\ \/ Assign(c)
             \/ Goto(c, "connect") /\ UNCHANGED <<collection, crossed>>
    /\ UNCHANGED <<isInitialized, goal, graphVars, projectResources, current, round, points>>

Connected(c) ==
    /\ At(c, "connect")
    /\ Assign(c)
    /\ UNCHANGED <<isInitialized, goal, graphVars, projectResources, current, round, points>>

NotConnected(c) ==
    /\ At(c, "connect")
    /\ Initialized(c)
    /\ crossed' = crossed \cup {c}
    /\ UNCHANGED <<isInitialized, collection, goal, graphVars, projectResources, current, round, points>>

\* The collection is there or created; or one of the requests failed.
CollectionReady(c) ==
    /\ At(c, "collection")
    /\ isInitialized' \in {isInitialized, TRUE}
    /\ Initialized(c)
    /\ UNCHANGED <<collection, goal, crossed, graphVars, projectResources, current, round, points>>

\* storeChunks, and searchVectors after the query is embedded: a storage that is
\* not initialised is given the configured collection.
Check(c) ==
    /\ At(c, "check")
    /\ \/ /\ isInitialized
          /\ Goto(c, IF c \in Stores THEN "embed" ELSE "read") /\ UNCHANGED goal
       \/ /\ ~isInitialized
          /\ Goto(c, "initialize") /\ goal' = [goal EXCEPT ![c] = Default]
    /\ UNCHANGED <<isInitialized, collection, crossed, graphVars, projectResources, current, round, points>>

-----------------------------------------------------------------------------
(* The connection pool, and GraphPersistenceService.initializeProjectSpace *)

InUse == ({conn[c] : c \in Calls} \ {None}) \cup late
Closed == Connections \ (InUse \cup ToSet(pool))
Exhausted == pool = <<>> /\ Closed = {}

\* Fault: the connection that has been idle for longest.
AcquireOldest(c) ==
    /\ \/ /\ pool # <<>>
          /\ conn' = [conn EXCEPT ![c] = Head(pool)] /\ pool' = Tail(pool)
       \/ /\ pool = <<>> /\ UNCHANGED pool
          /\ \E k \in Closed : conn' = [conn EXCEPT ![c] = k]
    /\ settled' = IF InUse = {} /\ pool # <<>> THEN settled ELSE None

\* getConnection: the one given back last, or a new one.
Acquire(c) ==
    /\ \/ /\ pool # <<>>
          /\ conn' = [conn EXCEPT ![c] = Last(pool)] /\ pool' = Front(pool)
       \/ /\ pool = <<>> /\ UNCHANGED pool
          /\ \E k \in Closed : conn' = [conn EXCEPT ![c] = k]
    /\ settled' = IF InUse = {} /\ pool # <<>> THEN settled ELSE None

Release(c) == pool' = Append(pool, conn[c]) /\ conn' = [conn EXCEPT ![c] = None]

\* The queries of initializeProjectSpace; without a connection they fail, and
\* the project counts as prepared all the same.
PrepareSpace(c) ==
    /\ At(c, "space") \/ At(c, "wait")
    /\ \/ Acquire(c) /\ Goto(c, "use")
       \/ Exhausted /\ Goto(c, "begin") /\ UNCHANGED <<pool, conn, settled>>
    /\ UNCHANGED <<vectorVars, session, late, nodes, unsettled, projectResources, current, round, points>>

\* waitForSpaceReady: a space that was created is looked for again.
WaitForSpace(c) ==
    /\ At(c, "use")
    /\ Release(c) /\ Goto(c, "wait")
    /\ UNCHANGED <<vectorVars, session, late, nodes, settled, unsettled, projectResources, current, round, points>>

\* USE reaches the session of one connection, or fails.
Used(c) ==
    /\ At(c, "use")
    /\ \/ /\ session' = [session EXCEPT ![conn[c]] = Project[c]]
          /\ settled' = IF InUse = {conn[c]} THEN Project[c] ELSE None
       \/ UNCHANGED <<session, settled>>
    /\ Release(c) /\ Goto(c, "begin")
    /\ UNCHANGED <<vectorVars, late, nodes, unsettled, projectResources, current, round, points>>

\* The health check closes a connection that is idle and may open another one.
HealthCheck ==
    /\ \A d \in Calls : pc[d] \notin Running
    /\ \E i \in DOMAIN pool :
           /\ pool' \in {RemoveAt(pool, i), Append(RemoveAt(pool, i), pool[i])}
           /\ session' = [session EXCEPT ![pool[i]] = None]
    /\ settled' = None
    /\ UNCHANGED <<vectorVars, conn, late, nodes, unsettled, callVars, points>>

-----------------------------------------------------------------------------
(* store and searchVectors *)

\* The project counts as prepared, whatever failed; a store begins the
\* transaction, unless another one is in progress.
Begin(c) ==
    /\ At(c, "begin")
    /\ projectResources' = projectResources \cup {Project[c]}
    /\ \/ c \in Searches /\ Goto(c, "embed") /\ UNCHANGED current
       \/ c \in Stores /\ current = None /\ current' = c /\ Goto(c, "check")
       \/ c \in Stores /\ current # None /\ Goto(c, "return") /\ UNCHANGED current
    /\ UNCHANGED <<vectorVars, graphVars, round, points>>

\* The query is embedded, or not.
QueryEmbedded(c) ==
    /\ At(c, "embed") /\ c \in Searches
    /\ Goto(c, "check") \/ Goto(c, "return")
    /\ UNCHANGED <<vectorVars, graphVars, projectResources, current, round, points>>

Read(c) ==
    /\ At(c, "read")
    /\ points' = [points EXCEPT ![c] = @ \cup {collection}]
    /\ Goto(c, "return")
    /\ UNCHANGED <<vectorVars, graphVars, projectResources, current, round>>

\* storeChunks reads the collection once the chunks are embedded, if any could
\* be.  The first time a failure is ignored, the second time it is a step of the
\* transaction that fails.
ChunksEmbedded(c) ==
    /\ At(c, "embed") /\ c \in Stores
    /\ points' \in {points, [points EXCEPT ![c] = @ \cup {collection}]}
    /\ Goto(c, "graph") \/ (round[c] = 2 /\ Goto(c, "return"))
    /\ UNCHANGED <<vectorVars, graphVars, projectResources, current, round>>

\* The queries of the chunks go through one connection.
GraphWrite(c) ==
    /\ At(c, "graph")
    /\ \/ /\ Acquire(c) /\ Goto(c, "write")
          /\ nodes' = [nodes EXCEPT ![c] = @ \cup {session[conn'[c]]}]
          /\ unsettled' = IF settled' # Project[c] THEN unsettled \cup {c} ELSE unsettled
          /\ UNCHANGED <<current, round>>
       \/ /\ Exhausted
          /\ IF round[c] = 1 THEN round' = [round EXCEPT ![c] = 2] /\ Goto(c, "check")
             ELSE Goto(c, "close") /\ UNCHANGED round
          /\ UNCHANGED <<pool, conn, settled, nodes, unsettled, current>>
    /\ UNCHANGED <<vectorVars, session, late, projectResources, points>>

\* The write is over, or the call does not wait for it any longer.
Written(c) ==
    /\ At(c, "write")
    /\ \/ Release(c) /\ UNCHANGED late
       \/ late' = late \cup {conn[c]} /\ conn' = [conn EXCEPT ![c] = None] /\ UNCHANGED pool
    /\ \/ round[c] = 1 /\ round' = [round EXCEPT ![c] = 2] /\ Goto(c, "check")
       \/ round[c] = 2 /\ late' = late /\ Goto(c, "return") /\ UNCHANGED round
       \/ round[c] = 2 /\ Goto(c, "close") /\ UNCHANGED round
    /\ UNCHANGED <<vectorVars, session, nodes, settled, unsettled, projectResources, current, points>>

\* A write that timed out gives its connection back in the end.
LateWrite(k) ==
    /\ k \in late /\ late' = late \ {k}
    /\ \A d \in Calls : pc[d] \notin Running
    /\ pool' = Append(pool, k)
    /\ UNCHANGED <<vectorVars, session, conn, nodes, settled, unsettled, callVars, points>>

\* The compensations are over and the transaction is rolled back.
Close(c) ==
    /\ At(c, "close")
    /\ Goto(c, "return")
    /\ UNCHANGED <<vectorVars, graphVars, projectResources, current, round, points>>

Return(c) ==
    /\ At(c, "return")
    /\ Goto(c, "done")
    /\ current' = IF current = c THEN None ELSE current
    /\ goal' = [goal EXCEPT ![c] = Project[c]] /\ round' = [round EXCEPT ![c] = 1]
    /\ points' = [points EXCEPT ![c] = {}] /\ nodes' = [nodes EXCEPT ![c] = {}]
    /\ crossed' = crossed \ {c} /\ unsettled' = unsettled \ {c}
    /\ UNCHANGED <<isInitialized, collection, pool, session, conn, late, settled, projectResources>>

-----------------------------------------------------------------------------
Prepare(c) ==
    \/ Start(c) \/ Initialize(c) \/ Connected(c) \/ NotConnected(c) \/ CollectionReady(c)
    \/ PrepareSpace(c) \/ WaitForSpace(c) \/ Used(c)

Work(c) ==
    \/ Check(c) \/ Begin(c) \/ QueryEmbedded(c) \/ Read(c) \/ ChunksEmbedded(c)
    \/ GraphWrite(c) \/ Written(c) \/ Close(c) \/ Return(c)

Next ==
    \/ \E c \in Calls : Prepare(c) \/ Work(c)
    \/ \E k \in Connections : LateWrite(k)
    \/ HealthCheck

Spec == Init /\ [][Next]_vars

-----------------------------------------------------------------------------
(* What must be true. *)

\* A call reads and writes the collection of its project, unless another one
\* was initialised meanwhile, or since its project was prepared.
InOwnCollection == \A c \in Calls \ crossed : points[c] \subseteq {Project[c]}

\* A store writes to the space of its project, if the project was the last one
\* whose USE succeeded, and no two queries were under way at once and no
\* connection was replaced since: the pool hands out the session that was told.
InOwnSpace == \A c \in Calls \ unsettled : nodes[c] \subseteq {Project[c]}
=============================================================================
