----------------------- MODULE NebulaConnectionManager -----------------------
(***************************************************************************)
(* The connection pool of src/database/nebula/NebulaConnectionManager.ts:  *)
(* connect fills the pool and starts the health check, every query takes a *)
(* connection and gives it back in its finally block, the health check     *)
(* drops what does not answer and replenishes, disconnect closes what is   *)
(* idle and resets the counters.                                           *)
(*                                                                         *)
(* One action is the code between two awaits.  Connections are numbered in *)
(* the order in which they became ready; 0 is none.                        *)
(***************************************************************************)
EXTENDS Integers, Sequences, FiniteSets, SequencesExt

CONSTANTS
    Queries,        \* the calls that take a connection: executeQuery and its like
    Connects,       \* the calls of connect
    Disconnects,    \* the calls of disconnect
    Checks,         \* the ticks of the health check; two of them may overlap
    MinPoolSize, MaxPoolSize

Closers == Connects \cup Disconnects \cup Checks
Procs == Queries \cup Closers

ASSUME ProcsAssumption ==
    /\ IsFiniteSet(Procs)
    /\ Queries \cap (Connects \cup Disconnects \cup Checks) = {}
    /\ Connects \cap (Disconnects \cup Checks) = {}
    /\ Disconnects \cap Checks = {}
ASSUME SizeAssumption ==
    /\ MinPoolSize \in Nat \ {0} /\ MaxPoolSize \in Nat
    /\ MinPoolSize <= MaxPoolSize

VARIABLES
    isConnected, poolInitialized,
    timer,          \* healthCheckInterval is set
    pool,           \* connectionPool
    total,          \* poolStats.totalConnectionsCreated
    inUse,          \* poolStats.connectionsInUse
    made,           \* the connections that ever became ready are 1..made
    open,           \* those of them that are not closed
    lost,           \* those that nobody will close: they became ready after their
                    \* creator had given up, or their close failed
    pc,             \* where each call and each tick stands
    conn,           \* the connection a query uses or a tick examines
    need,           \* how many connections a fill of the pool still tries to create
    drop,           \* what a tick found unhealthy, what a cleanup took out of the pool
    place,          \* how far a tick is in the array it iterates over
    array,          \* that array, once connectionPool is another one
    detached,       \* the ticks whose array is no longer connectionPool
    stuck,          \* history: how often releaseConnection's close has thrown since
                    \* the counters were last reset
    disturbed       \* history: something happened that the counters do not survive

linkVars == <<isConnected, poolInitialized, timer>>
countVars == <<total, inUse, stuck, disturbed>>
loopVars == <<place, array, detached>>
vars == <<linkVars, pool, countVars, made, open, lost, pc, conn, need, drop, loopVars>>

Executing == {q \in Queries : pc[q] = "executing"}
Held == {conn[q] : q \in Executing}
Idle == ToSet(pool)
Creating == {p \in Procs : pc[p] = "creating"}

TypeOK ==
    /\ isConnected \in BOOLEAN /\ poolInitialized \in BOOLEAN /\ timer \in BOOLEAN
    /\ pool \in Seq(Nat)
    /\ total \in Int /\ inUse \in Int /\ stuck \in Nat /\ disturbed \in BOOLEAN
    /\ made \in Nat /\ open \subseteq 1..made /\ lost \subseteq 1..made
    /\ pc \in [Procs -> {"idle", "creating", "initialized", "executing", "checking",
                         "closing", "cleaned", "done"}]
    /\ conn \in [Queries \cup Checks -> Nat]
    /\ need \in [Connects \cup Checks -> Int]
    /\ drop \in [Closers -> Seq(Nat)]
    /\ place \in [Checks -> Nat] /\ array \in [Checks -> Seq(Nat)]
    /\ detached \subseteq Checks

Init ==
    /\ isConnected = FALSE /\ poolInitialized = FALSE /\ timer = FALSE
    /\ pool = <<>> /\ total = 0 /\ inUse = 0 /\ stuck = 0 /\ disturbed = FALSE
    /\ made = 0 /\ open = {} /\ lost = {}
    /\ pc = [p \in Procs |-> "idle"]
    /\ conn = [p \in Queries \cup Checks |-> 0]
    /\ need = [p \in Connects \cup Checks |-> 0]
    /\ drop = [p \in Closers |-> <<>>]
    /\ place = [h \in Checks |-> 0] /\ array = [h \in Checks |-> <<>>]
    /\ detached = {}

Goto(p, label) == pc' = [pc EXCEPT ![p] = label]

-----------------------------------------------------------------------------
(* Taking a connection and giving it back *)

\* Fault: the connection stays in the pool.
PopShares(q) ==
    /\ pc[q] = "idle" /\ isConnected /\ pool # <<>>
    /\ conn' = [conn EXCEPT ![q] = Last(pool)]
    /\ inUse' = inUse + 1
    /\ Goto(q, "executing")
    /\ UNCHANGED <<linkVars, pool, total, stuck, disturbed, made, open, lost, need, drop, loopVars>>

\* getConnection: the most recently released one.
Pop(q) ==
    /\ pc[q] = "idle" /\ isConnected /\ pool # <<>>
    /\ pool' = Front(pool)
    /\ conn' = [conn EXCEPT ![q] = Last(pool)]
    /\ inUse' = inUse + 1
    /\ Goto(q, "executing")
    /\ UNCHANGED <<linkVars, total, stuck, disturbed, made, open, lost, need, drop, loopVars>>

\* Fault: the limit is off by one.
StartAtLimit(q) ==
    /\ pc[q] = "idle" /\ isConnected /\ pool = <<>> /\ total <= MaxPoolSize
    /\ disturbed' = (disturbed \/ Creating # {})
    /\ Goto(q, "creating")
    /\ UNCHANGED <<linkVars, pool, total, inUse, stuck, made, open, lost, conn, need, drop, loopVars>>

\* getConnection, nothing idle: the limit is compared with what is counted
\* now, and the new connection is counted when it is ready.
StartCreating(q) ==
    /\ pc[q] = "idle" /\ isConnected /\ pool = <<>> /\ total < MaxPoolSize
    /\ disturbed' = (disturbed \/ Creating # {})
    /\ Goto(q, "creating")
    /\ UNCHANGED <<linkVars, pool, total, inUse, stuck, made, open, lost, conn, need, drop, loopVars>>

\* 'Not connected to NebulaGraph', 'Connection pool exhausted'.
Refuse(q) ==
    /\ pc[q] = "idle"
    /\ isConnected => pool = <<>> /\ total >= MaxPoolSize
    /\ Goto(q, "done")
    /\ UNCHANGED <<linkVars, pool, countVars, made, open, lost, conn, need, drop, loopVars>>

\* A query that created its connection goes on with it.
Created(q) ==
    /\ pc[q] = "creating"
    /\ made' = made + 1 /\ open' = open \cup {made + 1}
    /\ total' = total + 1 /\ inUse' = inUse + 1
    /\ conn' = [conn EXCEPT ![q] = made + 1]
    /\ Goto(q, "executing")
    /\ UNCHANGED <<linkVars, pool, stuck, disturbed, lost, need, drop, loopVars>>

\* createNewConnection rejects: on an error nothing is open; after the timeout
\* the client, which nobody closes, may still become ready.
GiveUp ==
    \/ UNCHANGED <<made, open, lost>>
    \/ made' = made + 1 /\ open' = open \cup {made + 1} /\ lost' = lost \cup {made + 1}

CreateFails(q) ==
    /\ pc[q] = "creating" /\ GiveUp
    /\ Goto(q, "done")
    /\ UNCHANGED <<linkVars, pool, countVars, conn, need, drop, loopVars>>

\* close() of each of S. Those whose close fails, which is caught and logged,
\* may stay open, and the pool has forgotten them.
Close(S) ==
    \E failed \in SUBSET (S \cap open) :
        /\ open' = open \ (S \ failed)
        /\ lost' = lost \cup failed

\* The last statement answered or failed; finally: releaseConnection.
Release(q) ==
    /\ pc[q] = "executing" /\ Len(pool) < MaxPoolSize
    /\ pool' = Append(pool, conn[q])
    /\ inUse' = inUse - 1
    /\ conn' = [conn EXCEPT ![q] = 0]
    /\ Goto(q, "done")
    /\ UNCHANGED <<linkVars, total, stuck, disturbed, made, open, lost, need, drop, loopVars>>

\* releaseConnection at a full pool closes the connection, and a rejection that
\* comes later is nobody's; when close throws, the connection is gone and
\* neither counter is lowered.
ReleaseFull(q) ==
    /\ pc[q] = "executing" /\ Len(pool) >= MaxPoolSize
    /\ Close({conn[q]})
    /\ \/ total' = total - 1 /\ inUse' = inUse - 1 /\ UNCHANGED <<stuck, disturbed>>
       \/ stuck' = stuck + 1 /\ disturbed' = TRUE /\ UNCHANGED <<total, inUse>>
    /\ conn' = [conn EXCEPT ![q] = 0]
    /\ Goto(q, "done")
    /\ UNCHANGED <<linkVars, pool, made, need, drop, loopVars>>

-----------------------------------------------------------------------------
(* connect and disconnect *)

\* A creation by p starts: it should be the only one, and within the limit.
Disturb(p, more) == disturbed' = (disturbed \/ Creating \ {p} # {} \/ more)

Connect(k) ==
    /\ pc[k] = "idle"
    /\ \/ isConnected /\ Goto(k, "done") /\ UNCHANGED <<disturbed, need>>
       \/ /\ ~isConnected /\ poolInitialized
          /\ Goto(k, "initialized")
          /\ UNCHANGED <<disturbed, need>>
       \/ /\ ~isConnected /\ ~poolInitialized
          /\ need' = [need EXCEPT ![k] = MinPoolSize]
          /\ Disturb(k, total > 0)
          /\ Goto(k, "creating")
    /\ UNCHANGED <<linkVars, pool, total, inUse, stuck, made, open, lost, conn, drop, loopVars>>

\* The fill of connect after a creation that succeeded or, which is swallowed,
\* failed: the next one, or the start of the health check.
FillGoesOn(k) ==
    /\ need' = [need EXCEPT ![k] = @ - 1]
    /\ \/ need[k] > 1 /\ Disturb(k, FALSE) /\ UNCHANGED <<poolInitialized, timer, pc>>
       \/ /\ need[k] = 1
          /\ poolInitialized' = TRUE /\ timer' = TRUE
          /\ Goto(k, "initialized")
          /\ UNCHANGED disturbed

Fill(k) ==
    /\ pc[k] = "creating" /\ FillGoesOn(k)
    /\ \/ /\ made' = made + 1 /\ open' = open \cup {made + 1}
          /\ pool' = Append(pool, made + 1)
          /\ total' = total + 1
          /\ UNCHANGED lost
       \/ GiveUp /\ UNCHANGED <<pool, total>>
    /\ UNCHANGED <<isConnected, inUse, stuck, conn, drop, loopVars>>

Connected(k) ==
    /\ pc[k] = "initialized"
    /\ isConnected' = TRUE
    /\ Goto(k, "done")
    /\ UNCHANGED <<poolInitialized, timer, pool, countVars, made, open, lost, conn, need, drop, loopVars>>

\* connectionPool becomes another array: the other ticks that iterate keep theirs.
Replace(newPool, p) ==
    LET iterating == {h \in Checks \ detached : pc[h] = "checking"} \ {p}
    IN  /\ pool' = newPool
        /\ array' = [h \in Checks |-> IF h = p THEN <<>>
                                       ELSE IF h \in iterating THEN pool ELSE array[h]]
        /\ detached' = (detached \cup iterating) \ {p}

\* The end of cleanupConnectionPool forgets whatever is in use, idle again,
\* being created or being removed by now.
Reset(p) ==
    /\ total' = 0 /\ inUse' = 0 /\ stuck' = 0 /\ poolInitialized' = FALSE
    /\ disturbed' = (disturbed \/ Executing # {} \/ Creating # {} \/ pool' # <<>>
                     \/ \E x \in Closers \ {p} : pc[x] = "closing")
    /\ Goto(p, "cleaned")

\* Fault: cleanup takes the idle connections out and does not close them.
CleanupDrops(p) ==
    /\ timer' = FALSE
    /\ Replace(<<>>, p)
    /\ Reset(p)
    /\ UNCHANGED <<made, open, lost, drop, conn, need, place>>

\* cleanupConnectionPool up to its first close, or to its end when nothing is idle.
Cleanup(p) ==
    /\ timer' = FALSE
    /\ Replace(<<>>, p)
    /\ \/ /\ pool # <<>>
          /\ drop' = [drop EXCEPT ![p] = pool]
          /\ Goto(p, "closing")
          /\ UNCHANGED <<poolInitialized, countVars>>
       \/ pool = <<>> /\ Reset(p) /\ UNCHANGED drop
    /\ UNCHANGED <<made, open, lost, conn, need, place>>

\* The closes are awaited one by one; the last is over.
CleanupEnds(p) ==
    /\ pc[p] = "closing"
    /\ Close(ToSet(drop[p]))
    /\ drop' = [drop EXCEPT ![p] = <<>>]
    /\ UNCHANGED <<isConnected, timer, pool, made, conn, need, loopVars>>
    /\ Reset(p)

\* The configuration cannot be read: connect cleans up and throws.
ConnectFails(k) ==
    /\ pc[k] = "idle" /\ ~isConnected
    /\ Cleanup(k)
    /\ UNCHANGED isConnected

Disconnect(d) ==
    /\ pc[d] = "idle"
    /\ Cleanup(d)
    /\ UNCHANGED isConnected

Cleaned(p) ==
    /\ pc[p] = "cleaned"
    /\ isConnected' = IF p \in Disconnects THEN FALSE ELSE isConnected
    /\ Goto(p, "done")
    /\ UNCHANGED <<poolInitialized, timer, pool, countVars, made, open, lost, conn, need, drop, loopVars>>

-----------------------------------------------------------------------------
(* The health check *)

Array(h) == IF h \in detached THEN array[h] ELSE pool

Tick(h) ==
    /\ pc[h] = "idle" /\ timer
    /\ \/ pool = <<>> /\ Goto(h, "done") /\ UNCHANGED <<conn, place>>
       \/ /\ pool # <<>>
          /\ conn' = [conn EXCEPT ![h] = pool[1]]
          /\ place' = [place EXCEPT ![h] = 1]
          /\ Goto(h, "checking")
    /\ UNCHANGED <<linkVars, pool, countVars, made, open, lost, need, drop, array, detached>>

\* s.filter(x => !bad.includes(x)): the one sequence of all the others in
\* their order.
Without(s, bad) ==
    LET kept == {i \in DOMAIN s : s[i] \notin bad}
        size == Cardinality(kept)
    IN  {[a \in 1..size |-> s[f[a]]] : f \in
            {g \in [1..size -> kept] : /\ \A a, b \in 1..size : a < b => g[a] < g[b]
                                      /\ kept = {g[a] : a \in 1..size}}}

\* What the tick will have found unhealthy when this examination is over.
Found(h, healthy) == IF healthy THEN drop[h] ELSE Append(drop[h], conn[h])

\* SHOW HOSTS answered or failed; a closed connection cannot answer it.
Examine(h, healthy) ==
    /\ pc[h] = "checking"
    /\ healthy => conn[h] \in open
    /\ place[h] < Len(Array(h))
    /\ drop' = [drop EXCEPT ![h] = Found(h, healthy)]
    /\ place' = [place EXCEPT ![h] = @ + 1]
    /\ conn' = [conn EXCEPT ![h] = Array(h)[place[h] + 1]]
    /\ UNCHANGED <<linkVars, pool, countVars, made, open, lost, pc, need, array, detached>>

\* The last one: what is unhealthy leaves the pool if it is still in it.
ExamineLast(h, healthy) ==
    /\ pc[h] = "checking"
    /\ healthy => conn[h] \in open
    /\ place[h] >= Len(Array(h))
    /\ drop' = [drop EXCEPT ![h] = Found(h, healthy)]
    /\ conn' = [conn EXCEPT ![h] = 0] /\ place' = [place EXCEPT ![h] = 0]
    /\ \/ /\ Found(h, healthy) = <<>>
          /\ array' = [array EXCEPT ![h] = <<>>] /\ detached' = detached \ {h}
          /\ Goto(h, "done")
          /\ UNCHANGED <<pool, disturbed>>
       \/ /\ Found(h, healthy) # <<>>
          /\ \E kept \in Without(pool, ToSet(Found(h, healthy))) : Replace(kept, h)
          /\ disturbed' = (disturbed \/ Len(pool') + Len(Found(h, healthy)) # Len(pool))
          /\ Goto(h, "closing")
    /\ UNCHANGED <<linkVars, total, inUse, stuck, made, open, lost, need>>

\* The replenishing loop: it creates while the limit allows, at the pool's
\* size of the time it started.
Replenish(h, missing, counted) ==
    /\ need' = [need EXCEPT ![h] = missing]
    /\ \/ /\ missing > 0 /\ counted < MaxPoolSize
          /\ Disturb(h, FALSE)
          /\ Goto(h, "creating")
       \/ /\ missing = 0 \/ counted >= MaxPoolSize
          /\ Goto(h, "done")
          /\ UNCHANGED disturbed

\* Fault: the removed connections stay counted.
RemovedStayCounted(h) ==
    /\ pc[h] = "closing"
    /\ Close(ToSet(drop[h]))
    /\ drop' = [drop EXCEPT ![h] = <<>>]
    /\ total' = total
    /\ Replenish(h, IF Len(pool) < MinPoolSize THEN MinPoolSize - Len(pool) ELSE 0, total')
    /\ UNCHANGED <<linkVars, pool, inUse, stuck, made, conn, loopVars>>

\* The unhealthy connections are closed and, whether that fails or not, no
\* longer counted.
Removed(h) ==
    /\ pc[h] = "closing"
    /\ Close(ToSet(drop[h]))
    /\ drop' = [drop EXCEPT ![h] = <<>>]
    /\ total' = total - Len(drop[h])
    /\ Replenish(h, IF Len(pool) < MinPoolSize THEN MinPoolSize - Len(pool) ELSE 0, total')
    /\ UNCHANGED <<linkVars, pool, inUse, stuck, made, conn, loopVars>>

Replenished(h) ==
    /\ pc[h] = "creating"
    /\ \/ /\ made' = made + 1 /\ open' = open \cup {made + 1}
          /\ pool' = Append(pool, made + 1)
          /\ total' = total + 1
          /\ UNCHANGED lost
       \/ GiveUp /\ UNCHANGED <<pool, total>>
    /\ Replenish(h, need[h] - 1, total')
    /\ UNCHANGED <<linkVars, inUse, stuck, conn, drop, loopVars>>

-----------------------------------------------------------------------------
Query(q) ==
    \/ Pop(q) \/ StartCreating(q) \/ Refuse(q) \/ Created(q) \/ CreateFails(q)
    \/ Release(q) \/ ReleaseFull(q)

Connecting(k) ==
    Connect(k) \/ Fill(k) \/ Connected(k) \/ ConnectFails(k) \/ CleanupEnds(k) \/ Cleaned(k)

Disconnecting(d) == Disconnect(d) \/ CleanupEnds(d) \/ Cleaned(d)

Checking(h) ==
    \/ Tick(h) \/ Removed(h) \/ Replenished(h)
    \/ \E healthy \in BOOLEAN : Examine(h, healthy) \/ ExamineLast(h, healthy)

Next ==
    \/ \E q \in Queries : Query(q)
    \/ \E k \in Connects : Connecting(k)
    \/ \E d \in Disconnects : Disconnecting(d)
    \/ \E h \in Checks : Checking(h)

Spec == Init /\ [][Next]_vars

-----------------------------------------------------------------------------
(* What must be true. *)

\* No connection serves two queries at once, and none that serves a query is
\* idle in the pool as well or idle twice, whatever the health check and the
\* cleanups do meanwhile: getConnection and releaseConnection hand it over.
SoleUse ==
    /\ \A q, r \in Executing :
          conn[q] = conn[r] => q = r
    /\ Held \cap Idle = {}
    /\ \A i, j \in DOMAIN pool : pool[i] = pool[j] => i = j

\* The connections that a cleanup or a tick is closing.
Closing == {p \in Closers : pc[p] = "closing"}

\* No session of the server is lost track of, except by the timeout of
\* createNewConnection and by a close that fails: what else is open is idle, in
\* use or being closed.
Accounted ==
    open \ lost \subseteq Idle \cup Held \cup UNION {ToSet(drop[p]) : p \in Closing}

\* What is being closed: every place of the lists of those who close.
Dropped == UNION {{p} \X DOMAIN drop[p] : p \in Closing}

\* What totalConnectionsCreated may count.
Countable == Len(pool) + Cardinality(Executing) + Cardinality(Dropped)

\* The counter drifts upwards, until the pool says "exhausted" with fewer than
\* maxPoolSize connections, only by the closes that throw at a full pool, one by
\* each and until the next reset, however removals, cleanups, failed creations
\* and failed closes interleave.
OvercountIsStuck == total <= Countable + stuck

\* Unless creations overlapped, counters were reset under somebody's feet or a
\* tick dropped a connection that was in use, the counters are exact and
\* maxPoolSize is kept.
ExactUntilDisturbed ==
    ~disturbed =>
        /\ total = Countable /\ total <= MaxPoolSize
        /\ inUse = Cardinality(Executing)
-----------------------------------------------------------------------------
(* What the connections promise to the queries. *)

PoolHeld == [q \in Queries |-> IF pc[q] = "executing" THEN conn[q] ELSE 0]

P == INSTANCE ResourcePool WITH
        Users <- Queries, Resources <- Nat, NoResource <- 0,
        free <- Idle, held <- PoolHeld, made <- 1..made

\* getConnection and releaseConnection keep the promise of a pool: a connection
\* in use is nobody else's, and what a cleanup or a tick took out never comes
\* back, not even by way of an array that is no longer connectionPool.
ImplementsPool == P!PoolSpec

-----------------------------------------------------------------------------
(* The inductive invariant behind the properties. *)

\* What is named was made: a connection that becomes ready is new to everybody.
Known ==
    /\ Idle \subseteq 1..made /\ Held \subseteq 1..made
    /\ \A p \in Closers : ToSet(drop[p]) \subseteq 1..made
    /\ \A h \in Checks : ToSet(array[h]) \subseteq 1..made

\* A tick examines what its array held.
Examining ==
    \A h \in Checks : pc[h] = "checking" => conn[h] \in 1..made

\* Undisturbed, one connection at a time is created, below the limit, and a
\* connect has room for all it still needs.
CreatesAlone ==
    ~disturbed =>
        /\ \A p, r \in Creating : p = r
        /\ Creating # {} => total < MaxPoolSize
        /\ \A k \in Connects \cap Creating : need[k] >= 1 /\ total + need[k] <= MinPoolSize

IndInv ==
    /\ TypeOK /\ SoleUse /\ Accounted /\ Known /\ Examining
    /\ OvercountIsStuck /\ ExactUntilDisturbed /\ CreatesAlone
=============================================================================
