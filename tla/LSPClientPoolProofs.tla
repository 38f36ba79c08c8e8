------------------------- MODULE LSPClientPoolProofs -------------------------
(***************************************************************************)
(* Proofs about LSPClientPool, for any finite sets of calls and any sizes: *)
(* nobody shares a client, nothing open is lost track of, and the limit    *)
(* holds until an acquire recycles at it or two creations overlap.         *)
(***************************************************************************)
EXTENDS LSPClientPool, FiniteSetTheorems, TLAPS

-----------------------------------------------------------------------------
(* Types *)

PoolTyped ==
    /\ isInitialized \in BOOLEAN /\ eased \in BOOLEAN
    /\ active \subseteq clients /\ clients \subseteq Clients
    /\ activeConnections \in Int /\ timers \in Nat

StageTyped == stage \in [Clients -> {"none", "starting", "open", "closing", "closed"}]

ProcTyped ==
    /\ pending \subseteq Users
    /\ pc \in [Procs -> {"idle", "creating", "request", "settled", "loading", "closing", "done"}]
    /\ client \in [Users -> Clients \cup {None}]
    /\ round \in [Preloads -> Nat]
    /\ listed \in [Shutdowns -> SUBSET Clients]
    /\ preloaded \subseteq Clients /\ forgotten \subseteq Clients

Typed == PoolTyped /\ StageTyped /\ ProcTyped

LEMMA TypedMeansTypeOK == Typed <=> TypeOK
BY DEF Typed, PoolTyped, StageTyped, ProcTyped, TypeOK

\* The names of clients, and the kinds of calls.
LEMMA Names ==
    /\ \A u \in Users : <<u, 1>> \in Clients /\ u \in Procs /\ u \notin Preloads \cup Shutdowns
    /\ \A p \in Preloads : p \in Procs /\ p \notin Users \cup Shutdowns
    /\ \A p \in Preloads : \A k \in 1..InitialConnections : <<p, k>> \in Clients
    /\ \A d \in Shutdowns : d \in Procs /\ d \notin Users \cup Preloads
    /\ InitialConnections \in Nat \ {0} /\ MaxConnections \in Nat
BY ProcsAssumption, SizeAssumption DEF ProcsAssumption, SizeAssumption, Clients, Procs, Callers

LEMMA FiniteClients == IsFiniteSet(Clients)
<1>1. IsFiniteSet(Users) /\ IsFiniteSet(Preloads)
  BY ProcsAssumption, FS_Subset DEF ProcsAssumption, Callers
<1>2. IsFiniteSet({1}) /\ IsFiniteSet(1..InitialConnections)
  <2>1. 1 \in Int /\ InitialConnections \in Int
    BY Names
  <2> QED BY <2>1, FS_Singleton, FS_Interval
<1>3. IsFiniteSet(Users \X {1}) /\ IsFiniteSet(Preloads \X (1..InitialConnections))
  BY <1>1, <1>2, FS_Product
<1> QED BY <1>3, FS_Union DEF Clients

LEMMA DoneTyped ==
    ASSUME Typed, NEW p \in Preloads
    PROVE  Done(p) \in Nat
<1>1. IsFiniteSet(Of(Root[p]))
  BY FiniteClients, FS_Subset DEF Of, Typed, PoolTyped
<1> QED BY <1>1, FS_CardinalityType DEF Done, Typed, ProcTyped

-----------------------------------------------------------------------------
(* The lives of clients *)

Taken == {"open", "closing", "closed"}

\* What the pool holds or an operation uses has been opened once.
Opening ==
    /\ \A c \in clients \cup preloaded : stage[c] \in Taken
    /\ \A u \in InUse : client[u] \in Clients /\ stage[client[u]] \in Taken
    /\ \A u \in pending : pc[u] = "request"
    /\ \A d \in Shutdowns : pc[d] = "closing" => \A c \in listed[d] : stage[c] \in {"closing", "closed"}

\* The names of the clients that a call may still create are free.
Fresh ==
    /\ \A u \in Users : pc[u] = "idle" => stage[<<u, 1>>] = "none"
    /\ \A u \in Users : pc[u] = "creating" => stage[<<u, 1>>] = "starting"
    /\ \A p \in Preloads : pc[p] = "creating" =>
          round[p] < InitialConnections /\ stage[<<p, round[p] + 1>>] = "starting"
    /\ \A p \in Preloads : \A k \in 1..InitialConnections :
          \/ pc[p] = "idle"
          \/ pc[p] = "loading" /\ k > round[p]
          \/ pc[p] = "creating" /\ k > round[p] + 1
          => stage[<<p, k>>] = "none"

\* What preload acquired stays active.
KeptActive == preloaded \cap clients \subseteq active

IndInv == Typed /\ Opening /\ Fresh /\ SoleUse /\ KeptActive /\ Accounted /\ LimitUntilEased

\* The client that a creating call is about.
New(a) == IF a \in Users THEN <<a, 1>> ELSE <<a, round[a] + 1>>

LEMMA NewIsNew ==
    ASSUME Typed, Opening, Fresh, NEW a \in Callers, pc[a] = "creating"
    PROVE  /\ New(a) \in Clients /\ stage[New(a)] = "starting"
           /\ New(a) \notin clients \cup preloaded
           /\ \A u \in InUse : client[u] # New(a)
<1>1. CASE a \in Users
  BY <1>1, Names DEF New, Opening, Fresh, Taken
<1>2. CASE a \in Preloads
  <2>1. a \notin Users /\ round[a] \in Nat /\ round[a] < InitialConnections /\ stage[<<a, round[a] + 1>>] = "starting"
    BY <1>2, Names DEF Fresh, Typed, ProcTyped
  <2>2. round[a] + 1 \in 1..InitialConnections
    BY <2>1, Names
  <2>3. New(a) \in Clients /\ stage[New(a)] = "starting"
    BY <1>2, <2>1, <2>2, Names DEF New
  <2> QED BY <2>3 DEF Opening, Taken
<1> QED BY <1>1, <1>2 DEF Callers

-----------------------------------------------------------------------------
(* Types are kept *)

LEMMA TypesStep ==
    ASSUME IndInv, [Next]_vars
    PROVE  Typed'
<1> USE DEF IndInv
<1>1. PoolTyped /\ StageTyped /\ ProcTyped
  BY DEF Typed
<1>2. CASE UNCHANGED vars
  BY <1>1, <1>2 DEF vars, poolVars, procVars, histVars, Typed, PoolTyped, StageTyped, ProcTyped, Clients
<1>3. ASSUME NEW u \in Users, GetWithIdle(u) PROVE Typed'
  <2>1. PICK c \in Clients : Reuse(u, c) /\ Ask(u, c)
    BY <1>3 DEF GetWithIdle
  <2>2. UNCHANGED <<isInitialized, stage, round, listed, preloaded, forgotten>>
    BY <1>3 DEF GetWithIdle
  <2>3. PoolTyped'
    BY <1>1, <2>1, <2>2 DEF Reuse, Idle, PoolTyped
  <2>4. ProcTyped'
    BY <1>1, <2>1, <2>2 DEF Ask, Goto, ProcTyped
  <2> QED BY <1>1, <2>2, <2>3, <2>4 DEF Typed, StageTyped
<1>4. ASSUME NEW a \in Callers, NEW c \in Clients, Create(a, c),
             UNCHANGED <<isInitialized, poolVars, pending, client, listed, preloaded, forgotten>>,
             round' \in [Preloads -> Nat]
      PROVE  Typed'
  <2>1. /\ timers' \in {timers, timers + 1} /\ eased' \in BOOLEAN
        /\ stage' = [stage EXCEPT ![c] = "starting"] /\ pc' = [pc EXCEPT ![a] = "creating"]
    BY <1>1, <1>4 DEF Create, Goto, PoolTyped
  <2>2. PoolTyped'
    BY <1>1, <1>4, <2>1 DEF poolVars, PoolTyped
  <2>3. StageTyped'
    BY <1>1, <2>1 DEF StageTyped
  <2>4. ProcTyped'
    BY <1>1, <1>4, <2>1 DEF ProcTyped
  <2> QED BY <2>2, <2>3, <2>4 DEF Typed
<1>5. ASSUME NEW u \in Users, GetWithNew(u) PROVE Typed'
  BY <1>1, <1>4, <1>5, Names DEF GetWithNew, procVars, Callers, ProcTyped
<1>6. ASSUME NEW u \in Users, GetRefused(u) \/ CreateFails(u) PROVE Typed'
  <2>1. /\ stage' = stage \/ stage' = [stage EXCEPT ![<<u, 1>>] = "closed"]
        /\ pc' = [pc EXCEPT ![u] = "done"]
        /\ UNCHANGED <<isInitialized, poolVars, timers, pending, procVars, histVars>>
    BY <1>6 DEF GetRefused, CreateFails, Goto
  <2> QED BY <1>1, <2>1 DEF poolVars, procVars, histVars, Typed, PoolTyped, StageTyped, ProcTyped
<1>7. ASSUME NEW a \in Callers, NEW c \in Clients, Opened(c),
             UNCHANGED <<isInitialized, timers, listed, forgotten, eased>>,
             preloaded' \subseteq Clients, pending' \subseteq Users, round' \in [Preloads -> Nat],
             client' \in [Users -> Clients \cup {None}],
             \E label \in {"request", "loading"} : pc' = [pc EXCEPT ![a] = label]
      PROVE  Typed'
  <2>1. PoolTyped'
    BY <1>1, <1>7 DEF Opened, PoolTyped
  <2>2. StageTyped'
    BY <1>1, <1>7 DEF Opened, StageTyped
  <2>3. pc' \in [Procs -> {"idle", "creating", "request", "settled", "loading", "closing", "done"}]
    BY <1>1, <1>7 DEF ProcTyped
  <2>4. ProcTyped'
    BY <1>1, <1>7, <2>3 DEF ProcTyped
  <2> QED BY <2>1, <2>2, <2>4 DEF Typed
<1>8. ASSUME NEW u \in Users, Created(u) PROVE Typed'
  <2>1. /\ client' = [client EXCEPT ![u] = <<u, 1>>] /\ pending' = pending \cup {u} /\ Opened(<<u, 1>>)
        /\ pc' = [pc EXCEPT ![u] = "request"]
        /\ UNCHANGED <<isInitialized, timers, round, listed, histVars>>
    BY <1>8 DEF Created, Goto
  <2>2. client' \in [Users -> Clients \cup {None}]
    BY <1>1, <2>1, Names DEF ProcTyped
  <2> QED BY <1>1, <1>7, <2>1, <2>2, Names DEF histVars, ProcTyped, Callers
<1>9. ASSUME NEW u \in Users, Settle(u) \/ Release(u) PROVE Typed'
  <2>1. /\ pending' \in {pending, pending \ {u}}
        /\ \E label \in {"settled", "done"} : pc' = [pc EXCEPT ![u] = label]
        /\ active' \in {active, active \ {client[u]}} /\ timers' \in {timers, timers + 1}
        /\ UNCHANGED <<isInitialized, clients, activeConnections, stage, procVars, histVars>>
    BY <1>9 DEF Settle, Release, Goto, poolVars
  <2>2. PoolTyped'
    BY <1>1, <2>1 DEF histVars, PoolTyped
  <2>3. ProcTyped'
    BY <1>1, <2>1 DEF procVars, histVars, ProcTyped
  <2> QED BY <1>1, <2>1, <2>2, <2>3 DEF Typed, StageTyped
<1>10. ASSUME NEW c \in Clients, Exit(c) \/ Closed(c) PROVE Typed'
  <2>1. /\ Cleanup(c) /\ UNCHANGED <<isInitialized, poolVars, timers, procVars, histVars>>
    BY <1>10 DEF Exit, Closed
  <2> QED BY <1>1, <2>1 DEF Cleanup, poolVars, procVars, histVars, Typed, PoolTyped, StageTyped, ProcTyped
<1>11. CASE CleanupIdle
  <2>1. PICK S \in SUBSET Idle :
          /\ clients' = clients \ S /\ activeConnections' = activeConnections - Cardinality(S) /\ Close(S)
    BY <1>11 DEF CleanupIdle
  <2>2. timers > 0 /\ timers' = timers - 1 /\ UNCHANGED <<isInitialized, active, pending, pc, procVars, histVars>>
    BY <1>11 DEF CleanupIdle
  <2>3. Cardinality(S) \in Nat
    BY <1>1, FiniteClients, FS_Subset, FS_CardinalityType DEF Idle, PoolTyped
  <2>4. PoolTyped'
    BY <1>1, <2>1, <2>2, <2>3 DEF Idle, PoolTyped, histVars
  <2>5. StageTyped'
    BY <1>1, <2>1 DEF Close, StageTyped
  <2> QED BY <1>1, <2>2, <2>4, <2>5 DEF procVars, histVars, Typed, ProcTyped
<1>12. ASSUME NEW p \in Preloads, PreloadIdle(p) PROVE Typed'
  <2>1. PICK c \in Clients : Reuse(p, c) /\ preloaded' = preloaded \cup {c}
    BY <1>12 DEF PreloadIdle
  <2>2. /\ round' = [round EXCEPT ![p] = Done(p) + 1] /\ pc' = [pc EXCEPT ![p] = "loading"]
        /\ UNCHANGED <<isInitialized, stage, pending, client, listed, forgotten>>
    BY <1>12 DEF PreloadIdle, Goto
  <2>3. PoolTyped'
    BY <1>1, <2>1, <2>2 DEF Reuse, Idle, PoolTyped
  <2>4. ProcTyped'
    <3>1. Done(p) + 1 \in Nat
      BY <1>1, DoneTyped
    <3>2. round' \in [Preloads -> Nat]
      BY <1>1, <2>2, <3>1 DEF ProcTyped
    <3>3. pc' \in [Procs -> {"idle", "creating", "request", "settled", "loading", "closing", "done"}]
      BY <1>1, <2>2 DEF ProcTyped
    <3> QED BY <1>1, <2>1, <2>2, <3>2, <3>3 DEF ProcTyped
  <2> QED BY <1>1, <2>2, <2>3, <2>4 DEF Typed, StageTyped
<1>13. ASSUME NEW p \in Preloads, PreloadNew(p) PROVE Typed'
  <2>1. Done(p) \in Nat /\ Done(p) < InitialConnections
    BY <1>13, DoneTyped DEF PreloadNew, Loading
  <2>2. Done(p) + 1 \in 1..InitialConnections
    BY <2>1, Names
  <2>3. <<p, Done(p) + 1>> \in Clients
    BY <2>2, Names
  <2>4. round' \in [Preloads -> Nat]
    BY <1>1, <1>13, <2>1 DEF PreloadNew, ProcTyped
  <2> QED BY <1>4, <1>13, <2>3, <2>4 DEF PreloadNew, Callers
<1>14. ASSUME NEW p \in Preloads, Preloaded(p) PROVE Typed'
  <2>1. /\ pc[p] = "creating" /\ Opened(<<p, round[p] + 1>>)
        /\ preloaded' = preloaded \cup {<<p, round[p] + 1>>} /\ round' = [round EXCEPT ![p] = @ + 1]
        /\ pc' = [pc EXCEPT ![p] = "loading"]
        /\ UNCHANGED <<isInitialized, timers, pending, client, listed, forgotten, eased>>
    BY <1>14 DEF Preloaded, Goto
  <2>2. New(p) = <<p, round[p] + 1>> /\ p \in Callers
    BY Names DEF New, Callers
  <2>3. New(p) \in Clients
    BY <2>1, <2>2, NewIsNew
  <2>4. round' \in [Preloads -> Nat]
    BY <1>1, <2>1 DEF ProcTyped
  <2> QED BY <1>1, <1>7, <2>1, <2>2, <2>3, <2>4 DEF ProcTyped
<1>15. ASSUME NEW p \in Preloads, PreloadFails(p) \/ Initialized(p) PROVE Typed'
  <2>1. /\ pc' = [pc EXCEPT ![p] = "done"]
        /\ stage' = stage \/ \E c : stage' = [stage EXCEPT ![c] = "closed"]
        /\ isInitialized' \in {isInitialized, TRUE}
        /\ UNCHANGED <<poolVars, timers, pending, procVars, histVars>>
    BY <1>15 DEF PreloadFails, Initialized, Goto
  <2> QED BY <1>1, <2>1 DEF poolVars, procVars, histVars, Typed, PoolTyped, StageTyped, ProcTyped
<1>16. ASSUME NEW d \in Shutdowns, Shutdown(d) PROVE Typed'
  <2>1. /\ listed' = [listed EXCEPT ![d] = clients] /\ Close(clients) /\ pc' = [pc EXCEPT ![d] = "closing"]
        /\ UNCHANGED <<isInitialized, poolVars, timers, pending, client, round, histVars>>
    BY <1>16 DEF Shutdown, Goto
  <2>2. StageTyped'
    BY <1>1, <2>1 DEF Close, StageTyped
  <2>3. listed' \in [Shutdowns -> SUBSET Clients]
    BY <1>1, <2>1 DEF ProcTyped, PoolTyped
  <2> QED BY <1>1, <2>1, <2>2, <2>3 DEF poolVars, histVars, Typed, PoolTyped, ProcTyped
<1>17. ASSUME NEW d \in Shutdowns, ShutdownEnds(d) PROVE Typed'
  <2>1. /\ forgotten' = forgotten \cup (clients \ listed[d])
        /\ clients' = {} /\ active' = {} /\ activeConnections' = 0 /\ isInitialized' = FALSE
        /\ pc' = [pc EXCEPT ![d] = "done"]
        /\ UNCHANGED <<timers, stage, pending, procVars, preloaded, eased>>
    BY <1>17 DEF ShutdownEnds, Goto
  <2>2. PoolTyped'
    <3>1. timers' = timers /\ eased' = eased
      BY <2>1
    <3>2. timers' \in Nat /\ eased' \in BOOLEAN /\ isInitialized' \in BOOLEAN
      BY <1>1, <2>1, <3>1 DEF PoolTyped
    <3>3. active' \subseteq clients' /\ clients' \subseteq Clients /\ activeConnections' \in Int
      BY <2>1
    <3> QED BY <3>2, <3>3 DEF PoolTyped
  <2>3. ProcTyped'
    BY <1>1, <2>1 DEF procVars, ProcTyped, PoolTyped
  <2> QED BY <1>1, <2>1, <2>2, <2>3 DEF Typed, StageTyped
<1> QED BY <1>2, <1>3, <1>5, <1>6, <1>8, <1>9, <1>10, <1>11, <1>12, <1>13, <1>14, <1>15, <1>16, <1>17
        DEF Next, Getting, Preloading

-----------------------------------------------------------------------------
(* One lemma for each kind of step: all parts but the types *)

Rest == Opening /\ Fresh /\ SoleUse /\ KeptActive /\ Accounted /\ LimitUntilEased

Free(a) ==
    /\ a \in Users =>
          /\ pc[a] = "idle" => stage[<<a, 1>>] = "none"
          /\ pc[a] = "creating" => stage[<<a, 1>>] = "starting"
    /\ a \in Preloads =>
          /\ pc[a] = "creating" =>
                round[a] < InitialConnections /\ stage[<<a, round[a] + 1>>] = "starting"
          /\ \A k \in 1..InitialConnections :
                \/ pc[a] = "idle"
                \/ pc[a] = "loading" /\ k > round[a]
                \/ pc[a] = "creating" /\ k > round[a] + 1
                => stage[<<a, k>>] = "none"

LEMMA FreshIsFree == Fresh <=> \A a \in Callers : Free(a)
<1>1. ASSUME Fresh, NEW a \in Callers PROVE Free(a)
  BY <1>1 DEF Fresh, Free
<1>2. ASSUME \A a \in Callers : Free(a) PROVE Fresh
  BY <1>2, Names DEF Fresh, Free, Callers
<1> QED BY <1>1, <1>2

LEMMA FreeIsFresh == (\A a \in Callers : Free(a)') => Fresh'
BY Names DEF Fresh, Free, Callers

\* A call that does not move keeps its names free when no one else takes them.
LEMMA StaysFree ==
    ASSUME IndInv, NEW a \in Callers, Free(a),
           pc'[a] = pc[a] \/ pc'[a] \notin {"idle", "creating", "loading"},
           round'[a] = round[a],
           \A k : <<a, k>> \in Clients /\ stage[<<a, k>>] \in {"none", "starting"} =>
                     stage'[<<a, k>>] = stage[<<a, k>>]
    PROVE  Free(a)'
<1>1. CASE a \in Users
  <2>1. <<a, 1>> \in Clients /\ a \notin Preloads
    BY <1>1, Names
  <2> QED BY <1>1, <2>1 DEF Free
<1>2. CASE a \in Preloads
  <2>1. a \notin Users /\ \A k \in 1..InitialConnections : <<a, k>> \in Clients
    BY <1>2, Names
  <2>2. round[a] \in Nat /\ InitialConnections \in Nat
    BY <1>2, Names DEF IndInv, Typed, ProcTyped
  <2>3. round[a] < InitialConnections => round[a] + 1 \in 1..InitialConnections
    BY <2>2
  <2> QED BY <1>2, <2>1, <2>2, <2>3 DEF Free
<1> QED BY <1>1, <1>2 DEF Callers

\* A call that returns, or fails to create its client.
LEMMA EndStep ==
    ASSUME IndInv, Typed', NEW a \in Callers, pc[a] \in {"idle", "loading", "creating"},
           pc' = [pc EXCEPT ![a] = "done"],
           stage' = stage \/ (pc[a] = "creating" /\ stage' = [stage EXCEPT ![New(a)] = "closed"]),
           UNCHANGED <<poolVars, timers, pending, procVars, histVars>>
    PROVE  Rest'
<1>1. /\ pc \in [Procs -> {"idle", "creating", "request", "settled", "loading", "closing", "done"}]
      /\ stage \in [Clients -> {"none", "starting", "open", "closing", "closed"}]
      /\ a \in Procs /\ pending \subseteq Users /\ clients \subseteq Clients /\ preloaded \subseteq Clients
      /\ listed \in [Shutdowns -> SUBSET Clients]
  BY DEF IndInv, Typed, PoolTyped, StageTyped, ProcTyped, Procs
<1>2. pc'[a] = "done" /\ \A b \in Procs \ {a} : pc'[b] = pc[b]
  BY <1>1
<1>3. InUse' = InUse
  BY <1>2 DEF InUse, Procs, Callers
<1>4. Creating' = Creating \ {a}
  BY <1>2 DEF Creating, Procs
<1>5. \A c \in Clients : stage'[c] = stage[c] \/ (stage[c] = "starting" /\ stage'[c] = "closed" /\ c = New(a))
  BY <1>1, NewIsNew DEF IndInv
<1>6. Opening'
  BY <1>1, <1>2, <1>3, <1>5 DEF Opening, Taken, IndInv, poolVars, procVars, histVars, Procs, Callers
<1>7. Fresh'
  <2>1. ASSUME NEW b \in Callers PROVE Free(b)'
    <3>1. round'[b] = round[b] /\ Free(b) /\ b \in Procs
      BY FreshIsFree DEF IndInv, procVars, Procs
    <3>2. CASE b = a
      BY <1>2, <3>2, Names DEF Free
    <3>3. CASE b # a
      <4>1. \A k : <<b, k>> \in Clients => stage'[<<b, k>>] = stage[<<b, k>>]
        BY <1>5, <3>3 DEF New
      <4> QED BY <1>2, <3>1, <3>3, <4>1, StaysFree
    <3> QED BY <3>2, <3>3
  <2> QED BY <2>1, FreeIsFresh
<1>8. SoleUse' /\ KeptActive'
  BY <1>3 DEF SoleUse, KeptActive, IndInv, poolVars, procVars, histVars
<1>9. Accounted'
  BY <1>3, <1>5 DEF Accounted, IndInv, poolVars, procVars, histVars
<1>10. LimitUntilEased'
  <2>1. IsFiniteSet(Creating)
    BY ProcsAssumption, FS_Subset DEF ProcsAssumption, Creating
  <2>2. Cardinality(Creating') <= Cardinality(Creating) /\ Cardinality(Creating) \in Nat
        /\ Cardinality(Creating') \in Nat
    BY <1>4, <2>1, FS_Subset, FS_CardinalityType
  <2>3. activeConnections \in Int /\ MaxConnections \in Int
    BY Names DEF IndInv, Typed, PoolTyped
  <2> QED BY <2>2, <2>3 DEF LimitUntilEased, IndInv, poolVars, histVars
<1> QED BY <1>6, <1>7, <1>8, <1>9, <1>10 DEF Rest

LEMMA CountFacts ==
    ASSUME IndInv
    PROVE  /\ IsFiniteSet(clients) /\ IsFiniteSet(Creating)
           /\ Cardinality(clients) \in Nat /\ Cardinality(Creating) \in Nat
           /\ activeConnections = Cardinality(clients)
           /\ MaxConnections \in Nat
<1>1. IsFiniteSet(clients)
  BY FiniteClients, FS_Subset DEF IndInv, Typed, PoolTyped
<1>2. IsFiniteSet(Creating)
  BY ProcsAssumption, FS_Subset DEF ProcsAssumption, Creating
<1> QED BY <1>1, <1>2, FS_CardinalityType, Names DEF IndInv, Accounted

\* A call that starts to create a client takes a name of its own.
LEMMA CreateStep ==
    ASSUME IndInv, Typed', NEW a \in Callers, pc[a] \in {"idle", "loading"},
           Create(a, New(a)'), New(a)' \in Clients, stage[New(a)'] = "none",
           \A b \in Callers \ {a} : round'[b] = round[b], Free(a)',
           UNCHANGED <<isInitialized, poolVars, pending, client, listed, preloaded, forgotten>>
    PROVE  Rest'
<1>1. /\ pc \in [Procs -> {"idle", "creating", "request", "settled", "loading", "closing", "done"}]
      /\ stage \in [Clients -> {"none", "starting", "open", "closing", "closed"}]
      /\ a \in Procs /\ pending \subseteq Users /\ clients \subseteq Clients /\ preloaded \subseteq Clients
      /\ listed \in [Shutdowns -> SUBSET Clients]
  BY DEF IndInv, Typed, PoolTyped, StageTyped, ProcTyped, Procs
<1>2. /\ pc' = [pc EXCEPT ![a] = "creating"] /\ stage' = [stage EXCEPT ![New(a)'] = "starting"]
      /\ eased' = (eased \/ activeConnections >= MaxConnections \/ Creating # {})
  BY DEF Create, Goto
<1>3. pc'[a] = "creating" /\ \A b \in Procs \ {a} : pc'[b] = pc[b]
  BY <1>1, <1>2
<1>4. InUse' = InUse
  BY <1>3 DEF InUse, Procs, Callers
<1>5. Creating' = Creating \cup {a} /\ a \notin Creating
  BY <1>3 DEF Creating, Procs
<1>6. \A c \in Clients : stage'[c] = stage[c] \/ (stage[c] = "none" /\ stage'[c] = "starting" /\ c = New(a)')
  BY <1>1, <1>2
<1>7. Opening'
  BY <1>1, <1>3, <1>4, <1>6 DEF Opening, Taken, IndInv, poolVars, Procs, Callers
<1>8. Fresh'
  <2>1. ASSUME NEW b \in Callers PROVE Free(b)'
    <3>1. CASE b = a
      BY <3>1
    <3>2. CASE b # a
      <4>1. \A k : <<b, k>> \in Clients => stage'[<<b, k>>] = stage[<<b, k>>]
        BY <1>6, <3>2 DEF New
      <4>2. Free(b) /\ round'[b] = round[b] /\ b \in Procs
        BY <3>2, FreshIsFree DEF IndInv, Procs
      <4> QED BY <1>3, <3>2, <4>1, <4>2, StaysFree
    <3> QED BY <3>1, <3>2
  <2> QED BY <2>1, FreeIsFresh
<1>9. SoleUse' /\ KeptActive'
  BY <1>4 DEF SoleUse, KeptActive, IndInv, poolVars
<1>10. Accounted'
  BY <1>4, <1>6 DEF Accounted, IndInv, poolVars
<1>11. LimitUntilEased'
  <2> SUFFICES ASSUME ~eased' PROVE activeConnections' + Cardinality(Creating') <= MaxConnections
    BY DEF LimitUntilEased
  <2>0. ~(eased \/ activeConnections >= MaxConnections \/ Creating # {})
    BY <1>2
  <2>1. activeConnections < MaxConnections /\ Creating = {}
    BY <2>0, CountFacts
  <2>2. Cardinality(Creating') = 1
    BY <1>5, <2>1, FS_Singleton
  <2>3. activeConnections' = activeConnections
    BY DEF poolVars
  <2> QED BY <2>1, <2>2, <2>3, CountFacts
<1> QED BY <1>7, <1>8, <1>9, <1>10, <1>11 DEF Rest

\* The client is open and goes to whoever waited for it.
LEMMA OpenStep ==
    ASSUME IndInv, Typed', NEW a \in Callers, pc[a] = "creating", Opened(New(a)),
           \/ /\ a \in Users /\ pc' = [pc EXCEPT ![a] = "request"]
              /\ client' = [client EXCEPT ![a] = New(a)] /\ pending' = pending \cup {a}
              /\ UNCHANGED <<round, preloaded>>
           \/ /\ a \in Preloads /\ pc' = [pc EXCEPT ![a] = "loading"]
              /\ preloaded' = preloaded \cup {New(a)} /\ round' = [round EXCEPT ![a] = @ + 1]
              /\ UNCHANGED <<client, pending>>,
           UNCHANGED <<isInitialized, timers, listed, forgotten, eased>>
    PROVE  Rest'
<1> DEFINE n == New(a)
<1>1. /\ pc \in [Procs -> {"idle", "creating", "request", "settled", "loading", "closing", "done"}]
      /\ stage \in [Clients -> {"none", "starting", "open", "closing", "closed"}]
      /\ a \in Procs /\ pending \subseteq Users /\ clients \subseteq Clients /\ preloaded \subseteq Clients
      /\ listed \in [Shutdowns -> SUBSET Clients] /\ active \subseteq clients
      /\ client \in [Users -> Clients \cup {None}] /\ round \in [Preloads -> Nat]
  BY DEF IndInv, Typed, PoolTyped, StageTyped, ProcTyped, Procs
<1>2. /\ n \in Clients /\ stage[n] = "starting" /\ n \notin clients \cup preloaded
      /\ \A u \in InUse : client[u] # n
  BY NewIsNew DEF IndInv
<1>3. /\ stage' = [stage EXCEPT ![n] = "open"] /\ clients' = clients \cup {n}
      /\ active' = active \cup {n} /\ activeConnections' = activeConnections + 1
  BY DEF Opened
<1>4. pc'[a] \in {"request", "loading"} /\ \A b \in Procs \ {a} : pc'[b] = pc[b]
  BY <1>1
<1>5. \A c \in Clients : stage'[c] = IF c = n THEN "open" ELSE stage[c]
  BY <1>1, <1>2, <1>3
<1>6. Creating' = Creating \ {a} /\ a \in Creating
  BY <1>4 DEF Creating, Procs
<1>7. \/ a \in Users /\ InUse' = InUse \cup {a} /\ client'[a] = n /\ preloaded' = preloaded
      \/ a \in Preloads /\ InUse' = InUse /\ client' = client /\ preloaded' = preloaded \cup {n}
  <2>1. CASE a \in Users
    <3>1. pc'[a] = "request" /\ client'[a] = n /\ preloaded' = preloaded
      BY <1>1, <2>1, Names
    <3>2. InUse' = InUse \cup {a}
      BY <1>4, <2>1, <3>1, Names DEF InUse
    <3> QED BY <2>1, <3>1, <3>2
  <2>2. CASE a \in Preloads
    <3>1. a \notin Users /\ client' = client /\ preloaded' = preloaded \cup {n}
      BY <2>2, Names
    <3>2. InUse' = InUse
      BY <1>4, <3>1, Names DEF InUse
    <3> QED BY <2>2, <3>1, <3>2
  <2> QED BY <2>1, <2>2 DEF Callers
<1>8. \A u \in InUse : client'[u] = client[u] /\ u # a
  BY <1>1, <1>7 DEF InUse
<1> HIDE DEF n
<1>9. Opening'
  <2>1. \A c \in clients' \cup preloaded' : stage'[c] \in Taken
    BY <1>1, <1>2, <1>3, <1>5, <1>7 DEF Opening, IndInv, Taken
  <2>2. \A u \in InUse' : client'[u] \in Clients /\ stage'[client'[u]] \in Taken
    BY <1>2, <1>5, <1>7, <1>8 DEF Opening, IndInv, Taken
  <2>3. \A u \in pending' : pc'[u] = "request"
    BY <1>1, <1>4 DEF Opening, IndInv, Procs, Callers
  <2>4. \A d \in Shutdowns : pc'[d] = "closing" => \A c \in listed[d] : stage'[c] \in {"closing", "closed"}
    BY <1>1, <1>2, <1>4, <1>5, Names DEF Opening, IndInv
  <2> QED BY <2>1, <2>2, <2>3, <2>4 DEF Opening
<1>10. Fresh'
  <2>1. ASSUME NEW b \in Callers PROVE Free(b)'
    <3>1. CASE b = a /\ a \in Users
      BY <1>1, <3>1, Names DEF Free
    <3>2. CASE b = a /\ a \in Preloads
      <4>1. a \notin Users /\ pc'[a] = "loading" /\ round'[a] = round[a] + 1 /\ n = <<a, round[a] + 1>>
        BY <1>1, <3>2, Names DEF New, n
      <4>2. \A k \in 1..InitialConnections : k > round'[a] => stage[<<a, k>>] = "none"
        BY <3>2, <4>1 DEF IndInv, Fresh
      <4>3. \A k \in 1..InitialConnections : k > round'[a] => stage'[<<a, k>>] = "none"
        BY <1>2, <1>5, <3>2, <4>2, Names
      <4> QED BY <3>2, <4>1, <4>3 DEF Free
    <3>3. CASE b # a
      <4>1. \A k : <<b, k>> \in Clients => stage'[<<b, k>>] = stage[<<b, k>>]
        BY <1>5, <3>3 DEF New, n
      <4>2. Free(b) /\ b \in Procs
        BY FreshIsFree DEF IndInv, Procs
      <4>3. CASE b \in Preloads
        BY <1>1, <1>4, <3>3, <4>1, <4>2, <4>3, StaysFree
      <4>4. CASE b \in Users
        <5>1. b \notin Preloads /\ <<b, 1>> \in Clients
          BY <4>4, Names
        <5> QED BY <1>4, <3>3, <4>1, <4>2, <4>4, <5>1 DEF Free
      <4> QED BY <4>3, <4>4 DEF Callers
    <3> QED BY <3>1, <3>2, <3>3 DEF Callers
  <2> QED BY <2>1, FreeIsFresh
<1>11. SoleUse' /\ KeptActive'
  <2>1. \A u, v \in InUse' : client'[u] = client'[v] => u = v
    BY <1>2, <1>7, <1>8 DEF SoleUse, IndInv
  <2>2. \A u \in InUse' : client'[u] \in clients' => client'[u] \in active' \ preloaded'
    BY <1>2, <1>3, <1>7, <1>8 DEF SoleUse, IndInv
  <2>3. preloaded' \cap clients' \subseteq active'
    BY <1>2, <1>3, <1>7 DEF KeptActive, IndInv
  <2> QED BY <2>1, <2>2, <2>3 DEF SoleUse, KeptActive
<1>12. Accounted'
  <2>1. activeConnections' = Cardinality(clients')
    BY <1>2, <1>3, CountFacts, FS_AddElement
  <2>2. active' \subseteq {client'[u] : u \in InUse'} \cup preloaded'
    <3>1. {client[u] : u \in InUse} \subseteq {client'[u] : u \in InUse'}
      BY <1>7, <1>8
    <3>2. n \in {client'[u] : u \in InUse'} \cup preloaded'
      BY <1>7
    <3> QED BY <1>3, <1>7, <3>1, <3>2 DEF Accounted, IndInv
  <2>3. \A c \in Clients : stage'[c] = "open" => c \in clients' \cup forgotten'
    BY <1>3, <1>5 DEF Accounted, IndInv
  <2> QED BY <2>1, <2>2, <2>3 DEF Accounted
<1>13. LimitUntilEased'
  <2>1. Cardinality(Creating') = Cardinality(Creating) - 1
    BY <1>6, CountFacts, FS_RemoveElement
  <2> QED BY <1>3, <2>1, CountFacts DEF LimitUntilEased, IndInv, Accounted
<1> QED BY <1>9, <1>10, <1>11, <1>12, <1>13 DEF Rest

\* The typed facts each of the following lemmas uses.
LEMMA Facts ==
    ASSUME IndInv
    PROVE  /\ pc \in [Procs -> {"idle", "creating", "request", "settled", "loading", "closing", "done"}]
           /\ stage \in [Clients -> {"none", "starting", "open", "closing", "closed"}]
           /\ pending \subseteq Users /\ clients \subseteq Clients /\ preloaded \subseteq Clients
           /\ listed \in [Shutdowns -> SUBSET Clients] /\ active \subseteq clients
           /\ client \in [Users -> Clients \cup {None}] /\ round \in [Preloads -> Nat]
           /\ Callers \subseteq Procs /\ Shutdowns \subseteq Procs /\ Users \subseteq Callers
           /\ Preloads \subseteq Callers /\ Users \cap Preloads = {} /\ Callers \cap Shutdowns = {}
BY ProcsAssumption DEF IndInv, Typed, PoolTyped, StageTyped, ProcTyped, Procs, Callers, ProcsAssumption

\* An idle client goes to an operation, or to preload, which keeps it.
LEMMA ReuseStep ==
    ASSUME IndInv, Typed', NEW a \in Callers, NEW c \in Clients, Reuse(a, c),
           pc[a] \in {"idle", "loading"},
           \/ /\ a \in Users /\ client' = [client EXCEPT ![a] = c]
              /\ \/ pending' = pending \cup {a} /\ pc' = [pc EXCEPT ![a] = "request"]
                 \/ pending' = pending /\ pc' = [pc EXCEPT ![a] = "settled"]
              /\ UNCHANGED <<round, preloaded>>
           \/ /\ a \in Preloads /\ pc' = [pc EXCEPT ![a] = "loading"]
              /\ preloaded' = preloaded \cup {c} /\ round' = [round EXCEPT ![a] = Done(a) + 1]
              /\ UNCHANGED <<client, pending>>,
           UNCHANGED <<isInitialized, stage, listed, forgotten>>
    PROVE  Rest'
<1>1. /\ c \in clients /\ c \notin active /\ active' = active \cup {c}
      /\ UNCHANGED <<clients, activeConnections, timers, eased>>
  BY DEF Reuse, Idle
<1>2. /\ pc'[a] \in {"request", "settled", "loading"} /\ \A b \in Procs \ {a} : pc'[b] = pc[b]
      /\ a \in Procs
  BY Facts
<1>3. Creating' = Creating
  BY <1>2, Facts DEF Creating
<1>4. \/ a \in Users /\ InUse' = InUse \cup {a} /\ client'[a] = c /\ preloaded' = preloaded
      \/ a \in Preloads /\ InUse' = InUse /\ client' = client /\ preloaded' = preloaded \cup {c}
  <2>1. CASE a \in Users
    <3>1. pc'[a] \in {"request", "settled"} /\ client'[a] = c /\ preloaded' = preloaded
      BY <2>1, Facts
    <3>2. InUse' = InUse \cup {a}
      BY <1>2, <2>1, <3>1, Facts DEF InUse
    <3> QED BY <2>1, <3>1, <3>2
  <2>2. CASE a \in Preloads
    <3>1. a \notin Users /\ client' = client /\ preloaded' = preloaded \cup {c}
      BY <2>2, Facts
    <3>2. InUse' = InUse
      BY <1>2, <3>1, Facts DEF InUse
    <3> QED BY <2>2, <3>1, <3>2
  <2> QED BY <2>1, <2>2 DEF Callers
<1>5. a \notin InUse /\ \A u \in InUse : client'[u] = client[u] /\ client[u] # c
  <2>1. a \notin InUse
    BY DEF InUse
  <2>2. \A u \in InUse : client'[u] = client[u]
    BY <1>4, <2>1, Facts DEF InUse
  <2>3. \A u \in InUse : client[u] # c
    BY <1>1 DEF IndInv, SoleUse
  <2> QED BY <2>1, <2>2, <2>3
<1>6. Opening'
  <2>1. \A d \in clients' \cup preloaded' : stage'[d] \in Taken
    BY <1>1, <1>4 DEF Opening, IndInv
  <2>2. \A u \in InUse' : client'[u] \in Clients /\ stage'[client'[u]] \in Taken
    BY <1>1, <1>4, <1>5 DEF Opening, IndInv
  <2>3. \A u \in pending' : pc'[u] = "request"
    BY <1>2, Facts DEF Opening, IndInv
  <2>4. \A d \in Shutdowns : pc'[d] = "closing" => \A x \in listed'[d] : stage'[x] \in {"closing", "closed"}
    BY <1>2, Facts DEF Opening, IndInv
  <2> QED BY <2>1, <2>2, <2>3, <2>4 DEF Opening
<1>7. Fresh'
  <2>1. ASSUME NEW b \in Callers PROVE Free(b)'
    <3>1. CASE b = a /\ a \in Users
      <4>1. pc'[a] \in {"request", "settled"} /\ a \notin Preloads
        BY <3>1, Facts
      <4> QED BY <3>1, <4>1 DEF Free
    <3>2. CASE b = a /\ a \in Preloads
      <4>1. /\ a \notin Users /\ pc'[a] = "loading" /\ round'[a] = Done(a) + 1 /\ stage' = stage
            /\ Free(a) /\ Done(a) \in Nat
        BY <3>2, FreshIsFree, DoneTyped, Facts DEF IndInv
      <4>2. \A k \in 1..InitialConnections : k > Done(a) + 1 => stage[<<a, k>>] = "none"
        <5>1. CASE pc[a] = "idle"
          BY <3>2, <4>1, <5>1 DEF Free
        <5>2. CASE pc[a] = "loading"
          <6>1. Done(a) = round[a]
            BY <5>2 DEF Done
          <6>2. \A k \in 1..InitialConnections : k > Done(a) + 1 => k > round[a]
            BY <4>1, <6>1
          <6> QED BY <3>2, <4>1, <5>2, <6>2 DEF Free
        <5> QED BY <5>1, <5>2
      <4> QED BY <3>2, <4>1, <4>2 DEF Free
    <3>3. CASE b # a
      <4>1. Free(b) /\ b \in Procs /\ pc'[b] = pc[b] /\ stage' = stage
        BY <1>2, <3>3, FreshIsFree, Facts DEF IndInv
      <4>2. b \in Preloads => round'[b] = round[b]
        BY <3>3, Facts
      <4> QED BY <4>1, <4>2 DEF Free
    <3> QED BY <3>1, <3>2, <3>3 DEF Callers
  <2> QED BY <2>1, FreeIsFresh
<1>8. SoleUse' /\ KeptActive'
  <2>1. \A u, v \in InUse' : client'[u] = client'[v] => u = v
    BY <1>4, <1>5 DEF SoleUse, IndInv
  <2>2. c \notin preloaded
    BY <1>1 DEF KeptActive, IndInv
  <2>3. \A u \in InUse' : client'[u] \in clients' => client'[u] \in active' \ preloaded'
    BY <1>1, <1>4, <1>5, <2>2 DEF SoleUse, IndInv
  <2>4. preloaded' \cap clients' \subseteq active'
    BY <1>1, <1>4 DEF KeptActive, IndInv
  <2> QED BY <2>1, <2>3, <2>4 DEF SoleUse, KeptActive
<1>9. Accounted'
  <2>1. {client[u] : u \in InUse} \subseteq {client'[u] : u \in InUse'}
    BY <1>4, <1>5
  <2>2. c \in {client'[u] : u \in InUse'} \cup preloaded'
    BY <1>4
  <2>3. active' \subseteq {client'[u] : u \in InUse'} \cup preloaded'
    BY <1>1, <1>4, <2>1, <2>2 DEF Accounted, IndInv
  <2> QED BY <1>1, <2>3 DEF Accounted, IndInv
<1>10. LimitUntilEased'
  BY <1>1, <1>3 DEF LimitUntilEased, IndInv
<1> QED BY <1>6, <1>7, <1>8, <1>9, <1>10 DEF Rest

\* A request is answered, and the client goes back.
LEMMA SettleStep ==
    ASSUME IndInv, Typed', NEW u \in Users, Settle(u) \/ Release(u)
    PROVE  Rest'
<1>1. /\ u \in InUse /\ pc'[u] \in {"settled", "done"} /\ \A b \in Procs \ {u} : pc'[b] = pc[b]
      /\ UNCHANGED <<clients, activeConnections, stage, procVars, histVars>>
  BY Facts DEF Settle, Release, Goto, InUse, poolVars
<1>2. \/ InUse' = InUse /\ pending' = pending \ {u} /\ active' = active
      \/ /\ InUse' = InUse \ {u} /\ pending' = pending /\ pc[u] = "settled"
         /\ active' = IF client[u] \in clients THEN active \ {client[u]} ELSE active
  <2>1. CASE Settle(u)
    <3>1. pc'[u] = "settled"
      BY <2>1, Facts DEF Settle, Goto
    <3> QED BY <1>1, <2>1, <3>1, Facts DEF Settle, InUse, poolVars
  <2>2. CASE Release(u)
    <3>1. pc'[u] = "done"
      BY <2>2, Facts DEF Release, Goto
    <3> QED BY <1>1, <2>2, <3>1, Facts DEF Release, InUse
  <2> QED BY <2>1, <2>2
<1>3. Creating' = Creating
  BY <1>1, Facts DEF Creating, InUse
<1>4. Opening'
  <2>1. \A v \in pending' : pc'[v] = "request"
    BY <1>1, <1>2, Facts DEF Opening, IndInv
  <2> QED BY <1>1, <1>2, <2>1, Facts DEF Opening, IndInv, procVars, histVars
<1>5. Fresh'
  <2>1. ASSUME NEW b \in Callers PROVE Free(b)'
    <3>1. Free(b) /\ b \in Procs /\ stage' = stage /\ round' = round
      BY <1>1, FreshIsFree, Facts DEF IndInv, procVars
    <3> QED BY <1>1, <3>1, Facts DEF Free
  <2> QED BY <2>1, FreeIsFresh
<1>6. SoleUse' /\ KeptActive'
  <2>1. SoleUse'
    BY <1>1, <1>2 DEF SoleUse, IndInv, procVars, histVars
  <2>2. client[u] \in clients => client[u] \notin preloaded
    BY <1>1 DEF SoleUse, IndInv
  <2>3. KeptActive'
    BY <1>1, <1>2, <2>2 DEF KeptActive, IndInv, histVars
  <2> QED BY <2>1, <2>3
<1>7. Accounted'
  <2>1. active' \subseteq {client'[v] : v \in InUse'} \cup preloaded'
    BY <1>1, <1>2, Facts DEF Accounted, IndInv, procVars, histVars
  <2> QED BY <1>1, <2>1 DEF Accounted, IndInv, histVars
<1>8. LimitUntilEased'
  BY <1>1, <1>3 DEF LimitUntilEased, IndInv, histVars
<1> QED BY <1>4, <1>5, <1>6, <1>7, <1>8 DEF Rest

\* The clients of S begin to close, or are closed already.
LEMMA CloseFacts ==
    ASSUME IndInv, NEW S \in SUBSET Clients, Close(S)
    PROVE  /\ \A c \in Clients : stage[c] \in Taken => stage'[c] \in Taken
           /\ \A c \in Clients : stage[c] \in {"closing", "closed"} => stage'[c] \in {"closing", "closed"}
           /\ \A c \in S : stage[c] \in Taken => stage'[c] \in {"closing", "closed"}
           /\ \A c \in Clients : stage'[c] = "open" => stage[c] = "open" /\ c \notin S
           /\ \A c \in Clients : stage[c] \in {"none", "starting"} => stage'[c] = stage[c]
BY Facts DEF Close, Taken

\* Names stay free when clients that were opened close.
LEMMA StillFree ==
    ASSUME IndInv, \A a \in Callers : pc'[a] = pc[a] \/ pc'[a] \notin {"idle", "creating", "loading"},
           round' = round,
           \A c \in Clients : stage[c] \in {"none", "starting"} => stage'[c] = stage[c]
    PROVE  Fresh'
<1>1. ASSUME NEW a \in Callers PROVE Free(a)'
  BY FreshIsFree, StaysFree DEF IndInv
<1> QED BY <1>1, FreeIsFresh

\* The server of a client ends, and all that is pending there is settled.
LEMMA CleanupStep ==
    ASSUME IndInv, Typed', NEW c \in Clients, stage[c] \in {"open", "closing"}, Cleanup(c),
           UNCHANGED <<isInitialized, poolVars, timers, procVars, histVars>>
    PROVE  Rest'
<1>1. \A d \in Clients : stage'[d] = IF d = c THEN "closed" ELSE stage[d]
  BY Facts DEF Cleanup
<1>2. \A p \in Procs : pc'[p] = pc[p] \/ (p \in Users /\ pc[p] = "request" /\ pc'[p] = "settled")
  BY Facts DEF Cleanup, Asking, IndInv, Opening
<1>3. InUse' = InUse /\ Creating' = Creating
  BY <1>2, Facts DEF InUse, Creating
<1>4. Opening'
  <2>1. \A u \in pending' : pc'[u] = "request"
    BY Facts DEF Cleanup, IndInv, Opening
  <2>2. \A d \in Shutdowns : pc'[d] = "closing" => pc[d] = "closing"
    BY <1>2, Facts
  <2>3. \A d \in Shutdowns : pc'[d] = "closing" => \A x \in listed'[d] : stage'[x] \in {"closing", "closed"}
    BY <1>1, <2>2, Facts DEF IndInv, Opening, procVars
  <2>4. \A x \in clients' \cup preloaded' : stage'[x] \in Taken
    BY <1>1, Facts DEF IndInv, Opening, Taken, poolVars, histVars
  <2>5. \A u \in InUse' : client'[u] \in Clients /\ stage'[client'[u]] \in Taken
    BY <1>1, <1>3, Facts DEF IndInv, Opening, Taken, procVars
  <2> QED BY <2>1, <2>3, <2>4, <2>5 DEF Opening
<1>5. Fresh'
  <2>1. \A a \in Callers : pc'[a] = pc[a] \/ pc'[a] \notin {"idle", "creating", "loading"}
    BY <1>2, Facts
  <2> QED BY <1>1, <2>1, StillFree DEF procVars
<1>6. SoleUse' /\ KeptActive'
  BY <1>3 DEF SoleUse, KeptActive, IndInv, poolVars, procVars, histVars
<1>7. Accounted'
  BY <1>1, <1>3 DEF Accounted, IndInv, poolVars, procVars, histVars
<1>8. LimitUntilEased'
  BY <1>3 DEF LimitUntilEased, IndInv, poolVars, histVars
<1> QED BY <1>4, <1>5, <1>6, <1>7, <1>8 DEF Rest

\* A timer closes idle clients and takes as many off the count.
LEMMA TimerStep ==
    ASSUME IndInv, Typed', CleanupIdle
    PROVE  Rest'
<1>1. PICK S \in SUBSET Idle :
        /\ clients' = clients \ S /\ activeConnections' = activeConnections - Cardinality(S) /\ Close(S)
  BY DEF CleanupIdle
<1>2. UNCHANGED <<isInitialized, active, pending, pc, procVars, histVars>>
  BY DEF CleanupIdle
<1>3. S \subseteq clients /\ S \cap active = {} /\ S \in SUBSET Clients
  BY <1>1, Facts DEF Idle
<1>4. InUse' = InUse /\ Creating' = Creating
  BY <1>2 DEF InUse, Creating
<1>5. IsFiniteSet(S) /\ Cardinality(S) \in Nat /\ activeConnections' = Cardinality(clients')
  <2>1. IsFiniteSet(S) /\ Cardinality(S) \in Nat
    BY <1>3, CountFacts, FS_Subset, FS_CardinalityType
  <2>2. Cardinality(clients \ S) = Cardinality(clients) - Cardinality(clients \cap S)
    BY CountFacts, FS_Difference
  <2>3. clients \cap S = S
    BY <1>3
  <2> QED BY <1>1, <2>1, <2>2, <2>3, CountFacts
<1>6. Opening'
  <2>1. \A x \in clients' \cup preloaded' : stage'[x] \in Taken
    BY <1>1, <1>2, <1>3, CloseFacts, Facts DEF IndInv, Opening, histVars
  <2>2. \A u \in InUse' : client'[u] \in Clients /\ stage'[client'[u]] \in Taken
    BY <1>1, <1>2, <1>3, <1>4, CloseFacts DEF IndInv, Opening, procVars
  <2>3. \A u \in pending' : pc'[u] = "request"
    BY <1>2 DEF IndInv, Opening
  <2>4. \A d \in Shutdowns : pc'[d] = "closing" => \A x \in listed'[d] : stage'[x] \in {"closing", "closed"}
    BY <1>1, <1>2, <1>3, CloseFacts, Facts DEF IndInv, Opening, procVars
  <2> QED BY <2>1, <2>2, <2>3, <2>4 DEF Opening
<1>7. Fresh'
  <2>1. \A x \in Clients : stage[x] \in {"none", "starting"} => stage'[x] = stage[x]
    BY <1>1, <1>3, CloseFacts
  <2> QED BY <1>2, <2>1, StillFree DEF procVars
<1>8. SoleUse' /\ KeptActive'
  BY <1>1, <1>2, <1>4 DEF SoleUse, KeptActive, IndInv, procVars, histVars
<1>9. Accounted'
  <2>1. active' \subseteq {client'[v] : v \in InUse'} \cup preloaded'
    BY <1>2, <1>4 DEF Accounted, IndInv, procVars, histVars
  <2>2. \A x \in Clients : stage'[x] = "open" => x \in clients' \cup forgotten'
    BY <1>1, <1>2, <1>3, CloseFacts DEF Accounted, IndInv, histVars
  <2> QED BY <1>5, <2>1, <2>2 DEF Accounted
<1>10. LimitUntilEased'
  BY <1>1, <1>2, <1>4, <1>5, CountFacts DEF LimitUntilEased, IndInv, histVars
<1> QED BY <1>6, <1>7, <1>8, <1>9, <1>10 DEF Rest

\* A shutdown begins to close all that the pool holds.
LEMMA ShutdownStep ==
    ASSUME IndInv, Typed', NEW d \in Shutdowns, Shutdown(d)
    PROVE  Rest'
<1>1. /\ listed' = [listed EXCEPT ![d] = clients] /\ Close(clients) /\ pc' = [pc EXCEPT ![d] = "closing"]
      /\ UNCHANGED <<poolVars, pending, client, round, histVars>>
  BY DEF Shutdown, Goto
<1>2. \A a \in Callers : pc'[a] = pc[a]
  BY <1>1, Facts
<1>3. InUse' = InUse /\ Creating' = Creating
  BY <1>2, Facts DEF InUse, Creating
<1>4. clients \in SUBSET Clients
  BY Facts
<1>5. Opening'
  <2>1. \A x \in clients' \cup preloaded' : stage'[x] \in Taken
    BY <1>1, <1>4, CloseFacts, Facts DEF IndInv, Opening, poolVars, histVars
  <2>2. \A u \in InUse' : client'[u] \in Clients /\ stage'[client'[u]] \in Taken
    BY <1>1, <1>3, <1>4, CloseFacts DEF IndInv, Opening
  <2>3. \A u \in pending' : pc'[u] = "request"
    BY <1>1, <1>2, Facts DEF IndInv, Opening
  <2>4. ASSUME NEW x \in Shutdowns, pc'[x] = "closing", NEW c \in listed'[x]
        PROVE  stage'[c] \in {"closing", "closed"}
    <3>1. CASE x = d
      BY <1>1, <1>4, <2>4, <3>1, CloseFacts, Facts DEF IndInv, Opening
    <3>2. CASE x # d
      <4>1. pc[x] = "closing" /\ c \in listed[x] /\ c \in Clients
        BY <1>1, <2>4, <3>2, Facts
      <4> QED BY <1>1, <1>4, <4>1, CloseFacts DEF IndInv, Opening
    <3> QED BY <3>1, <3>2
  <2> QED BY <2>1, <2>2, <2>3, <2>4 DEF Opening
<1>6. Fresh'
  <2>1. \A x \in Clients : stage[x] \in {"none", "starting"} => stage'[x] = stage[x]
    BY <1>1, <1>4, CloseFacts
  <2> QED BY <1>1, <1>2, <2>1, StillFree
<1>7. SoleUse' /\ KeptActive'
  BY <1>1, <1>3 DEF SoleUse, KeptActive, IndInv, poolVars, histVars
<1>8. Accounted'
  BY <1>1, <1>3, <1>4, CloseFacts DEF Accounted, IndInv, poolVars, histVars
<1>9. LimitUntilEased'
  BY <1>1, <1>3 DEF LimitUntilEased, IndInv, poolVars, histVars
<1> QED BY <1>5, <1>6, <1>7, <1>8, <1>9 DEF Rest

\* A shutdown ends: what it did not list is forgotten, open or not.
LEMMA ShutdownEndStep ==
    ASSUME IndInv, Typed', NEW d \in Shutdowns, ShutdownEnds(d)
    PROVE  Rest'
<1>1. /\ pc[d] = "closing" /\ \A c \in listed[d] : stage[c] # "closing"
      /\ forgotten' = forgotten \cup (clients \ listed[d])
      /\ clients' = {} /\ active' = {} /\ activeConnections' = 0 /\ pc' = [pc EXCEPT ![d] = "done"]
      /\ UNCHANGED <<stage, pending, procVars, preloaded, eased>>
  BY DEF ShutdownEnds, Goto
<1>2. (\A a \in Callers : pc'[a] = pc[a]) /\ (\A x \in Shutdowns : pc'[x] = "closing" => pc[x] = "closing")
  BY <1>1, Facts
<1>3. InUse' = InUse /\ Creating' = Creating
  BY <1>2, Facts DEF InUse, Creating
<1>4. Opening'
  <2>1. \A u \in pending' : pc'[u] = "request"
    BY <1>1, <1>2, Facts DEF IndInv, Opening
  <2> QED BY <1>1, <1>2, <1>3, <2>1 DEF Opening, IndInv, procVars
<1>5. Fresh'
  BY <1>1, <1>2, StillFree DEF procVars
<1>6. SoleUse' /\ KeptActive'
  BY <1>1, <1>3 DEF SoleUse, KeptActive, IndInv, procVars
<1>7. Accounted'
  <2>1. Cardinality({}) = 0
    BY FS_EmptySet
  <2>2. ASSUME NEW c \in Clients, stage'[c] = "open" PROVE c \in forgotten'
    <3>1. stage[c] = "open" /\ c \in clients \cup forgotten
      BY <1>1, <2>2 DEF Accounted, IndInv
    <3>2. c \notin listed[d]
      BY <1>1, <3>1, Facts DEF Opening, IndInv
    <3> QED BY <1>1, <3>1, <3>2
  <2> QED BY <1>1, <2>1, <2>2 DEF Accounted
<1>8. LimitUntilEased'
  BY <1>1, <1>3, CountFacts DEF LimitUntilEased, IndInv
<1> QED BY <1>4, <1>5, <1>6, <1>7, <1>8 DEF Rest

-----------------------------------------------------------------------------
(* All steps together *)

LEMMA GettingStep ==
    ASSUME IndInv, Typed', NEW u \in Users, Getting(u)
    PROVE  Rest'
<1>1. u \in Callers /\ u \in Procs /\ u \notin Preloads /\ <<u, 1>> \in Clients /\ New(u) = <<u, 1>> /\ New(u)' = <<u, 1>>
  BY Names DEF New, Callers
<1>2. CASE GetWithIdle(u)
  <2>1. PICK c \in Clients : Reuse(u, c) /\ Ask(u, c)
    BY <1>2 DEF GetWithIdle
  <2>2. /\ client' = [client EXCEPT ![u] = c]
        /\ \/ pending' = pending \cup {u} /\ pc' = [pc EXCEPT ![u] = "request"]
           \/ pending' = pending /\ pc' = [pc EXCEPT ![u] = "settled"]
    BY <2>1 DEF Ask, Goto
  <2>3. pc[u] = "idle" /\ UNCHANGED <<isInitialized, stage, round, listed, preloaded, forgotten>>
    BY <1>2 DEF GetWithIdle
  <2> QED BY <1>1, <2>1, <2>2, <2>3, ReuseStep
<1>3. CASE GetWithNew(u)
  <2>1. /\ pc[u] = "idle" /\ Create(u, <<u, 1>>)
        /\ UNCHANGED <<isInitialized, poolVars, pending, procVars, preloaded, forgotten>>
    BY <1>3 DEF GetWithNew
  <2>2. stage[<<u, 1>>] = "none"
    BY <2>1 DEF IndInv, Fresh
  <2>3. pc'[u] = "creating" /\ stage'[<<u, 1>>] = "starting"
    BY <1>1, <2>1, Facts DEF Create, Goto
  <2>4. Free(u)'
    BY <1>1, <2>3 DEF Free
  <2> QED BY <1>1, <2>1, <2>2, <2>4, CreateStep DEF procVars
<1>4. CASE GetRefused(u)
  BY <1>1, <1>4, EndStep DEF GetRefused, Goto
<1>5. CASE Created(u)
  <2>1. /\ pc[u] = "creating" /\ Opened(<<u, 1>>) /\ client' = [client EXCEPT ![u] = <<u, 1>>]
        /\ pending' = pending \cup {u} /\ pc' = [pc EXCEPT ![u] = "request"]
        /\ UNCHANGED <<isInitialized, timers, round, listed, histVars>>
    BY <1>5 DEF Created, Goto
  <2> QED BY <1>1, <2>1, OpenStep DEF histVars
<1>6. CASE CreateFails(u)
  BY <1>1, <1>6, EndStep DEF CreateFails, Goto
<1>7. CASE Settle(u) \/ Release(u)
  BY <1>7, SettleStep
<1> QED BY <1>2, <1>3, <1>4, <1>5, <1>6, <1>7 DEF Getting

LEMMA PreloadingStep ==
    ASSUME IndInv, Typed', NEW p \in Preloads, Preloading(p)
    PROVE  Rest'
<1>1. /\ p \in Callers /\ p \in Procs /\ p \notin Users
      /\ New(p) = <<p, round[p] + 1>> /\ New(p)' = <<p, round'[p] + 1>>
  BY Names DEF New, Callers
<1>2. CASE PreloadIdle(p)
  <2>1. PICK c \in Clients : Reuse(p, c) /\ preloaded' = preloaded \cup {c}
    BY <1>2 DEF PreloadIdle
  <2>2. /\ pc[p] \in {"idle", "loading"} /\ round' = [round EXCEPT ![p] = Done(p) + 1]
        /\ pc' = [pc EXCEPT ![p] = "loading"]
        /\ UNCHANGED <<isInitialized, stage, pending, client, listed, forgotten>>
    BY <1>2 DEF PreloadIdle, Loading, Goto
  <2> QED BY <1>1, <2>1, <2>2, ReuseStep
<1>3. CASE PreloadNew(p)
  <2>1. /\ pc[p] \in {"idle", "loading"} /\ Done(p) < InitialConnections /\ Create(p, <<p, Done(p) + 1>>)
        /\ round' = [round EXCEPT ![p] = Done(p)]
        /\ UNCHANGED <<isInitialized, poolVars, pending, client, listed, preloaded, forgotten>>
    BY <1>3 DEF PreloadNew, Loading
  <2>2. Done(p) \in Nat /\ Done(p) + 1 \in 1..InitialConnections
    BY <2>1, DoneTyped, Names DEF IndInv
  <2>3. round'[p] = Done(p) /\ New(p)' = <<p, Done(p) + 1>> /\ New(p)' \in Clients
    BY <1>1, <2>1, <2>2, Facts, Names
  <2>4. \A k \in 1..InitialConnections : k > Done(p) => stage[<<p, k>>] = "none"
    <3>1. pc[p] = "loading" => Done(p) = round[p]
      BY DEF Done
    <3> QED BY <2>1, <3>1 DEF IndInv, Fresh
  <2>5. stage[New(p)'] = "none"
    BY <2>2, <2>3, <2>4
  <2>6. pc'[p] = "creating" /\ \A c \in Clients : stage'[c] = IF c = New(p)' THEN "starting" ELSE stage[c]
    BY <1>1, <2>1, <2>3, Facts DEF Create, Goto
  <2>7. Free(p)'
    <3>1. \A k \in 1..InitialConnections : k > Done(p) + 1 => stage'[<<p, k>>] = "none"
      BY <2>2, <2>3, <2>4, <2>6, Names
    <3> QED BY <1>1, <2>1, <2>3, <2>6, <3>1 DEF Free
  <2>8. \A b \in Callers \ {p} : round'[b] = round[b]
    <3>1. round \in [Preloads -> Nat]
      BY Facts
    <3> QED BY <2>1, <3>1
  <2> QED BY <1>1, <2>1, <2>3, <2>5, <2>7, <2>8, CreateStep
<1>4. CASE Preloaded(p)
  <2>1. /\ pc[p] = "creating" /\ Opened(<<p, round[p] + 1>>)
        /\ preloaded' = preloaded \cup {<<p, round[p] + 1>>} /\ round' = [round EXCEPT ![p] = @ + 1]
        /\ pc' = [pc EXCEPT ![p] = "loading"]
        /\ UNCHANGED <<isInitialized, timers, pending, client, listed, forgotten, eased>>
    BY <1>4 DEF Preloaded, Goto
  <2> QED BY <1>1, <2>1, OpenStep
<1>5. CASE PreloadFails(p)
  <2>1. /\ pc[p] \in {"idle", "loading", "creating"} /\ pc' = [pc EXCEPT ![p] = "done"]
        /\ stage' = stage \/ (pc[p] = "creating" /\ stage' = [stage EXCEPT ![New(p)] = "closed"])
        /\ UNCHANGED <<isInitialized, poolVars, timers, pending, procVars, histVars>>
    BY <1>1, <1>5 DEF PreloadFails, Loading, Goto
  <2> QED BY <1>1, <2>1, EndStep
<1>6. CASE Initialized(p)
  <2>1. /\ pc[p] \in {"idle", "loading"} /\ pc' = [pc EXCEPT ![p] = "done"]
        /\ UNCHANGED <<poolVars, timers, stage, pending, procVars, histVars>>
    BY <1>6 DEF Initialized, Goto
  <2> QED BY <1>1, <2>1, EndStep
<1> QED BY <1>2, <1>3, <1>4, <1>5, <1>6 DEF Preloading

LEMMA InitHolds == Init => IndInv
<1> SUFFICES ASSUME Init PROVE IndInv
  OBVIOUS
<1>1. InUse = {} /\ Creating = {}
  BY Names DEF Init, InUse, Creating, Callers
<1>2. Typed
  <2>1. PoolTyped /\ StageTyped
    <3>1. stage = [c \in Clients |-> "none"]
      BY DEF Init
    <3>2. StageTyped
      BY <3>1 DEF StageTyped
    <3>3. isInitialized = FALSE /\ eased = FALSE /\ active = {} /\ clients = {} /\ activeConnections = 0 /\ timers = 0
      BY DEF Init
    <3>4. isInitialized \in BOOLEAN /\ eased \in BOOLEAN
      BY <3>3
    <3>5. active \subseteq clients /\ clients \subseteq Clients /\ activeConnections \in Int /\ timers \in Nat
      BY <3>3
    <3> QED BY <3>2, <3>4, <3>5 DEF PoolTyped
  <2>2. pc \in [Procs -> {"idle", "creating", "request", "settled", "loading", "closing", "done"}]
    BY DEF Init
  <2>3. client \in [Users -> Clients \cup {None}] /\ round \in [Preloads -> Nat]
    BY DEF Init
  <2>4. listed \in [Shutdowns -> SUBSET Clients]
    BY DEF Init
  <2>5. pending \subseteq Users /\ preloaded \subseteq Clients /\ forgotten \subseteq Clients
    BY DEF Init
  <2> QED BY <2>1, <2>2, <2>3, <2>4, <2>5 DEF Typed, ProcTyped
<1>3. Opening /\ SoleUse /\ KeptActive
  BY <1>1, Names DEF Init, Opening, SoleUse, KeptActive
<1>4. Fresh
  BY Names DEF Init, Fresh
<1>5. Accounted /\ LimitUntilEased
  BY <1>1, Names, FS_EmptySet DEF Init, Accounted, LimitUntilEased
<1> QED BY <1>2, <1>3, <1>4, <1>5 DEF IndInv

LEMMA StepHolds == IndInv /\ [Next]_vars => IndInv'
<1> SUFFICES ASSUME IndInv, [Next]_vars PROVE IndInv'
  OBVIOUS
<1>1. Typed'
  BY TypesStep
<1>2. Rest'
  <2>1. CASE UNCHANGED vars
    <3>1. InUse' = InUse /\ Creating' = Creating
      BY <2>1 DEF InUse, Creating, vars
    <3> QED BY <2>1, <3>1 DEF vars, poolVars, procVars, histVars, IndInv, Rest, Opening, Fresh, SoleUse,
                              KeptActive, Accounted, LimitUntilEased
  <2>2. ASSUME NEW u \in Users, Getting(u) PROVE Rest'
    BY <1>1, <2>2, GettingStep
  <2>3. ASSUME NEW p \in Preloads, Preloading(p) PROVE Rest'
    BY <1>1, <2>3, PreloadingStep
  <2>4. ASSUME NEW d \in Shutdowns, Shutdown(d) \/ ShutdownEnds(d) PROVE Rest'
    BY <1>1, <2>4, ShutdownStep, ShutdownEndStep
  <2>5. ASSUME NEW c \in Clients, Exit(c) \/ Closed(c) PROVE Rest'
    BY <1>1, <2>5, CleanupStep DEF Exit, Closed
  <2>6. CASE CleanupIdle
    BY <1>1, <2>6, TimerStep
  <2> QED BY <2>1, <2>2, <2>3, <2>4, <2>5, <2>6 DEF Next
<1> QED BY <1>1, <1>2 DEF IndInv, Rest

-----------------------------------------------------------------------------
(* The theorems *)

\* Every reachable state satisfies the invariant the others rest on.
THEOREM Invariance == Spec => []IndInv
BY InitHolds, StepHolds, PTL DEF Spec

\* Every variable keeps its type, and isActive is only set on clients of the pool.
THEOREM TypeCorrect == Spec => []TypeOK
<1>1. IndInv => TypeOK
  BY TypedMeansTypeOK DEF IndInv
<1> QED BY <1>1, Invariance, PTL

\* acquire never gives two operations the same client, nor one that a preload
\* keeps, and cleanupIdleConnections closes nothing that is in use.
THEOREM ClientsAreNotShared == Spec => []SoleUse
<1>1. IndInv => SoleUse
  BY DEF IndInv
<1> QED BY <1>1, Invariance, PTL

\* activeConnections is the size of the map, whatever fails, exits or is cleaned
\* up; a server that runs is in the map, or a shutdown cleared it away.
THEOREM NothingIsLostTrackOf == Spec => []Accounted
<1>1. IndInv => Accounted
  BY DEF IndInv
<1> QED BY <1>1, Invariance, PTL

\* maxConnections bounds what is open and being created as long as no acquire
\* recycled at the limit and no two creations overlapped.
THEOREM LimitHoldsUntilEased == Spec => []LimitUntilEased
<1>1. IndInv => LimitUntilEased
  BY DEF IndInv
<1> QED BY <1>1, Invariance, PTL

-----------------------------------------------------------------------------
(* The pool implements ResourcePool: what each step is there. *)

LEMMA ClientsAreSomething == None \notin Clients
<1>1. \A a, b : <<a, b>> # <<>>
  OBVIOUS
<1> QED BY <1>1 DEF Clients, None

\* What an operation holds.
LEMMA Holds ==
    ASSUME IndInv
    PROVE  \A u \in Users : /\ u \in InUse => PoolHeld[u] = client[u] /\ client[u] \in Clients
                            /\ u \notin InUse => PoolHeld[u] = None
BY DEF PoolHeld, IndInv, Opening

\* Who is in use, and of what, decides what is held.
LEMMA HeldSame ==
    ASSUME InUse' = InUse, \A u \in InUse : client'[u] = client[u]
    PROVE  PoolHeld' = PoolHeld
BY DEF PoolHeld

LEMMA HeldBy ==
    ASSUME NEW u \in Users, InUse' \cup {u} = InUse \cup {u},
           \A v \in Users \ {u} : client'[v] = client[v]
    PROVE  PoolHeld' = [PoolHeld EXCEPT ![u] = IF u \in InUse' THEN client'[u] ELSE None]
<1>1. \A v \in Users \ {u} : v \in InUse' <=> v \in InUse
  OBVIOUS
<1> QED BY <1>1 DEF PoolHeld

\* Only the answer to initialize, or its failure, makes a client; the rest of
\* its life is behind it then.
LEMMA MadeSame ==
    ASSUME \A c \in Clients : stage'[c] \in {"none", "starting"} <=> stage[c] \in {"none", "starting"}
    PROVE  PoolMade' = PoolMade
BY DEF PoolMade

LEMMA MadeNew ==
    ASSUME IndInv, NEW c \in Clients, stage[c] = "starting", NEW e \in Taken,
           stage' = [stage EXCEPT ![c] = e]
    PROVE  c \notin PoolMade /\ PoolMade' = PoolMade \cup {c}
<1>1. stage'[c] \notin {"none", "starting"} /\ \A d \in Clients \ {c} : stage'[d] = stage[d]
  BY Facts DEF Taken
<1> QED BY <1>1 DEF PoolMade

LEMMA Stutters ==
    ASSUME Idle' = Idle, PoolHeld' = PoolHeld, PoolMade' = PoolMade
    PROVE  [P!PoolNext]_P!poolVars
BY DEF P!poolVars

LEMMA Retires ==
    ASSUME Idle' \subseteq Idle, PoolHeld' = PoolHeld, PoolMade' = PoolMade
    PROVE  [P!PoolNext]_P!poolVars
BY DEF P!PoolNext, P!Retire

\* A client whose server did not come up, or that preload keeps, is never free.
LEMMA MakesForNobody ==
    ASSUME NEW c \in Clients, c \notin PoolMade, PoolMade' = PoolMade \cup {c},
           Idle' = Idle, PoolHeld' = PoolHeld
    PROVE  [P!PoolNext]_P!poolVars
BY DEF P!PoolNext, P!Make

LEMMA GettingRefines ==
    ASSUME IndInv, NEW u \in Users, Getting(u)
    PROVE  [P!PoolNext]_P!poolVars
<1>1. u \in Procs /\ <<u, 1>> \in Clients /\ u \in Callers
  BY Names DEF Callers
<1>2. CASE GetWithIdle(u)
  <2>1. PICK c \in Clients : Reuse(u, c) /\ Ask(u, c)
    BY <1>2 DEF GetWithIdle
  <2>2. /\ pc[u] = "idle" /\ stage' = stage
        /\ c \in Idle /\ clients' = clients /\ active' = active \cup {c}
        /\ client' = [client EXCEPT ![u] = c]
        /\ pc' = [pc EXCEPT ![u] = "request"] \/ pc' = [pc EXCEPT ![u] = "settled"]
    BY <1>2, <2>1 DEF GetWithIdle, Reuse, Ask, Goto
  <2>3. u \notin InUse /\ InUse' = InUse \cup {u}
    BY <1>1, <2>2, Facts DEF InUse
  <2>4. client'[u] = c /\ \A v \in Users \ {u} : client'[v] = client[v]
    BY <2>2, Facts
  <2>5. PoolHeld' = [PoolHeld EXCEPT ![u] = c]
    BY <2>3, <2>4, HeldBy
  <2>6. PoolHeld[u] = None
    BY <2>3, Holds
  <2>7. Idle' = Idle \ {c}
    BY <2>2 DEF Idle
  <2>8. PoolMade' = PoolMade
    BY <2>2, MadeSame
  <2>9. P!Take(u, c)
    BY <2>2, <2>5, <2>6, <2>7, <2>8 DEF P!Take
  <2> QED BY <2>9 DEF P!PoolNext
<1>3. CASE GetWithNew(u)
  <2>1. /\ pc[u] = "idle" /\ stage' = [stage EXCEPT ![<<u, 1>>] = "starting"]
        /\ pc' = [pc EXCEPT ![u] = "creating"] /\ UNCHANGED <<clients, active, client>>
    BY <1>3 DEF GetWithNew, Create, Goto, poolVars, procVars
  <2>2. InUse' = InUse
    BY <1>1, <2>1, Facts DEF InUse
  <2>3. stage[<<u, 1>>] = "none"
    BY <2>1 DEF IndInv, Fresh
  <2>4. PoolMade' = PoolMade
    BY <1>1, <2>1, <2>3, Facts, MadeSame
  <2> QED BY <2>1, <2>2, <2>4, HeldSame, Stutters DEF Idle
<1>4. CASE GetRefused(u)
  <2>1. /\ pc[u] = "idle" /\ pc' = [pc EXCEPT ![u] = "done"]
        /\ UNCHANGED <<clients, active, client, stage>>
    BY <1>4 DEF GetRefused, Goto, poolVars, procVars
  <2>2. InUse' = InUse
    BY <1>1, <2>1, Facts DEF InUse
  <2> QED BY <2>1, <2>2, HeldSame, MadeSame, Stutters DEF Idle
<1>5. CASE Created(u)
  <2> DEFINE c == <<u, 1>>
  <2>1. /\ pc[u] = "creating" /\ pc' = [pc EXCEPT ![u] = "request"]
        /\ stage' = [stage EXCEPT ![c] = "open"]
        /\ clients' = clients \cup {c} /\ active' = active \cup {c}
        /\ client' = [client EXCEPT ![u] = c]
    BY <1>5 DEF Created, Opened, Goto
  <2>2. stage[c] = "starting" /\ c \notin clients
    BY <1>1, <2>1, NewIsNew DEF New, IndInv
  <2> HIDE DEF c
  <2>3. u \notin InUse /\ InUse' = InUse \cup {u}
    BY <1>1, <2>1, Facts DEF InUse
  <2>4. client'[u] = c /\ c \in Clients /\ \A v \in Users \ {u} : client'[v] = client[v]
    BY <1>1, <2>1, Facts DEF c
  <2>5. PoolHeld' = [PoolHeld EXCEPT ![u] = c]
    BY <2>3, <2>4, HeldBy
  <2>6. PoolHeld[u] = None
    BY <2>3, Holds
  <2>7. Idle' = Idle
    BY <2>1, <2>2, Facts DEF Idle
  <2>8. c \notin PoolMade /\ PoolMade' = PoolMade \cup {c}
    BY <2>1, <2>2, <2>4, MadeNew DEF Taken
  <2>9. P!Make(c)
    BY <2>5, <2>6, <2>7, <2>8 DEF P!Make
  <2> QED BY <2>4, <2>9 DEF P!PoolNext
<1>6. CASE CreateFails(u)
  <2>1. /\ pc[u] = "creating" /\ pc' = [pc EXCEPT ![u] = "done"]
        /\ stage' = [stage EXCEPT ![<<u, 1>>] = "closed"] /\ UNCHANGED <<clients, active, client>>
    BY <1>6 DEF CreateFails, Goto, poolVars, procVars
  <2>2. InUse' = InUse
    BY <1>1, <2>1, Facts DEF InUse
  <2>3. stage[<<u, 1>>] = "starting"
    BY <2>1 DEF IndInv, Fresh
  <2>4. <<u, 1>> \notin PoolMade /\ PoolMade' = PoolMade \cup {<<u, 1>>}
    BY <1>1, <2>1, <2>3, MadeNew DEF Taken
  <2> QED BY <1>1, <2>1, <2>2, <2>4, HeldSame, MakesForNobody DEF Idle
<1>7. CASE Settle(u)
  <2>1. /\ pc[u] = "request" /\ pc' = [pc EXCEPT ![u] = "settled"]
        /\ UNCHANGED <<clients, active, client, stage>>
    BY <1>7 DEF Settle, Goto, poolVars, procVars
  <2>2. InUse' = InUse
    BY <1>1, <2>1, Facts DEF InUse
  <2> QED BY <2>1, <2>2, HeldSame, MadeSame, Stutters DEF Idle
<1>8. CASE Release(u)
  <2>1. /\ pc[u] = "settled" /\ pc' = [pc EXCEPT ![u] = "done"]
        /\ active' = active \ {client[u]} \/ (client[u] \notin clients /\ active' = active)
        /\ UNCHANGED <<clients, client, stage>>
    BY <1>8 DEF Release, Goto, procVars
  <2>2. u \in InUse /\ u \notin InUse' /\ InUse' \cup {u} = InUse \cup {u}
    BY <1>1, <2>1, Facts DEF InUse
  <2>3. PoolHeld[u] = client[u] /\ PoolHeld[u] # None
    BY <2>2, Holds, ClientsAreSomething
  <2>4. PoolHeld' = [PoolHeld EXCEPT ![u] = None]
    BY <2>1, <2>2, HeldBy
  <2>5. Idle' = Idle \/ Idle' = Idle \cup {client[u]}
    BY <2>1 DEF Idle
  <2>6. PoolMade' = PoolMade
    BY <2>1, MadeSame
  <2>7. P!GiveBack(u)
    BY <2>3, <2>4, <2>5, <2>6 DEF P!GiveBack
  <2> QED BY <2>7 DEF P!PoolNext
<1> QED BY <1>2, <1>3, <1>4, <1>5, <1>6, <1>7, <1>8 DEF Getting

LEMMA PreloadingRefines ==
    ASSUME IndInv, NEW p \in Preloads, Preloading(p)
    PROVE  [P!PoolNext]_P!poolVars
<1>1. p \in Procs /\ p \in Callers /\ p \notin Users /\ New(p) = <<p, round[p] + 1>>
  BY Names DEF Callers, New
<1>2. UNCHANGED client
  BY DEF Preloading, PreloadIdle, PreloadNew, Preloaded, PreloadFails, Initialized, procVars
<1>3. \A v \in Procs \ {p} : pc'[v] = pc[v]
  BY Facts DEF Preloading, PreloadIdle, PreloadNew, Preloaded, PreloadFails, Initialized, Create, Goto
<1>4. PoolHeld' = PoolHeld
  <2>1. InUse' = InUse
    BY <1>1, <1>3, Facts DEF InUse
  <2> QED BY <1>2, <2>1, HeldSame
<1>5. CASE PreloadIdle(p)
  <2>1. PICK c \in Clients : Reuse(p, c)
    BY <1>5 DEF PreloadIdle
  <2>2. Idle' \subseteq Idle /\ stage' = stage
    BY <1>5, <2>1 DEF PreloadIdle, Reuse, Idle
  <2> QED BY <1>4, <2>2, MadeSame, Retires
<1>6. CASE PreloadNew(p)
  <2> DEFINE c == <<p, Done(p) + 1>>
  <2>1. /\ pc[p] \in {"idle", "loading"} /\ Done(p) < InitialConnections
        /\ stage' = [stage EXCEPT ![c] = "starting"] /\ UNCHANGED <<clients, active>>
    BY <1>6 DEF PreloadNew, Loading, Create, poolVars
  <2>2. Done(p) \in Nat /\ Done(p) + 1 \in 1..InitialConnections
    BY <2>1, DoneTyped, Names DEF IndInv
  <2>3. stage[c] = "none"
    <3>1. CASE pc[p] = "idle"
      BY <2>2, <3>1 DEF IndInv, Fresh
    <3>2. CASE pc[p] = "loading"
      <4>1. Done(p) = round[p]
        BY <3>2 DEF Done
      <4> QED BY <2>2, <3>2, <4>1 DEF IndInv, Fresh
    <3> QED BY <2>1, <3>1, <3>2
  <2>4. PoolMade' = PoolMade
    <3>1. stage'[c] \in {"none", "starting"} /\ \A d \in Clients \ {c} : stage'[d] = stage[d]
      BY <2>1, <2>2, Facts, Names
    <3> QED BY <2>3, <3>1, MadeSame
  <2> QED BY <1>4, <2>1, <2>4, Stutters DEF Idle
<1>7. CASE Preloaded(p)
  <2>1. /\ pc[p] = "creating" /\ stage' = [stage EXCEPT ![New(p)] = "open"]
        /\ clients' = clients \cup {New(p)} /\ active' = active \cup {New(p)}
    BY <1>1, <1>7 DEF Preloaded, Opened
  <2>2. New(p) \in Clients /\ stage[New(p)] = "starting" /\ New(p) \notin clients
    BY <1>1, <2>1, NewIsNew DEF IndInv
  <2>3. New(p) \notin PoolMade /\ PoolMade' = PoolMade \cup {New(p)}
    BY <2>1, <2>2, MadeNew DEF Taken
  <2>4. Idle' = Idle
    BY <2>1, <2>2, Facts DEF Idle
  <2> QED BY <1>4, <2>2, <2>3, <2>4, MakesForNobody
<1>8. CASE PreloadFails(p)
  <2>1. UNCHANGED <<clients, active>>
    BY <1>8 DEF PreloadFails, poolVars
  <2>2. CASE stage' = stage
    BY <1>4, <2>1, <2>2, MadeSame, Stutters DEF Idle
  <2>3. CASE pc[p] = "creating" /\ stage' = [stage EXCEPT ![New(p)] = "closed"]
    <3>1. New(p) \in Clients /\ stage[New(p)] = "starting"
      BY <1>1, <2>3, NewIsNew DEF IndInv
    <3>2. New(p) \notin PoolMade /\ PoolMade' = PoolMade \cup {New(p)}
      BY <2>3, <3>1, MadeNew DEF Taken
    <3> QED BY <1>4, <2>1, <3>1, <3>2, MakesForNobody DEF Idle
  <2> QED BY <1>1, <1>8, <2>2, <2>3 DEF PreloadFails
<1>9. CASE Initialized(p)
  BY <1>4, <1>9, MadeSame, Stutters DEF Initialized, poolVars, Idle
<1> QED BY <1>5, <1>6, <1>7, <1>8, <1>9 DEF Preloading

\* The end of a server changes what the pool thinks of it in nothing.
LEMMA EndingRefines ==
    ASSUME IndInv, NEW c \in Clients, Exit(c) \/ Closed(c)
    PROVE  [P!PoolNext]_P!poolVars
<1>1. /\ stage[c] \in {"open", "closing"} /\ stage' = [stage EXCEPT ![c] = "closed"]
      /\ pc' = [p \in Procs |-> IF p \in Asking(c) THEN "settled" ELSE pc[p]]
      /\ UNCHANGED <<clients, active, client>>
  BY DEF Exit, Closed, Cleanup, poolVars, procVars
<1>2. \A u \in Asking(c) : pc[u] = "request"
  BY DEF Asking, IndInv, Opening
<1>3. InUse' = InUse
  BY <1>1, <1>2, Facts DEF InUse
<1>4. PoolMade' = PoolMade
  BY <1>1, Facts, MadeSame
<1> QED BY <1>1, <1>3, <1>4, HeldSame, Stutters DEF Idle

LEMMA ClosingRefines ==
    ASSUME IndInv,
           \/ CleanupIdle
           \/ \E d \in Shutdowns : Shutdown(d) \/ ShutdownEnds(d)
    PROVE  [P!PoolNext]_P!poolVars
<1>1. ASSUME NEW S \in SUBSET Clients, Close(S) PROVE PoolMade' = PoolMade
  <2>1. \A c \in Clients : stage'[c] \in {stage[c], IF stage[c] = "open" THEN "closing" ELSE stage[c]}
    BY <1>1 DEF Close
  <2>2. \A c \in Clients : stage'[c] \in {"none", "starting"} <=> stage[c] \in {"none", "starting"}
    BY <2>1
  <2> QED BY <2>2, MadeSame
<1>2. CASE CleanupIdle
  <2>1. PICK S \in SUBSET Idle : clients' = clients \ S /\ Close(S)
    BY <1>2 DEF CleanupIdle
  <2>2. UNCHANGED <<active, pc, client>>
    BY <1>2 DEF CleanupIdle, procVars
  <2>3. InUse' = InUse /\ Idle' \subseteq Idle /\ S \in SUBSET Clients
    BY <2>1, <2>2, Facts DEF InUse, Idle
  <2> QED BY <1>1, <2>1, <2>2, <2>3, HeldSame, Retires
<1>3. ASSUME NEW d \in Shutdowns, Shutdown(d) \/ ShutdownEnds(d)
      PROVE  [P!PoolNext]_P!poolVars
  <2>1. client' = client /\ \A u \in Users : pc'[u] = pc[u]
    BY <1>3, Facts, Names DEF Shutdown, ShutdownEnds, Goto, procVars
  <2>2. PoolHeld' = PoolHeld
    <3>1. InUse' = InUse
      BY <2>1 DEF InUse
    <3> QED BY <2>1, <3>1, HeldSame
  <2>3. CASE Shutdown(d)
    <3>1. Close(clients) /\ UNCHANGED <<clients, active>>
      BY <2>3 DEF Shutdown, poolVars
    <3>2. PoolMade' = PoolMade
      BY <1>1, <3>1, Facts
    <3> QED BY <2>2, <3>1, <3>2, Stutters DEF Idle
  <2>4. CASE ShutdownEnds(d)
    <3>1. Idle' = {} /\ stage' = stage
      BY <2>4 DEF ShutdownEnds, Idle
    <3> QED BY <2>2, <3>1, MadeSame, Retires
  <2> QED BY <1>3, <2>3, <2>4
<1> QED BY <1>2, <1>3

\* The refinement: with what is idle, in use and opened of the pool for what is
\* free, held and made there, acquire and release are Take, Make and GiveBack,
\* and preloads, cleanups and shutdowns only retire clients or leave them alone.
THEOREM PoolOfClients == Spec => ImplementsPool
<1>1. Init => P!PoolInit
  <2> SUFFICES ASSUME Init PROVE P!PoolInit
    OBVIOUS
  <2>1. Idle = {} /\ PoolMade = {}
    BY DEF Init, Idle, PoolMade
  <2>2. InUse = {}
    BY Names DEF Init, InUse
  <2>3. PoolHeld = [u \in Users |-> None]
    BY <2>2 DEF PoolHeld
  <2> QED BY <2>1, <2>3 DEF P!PoolInit
<1>2. IndInv /\ [Next]_vars => [P!PoolNext]_P!poolVars
  <2> SUFFICES ASSUME IndInv, [Next]_vars PROVE [P!PoolNext]_P!poolVars
    OBVIOUS
  <2>1. CASE UNCHANGED vars
    <3>1. UNCHANGED <<clients, active, stage, pc, client>>
      BY <2>1 DEF vars, poolVars, procVars
    <3>2. InUse' = InUse
      BY <3>1 DEF InUse
    <3> QED BY <3>1, <3>2, HeldSame, MadeSame, Stutters DEF Idle
  <2> QED BY <2>1, GettingRefines, PreloadingRefines, EndingRefines, ClosingRefines DEF Next
<1> QED BY <1>1, <1>2, Invariance, PTL DEF Spec, ImplementsPool, P!PoolSpec
=============================================================================
