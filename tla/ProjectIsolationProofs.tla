----------------------- MODULE ProjectIsolationProofs -----------------------
(***************************************************************************)
(* Proofs about ProjectIsolation, for any calls, projects and connections: *)
(* a call that no other initialisation crossed uses its own collection,    *)
(* and the pool hands the session that was told its space to the query     *)
(* that follows, as long as one query runs at a time.                      *)
(***************************************************************************)
EXTENDS ProjectIsolation, FiniteSetTheorems, TLAPS

-----------------------------------------------------------------------------
(* The pool as a sequence *)

Distinct(s) == \A i, j \in DOMAIN s : s[i] = s[j] => i = j

LEMMA Pushed ==
    ASSUME NEW S, NEW s \in Seq(S), NEW e \in S
    PROVE  /\ Append(s, e) \in Seq(S) /\ Append(s, e) # <<>>
           /\ Last(Append(s, e)) = e
           /\ ToSet(Append(s, e)) = ToSet(s) \cup {e}
           /\ Distinct(s) /\ e \notin ToSet(s) => Distinct(Append(s, e))
<1> DEFINE r == Append(s, e)
           n == Len(s)
<1>1. /\ n \in Nat /\ DOMAIN s = 1..n /\ r \in Seq(S) /\ r # <<>>
      /\ DOMAIN r = 1..(n + 1) /\ Len(r) = n + 1
      /\ \A i \in 1..n : r[i] = s[i]
      /\ r[n + 1] = e
  OBVIOUS
<1> HIDE DEF r, n
<1>2. ToSet(r) = ToSet(s) \cup {e}
  BY <1>1, SMT DEF ToSet
<1>3. Last(r) = e
  BY <1>1 DEF Last
<1>4. Distinct(s) /\ e \notin ToSet(s) => Distinct(r)
  BY <1>1, SMT DEF Distinct, ToSet
<1> QED BY <1>1, <1>2, <1>3, <1>4 DEF r

LEMMA Popped ==
    ASSUME NEW S, NEW s \in Seq(S), s # <<>>
    PROVE  /\ Front(s) \in Seq(S)
           /\ Last(s) \in ToSet(s) /\ Last(s) \in S
           /\ ToSet(Front(s)) \subseteq ToSet(s)
           /\ Distinct(s) => Distinct(Front(s)) /\ Last(s) \notin ToSet(Front(s))
<1> DEFINE f == Front(s)
           n == Len(s)
<1>1. n \in Nat /\ n > 0 /\ DOMAIN s = 1..n
  OBVIOUS
<1>2. f \in Seq(S) /\ DOMAIN f = 1..(n - 1) /\ \A i \in 1..(n - 1) : f[i] = s[i]
  BY <1>1 DEF Front
<1>3. Last(s) = s[n] /\ Last(s) \in S
  BY <1>1 DEF Last
<1> HIDE DEF f, n
<1>4. Last(s) \in ToSet(s) /\ ToSet(f) \subseteq ToSet(s)
  BY <1>1, <1>2, <1>3 DEF ToSet
<1>5. Distinct(s) => Distinct(f)
  BY <1>1, <1>2 DEF Distinct
<1>6. Distinct(s) => Last(s) \notin ToSet(f)
  <2> SUFFICES ASSUME Distinct(s), NEW i \in 1..(n - 1), s[n] = f[i] PROVE FALSE
    BY <1>2, <1>3 DEF ToSet
  <2> QED BY <1>1, <1>2 DEF Distinct
<1> QED BY <1>2, <1>3, <1>4, <1>5, <1>6 DEF f

LEMMA Removed ==
    ASSUME NEW S, NEW s \in Seq(S), NEW i \in DOMAIN s
    PROVE  /\ RemoveAt(s, i) \in Seq(S)
           /\ ToSet(RemoveAt(s, i)) \subseteq ToSet(s)
           /\ Distinct(s) => Distinct(RemoveAt(s, i)) /\ s[i] \notin ToSet(RemoveAt(s, i))
<1> DEFINE r == RemoveAt(s, i)
           n == Len(s)
           up(j) == IF j < i THEN j ELSE j + 1
<1>1. n \in Nat /\ DOMAIN s = 1..n /\ i \in 1..n
  OBVIOUS
<1>2. /\ SubSeq(s, 1, i - 1) \in Seq(S) /\ Len(SubSeq(s, 1, i - 1)) = i - 1
      /\ SubSeq(s, i + 1, n) \in Seq(S) /\ Len(SubSeq(s, i + 1, n)) = n - i
      /\ \A j \in 1..(i - 1) : SubSeq(s, 1, i - 1)[j] = s[j]
      /\ \A j \in 1..(n - i) : SubSeq(s, i + 1, n)[j] = s[i + j]
  BY <1>1
<1>3. /\ r \in Seq(S) /\ DOMAIN r = 1..(n - 1)
      /\ \A j \in 1..(n - 1) : r[j] = s[up(j)]
  <2> DEFINE a == SubSeq(s, 1, i - 1)
             b == SubSeq(s, i + 1, n)
  <2>1. /\ a \in Seq(S) /\ Len(a) = i - 1 /\ b \in Seq(S) /\ Len(b) = n - i
        /\ \A j \in 1..(i - 1) : a[j] = s[j]
        /\ \A j \in 1..(n - i) : b[j] = s[i + j]
    BY <1>2
  <2>2. r = a \o b
    BY DEF RemoveAt
  <2> HIDE DEF a, b, r, n
  <2>3. r \in Seq(S) /\ Len(r) = n - 1 /\ DOMAIN r = 1..(n - 1)
    <3>1. a \in Seq(S) /\ b \in Seq(S)
      BY <2>1
    <3>2. r \in Seq(S) /\ Len(r) = Len(a) + Len(b)
      BY <2>2, <3>1
    <3>3. Len(r) = n - 1
      BY <1>1, <2>1, <3>2
    <3> QED BY <3>2, <3>3
  <2>4. ASSUME NEW j \in 1..(n - 1), j < i PROVE r[j] = s[j]
    BY <1>1, <2>1, <2>2, <2>4
  <2>5. ASSUME NEW j \in 1..(n - 1), ~(j < i) PROVE r[j] = s[j + 1]
    <3>1. r[j] = b[j - (i - 1)]
      BY <1>1, <2>1, <2>2, <2>5
    <3>2. j - (i - 1) \in 1..(n - i) /\ i + (j - (i - 1)) = j + 1
      BY <1>1, <2>5
    <3> QED BY <2>1, <3>1, <3>2
  <2> QED BY <2>3, <2>4, <2>5
<1>4. \A j \in 1..(n - 1) : up(j) \in 1..n /\ up(j) # i
  BY <1>1
<1>5. \A j, k \in 1..(n - 1) : up(j) = up(k) => j = k
  BY <1>1
<1> HIDE DEF r, n, up
<1>6. ToSet(r) \subseteq ToSet(s)
  BY <1>1, <1>3, <1>4 DEF ToSet
<1>7. Distinct(s) => Distinct(r)
  BY <1>1, <1>3, <1>4, <1>5 DEF Distinct
<1>8. Distinct(s) => s[i] \notin ToSet(r)
  BY <1>1, <1>3, <1>4 DEF Distinct, ToSet
<1> QED BY <1>3, <1>6, <1>7, <1>8 DEF r

-----------------------------------------------------------------------------
(* Types *)

CallsTyped ==
    /\ projectResources \subseteq Projects
    /\ current \in Stores \cup {None}
    /\ pc \in [Calls -> Steps] /\ round \in [Calls -> 1..2]

VectorTyped ==
    /\ isInitialized \in BOOLEAN /\ collection \in Collections \cup {None}
    /\ goal \in [Calls -> Collections] /\ crossed \subseteq Calls
    /\ points \in [Calls -> SUBSET (Collections \cup {None})]

\* A call at a query has a connection.
GraphTyped ==
    /\ pool \in Seq(Connections) /\ session \in [Connections -> Spaces]
    /\ conn \in [Calls -> Connections \cup {None}] /\ late \subseteq Connections
    /\ nodes \in [Calls -> SUBSET Spaces]
    /\ settled \in Spaces /\ unsettled \subseteq Calls
    /\ \A c \in Calls : pc[c] \in {"use", "write"} => conn[c] \in Connections

Typed == CallsTyped /\ VectorTyped /\ GraphTyped

LEMMA TypedMeansTypeOK == Typed => TypeOK
BY DEF Typed, CallsTyped, VectorTyped, GraphTyped, TypeOK

\* What the assumption says of one call.
LEMMA OfACall ==
    ASSUME NEW c \in Calls
    PROVE  /\ Project[c] \in Projects /\ Project[c] \in Collections /\ Project[c] \in Spaces
           /\ Project[c] # Default /\ Project[c] # None /\ Default \in Collections
BY ProjectAssumption DEF ProjectAssumption, Collections, Spaces

LEMMA NotAConnection == None \notin Connections
BY ProjectAssumption DEF ProjectAssumption

LEMMA InitPool ==
    ASSUME Init
    PROVE  pool \in Seq(Connections) /\ Distinct(pool)
<1>1. MinPoolSize \in Nat
  BY ProjectAssumption, FS_CardinalityType DEF ProjectAssumption
<1>2. pool \in [1..MinPoolSize -> Connections] /\ \A a, b \in DOMAIN pool : pool[a] = pool[b] => a = b
  BY DEF Init, IsInjective
<1> QED BY <1>1, <1>2 DEF Distinct

-----------------------------------------------------------------------------
(* Connections *)

\* Every connection is in the pool, with one call, or with one late write.
Sole ==
    /\ \A c, d \in Calls : conn[c] = conn[d] /\ conn[c] # None => c = d
    /\ \A c \in Calls : conn[c] \notin late
    /\ Distinct(pool)
    /\ ToSet(pool) \cap InUse = {}

LEMMA AcquireFacts ==
    ASSUME NEW c \in Calls, Typed, Sole, Acquire(c), late' = late
    PROVE  \E k \in Connections :
              /\ conn' = [conn EXCEPT ![c] = k] /\ conn'[c] = k
              /\ pool' \in Seq(Connections)
              /\ settled' \in Spaces
              /\ settled' # None => InUse = {} /\ pool # <<>> /\ k = Last(pool) /\ settled' = settled
              /\ InUse' \subseteq InUse \cup {k}
              /\ k \in InUse'
              /\ Sole'
<1>1. /\ pool \in Seq(Connections) /\ settled \in Spaces /\ None \in Spaces
      /\ conn \in [Calls -> Connections \cup {None}]
  BY DEF Typed, GraphTyped, Spaces
<1>2. PICK k \in Connections :
          /\ conn' = [conn EXCEPT ![c] = k]
          /\ k \notin InUse
          /\ pool' \in Seq(Connections) /\ Distinct(pool')
          /\ ToSet(pool') \subseteq ToSet(pool) /\ k \notin ToSet(pool')
          /\ pool # <<>> => k = Last(pool)
  <2>1. CASE pool # <<>> /\ conn' = [conn EXCEPT ![c] = Last(pool)] /\ pool' = Front(pool)
    BY <1>1, <2>1, Popped DEF Sole
  <2>2. ASSUME pool = <<>>, pool' = pool, NEW k \in Closed, conn' = [conn EXCEPT ![c] = k]
        PROVE  \E l \in Connections :
                  /\ conn' = [conn EXCEPT ![c] = l]
                  /\ l \notin InUse
                  /\ pool' \in Seq(Connections) /\ Distinct(pool')
                  /\ ToSet(pool') \subseteq ToSet(pool) /\ l \notin ToSet(pool')
                  /\ pool # <<>> => l = Last(pool)
    BY <1>1, <2>2 DEF Closed, Sole
  <2> QED BY <2>1, <2>2 DEF Acquire
<1>3. settled' = IF InUse = {} /\ pool # <<>> THEN settled ELSE None
  BY DEF Acquire
<1>4. conn'[c] = k /\ \A d \in Calls \ {c} : conn'[d] = conn[d]
  BY <1>1, <1>2
<1>5. k # None
  BY NotAConnection
<1>6. InUse' \subseteq InUse \cup {k} /\ k \in InUse'
  BY <1>4, <1>5 DEF InUse
<1>7. \A d \in Calls : conn[d] # k
  BY <1>2, <1>5 DEF InUse
<1>8. \A d, e \in Calls : conn'[d] = conn'[e] /\ conn'[d] # None => d = e
  BY <1>4, <1>7 DEF Sole
<1>9. \A d \in Calls : conn'[d] \notin late'
  BY <1>2, <1>4 DEF Sole, InUse
<1>10. ToSet(pool') \cap InUse' = {}
  BY <1>2, <1>6 DEF Sole
<1> QED BY <1>1, <1>2, <1>3, <1>4, <1>6, <1>8, <1>9, <1>10 DEF Sole

LEMMA ReleaseFacts ==
    ASSUME NEW c \in Calls, Typed, Sole, Release(c), conn[c] \in Connections, late' = late
    PROVE  /\ conn' = [conn EXCEPT ![c] = None] /\ conn' \in [Calls -> Connections \cup {None}]
           /\ pool' \in Seq(Connections) /\ pool' # <<>> /\ Last(pool') = conn[c]
           /\ InUse' = InUse \ {conn[c]} /\ conn[c] \in InUse
           /\ Sole'
<1>1. pool \in Seq(Connections) /\ conn \in [Calls -> Connections \cup {None}] /\ late \subseteq Connections
  BY DEF Typed, GraphTyped
<1>2. conn' = [conn EXCEPT ![c] = None] /\ pool' = Append(pool, conn[c])
  BY DEF Release
<1>3. conn'[c] = None /\ \A d \in Calls \ {c} : conn'[d] = conn[d] /\ conn[d] # conn[c]
  BY <1>1, <1>2, NotAConnection DEF Sole
<1>4. conn[c] \in InUse /\ conn[c] # None
  BY NotAConnection DEF InUse
<1>5. InUse' = InUse \ {conn[c]}
  BY <1>3, <1>4 DEF InUse, Sole
<1>6. conn[c] \notin ToSet(pool)
  BY <1>4 DEF Sole
<1>7. /\ pool' \in Seq(Connections) /\ pool' # <<>> /\ Last(pool') = conn[c] /\ Distinct(pool')
      /\ ToSet(pool') = ToSet(pool) \cup {conn[c]}
  BY <1>1, <1>2, <1>6, Pushed DEF Sole
<1>8. ToSet(pool') \cap InUse' = {}
  BY <1>5, <1>7 DEF Sole
<1>9. \A d \in Calls : conn'[d] \notin late'
  BY <1>1, <1>3, NotAConnection DEF Sole
<1>10. \A d, e \in Calls : conn'[d] = conn'[e] /\ conn'[d] # None => d = e
  BY <1>3 DEF Sole
<1> QED BY <1>1, <1>2, <1>4, <1>5, <1>7, <1>8, <1>9, <1>10 DEF Sole

-----------------------------------------------------------------------------
(* Collections *)

\* Past the initialisation of the storage.
Past(c) == pc[c] \notin {"idle", "done", "initialize", "connect"}

\* A call that no initialisation crossed has its own collection as the current
\* one from its initialisation on; the configured one is then no other.
OnCollection(c) ==
    \/ c \in crossed
    \/ /\ Past(c) => collection = Project[c]
       /\ pc[c] \in {"initialize", "connect"} =>
             goal[c] = Project[c] \/ (goal[c] = Default /\ collection = Project[c])
       /\ pc[c] \in {"idle", "done"} => goal[c] = Project[c]
       /\ points[c] \subseteq {Project[c]}

\* A call that keeps to itself: its own step does not touch the collection.
LEMMA KeepsCollection ==
    ASSUME NEW c \in Calls, NEW label \in Steps, Typed, \A d \in Calls : OnCollection(d),
           pc' = [pc EXCEPT ![c] = label], UNCHANGED <<collection, points>>,
           \A d \in Calls \ {c} : goal'[d] = goal[d],
           \A d \in Calls \ {c} : d \in crossed => d \in crossed',
           OnCollection(c)'
    PROVE  \A d \in Calls : OnCollection(d)'
<1>1. SUFFICES ASSUME NEW d \in Calls \ {c} PROVE OnCollection(d)'
  OBVIOUS
<1>2. pc'[d] = pc[d] /\ goal'[d] = goal[d] /\ OnCollection(d)
  BY <1>1 DEF Typed, CallsTyped
<1> QED BY <1>1, <1>2 DEF OnCollection, Past

LEMMA CollectionInitialized ==
    ASSUME NEW c \in Calls, Initialized(c)
    PROVE  \E label \in {"space", "embed", "read"} : pc' = [pc EXCEPT ![c] = label]
BY DEF Initialized, Goto

LEMMA CollectionAssigned ==
    ASSUME NEW c \in Calls, Typed, \A d \in Calls : OnCollection(d),
           pc[c] \in {"initialize", "connect"}, Assign(c), goal' = goal, points' = points
    PROVE  \A d \in Calls : OnCollection(d)'
<1> SUFFICES ASSUME NEW d \in Calls PROVE OnCollection(d)'
  OBVIOUS
<1>1. /\ collection' = goal[c] /\ pc' = [pc EXCEPT ![c] = "collection"]
      /\ crossed' = crossed \cup {e \in Underway : Project[e] # goal[c]}
  BY DEF Assign, Goto
<1>2. pc \in [Calls -> Steps] /\ OnCollection(d)
  BY DEF Typed, CallsTyped
<1>3. CASE d \in Underway /\ Project[d] # goal[c]
  BY <1>1, <1>3 DEF OnCollection
<1>4. CASE d \in Underway /\ Project[d] = goal[c]
  BY <1>1, <1>2, <1>4 DEF OnCollection, Underway, Past
<1>5. CASE d \notin Underway
  <2>1. pc[d] \in {"idle", "done"} /\ d # c
    BY <1>5 DEF Underway
  <2> QED BY <1>1, <1>2, <2>1 DEF OnCollection, Past
<1> QED BY <1>3, <1>4, <1>5

\* initialize, and what of store and searchVectors touches the collection.
LEMMA CollectionSteps ==
    ASSUME NEW c \in Calls, Typed, \A d \in Calls : OnCollection(d),
           \/ Start(c) \/ Initialize(c) \/ Connected(c) \/ NotConnected(c) \/ CollectionReady(c)
           \/ Check(c) \/ Read(c) \/ ChunksEmbedded(c) \/ Return(c)
    PROVE  \A d \in Calls : OnCollection(d)'
<1>1. pc \in [Calls -> Steps] /\ OnCollection(c) /\ points \in [Calls -> SUBSET (Collections \cup {None})]
      /\ goal \in [Calls -> Collections]
  BY DEF Typed, CallsTyped, VectorTyped
<1>2. CASE Start(c)
  <2>1. /\ pc[c] = "idle" /\ UNCHANGED <<collection, goal, points>>
        /\ \/ /\ pc' = [pc EXCEPT ![c] = "initialize"] /\ crossed' = crossed
           \/ /\ \E label \in {"begin", "embed"} : pc' = [pc EXCEPT ![c] = label]
              /\ crossed' = IF collection # Project[c] THEN crossed \cup {c} ELSE crossed
    BY <1>2 DEF Start, At, Goto
  <2>2. CASE pc' = [pc EXCEPT ![c] = "initialize"] /\ crossed' = crossed
    <3>1. pc'[c] = "initialize"
      BY <1>1, <2>2
    <3>2. OnCollection(c)'
      BY <1>1, <2>1, <2>2, <3>1 DEF OnCollection, Past
    <3> QED BY <2>1, <2>2, <3>2, KeepsCollection DEF Steps, Running
  <2>3. ASSUME NEW label \in {"begin", "embed"}, pc' = [pc EXCEPT ![c] = label],
               crossed' = IF collection # Project[c] THEN crossed \cup {c} ELSE crossed
        PROVE  \A d \in Calls : OnCollection(d)'
    <3>1. pc'[c] = label
      BY <1>1, <2>3
    <3>2. OnCollection(c)'
      BY <1>1, <2>1, <2>3, <3>1 DEF OnCollection, Past
    <3> QED BY <2>1, <2>3, <3>2, KeepsCollection DEF Steps, Running
  <2> QED BY <2>1, <2>2, <2>3
<1>3. ASSUME Initialized(c), pc[c] \in {"initialize", "connect", "collection"},
             collection = Project[c] \/ c \in crossed',
             UNCHANGED <<collection, goal, points>>, crossed \subseteq crossed'
      PROVE  \A d \in Calls : OnCollection(d)'
  <2>1. PICK label \in {"space", "embed", "read"} : pc' = [pc EXCEPT ![c] = label]
    BY <1>3, CollectionInitialized
  <2>2. pc'[c] = label
    BY <1>1, <2>1
  <2>3. OnCollection(c)'
    BY <1>1, <1>3, <2>2 DEF OnCollection, Past
  <2> QED BY <1>3, <2>1, <2>3, KeepsCollection DEF Steps, Running
<1>4. CASE Initialize(c)
  <2>1. pc[c] = "initialize" /\ goal' = goal /\ points' = points
    BY <1>4 DEF Initialize, At
  <2>2. CASE isInitialized /\ collection = goal[c] /\ Initialized(c) /\ UNCHANGED <<collection, crossed>>
    BY <1>1, <1>3, <2>1, <2>2 DEF OnCollection
  <2>3. CASE Assign(c)
    BY <2>1, <2>3, CollectionAssigned
  <2>4. CASE Goto(c, "connect") /\ UNCHANGED <<collection, crossed>>
    <3>1. pc'[c] = "connect" /\ pc' = [pc EXCEPT ![c] = "connect"]
      BY <1>1, <2>4 DEF Goto
    <3>2. OnCollection(c)'
      BY <1>1, <2>1, <2>4, <3>1 DEF OnCollection, Past
    <3> QED BY <2>1, <2>4, <3>1, <3>2, KeepsCollection DEF Steps, Running
  <2> QED BY <1>4, <2>2, <2>3, <2>4 DEF Initialize
<1>5. CASE Connected(c)
  BY <1>5, CollectionAssigned DEF Connected, At
<1>6. CASE NotConnected(c)
  BY <1>3, <1>6 DEF NotConnected, At
<1>7. CASE CollectionReady(c)
  BY <1>1, <1>3, <1>7 DEF CollectionReady, At, OnCollection, Past
<1>8. CASE Check(c)
  <2>1. /\ pc[c] = "check" /\ UNCHANGED <<collection, crossed, points>>
        /\ \/ /\ \E label \in {"embed", "read"} : pc' = [pc EXCEPT ![c] = label]
              /\ goal' = goal
           \/ pc' = [pc EXCEPT ![c] = "initialize"] /\ goal' = [goal EXCEPT ![c] = Default]
    BY <1>8 DEF Check, At, Goto
  <2>2. ASSUME NEW label \in {"embed", "read"}, pc' = [pc EXCEPT ![c] = label], goal' = goal
        PROVE  \A d \in Calls : OnCollection(d)'
    <3>1. pc'[c] = label
      BY <1>1, <2>2
    <3>2. OnCollection(c)'
      BY <1>1, <2>1, <2>2, <3>1 DEF OnCollection, Past
    <3> QED BY <2>1, <2>2, <3>2, KeepsCollection DEF Steps, Running
  <2>3. CASE pc' = [pc EXCEPT ![c] = "initialize"] /\ goal' = [goal EXCEPT ![c] = Default]
    <3>1. pc'[c] = "initialize" /\ goal'[c] = Default /\ \A d \in Calls \ {c} : goal'[d] = goal[d]
      BY <1>1, <2>3
    <3>2. OnCollection(c)'
      BY <1>1, <2>1, <3>1 DEF OnCollection, Past
    <3> QED BY <2>1, <2>3, <3>1, <3>2, KeepsCollection DEF Steps, Running
  <2> QED BY <2>1, <2>2, <2>3
<1>9. CASE Read(c) \/ ChunksEmbedded(c)
  <2>1. /\ Past(c) /\ UNCHANGED <<collection, goal, crossed>>
        /\ points' \in {points, [points EXCEPT ![c] = @ \cup {collection}]}
        /\ \E label \in {"return", "graph"} : pc' = [pc EXCEPT ![c] = label]
    BY <1>9 DEF Read, ChunksEmbedded, At, Goto, Past, vectorVars
  <2>2. PICK label \in {"return", "graph"} : pc' = [pc EXCEPT ![c] = label]
    BY <2>1
  <2>3. pc'[c] = label /\ \A d \in Calls \ {c} : pc'[d] = pc[d] /\ points'[d] = points[d]
    BY <1>1, <2>1, <2>2
  <2>4. OnCollection(c)'
    BY <1>1, <2>1, <2>3 DEF OnCollection, Past
  <2>5. ASSUME NEW d \in Calls \ {c} PROVE OnCollection(d)'
    BY <2>1, <2>3 DEF OnCollection, Past
  <2> QED BY <2>4, <2>5
<1>10. CASE Return(c)
  <2>1. /\ pc' = [pc EXCEPT ![c] = "done"] /\ goal' = [goal EXCEPT ![c] = Project[c]]
        /\ points' = [points EXCEPT ![c] = {}] /\ crossed' = crossed \ {c} /\ collection' = collection
    BY <1>10 DEF Return, Goto
  <2>2. OnCollection(c)'
    BY <1>1, <2>1 DEF OnCollection, Past
  <2>3. ASSUME NEW d \in Calls \ {c} PROVE OnCollection(d)'
    <3>1. pc'[d] = pc[d] /\ goal'[d] = goal[d] /\ points'[d] = points[d] /\ OnCollection(d)
      BY <1>1, <2>1
    <3> QED BY <2>1, <3>1 DEF OnCollection, Past
  <2> QED BY <2>2, <2>3
<1> QED BY <1>2, <1>4, <1>5, <1>6, <1>7, <1>8, <1>9, <1>10

LEMMA CollectionStep ==
    ASSUME Typed, \A d \in Calls : OnCollection(d), [Next]_vars
    PROVE  \A d \in Calls : OnCollection(d)'
<1>1. CASE UNCHANGED <<vectorVars, points, pc>>
  BY <1>1 DEF vectorVars, OnCollection, Past
<1>2. ASSUME NEW c \in Calls,
             \/ PrepareSpace(c) \/ WaitForSpace(c) \/ Used(c) \/ Begin(c) \/ QueryEmbedded(c)
             \/ GraphWrite(c) \/ Written(c) \/ Close(c)
      PROVE  \A d \in Calls : OnCollection(d)'
  <2>1. /\ Past(c) /\ UNCHANGED <<vectorVars, points>>
        /\ \E label \in {"use", "begin", "wait", "embed", "check", "return", "write", "close"} :
              pc' = [pc EXCEPT ![c] = label]
    BY <1>2 DEF PrepareSpace, WaitForSpace, Used, Begin, QueryEmbedded, GraphWrite, Written, Close,
       At, Goto, Past
  <2>2. PICK label \in {"use", "begin", "wait", "embed", "check", "return", "write", "close"} :
           pc' = [pc EXCEPT ![c] = label]
    BY <2>1
  <2>3. pc'[c] = label
    BY <2>2 DEF Typed, CallsTyped
  <2>4. OnCollection(c)'
    BY <2>1, <2>3 DEF OnCollection, Past, vectorVars
  <2> QED BY <2>1, <2>2, <2>4, KeepsCollection DEF vectorVars, Steps, Running
<1>3. CASE \E k \in Connections : LateWrite(k)
  BY <1>1, <1>3 DEF LateWrite, callVars
<1>4. CASE HealthCheck
  BY <1>1, <1>4 DEF HealthCheck, callVars
<1>5. CASE UNCHANGED vars
  BY <1>1, <1>5 DEF vars, callVars
<1>6. ASSUME NEW c \in Calls, Prepare(c) \/ Work(c)
      PROVE  \A d \in Calls : OnCollection(d)'
  BY <1>2, <1>6, CollectionSteps DEF Prepare, Work
<1> QED BY <1>3, <1>4, <1>5, <1>6 DEF Next

-----------------------------------------------------------------------------
(* Spaces *)

\* The session the next query finds uses the settled space: it is the one of
\* the only connection in use, or of the one on top when none is.
Told ==
    settled = None
      \/ (InUse = {} /\ pool # <<>> /\ session[Last(pool)] = settled)
      \/ \E k \in Connections : InUse = {k} /\ session[k] = settled

NodesOwn(c) == c \in unsettled \/ nodes[c] \subseteq {Project[c]}

Sessions == Sole /\ Told /\ \A c \in Calls : NodesOwn(c)

\* A step that moves no connection.
LEMMA SessionsKept ==
    ASSUME Typed, Sessions, UNCHANGED <<pool, session, conn, late, settled>>,
           \A c \in Calls : NodesOwn(c)'
    PROVE  Sessions'
<1>1. InUse' = InUse
  BY DEF InUse
<1> QED BY <1>1 DEF Sessions, Sole, Told

\* What a call may do at a query: the space it writes to is the one settled.
LEMMA SpaceAcquired ==
    ASSUME NEW c \in Calls, Typed, Sessions, Acquire(c), late' = late, session' = session
    PROVE  /\ Sole' /\ Told' /\ conn'[c] \in Connections
           /\ settled' = Project[c] => session[conn'[c]] = Project[c]
<1>1. PICK k \in Connections :
              /\ conn' = [conn EXCEPT ![c] = k] /\ conn'[c] = k
              /\ settled' # None => InUse = {} /\ pool # <<>> /\ k = Last(pool) /\ settled' = settled
              /\ InUse' \subseteq InUse \cup {k}
              /\ k \in InUse'
              /\ Sole'
  BY AcquireFacts DEF Sessions
<1>2. ASSUME settled' # None PROVE InUse' = {k} /\ session[k] = settled'
  BY <1>1, <1>2 DEF Sessions, Told
<1>3. Told'
  BY <1>2 DEF Told
<1>4. Project[c] # None
  BY OfACall
<1> QED BY <1>1, <1>2, <1>3, <1>4

\* The connection comes back on top, and with it the session.
LEMMA SpaceReleased ==
    ASSUME NEW c \in Calls, Typed, Sole, Release(c), conn[c] \in Connections, late' = late,
           settled' # None => InUse = {conn[c]} /\ session'[conn[c]] = settled'
    PROVE  Sole' /\ Told'
<1>1. /\ pool' # <<>> /\ Last(pool') = conn[c]
      /\ InUse' = InUse \ {conn[c]}
      /\ Sole'
  BY ReleaseFacts
<1> QED BY <1>1 DEF Told

LEMMA ToldOfUser ==
    ASSUME NEW c \in Calls, Typed, Sessions, conn[c] \in Connections, settled # None
    PROVE  InUse = {conn[c]} /\ session[conn[c]] = settled
<1>1. conn[c] \in InUse
  BY NotAConnection DEF InUse
<1> QED BY <1>1 DEF Sessions, Told

LEMMA SessionsStep ==
    ASSUME Typed, Sessions, [Next]_vars
    PROVE  Sessions'
<1>1. CASE UNCHANGED graphVars
  BY <1>1, SessionsKept DEF graphVars, Sessions, NodesOwn
<1>2. ASSUME NEW c \in Calls, PrepareSpace(c) PROVE Sessions'
  <2>1. UNCHANGED <<session, late, nodes, unsettled>>
    BY <1>2 DEF PrepareSpace
  <2>2. CASE Acquire(c)
    BY <2>1, <2>2, SpaceAcquired DEF Sessions, NodesOwn
  <2>3. CASE UNCHANGED <<pool, conn, settled>>
    BY <2>1, <2>3, SessionsKept DEF Sessions, NodesOwn
  <2> QED BY <1>2, <2>2, <2>3 DEF PrepareSpace
<1>3. ASSUME NEW c \in Calls, WaitForSpace(c) PROVE Sessions'
  <2>1. /\ Release(c) /\ conn[c] \in Connections /\ UNCHANGED <<session, late, nodes, settled, unsettled>>
    BY <1>3 DEF WaitForSpace, At, Typed, GraphTyped
  <2>2. Sole' /\ Told'
    BY <2>1, ToldOfUser, SpaceReleased DEF Sessions
  <2> QED BY <2>1, <2>2 DEF Sessions, NodesOwn
<1>4. ASSUME NEW c \in Calls, Used(c) PROVE Sessions'
  <2>1. /\ Release(c) /\ conn[c] \in Connections /\ UNCHANGED <<late, nodes, unsettled>>
        /\ session \in [Connections -> Spaces]
    BY <1>4 DEF Used, At, Typed, GraphTyped
  <2>2. CASE /\ session' = [session EXCEPT ![conn[c]] = Project[c]]
             /\ settled' = IF InUse = {conn[c]} THEN Project[c] ELSE None
    <3>1. session'[conn[c]] = Project[c]
      BY <2>1, <2>2
    <3> QED BY <2>1, <2>2, <3>1, SpaceReleased DEF Sessions, NodesOwn
  <2>3. CASE UNCHANGED <<session, settled>>
    BY <2>1, <2>3, ToldOfUser, SpaceReleased DEF Sessions, NodesOwn
  <2> QED BY <1>4, <2>2, <2>3 DEF Used
<1>5. CASE HealthCheck
  <2>1. PICK i \in DOMAIN pool :
           /\ pool' \in {RemoveAt(pool, i), Append(RemoveAt(pool, i), pool[i])}
           /\ session' = [session EXCEPT ![pool[i]] = None]
    BY <1>5 DEF HealthCheck
  <2>2. settled' = None /\ UNCHANGED <<conn, late, nodes, unsettled>>
    BY <1>5 DEF HealthCheck
  <2>3. pool \in Seq(Connections) /\ pool[i] \in Connections /\ pool[i] \in ToSet(pool) /\ Distinct(pool)
    BY <2>1 DEF Typed, GraphTyped, Sessions, Sole, ToSet
  <2>4. /\ RemoveAt(pool, i) \in Seq(Connections) /\ Distinct(RemoveAt(pool, i))
        /\ ToSet(RemoveAt(pool, i)) \subseteq ToSet(pool) /\ pool[i] \notin ToSet(RemoveAt(pool, i))
    BY <2>1, <2>3, Removed
  <2>5. Distinct(pool') /\ ToSet(pool') \subseteq ToSet(pool)
    <3> DEFINE r == RemoveAt(pool, i)
    <3>1. r \in Seq(Connections) /\ Distinct(r) /\ ToSet(r) \subseteq ToSet(pool) /\ pool[i] \notin ToSet(r)
      BY <2>4
    <3> HIDE DEF r
    <3>2. Distinct(Append(r, pool[i])) /\ ToSet(Append(r, pool[i])) = ToSet(r) \cup {pool[i]}
      BY <2>3, <3>1, Pushed
    <3>3. pool' = r \/ pool' = Append(r, pool[i])
      BY <2>1 DEF r
    <3> QED BY <2>3, <3>1, <3>2, <3>3
  <2>6. InUse' = InUse
    BY <2>2 DEF InUse
  <2> QED BY <2>2, <2>5, <2>6 DEF Sessions, Sole, Told, NodesOwn
<1>6. ASSUME NEW c \in Calls, GraphWrite(c) PROVE Sessions'
  <2>1. session' = session /\ late' = late
    BY <1>6 DEF GraphWrite
  <2>2. CASE /\ Acquire(c)
             /\ nodes' = [nodes EXCEPT ![c] = @ \cup {session[conn'[c]]}]
             /\ unsettled' = IF settled' # Project[c] THEN unsettled \cup {c} ELSE unsettled
    <3>1. Sole' /\ Told' /\ (settled' = Project[c] => session[conn'[c]] = Project[c])
      BY <2>1, <2>2, SpaceAcquired
    <3>2. nodes'[c] = nodes[c] \cup {session[conn'[c]]} /\ \A d \in Calls \ {c} : nodes'[d] = nodes[d]
      BY <2>2 DEF Typed, GraphTyped
    <3>3. ASSUME NEW d \in Calls PROVE NodesOwn(d)'
      <4>1. NodesOwn(d)
        BY DEF Sessions
      <4>2. CASE d = c
        BY <2>2, <3>1, <3>2, <4>1, <4>2 DEF NodesOwn
      <4>3. CASE d # c
        BY <2>2, <3>2, <4>1, <4>3 DEF NodesOwn
      <4> QED BY <4>2, <4>3
    <3> QED BY <3>1, <3>3 DEF Sessions
  <2>3. CASE UNCHANGED <<pool, conn, settled, nodes, unsettled>>
    BY <2>1, <2>3, SessionsKept DEF Sessions, NodesOwn
  <2> QED BY <1>6, <2>2, <2>3 DEF GraphWrite
<1>7. ASSUME NEW c \in Calls, Written(c) PROVE Sessions'
  <2>1. conn[c] \in Connections /\ UNCHANGED <<session, nodes, settled, unsettled>>
    BY <1>7 DEF Written, At, Typed, GraphTyped
  <2>2. CASE Release(c) /\ late' = late
    <3>1. Sole' /\ Told'
      BY <2>1, <2>2, ToldOfUser, SpaceReleased DEF Sessions
    <3> QED BY <2>1, <3>1 DEF Sessions, NodesOwn
  <2>3. CASE late' = late \cup {conn[c]} /\ conn' = [conn EXCEPT ![c] = None] /\ UNCHANGED pool
    <3>1. conn'[c] = None /\ \A d \in Calls \ {c} : conn'[d] = conn[d]
      BY <2>3 DEF Typed, GraphTyped
    <3>2. InUse' = InUse
      BY <2>1, <2>3, <3>1, NotAConnection DEF InUse
    <3>3. \A d \in Calls : conn'[d] \notin late'
      BY <2>1, <2>3, <3>1, NotAConnection DEF Sessions, Sole, Typed, GraphTyped
    <3>4. \A d, e \in Calls : conn'[d] = conn'[e] /\ conn'[d] # None => d = e
      BY <3>1 DEF Sessions, Sole
    <3>5. Sole'
      BY <2>3, <3>2, <3>3, <3>4 DEF Sessions, Sole
    <3>6. Told'
      BY <2>1, <2>3, <3>2 DEF Sessions, Told
    <3> QED BY <2>1, <3>5, <3>6 DEF Sessions, NodesOwn
  <2> QED BY <1>7, <2>2, <2>3 DEF Written
<1>8. ASSUME NEW k \in Connections, LateWrite(k) PROVE Sessions'
  <2>1. /\ k \in late /\ late' = late \ {k} /\ pool' = Append(pool, k) /\ pool \in Seq(Connections)
        /\ UNCHANGED <<session, conn, nodes, settled, unsettled>>
    BY <1>8 DEF LateWrite, Typed, GraphTyped
  <2>2. k \in InUse /\ k \notin ToSet(pool)
    BY <2>1 DEF InUse, Sessions, Sole
  <2>3. InUse' = InUse \ {k}
    BY <2>1, <2>2, NotAConnection DEF InUse, Sessions, Sole
  <2>4. /\ pool' # <<>> /\ Last(pool') = k /\ Distinct(pool') /\ ToSet(pool') = ToSet(pool) \cup {k}
    BY <2>1, <2>2, Pushed DEF Sessions, Sole
  <2>5. Sole'
    BY <2>1, <2>3, <2>4 DEF Sessions, Sole
  <2>6. Told'
    BY <2>1, <2>2, <2>3, <2>4 DEF Sessions, Told
  <2> QED BY <2>1, <2>5, <2>6 DEF Sessions, NodesOwn
<1>9. ASSUME NEW c \in Calls, Return(c) PROVE Sessions'
  <2>1. /\ UNCHANGED <<pool, session, conn, late, settled>>
        /\ nodes' = [nodes EXCEPT ![c] = {}] /\ unsettled' = unsettled \ {c}
    BY <1>9 DEF Return
  <2>2. ASSUME NEW d \in Calls PROVE NodesOwn(d)'
    BY <2>1 DEF Sessions, NodesOwn, Typed, GraphTyped
  <2> QED BY <2>1, <2>2, SessionsKept
<1>10. ASSUME NEW c \in Calls,
              \/ Start(c) \/ Initialize(c) \/ Connected(c) \/ NotConnected(c) \/ CollectionReady(c)
              \/ Check(c) \/ Begin(c) \/ QueryEmbedded(c) \/ Read(c) \/ ChunksEmbedded(c) \/ Close(c)
       PROVE  Sessions'
  BY <1>1, <1>10 DEF Start, Initialize, Connected, NotConnected, CollectionReady, Check, Begin,
     QueryEmbedded, Read, ChunksEmbedded, Close
<1>11. CASE UNCHANGED vars
  BY <1>1, <1>11 DEF vars
<1> QED BY <1>2, <1>3, <1>4, <1>5, <1>6, <1>7, <1>8, <1>9, <1>10, <1>11 DEF Next, Prepare, Work

-----------------------------------------------------------------------------
(* The types are kept *)

LEMMA CallsTypedStep ==
    ASSUME Typed, [Next]_vars
    PROVE  CallsTyped'
<1>1. CallsTyped
  BY DEF Typed
<1>2. CASE UNCHANGED callVars
  BY <1>1, <1>2 DEF callVars, CallsTyped
<1>3. ASSUME NEW c \in Calls, NEW label \in Steps, pc' = [pc EXCEPT ![c] = label],
             UNCHANGED <<projectResources, current>>,
             round' = round \/ \E r \in 1..2 : round' = [round EXCEPT ![c] = r]
      PROVE  CallsTyped'
  BY <1>1, <1>3 DEF CallsTyped
<1>4. ASSUME NEW c \in Calls, Prepare(c) PROVE CallsTyped'
  <2>1. /\ UNCHANGED <<projectResources, current, round>>
        /\ \E label \in Steps : pc' = [pc EXCEPT ![c] = label]
    BY <1>4 DEF Prepare, Start, Initialize, Connected, NotConnected, CollectionReady, PrepareSpace,
       WaitForSpace, Used, Assign, Initialized, Goto, Steps, Running
  <2> QED BY <2>1, <1>3
<1>5. ASSUME NEW c \in Calls,
             \/ Check(c) \/ QueryEmbedded(c) \/ Read(c) \/ ChunksEmbedded(c)
             \/ GraphWrite(c) \/ Written(c) \/ Close(c)
      PROVE CallsTyped'
  <2>1. /\ UNCHANGED <<projectResources, current>>
        /\ \E label \in Steps : pc' = [pc EXCEPT ![c] = label]
        /\ round' = round \/ \E r \in 1..2 : round' = [round EXCEPT ![c] = r]
    BY <1>5 DEF Check, QueryEmbedded, Read, ChunksEmbedded, GraphWrite, Written, Close, Goto,
       Steps, Running
  <2> QED BY <2>1, <1>3
<1>6. ASSUME NEW c \in Calls, Begin(c) PROVE CallsTyped'
  <2>1. /\ projectResources' = projectResources \cup {Project[c]}
        /\ current' \in Stores \cup {None} /\ round' = round
        /\ \E label \in Steps : pc' = [pc EXCEPT ![c] = label]
    BY <1>1, <1>6 DEF Begin, Goto, CallsTyped, Steps, Running
  <2> QED BY <1>1, <2>1, OfACall DEF CallsTyped
<1>7. ASSUME NEW c \in Calls, Return(c) PROVE CallsTyped'
  <2>1. /\ projectResources' = projectResources
        /\ current' \in {current, None} /\ round' = [round EXCEPT ![c] = 1]
        /\ pc' = [pc EXCEPT ![c] = "done"]
    BY <1>7 DEF Return, Goto
  <2> QED BY <1>1, <2>1 DEF CallsTyped, Steps
<1>8. CASE \E k \in Connections : LateWrite(k)
  BY <1>2, <1>8 DEF LateWrite
<1>9. CASE HealthCheck
  BY <1>2, <1>9 DEF HealthCheck
<1>10. CASE UNCHANGED vars
  BY <1>2, <1>10 DEF vars
<1> QED BY <1>4, <1>5, <1>6, <1>7, <1>8, <1>9, <1>10 DEF Next, Work

LEMMA VectorTypedStep ==
    ASSUME Typed, [Next]_vars
    PROVE  VectorTyped'
<1>1. VectorTyped
  BY DEF Typed
<1>2. CASE UNCHANGED <<vectorVars, points>>
  BY <1>1, <1>2 DEF vectorVars, VectorTyped
<1>3. ASSUME NEW c \in Calls,
             Start(c) \/ Initialize(c) \/ Connected(c) \/ NotConnected(c) \/ CollectionReady(c)
      PROVE  VectorTyped'
  <2>1. /\ isInitialized' \in {isInitialized, TRUE}
        /\ collection' \in {collection, goal[c]} /\ UNCHANGED <<goal, points>>
    BY <1>3 DEF Start, Initialize, Connected, NotConnected, CollectionReady, Assign
  <2>2. crossed' \subseteq Calls
    BY <1>1, <1>3 DEF Start, Initialize, Connected, NotConnected, CollectionReady, Assign, Underway,
       VectorTyped
  <2> QED BY <1>1, <2>1, <2>2 DEF VectorTyped
<1>4. ASSUME NEW c \in Calls, Check(c) PROVE VectorTyped'
  <2>1. /\ UNCHANGED <<isInitialized, collection, crossed, points>>
        /\ goal' = goal \/ goal' = [goal EXCEPT ![c] = Default]
    BY <1>4 DEF Check
  <2> QED BY <1>1, <2>1, OfACall DEF VectorTyped
<1>5. ASSUME NEW c \in Calls, Read(c) \/ ChunksEmbedded(c) PROVE VectorTyped'
  <2>1. /\ UNCHANGED vectorVars
        /\ points' = points \/ points' = [points EXCEPT ![c] = @ \cup {collection}]
    BY <1>5 DEF Read, ChunksEmbedded
  <2> QED BY <1>1, <2>1 DEF VectorTyped, vectorVars
<1>6. ASSUME NEW c \in Calls, Return(c) PROVE VectorTyped'
  <2>1. /\ UNCHANGED <<isInitialized, collection>>
        /\ goal' = [goal EXCEPT ![c] = Project[c]] /\ points' = [points EXCEPT ![c] = {}]
        /\ crossed' = crossed \ {c}
    BY <1>6 DEF Return
  <2> QED BY <1>1, <2>1, OfACall DEF VectorTyped
<1>7. ASSUME NEW c \in Calls,
             \/ PrepareSpace(c) \/ WaitForSpace(c) \/ Used(c) \/ Begin(c) \/ QueryEmbedded(c)
             \/ GraphWrite(c) \/ Written(c) \/ Close(c)
      PROVE  VectorTyped'
  BY <1>2, <1>7 DEF PrepareSpace, WaitForSpace, Used, Begin, QueryEmbedded, GraphWrite, Written, Close
<1>8. CASE \E k \in Connections : LateWrite(k)
  BY <1>2, <1>8 DEF LateWrite
<1>9. CASE HealthCheck
  BY <1>2, <1>9 DEF HealthCheck
<1>10. CASE UNCHANGED vars
  BY <1>2, <1>10 DEF vars
<1> QED BY <1>3, <1>4, <1>5, <1>6, <1>7, <1>8, <1>9, <1>10 DEF Next, Prepare, Work

LEMMA GraphTypedStep ==
    ASSUME Typed, Sessions, [Next]_vars
    PROVE  GraphTyped'
<1>1. GraphTyped /\ pc \in [Calls -> Steps]
  BY DEF Typed, CallsTyped
\* Only a step that acquires a connection goes to a query.
<1>2. ASSUME NEW c \in Calls, NEW label \in Steps \ {"use", "write"}, pc' = [pc EXCEPT ![c] = label],
             UNCHANGED graphVars
      PROVE  GraphTyped'
  BY <1>1, <1>2 DEF graphVars, GraphTyped
<1>3. ASSUME NEW c \in Calls, NEW label \in Steps, pc' = [pc EXCEPT ![c] = label],
             Acquire(c), late' = late, session' = session,
             unsettled' \subseteq Calls, nodes' \in [Calls -> SUBSET Spaces]
      PROVE  GraphTyped'
  <2>1. PICK k \in Connections :
           conn' = [conn EXCEPT ![c] = k] /\ pool' \in Seq(Connections) /\ settled' \in Spaces
    BY <1>3, AcquireFacts DEF Sessions
  <2>2. \A d \in Calls : pc'[d] \in {"use", "write"} => conn'[d] \in Connections
    BY <1>1, <1>3, <2>1 DEF GraphTyped
  <2> QED BY <1>1, <1>3, <2>1, <2>2 DEF GraphTyped
<1>4. ASSUME NEW c \in Calls, NEW label \in Steps \ {"use", "write"}, pc' = [pc EXCEPT ![c] = label],
             Release(c), pc[c] \in {"use", "write"}, late' = late, settled' \in Spaces,
             session' \in [Connections -> Spaces], UNCHANGED <<nodes, unsettled>>
      PROVE  GraphTyped'
  <2>1. conn' = [conn EXCEPT ![c] = None] /\ pool' \in Seq(Connections)
    BY <1>1, <1>4, ReleaseFacts DEF Sessions, GraphTyped
  <2>2. \A d \in Calls : pc'[d] \in {"use", "write"} => conn'[d] \in Connections
    BY <1>1, <1>4, <2>1 DEF GraphTyped
  <2> QED BY <1>1, <1>4, <2>1, <2>2 DEF GraphTyped
<1>5. ASSUME NEW c \in Calls,
             \/ Start(c) \/ Initialize(c) \/ Connected(c) \/ NotConnected(c) \/ CollectionReady(c)
             \/ Check(c) \/ Begin(c) \/ QueryEmbedded(c) \/ Read(c) \/ ChunksEmbedded(c) \/ Close(c)
      PROVE  GraphTyped'
  <2>1. UNCHANGED graphVars /\ \E label \in Steps \ {"use", "write"} : pc' = [pc EXCEPT ![c] = label]
    BY <1>5 DEF Start, Initialize, Connected, NotConnected, CollectionReady, Check, Begin,
       QueryEmbedded, Read, ChunksEmbedded, Close, Assign, Initialized, Goto, Steps, Running
  <2> QED BY <1>2, <2>1
<1>6. ASSUME NEW c \in Calls, Return(c) PROVE GraphTyped'
  <2>1. /\ UNCHANGED <<pool, session, conn, late, settled>> /\ pc' = [pc EXCEPT ![c] = "done"]
        /\ nodes' = [nodes EXCEPT ![c] = {}] /\ unsettled' = unsettled \ {c}
    BY <1>6 DEF Return, Goto
  <2> QED BY <1>1, <2>1 DEF GraphTyped
<1>7. ASSUME NEW c \in Calls, PrepareSpace(c) PROVE GraphTyped'
  <2>1. UNCHANGED <<session, late, nodes, unsettled>>
    BY <1>7 DEF PrepareSpace
  <2>2. CASE Acquire(c) /\ pc' = [pc EXCEPT ![c] = "use"]
    BY <1>1, <1>3, <2>1, <2>2 DEF GraphTyped, Steps
  <2>3. CASE pc' = [pc EXCEPT ![c] = "begin"] /\ UNCHANGED <<pool, conn, settled>>
    BY <1>2, <2>1, <2>3 DEF graphVars, Steps, Running
  <2> QED BY <1>7, <2>2, <2>3 DEF PrepareSpace, Goto
<1>8. ASSUME NEW c \in Calls, WaitForSpace(c) PROVE GraphTyped'
  BY <1>1, <1>4, <1>8 DEF WaitForSpace, At, Goto, GraphTyped, Steps
<1>9. ASSUME NEW c \in Calls, Used(c) PROVE GraphTyped'
  <2>1. settled' \in Spaces /\ session' \in [Connections -> Spaces]
    BY <1>1, <1>9, OfACall DEF Used, GraphTyped, Spaces
  <2> QED BY <1>4, <1>9, <2>1 DEF Used, At, Goto, Steps, Running
<1>10. ASSUME NEW c \in Calls, GraphWrite(c) PROVE GraphTyped'
  <2>1. session' = session /\ late' = late
    BY <1>10 DEF GraphWrite
  <2>2. CASE /\ Acquire(c) /\ pc' = [pc EXCEPT ![c] = "write"]
             /\ nodes' = [nodes EXCEPT ![c] = @ \cup {session[conn'[c]]}]
             /\ unsettled' = IF settled' # Project[c] THEN unsettled \cup {c} ELSE unsettled
    <3>1. conn'[c] \in Connections
      BY <2>1, <2>2, SpaceAcquired
    <3>2. nodes' \in [Calls -> SUBSET Spaces] /\ unsettled' \subseteq Calls
      BY <1>1, <2>2, <3>1 DEF GraphTyped
    <3> QED BY <1>3, <2>1, <2>2, <3>2 DEF Steps
  <2>3. ASSUME NEW label \in {"check", "close"}, pc' = [pc EXCEPT ![c] = label],
               UNCHANGED <<pool, conn, settled, nodes, unsettled>>
        PROVE  GraphTyped'
    BY <1>2, <2>1, <2>3 DEF graphVars, Steps, Running
  <2> QED BY <1>10, <2>2, <2>3 DEF GraphWrite, Goto
<1>11. ASSUME NEW c \in Calls, Written(c) PROVE GraphTyped'
  <2>1. /\ pc[c] = "write" /\ conn[c] \in Connections /\ UNCHANGED <<session, nodes, settled, unsettled>>
        /\ \E label \in {"check", "return", "close"} : pc' = [pc EXCEPT ![c] = label]
    BY <1>1, <1>11 DEF Written, At, Goto, GraphTyped
  <2>2. CASE Release(c) /\ late' = late
    BY <1>1, <1>4, <2>1, <2>2 DEF GraphTyped, Steps, Running
  <2>3. CASE late' = late \cup {conn[c]} /\ conn' = [conn EXCEPT ![c] = None] /\ UNCHANGED pool
    <3>1. \A d \in Calls : pc'[d] \in {"use", "write"} => d # c /\ pc[d] \in {"use", "write"}
      BY <1>1, <2>1
    <3> QED BY <1>1, <2>1, <2>3, <3>1 DEF GraphTyped
  <2> QED BY <1>11, <2>2, <2>3 DEF Written
<1>12. ASSUME NEW k \in Connections, LateWrite(k) PROVE GraphTyped'
  BY <1>1, <1>12 DEF LateWrite, callVars, GraphTyped
<1>13. CASE HealthCheck
  <2>1. PICK i \in DOMAIN pool :
           /\ pool' \in {RemoveAt(pool, i), Append(RemoveAt(pool, i), pool[i])}
           /\ session' = [session EXCEPT ![pool[i]] = None]
    BY <1>13 DEF HealthCheck
  <2>2. pool[i] \in Connections /\ RemoveAt(pool, i) \in Seq(Connections) /\ None \in Spaces
    BY <1>1, <2>1, Removed DEF GraphTyped, Spaces
  <2>3. pool' \in Seq(Connections) /\ session' \in [Connections -> Spaces]
    <3>1. pool' \in Seq(Connections)
      BY <2>1, <2>2, Pushed
    <3>2. session' \in [Connections -> Spaces]
      BY <1>1, <2>1, <2>2 DEF GraphTyped
    <3> QED BY <3>1, <3>2
  <2> QED BY <1>1, <1>13, <2>2, <2>3 DEF HealthCheck, callVars, GraphTyped
<1>14. CASE UNCHANGED vars
  BY <1>1, <1>14 DEF vars, graphVars, callVars, GraphTyped
<1> QED BY <1>5, <1>6, <1>7, <1>8, <1>9, <1>10, <1>11, <1>12, <1>13, <1>14 DEF Next, Prepare, Work

-----------------------------------------------------------------------------
(* The theorems *)

IndInv == Typed /\ Sessions /\ \A c \in Calls : OnCollection(c)

LEMMA InitHolds == Init => IndInv
<1> SUFFICES ASSUME Init PROVE IndInv
  OBVIOUS
<1>1. CallsTyped
  BY DEF Init, CallsTyped, Steps
<1>2. VectorTyped
  <2>1. goal \in [Calls -> Collections]
    BY OfACall DEF Init
  <2> QED BY <2>1 DEF Init, VectorTyped, Collections
<1>3. GraphTyped
  BY InitPool DEF Init, GraphTyped, Spaces
<1>4. InUse = {}
  BY DEF Init, InUse
<1>5. Sessions
  BY <1>4, InitPool DEF Init, Sessions, Sole, Told, NodesOwn
<1>6. \A c \in Calls : OnCollection(c)
  BY DEF Init, OnCollection, Past
<1> QED BY <1>1, <1>2, <1>3, <1>5, <1>6 DEF IndInv, Typed

\* The inductive invariant: types, one holder per connection with the settled
\* space in its session, and the current collection of every call not crossed.
THEOREM Invariance == Spec => []IndInv
<1>1. IndInv /\ [Next]_vars => IndInv'
  BY CallsTypedStep, VectorTypedStep, GraphTypedStep, SessionsStep, CollectionStep DEF IndInv, Typed
<1> QED BY <1>1, InitHolds, PTL DEF Spec

\* Every variable keeps its type, and a call at a query has a connection.
THEOREM TypeCorrect == Spec => []TypeOK
<1>1. IndInv => TypeOK
  BY TypedMeansTypeOK DEF IndInv
<1> QED BY <1>1, Invariance, PTL

\* A call of store or searchVectors during which initialize set no other
\* collection sends its points to the collection of its own project.
THEOREM OwnCollection == Spec => []InOwnCollection
<1>1. IndInv => InOwnCollection
  BY DEF IndInv, OnCollection, InOwnCollection
<1> QED BY <1>1, Invariance, PTL

\* As long as queries do not overlap and no connection is replaced, the query
\* after a USE runs in the session the USE reached: the nodes of a store go to
\* the space of its project.
THEOREM OwnSpace == Spec => []InOwnSpace
<1>1. IndInv => InOwnSpace
  BY DEF IndInv, Sessions, NodesOwn, InOwnSpace
<1> QED BY <1>1, Invariance, PTL
=============================================================================
