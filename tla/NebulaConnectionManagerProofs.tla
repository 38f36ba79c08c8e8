-------------------- MODULE NebulaConnectionManagerProofs --------------------
(***************************************************************************)
(* Proofs about NebulaConnectionManager, for any numbers of queries,       *)
(* connects, disconnects and ticks and any sizes of the pool.              *)
(***************************************************************************)
EXTENDS NebulaConnectionManager, FiniteSetTheorems, TLAPS

-----------------------------------------------------------------------------
(* Sequences of connections *)

LEMMA AppendAdds ==
    ASSUME NEW s \in Seq(Nat), NEW e \in Nat
    PROVE  /\ Append(s, e) \in Seq(Nat)
           /\ DOMAIN Append(s, e) = 1..(Len(s) + 1) /\ DOMAIN s = 1..Len(s) /\ Len(s) \in Nat
           /\ \A i \in 1..Len(s) : Append(s, e)[i] = s[i]
           /\ Append(s, e)[Len(s) + 1] = e
           /\ ToSet(Append(s, e)) = ToSet(s) \cup {e}
<1>1. /\ Append(s, e) \in Seq(Nat)
      /\ DOMAIN Append(s, e) = 1..(Len(s) + 1) /\ DOMAIN s = 1..Len(s) /\ Len(s) \in Nat
      /\ \A i \in 1..Len(s) : Append(s, e)[i] = s[i]
      /\ Append(s, e)[Len(s) + 1] = e
  OBVIOUS
<1>2. ToSet(Append(s, e)) = ToSet(s) \cup {e}
  BY <1>1, SMT DEF ToSet
<1> QED
  BY <1>1, <1>2

\* A sequence without repetitions.
Distinct(s) == \A i, j \in DOMAIN s : s[i] = s[j] => i = j

LEMMA AppendKeepsDistinct ==
    ASSUME NEW s \in Seq(Nat), NEW e \in Nat, Distinct(s), e \notin ToSet(s)
    PROVE  Distinct(Append(s, e))
  BY AppendAdds, SMT DEF Distinct, ToSet

LEMMA FrontRemovesLast ==
    ASSUME NEW s \in Seq(Nat), s # <<>>
    PROVE  /\ Front(s) \in Seq(Nat)
           /\ Last(s) \in ToSet(s) /\ Last(s) \in Nat
           /\ ToSet(Front(s)) \subseteq ToSet(s)
           /\ ToSet(s) \subseteq ToSet(Front(s)) \cup {Last(s)}
           /\ Distinct(s) => Distinct(Front(s)) /\ Last(s) \notin ToSet(Front(s))
<1>1. Len(s) \in Nat /\ Len(s) > 0 /\ DOMAIN s = 1..Len(s)
  OBVIOUS
<1>2. /\ Front(s) \in Seq(Nat)
      /\ DOMAIN Front(s) = 1..(Len(s) - 1)
      /\ \A i \in 1..(Len(s) - 1) : Front(s)[i] = s[i]
  BY <1>1 DEF Front
<1>3. Last(s) = s[Len(s)] /\ Last(s) \in Nat /\ Last(s) \in ToSet(s)
  BY <1>1 DEF Last, ToSet
<1> DEFINE f == Front(s)
           n == Len(s)
<1>4. /\ n \in Nat /\ n > 0 /\ DOMAIN s = 1..n /\ DOMAIN f = 1..(n - 1)
      /\ \A i \in 1..(n - 1) : f[i] = s[i]
      /\ Last(s) = s[n]
  BY <1>1, <1>2, <1>3
<1> HIDE DEF f, n
<1>5. ToSet(f) \subseteq ToSet(s)
  BY <1>4 DEF ToSet
<1>6. ToSet(s) \subseteq ToSet(f) \cup {Last(s)}
  <2> SUFFICES ASSUME NEW i \in 1..n, i # n PROVE s[i] \in ToSet(f)
    BY <1>4 DEF ToSet
  <2>1. i \in 1..(n - 1)
    BY <1>4
  <2> QED
    BY <2>1, <1>4 DEF ToSet
<1>7. Distinct(s) => Distinct(f)
  BY <1>4 DEF Distinct
<1>8. Distinct(s) => Last(s) \notin ToSet(f)
  <2> SUFFICES ASSUME Distinct(s), NEW i \in 1..(n - 1), s[n] = f[i] PROVE FALSE
    BY <1>4 DEF ToSet
  <2> QED
    BY <1>4 DEF Distinct
<1> QED
  BY <1>2, <1>3, <1>5, <1>6, <1>7, <1>8 DEF f

LEMMA WithoutFilters ==
    ASSUME NEW s \in Seq(Nat), NEW bad, NEW r \in Without(s, bad)
    PROVE  /\ r \in Seq(Nat)
           /\ ToSet(r) \subseteq ToSet(s)
           /\ ToSet(s) \subseteq ToSet(r) \cup bad
           /\ Distinct(s) => Distinct(r)
<1> DEFINE kept == {i \in DOMAIN s : s[i] \notin bad}
           size == Cardinality(kept)
<1>1. /\ DOMAIN s = 1..Len(s) /\ Len(s) \in Nat
      /\ \A i \in DOMAIN s : s[i] \in Nat
  OBVIOUS
<1>2. size \in Nat
  <2>1. IsFiniteSet(1..Len(s))
    BY <1>1, FS_Interval
  <2>2. IsFiniteSet(kept)
    BY <1>1, <2>1, FS_Subset
  <2> QED
    BY <2>2, FS_CardinalityType
<1>3. PICK g \in [1..size -> kept] :
        /\ \A a, b \in 1..size : a < b => g[a] < g[b]
        /\ kept = {g[a] : a \in 1..size}
        /\ r = [a \in 1..size |-> s[g[a]]]
  BY DEF Without
<1> HIDE DEF size
<1>4. /\ r \in Seq(Nat) /\ DOMAIN r = 1..size
      /\ \A a \in 1..size : r[a] = s[g[a]] /\ g[a] \in DOMAIN s
  <2>1. \A a \in 1..size : g[a] \in DOMAIN s
    BY <1>3
  <2>2. DOMAIN r = 1..size /\ \A a \in 1..size : r[a] = s[g[a]]
    BY <1>3
  <2>3. \A a \in 1..size : r[a] \in Nat
    BY <1>1, <2>1, <2>2
  <2>4. r = [a \in 1..size |-> r[a]]
    BY <1>3, <2>2
  <2>5. r \in [1..size -> Nat]
    BY <2>3, <2>4
  <2>6. r \in Seq(Nat)
    BY <1>2, <2>5
  <2> QED
    BY <2>1, <2>2, <2>6
<1>5. ToSet(r) \subseteq ToSet(s)
  BY <1>4 DEF ToSet
<1>6. ToSet(s) \subseteq ToSet(r) \cup bad
  <2> SUFFICES ASSUME NEW i \in DOMAIN s, s[i] \notin bad
               PROVE  s[i] \in ToSet(r)
    BY DEF ToSet
  <2>1. PICK a \in 1..size : i = g[a]
    BY <1>3
  <2> QED
    BY <2>1, <1>4 DEF ToSet
<1>7. ASSUME Distinct(s) PROVE Distinct(r)
  <2> SUFFICES ASSUME NEW a \in 1..size, NEW b \in 1..size, r[a] = r[b]
               PROVE  a = b
    BY <1>4 DEF Distinct
  <2>1. g[a] = g[b] /\ g[a] \in Nat
    BY <1>1, <1>4, <1>7 DEF Distinct
  <2> QED
    BY <2>1, <1>2, <1>3
<1> QED
  BY <1>4, <1>5, <1>6, <1>7

-----------------------------------------------------------------------------
(* Types *)

Flags ==
    /\ isConnected \in BOOLEAN /\ poolInitialized \in BOOLEAN /\ timer \in BOOLEAN
    /\ disturbed \in BOOLEAN

PoolType ==
    /\ pool \in Seq(Nat) /\ array \in [Checks -> Seq(Nat)]
    /\ detached \subseteq Checks /\ place \in [Checks -> Nat]

SetType == made \in Nat /\ open \subseteq 1..made /\ lost \subseteq 1..made

CallType ==
    /\ total \in Int /\ inUse \in Int /\ stuck \in Nat
    /\ pc \in [Procs -> {"idle", "creating", "initialized", "executing", "checking",
                         "closing", "cleaned", "done"}]
    /\ conn \in [Queries \cup Checks -> Nat]
    /\ need \in [Connects \cup Checks -> Int]
    /\ drop \in [Closers -> Seq(Nat)]

LEMMA TypeParts ==
    /\ TypeOK <=> Flags /\ PoolType /\ SetType /\ CallType
    /\ TypeOK' <=> Flags' /\ PoolType' /\ SetType' /\ CallType'
<1>1. TypeOK <=> Flags /\ PoolType /\ SetType /\ CallType
  BY Zenon DEF TypeOK, Flags, PoolType, SetType, CallType
<1>2. TypeOK' <=> Flags' /\ PoolType' /\ SetType' /\ CallType'
  BY Zenon DEF TypeOK, Flags, PoolType, SetType, CallType
<1> QED
  BY <1>1, <1>2

LEMMA InitType == Init => TypeOK
<1> SUFFICES ASSUME Init PROVE Flags /\ PoolType /\ SetType /\ CallType
  BY TypeParts
<1>1. Flags
  BY Zenon DEF Init, Flags
<1>2. PoolType /\ SetType
  BY DEF Init, PoolType, SetType
<1>3. CallType
  BY DEF Init, CallType, Procs, Closers
<1> QED
  BY <1>1, <1>2, <1>3

\* Only the following facts about the processes are used.
LEMMA Members ==
    /\ \A q \in Queries : q \in Procs /\ q \in Queries \cup Checks /\ q \notin Closers
    /\ \A p \in Closers : p \in Procs /\ p \notin Queries
    /\ \A k \in Connects : k \in Closers /\ k \in Connects \cup Checks /\ k \notin Checks
    /\ \A d \in Disconnects : d \in Closers /\ d \notin Checks
    /\ \A h \in Checks : /\ h \in Closers /\ h \in Connects \cup Checks
                           /\ h \in Queries \cup Checks /\ h \notin Queries
  BY ProcsAssumption DEF Procs, Closers

LEMMA Made ==
    ASSUME SetType, made' = made + 1, open' = open \cup {made + 1},
           lost' \subseteq lost \cup {made + 1}
    PROVE  SetType'
<1>1. made + 1 \in Nat /\ \A x \in 1..made : x \in 1..(made + 1)
  BY DEF SetType
<1>2. made + 1 \in 1..(made + 1)
  BY DEF SetType
<1> QED
  BY <1>1, <1>2, Zenon DEF SetType

LEMMA GivenUp ==
    ASSUME SetType, GiveUp
    PROVE  SetType'
  BY Made DEF GiveUp, SetType

LEMMA Closed ==
    ASSUME SetType, NEW S, Close(S), made' = made
    PROVE  SetType' /\ open' \ lost' \subseteq (open \ lost) \ S
<1>1. PICK failed \in SUBSET (S \cap open) : open' = open \ (S \ failed) /\ lost' = lost \cup failed
  BY DEF Close
<1> QED
  BY <1>1 DEF SetType

LEMMA QueryType ==
    ASSUME TypeOK, NEW q \in Queries, Query(q)
    PROVE  TypeOK'
<1> USE Members, TypeParts
<1>1. CASE Pop(q)
  <2>1. Flags'
    BY <1>1, Zenon DEF Pop, Flags, linkVars
  <2>2. PoolType'
    BY <1>1, FrontRemovesLast DEF Pop, PoolType, loopVars
  <2>3. SetType'
    BY <1>1 DEF Pop, SetType
  <2>4. CallType'
    BY <1>1, FrontRemovesLast DEF Pop, CallType, PoolType, Goto
  <2> QED
    BY <2>1, <2>2, <2>3, <2>4
<1>2. CASE StartCreating(q)
  <2>1. Flags'
    BY <1>2, Zenon DEF StartCreating, Flags, linkVars
  <2>2. PoolType' /\ SetType'
    BY <1>2 DEF StartCreating, PoolType, SetType, loopVars
  <2>3. CallType'
    BY <1>2 DEF StartCreating, CallType, Goto
  <2> QED
    BY <2>1, <2>2, <2>3
<1>3. CASE Refuse(q)
  <2>1. Flags'
    BY <1>3, Zenon DEF Refuse, Flags, linkVars, countVars
  <2>2. PoolType' /\ SetType'
    BY <1>3 DEF Refuse, PoolType, SetType, loopVars
  <2>3. CallType'
    BY <1>3 DEF Refuse, CallType, Goto, countVars
  <2> QED
    BY <2>1, <2>2, <2>3
<1>4. CASE Created(q)
  <2>1. Flags'
    BY <1>4, Zenon DEF Created, Flags, linkVars
  <2>2. PoolType'
    BY <1>4 DEF Created, PoolType, loopVars
  <2>3. SetType'
    BY <1>4, Made DEF Created
  <2>4. CallType'
    BY <1>4 DEF Created, CallType, SetType, Goto
  <2> QED
    BY <2>1, <2>2, <2>3, <2>4
<1>5. CASE CreateFails(q)
  <2>1. Flags'
    BY <1>5, Zenon DEF CreateFails, Flags, linkVars, countVars
  <2>2. PoolType'
    BY <1>5 DEF CreateFails, PoolType, loopVars
  <2>3. SetType'
    BY <1>5, GivenUp DEF CreateFails
  <2>4. CallType'
    BY <1>5 DEF CreateFails, CallType, Goto, countVars
  <2> QED
    BY <2>1, <2>2, <2>3, <2>4
<1>6. CASE Release(q)
  <2>1. Flags'
    BY <1>6, Zenon DEF Release, Flags, linkVars
  <2>2. PoolType'
    <3>1. Append(pool, conn[q]) \in Seq(Nat)
      BY AppendAdds DEF PoolType, CallType
    <3>2. pool' \in Seq(Nat)
      BY <1>6, <3>1 DEF Release, PoolType
    <3> QED
      BY <1>6, <3>2 DEF Release, PoolType, loopVars
  <2>3. SetType'
    BY <1>6 DEF Release, SetType
  <2>4. CallType'
    BY <1>6 DEF Release, CallType, Goto
  <2> QED
    BY <2>1, <2>2, <2>3, <2>4
<1>7. CASE ReleaseFull(q)
  <2>1. Flags'
    BY <1>7, Zenon DEF ReleaseFull, Flags, linkVars
  <2>2. PoolType'
    BY <1>7 DEF ReleaseFull, PoolType, loopVars
  <2>3. SetType'
    BY <1>7, Closed DEF ReleaseFull
  <2>4. CallType'
    BY <1>7 DEF ReleaseFull, CallType, Goto
  <2> QED
    BY <2>1, <2>2, <2>3, <2>4
<1> QED
  BY <1>1, <1>2, <1>3, <1>4, <1>5, <1>6, <1>7 DEF Query

LEMMA ReplaceType ==
    ASSUME PoolType, NEW newPool \in Seq(Nat), NEW p, Replace(newPool, p)
    PROVE  /\ pool' \in Seq(Nat)
           /\ array' \in [Checks -> Seq(Nat)] /\ detached' \subseteq Checks
  BY DEF PoolType, Replace

LEMMA ResetType ==
    ASSUME NEW p \in Closers, Reset(p)
    PROVE  /\ total' \in Int /\ inUse' \in Int /\ stuck' \in Nat
           /\ poolInitialized' \in BOOLEAN /\ disturbed' \in BOOLEAN
           /\ pc' = [pc EXCEPT ![p] = "cleaned"]
<1>1. disturbed' \in BOOLEAN /\ poolInitialized' \in BOOLEAN
  BY Zenon DEF Reset
<1>2. total' \in Int /\ inUse' \in Int /\ stuck' \in Nat
  BY DEF Reset
<1> QED
  BY <1>1, <1>2 DEF Reset, Goto

LEMMA CleanupType ==
    ASSUME TypeOK, NEW p \in Connects \cup Disconnects, Cleanup(p), isConnected' = isConnected
    PROVE  TypeOK'
<1> USE Members, TypeParts
<1>1. PoolType' /\ SetType'
  <2>1. Replace(<<>>, p) /\ <<>> \in Seq(Nat)
    BY DEF Cleanup
  <2> QED
    BY <2>1, ReplaceType DEF Cleanup, PoolType, SetType
<1>2. CASE pool # <<>>
  <2>1. Flags'
    BY <1>2, Zenon DEF Cleanup, Flags, countVars
  <2>2. CallType'
    <3>1. /\ drop' = [drop EXCEPT ![p] = pool] /\ pc' = [pc EXCEPT ![p] = "closing"]
          /\ UNCHANGED <<total, inUse, stuck, conn, need>>
      BY <1>2 DEF Cleanup, Goto, countVars
    <3> QED
      BY <3>1 DEF CallType, PoolType
  <2> QED
    BY <1>1, <2>1, <2>2
<1>3. CASE pool = <<>>
  <2>1. Reset(p) /\ UNCHANGED drop
    BY <1>3 DEF Cleanup
  <2>2. Flags'
    BY <2>1, ResetType, Zenon DEF Cleanup, Flags
  <2>3. CallType'
    BY <2>1, ResetType DEF Cleanup, CallType
  <2> QED
    BY <1>1, <2>2, <2>3
<1> QED
  BY <1>2, <1>3

LEMMA CleaningType ==
    ASSUME TypeOK, NEW p \in Connects \cup Disconnects, CleanupEnds(p) \/ Cleaned(p)
    PROVE  TypeOK'
<1> USE Members, TypeParts
<1>1. CASE CleanupEnds(p)
  <2>1. Reset(p)
    BY <1>1 DEF CleanupEnds
  <2>2. Flags'
    BY <1>1, <2>1, ResetType, Zenon DEF CleanupEnds, Flags
  <2>3. PoolType' /\ SetType'
    BY <1>1, Closed DEF CleanupEnds, PoolType, loopVars
  <2>4. CallType'
    <3>1. drop' = [drop EXCEPT ![p] = <<>>] /\ UNCHANGED <<conn, need>>
      BY <1>1 DEF CleanupEnds
    <3>2. drop' \in [Closers -> Seq(Nat)]
      BY <3>1 DEF CallType
    <3> QED
      BY <2>1, <3>1, <3>2, ResetType DEF CallType
  <2> QED
    BY <2>2, <2>3, <2>4
<1>2. CASE Cleaned(p)
  <2>1. isConnected' \in BOOLEAN
    BY <1>2 DEF Cleaned, Flags
  <2>2. Flags'
    BY <1>2, <2>1, Zenon DEF Cleaned, Flags, countVars
  <2>3. PoolType' /\ SetType' /\ CallType'
    BY <1>2 DEF Cleaned, PoolType, SetType, CallType, Goto, loopVars, countVars
  <2> QED
    BY <2>2, <2>3
<1> QED
  BY <1>1, <1>2

LEMMA ConnectingType ==
    ASSUME TypeOK, NEW k \in Connects, Connecting(k)
    PROVE  TypeOK'
<1> USE Members, TypeParts
<1>1. CASE Connect(k)
  <2>1. Flags'
    BY <1>1, Zenon DEF Connect, Disturb, Flags, linkVars
  <2>2. PoolType' /\ SetType'
    BY <1>1 DEF Connect, PoolType, SetType, loopVars
  <2>3. CallType'
    <3>1. \/ pc' = [pc EXCEPT ![k] = "done"] /\ UNCHANGED need
          \/ pc' = [pc EXCEPT ![k] = "initialized"] /\ UNCHANGED need
          \/ pc' = [pc EXCEPT ![k] = "creating"] /\ need' = [need EXCEPT ![k] = MinPoolSize]
      BY <1>1, Zenon DEF Connect, Goto
    <3>2. UNCHANGED <<total, inUse, stuck, conn, drop>>
      BY <1>1 DEF Connect
    <3>3. MinPoolSize \in Int
      BY SizeAssumption
    <3>4. need' \in [Connects \cup Checks -> Int]
      BY <3>1, <3>3 DEF CallType
    <3>5. pc' \in [Procs -> {"idle", "creating", "initialized", "executing", "checking",
                            "closing", "cleaned", "done"}]
      BY <3>1 DEF CallType
    <3> QED
      BY <3>2, <3>4, <3>5 DEF CallType
  <2> QED
    BY <2>1, <2>2, <2>3
<1>2. CASE Fill(k)
  <2>1. Flags'
    BY <1>2, Zenon DEF Fill, FillGoesOn, Disturb, Flags
  <2>2. PoolType'
    <3>1. Append(pool, made + 1) \in Seq(Nat)
      BY AppendAdds DEF PoolType, SetType
    <3>2. pool' \in Seq(Nat)
      BY <1>2, <3>1 DEF Fill, PoolType
    <3> QED
      BY <1>2, <3>2 DEF Fill, PoolType, loopVars
  <2>3. SetType'
    BY <1>2, Made, GivenUp DEF Fill
  <2>4. CallType'
    <3>1. total' \in Int
      BY <1>2 DEF Fill, CallType
    <3>2. FillGoesOn(k) /\ UNCHANGED <<inUse, stuck, conn, drop>>
      BY <1>2 DEF Fill
    <3>3. /\ need' = [need EXCEPT ![k] = need[k] - 1]
          /\ UNCHANGED pc \/ pc' = [pc EXCEPT ![k] = "initialized"]
      BY <3>2, Zenon DEF FillGoesOn, Goto
    <3>4. need' \in [Connects \cup Checks -> Int]
      BY <3>3 DEF CallType
    <3>5. pc' \in [Procs -> {"idle", "creating", "initialized", "executing", "checking",
                            "closing", "cleaned", "done"}]
      BY <3>3 DEF CallType
    <3> QED
      BY <3>1, <3>2, <3>4, <3>5 DEF CallType
  <2> QED
    BY <2>1, <2>2, <2>3, <2>4
<1>3. CASE Connected(k)
  <2>1. Flags'
    BY <1>3, Zenon DEF Connected, Flags, countVars
  <2>2. PoolType' /\ SetType' /\ CallType'
    BY <1>3 DEF Connected, PoolType, SetType, CallType, Goto, loopVars, countVars
  <2> QED
    BY <2>1, <2>2
<1>4. CASE ConnectFails(k)
  BY <1>4, CleanupType DEF ConnectFails
<1>5. CASE CleanupEnds(k) \/ Cleaned(k)
  BY <1>5, CleaningType
<1> QED
  BY <1>1, <1>2, <1>3, <1>4, <1>5 DEF Connecting

LEMMA DisconnectingType ==
    ASSUME TypeOK, NEW d \in Disconnects, Disconnecting(d)
    PROVE  TypeOK'
  BY CleanupType, CleaningType DEF Disconnecting, Disconnect

LEMMA ReplenishType ==
    ASSUME TypeOK, NEW h \in Checks, NEW missing \in Int, NEW counted, Replenish(h, missing, counted)
    PROVE  /\ need' \in [Connects \cup Checks -> Int]
           /\ pc' \in [Procs -> {"idle", "creating", "initialized", "executing", "checking",
                                 "closing", "cleaned", "done"}]
           /\ disturbed' \in BOOLEAN
<1>1. disturbed' \in BOOLEAN
  BY TypeParts, Zenon DEF Flags, Replenish, Disturb
<1> QED
  BY <1>1, TypeParts, Members DEF CallType, Replenish, Goto

LEMMA CheckingType ==
    ASSUME TypeOK, NEW h \in Checks, Checking(h)
    PROVE  TypeOK'
<1> USE Members, TypeParts
<1>1. CASE Tick(h)
  <2>1. Flags'
    BY <1>1, Zenon DEF Tick, Flags, linkVars, countVars
  <2>2. PoolType' /\ SetType'
    <3>1. UNCHANGED place \/ place' = [place EXCEPT ![h] = 1]
      BY <1>1, Zenon DEF Tick
    <3> QED
      BY <1>1, <3>1 DEF Tick, PoolType, SetType
  <2>3. CallType'
    <3>1. pool # <<>> => pool[1] \in Nat
      BY DEF PoolType
    <3> QED
      BY <1>1, <3>1 DEF Tick, CallType, Goto, countVars
  <2> QED
    BY <2>1, <2>2, <2>3
<1>2. CASE Removed(h)
  <2> DEFINE missing == IF Len(pool) < MinPoolSize THEN MinPoolSize - Len(pool) ELSE 0
  <2>1. missing \in Int
    BY SizeAssumption DEF PoolType
  <2>2. Replenish(h, missing, total')
    BY <1>2 DEF Removed
  <2> HIDE DEF missing
  <2>3. /\ need' \in [Connects \cup Checks -> Int]
        /\ pc' \in [Procs -> {"idle", "creating", "initialized", "executing", "checking",
                              "closing", "cleaned", "done"}]
        /\ disturbed' \in BOOLEAN
    BY <2>1, <2>2, ReplenishType
  <2>4. Flags'
    BY <1>2, <2>3, Zenon DEF Removed, Flags, linkVars
  <2>5. PoolType' /\ SetType'
    BY <1>2, Closed DEF Removed, PoolType, loopVars
  <2>6. CallType'
    BY <1>2, <2>3 DEF Removed, CallType
  <2> QED
    BY <2>4, <2>5, <2>6
<1>3. CASE Replenished(h)
  <2>1. need[h] - 1 \in Int
    BY DEF CallType
  <2>2. Replenish(h, need[h] - 1, total')
    BY <1>3 DEF Replenished
  <2>3. /\ need' \in [Connects \cup Checks -> Int]
        /\ pc' \in [Procs -> {"idle", "creating", "initialized", "executing", "checking",
                              "closing", "cleaned", "done"}]
        /\ disturbed' \in BOOLEAN
    BY <2>1, <2>2, ReplenishType
  <2>4. Flags'
    BY <1>3, <2>3, Zenon DEF Replenished, Flags, linkVars
  <2>5. PoolType'
    <3>1. Append(pool, made + 1) \in Seq(Nat)
      BY AppendAdds DEF PoolType, SetType
    <3>2. pool' \in Seq(Nat)
      BY <1>3, <3>1 DEF Replenished, PoolType
    <3> QED
      BY <1>3, <3>2 DEF Replenished, PoolType, loopVars
  <2>6. SetType'
    BY <1>3, Made, GivenUp DEF Replenished
  <2>7. CallType'
    BY <1>3, <2>3 DEF Replenished, CallType
  <2> QED
    BY <2>4, <2>5, <2>6, <2>7
<1>4. ASSUME NEW healthy \in BOOLEAN, Examine(h, healthy)
      PROVE  TypeOK'
  <2>1. Array(h)[place[h] + 1] \in Nat
    BY <1>4 DEF PoolType, Examine, Array
  <2>2. Found(h, healthy) \in Seq(Nat)
    BY DEF CallType, Found
  <2>3. Flags'
    BY <1>4, Zenon DEF Examine, Flags, linkVars, countVars
  <2>4. PoolType' /\ SetType'
    BY <1>4 DEF Examine, PoolType, SetType
  <2>5. CallType'
    BY <1>4, <2>1, <2>2 DEF Examine, CallType, countVars
  <2> QED
    BY <2>3, <2>4, <2>5
<1>5. ASSUME NEW healthy \in BOOLEAN, ExamineLast(h, healthy)
      PROVE  TypeOK'
  <2>1. Found(h, healthy) \in Seq(Nat)
    BY DEF CallType, Found
  <2>2. Flags'
    BY <1>5, Zenon DEF ExamineLast, Flags, linkVars
  <2>3. SetType' /\ CallType'
    BY <1>5, <2>1 DEF ExamineLast, SetType, CallType, Goto
  <2>4. PoolType'
    <3>1. CASE Found(h, healthy) = <<>>
      <4>1. /\ array' = [array EXCEPT ![h] = <<>>] /\ detached' = detached \ {h}
            /\ place' = [place EXCEPT ![h] = 0] /\ UNCHANGED pool
        BY <1>5, <3>1 DEF ExamineLast
      <4> QED
        BY <4>1 DEF PoolType
    <3>2. CASE Found(h, healthy) # <<>>
      <4>1. PICK kept \in Without(pool, ToSet(Found(h, healthy))) : Replace(kept, h)
        BY <1>5, <3>2 DEF ExamineLast
      <4>2. kept \in Seq(Nat)
        BY <4>1, WithoutFilters DEF PoolType
      <4> QED
        BY <1>5, <4>1, <4>2, ReplaceType DEF ExamineLast, PoolType
    <3> QED
      BY <3>1, <3>2
  <2> QED
    BY <2>2, <2>3, <2>4
<1> QED
  BY <1>1, <1>2, <1>3, <1>4, <1>5 DEF Checking

LEMMA NextType == TypeOK /\ [Next]_vars => TypeOK'
<1> SUFFICES ASSUME TypeOK, [Next]_vars PROVE TypeOK'
  OBVIOUS
<1>1. CASE Next
  BY <1>1, QueryType, ConnectingType, DisconnectingType, CheckingType DEF Next
<1>2. CASE UNCHANGED vars
  BY <1>2 DEF vars, linkVars, countVars, loopVars, TypeOK
<1> QED
  BY <1>1, <1>2

\* Every variable keeps its type.
THEOREM TypeCorrect == Spec => []TypeOK
<1>1. Init => TypeOK
  BY InitType
<1>2. TypeOK /\ [Next]_vars => TypeOK'
  BY NextType
<1> QED
  BY <1>1, <1>2, PTL DEF Spec

-----------------------------------------------------------------------------
(* Who has which connection *)

Shut == UNION {ToSet(drop[p]) : p \in Closing}

LEMMA HeldSame ==
    ASSUME \A q \in Queries : pc'[q] = "executing" <=> pc[q] = "executing",
           \A q \in Queries : pc[q] = "executing" => conn'[q] = conn[q]
    PROVE  /\ Executing' = Executing /\ Held' = Held
           /\ \A q \in Executing : conn'[q] = conn[q]
  BY DEF Executing, Held

LEMMA HeldAdds ==
    ASSUME NEW q \in Queries, pc[q] # "executing", pc'[q] = "executing",
           \A r \in Queries \ {q} : pc'[r] = pc[r] /\ conn'[r] = conn[r]
    PROVE  /\ Executing' = Executing \cup {q} /\ q \notin Executing
           /\ Held' = Held \cup {conn'[q]}
           /\ \A r \in Executing : conn'[r] = conn[r]
  BY DEF Executing, Held

LEMMA HeldLoses ==
    ASSUME NEW q \in Queries, pc[q] = "executing", pc'[q] # "executing",
           \A r \in Queries \ {q} : pc'[r] = pc[r] /\ conn'[r] = conn[r]
    PROVE  /\ Executing' = Executing \ {q} /\ q \in Executing
           /\ \A r \in Executing' : conn'[r] = conn[r]
           /\ Held \subseteq Held' \cup {conn[q]} /\ Held' \subseteq Held
           /\ conn[q] \in Held
           /\ SoleUse => conn[q] \notin Held'
<1>1. /\ Executing' = Executing \ {q} /\ q \in Executing
      /\ \A r \in Executing' : conn'[r] = conn[r]
  BY DEF Executing
<1>2. Held' = {conn[r] : r \in Executing \ {q}} /\ Held = {conn[r] : r \in Executing}
  BY <1>1 DEF Held
<1> QED
  BY <1>1, <1>2 DEF SoleUse

LEMMA ShutSame ==
    ASSUME \A p \in Closers : pc'[p] = "closing" <=> pc[p] = "closing",
           \A p \in Closers : pc[p] = "closing" => drop'[p] = drop[p]
    PROVE  Shut' = Shut
<1>1. Closing' = Closing
  BY DEF Closing, Closers
<1>2. \A p \in Closing : drop'[p] = drop[p]
  BY DEF Closing, Closers
<1> QED
  BY <1>1, <1>2 DEF Shut

LEMMA ShutAdds ==
    ASSUME NEW p \in Closers, pc[p] # "closing", pc'[p] = "closing",
           \A r \in Closers \ {p} : pc'[r] = pc[r] /\ drop'[r] = drop[r]
    PROVE  Shut' = Shut \cup ToSet(drop'[p])
<1>1. Closing' = Closing \cup {p}
  BY DEF Closing, Closers
<1>2. \A r \in Closing : drop'[r] = drop[r]
  BY DEF Closing, Closers
<1> QED
  BY <1>1, <1>2 DEF Shut

LEMMA ShutLoses ==
    ASSUME NEW p \in Closers, pc[p] = "closing", pc'[p] # "closing",
           \A r \in Closers \ {p} : pc'[r] = pc[r] /\ drop'[r] = drop[r]
    PROVE  Shut \subseteq Shut' \cup ToSet(drop[p])
<1>1. Closing = Closing' \cup {p}
  BY DEF Closing, Closers
<1>2. \A r \in Closing' : r # p /\ drop'[r] = drop[r]
  BY DEF Closing, Closers
<1> QED
  BY <1>1, <1>2 DEF Shut

LEMMA AccountedMeans ==
    /\ Accounted <=> open \ lost \subseteq Idle \cup Held \cup Shut
    /\ Accounted' <=> open' \ lost' \subseteq Idle' \cup Held' \cup Shut'
  BY DEF Accounted, Shut

LEMMA SoleUseMeans ==
    /\ SoleUse <=> /\ \A q, r \in Executing : conn[q] = conn[r] => q = r
                   /\ Held \cap Idle = {} /\ Distinct(pool)
    /\ SoleUse' <=> /\ \A q, r \in Executing' : conn'[q] = conn'[r] => q = r
                    /\ Held' \cap Idle' = {} /\ Distinct(pool')
  BY DEF SoleUse, Distinct

\* The next connection is new to everybody.
LEMMA Fresh ==
    ASSUME TypeOK, Known
    PROVE  /\ made \in Nat /\ made + 1 \in Nat
           /\ made + 1 \notin Idle /\ made + 1 \notin Held
<1>1. made \in Nat /\ made + 1 \in Nat /\ made + 1 \notin 1..made
  BY DEF TypeOK
<1> QED
  BY <1>1 DEF Known

Safe == SoleUse /\ Accounted

LEMMA QuietSafe ==
    ASSUME Safe, pool' = pool, Executing' = Executing, Held' = Held,
           \A q \in Executing : conn'[q] = conn[q],
           Shut' = Shut, open' \ lost' \subseteq open \ lost
    PROVE  Safe'
<1>1. Idle' = Idle
  BY DEF Idle
<1> QED
  BY <1>1, AccountedMeans, SoleUseMeans DEF Safe

LEMMA AddedSafe ==
    ASSUME TypeOK, Known, Safe, pool' = Append(pool, made + 1),
           Executing' = Executing, Held' = Held,
           \A q \in Executing : conn'[q] = conn[q],
           Shut' = Shut, open' \ lost' \subseteq (open \ lost) \cup {made + 1}
    PROVE  Safe'
<1>1. pool \in Seq(Nat)
  BY DEF TypeOK
<1>2. Idle' = Idle \cup {made + 1}
  BY <1>1, Fresh, AppendAdds DEF Idle
<1>3. Distinct(pool')
  BY <1>1, Fresh, AppendKeepsDistinct, SoleUseMeans DEF Idle, Safe
<1> QED
  BY <1>2, <1>3, Fresh, AccountedMeans, SoleUseMeans DEF Safe

-----------------------------------------------------------------------------
(* Queries *)

LEMMA OwnStage ==
    ASSUME TypeOK, NEW p \in Procs, NEW label, pc' = [pc EXCEPT ![p] = label]
    PROVE  pc'[p] = label /\ \A x \in Procs \ {p} : pc'[x] = pc[x]
  BY DEF TypeOK

LEMMA GaveUp ==
    ASSUME GiveUp
    PROVE  open' \ lost' \subseteq open \ lost /\ (made' = made \/ made' = made + 1)
  BY DEF GiveUp

LEMMA QuerySafe ==
    ASSUME TypeOK, Known, Safe, NEW q \in Queries, Query(q)
    PROVE  Safe'
<1> USE Members
<1>1. CASE Pop(q)
  <2>1. /\ pc' = [pc EXCEPT ![q] = "executing"] /\ pc[q] # "executing"
        /\ pool # <<>> /\ pool' = Front(pool)
        /\ conn' = [conn EXCEPT ![q] = Last(pool)] /\ UNCHANGED <<open, lost, drop>>
    BY <1>1 DEF Pop, Goto
  <2>2. pc'[q] = "executing" /\ \A x \in Procs \ {q} : pc'[x] = pc[x]
    BY <2>1, OwnStage
  <2>3. conn'[q] = Last(pool) /\ \A r \in Queries \ {q} : conn'[r] = conn[r]
    BY <2>1 DEF TypeOK
  <2>4. /\ Executing' = Executing \cup {q} /\ q \notin Executing
        /\ Held' = Held \cup {Last(pool)}
        /\ \A r \in Executing : conn'[r] = conn[r]
    BY <2>1, <2>2, <2>3, HeldAdds
  <2>5. Shut' = Shut
    BY <2>1, <2>2, ShutSame
  <2>6. /\ Last(pool) \in Idle /\ Idle' \subseteq Idle /\ Idle \subseteq Idle' \cup {Last(pool)}
        /\ Distinct(pool') /\ Last(pool) \notin Idle'
    BY <2>1, FrontRemovesLast, SoleUseMeans DEF TypeOK, Idle, Safe
  <2>7. Accounted'
    BY <2>1, <2>4, <2>5, <2>6, AccountedMeans DEF Safe
  <2>8. \A r \in Executing : conn[r] # Last(pool)
    BY <2>6, SoleUseMeans DEF Safe, Held
  <2>9. SoleUse'
    BY <2>3, <2>4, <2>6, <2>8, SoleUseMeans DEF Safe
  <2> QED
    BY <2>7, <2>9 DEF Safe
<1>2. CASE StartCreating(q) \/ Refuse(q) \/ CreateFails(q)
  <2>1. /\ \E label \in {"creating", "done"} : pc' = [pc EXCEPT ![q] = label]
        /\ pc[q] # "executing" /\ UNCHANGED <<pool, conn, drop>>
    BY <1>2 DEF StartCreating, Refuse, CreateFails, Goto
  <2>2. open' \ lost' \subseteq open \ lost
    BY <1>2, GaveUp DEF StartCreating, Refuse, CreateFails
  <2>3. /\ pc'[q] # "executing" /\ \A x \in Procs \ {q} : pc'[x] = pc[x]
    BY <2>1, OwnStage
  <2>4. Executing' = Executing /\ Held' = Held /\ \A r \in Executing : conn'[r] = conn[r]
    BY <2>1, <2>3, HeldSame
  <2>5. Shut' = Shut
    BY <2>1, <2>3, ShutSame
  <2> QED
    BY <2>1, <2>2, <2>4, <2>5, QuietSafe
<1>3. CASE Created(q)
  <2>1. /\ pc' = [pc EXCEPT ![q] = "executing"] /\ pc[q] # "executing"
        /\ conn' = [conn EXCEPT ![q] = made + 1] /\ UNCHANGED <<pool, lost, drop>>
        /\ open' = open \cup {made + 1}
    BY <1>3 DEF Created, Goto
  <2>2. pc'[q] = "executing" /\ \A x \in Procs \ {q} : pc'[x] = pc[x]
    BY <2>1, OwnStage
  <2>3. conn'[q] = made + 1 /\ \A r \in Queries \ {q} : conn'[r] = conn[r]
    BY <2>1 DEF TypeOK
  <2>4. /\ Executing' = Executing \cup {q} /\ q \notin Executing
        /\ Held' = Held \cup {made + 1}
        /\ \A r \in Executing : conn'[r] = conn[r]
    BY <2>1, <2>2, <2>3, HeldAdds
  <2>5. Shut' = Shut /\ Idle' = Idle
    BY <2>1, <2>2, ShutSame DEF Idle
  <2>6. Accounted'
    BY <2>1, <2>4, <2>5, AccountedMeans DEF Safe
  <2>7. \A r \in Executing : conn[r] # made + 1
    BY Fresh DEF Held
  <2>8. SoleUse'
    BY <2>1, <2>3, <2>4, <2>5, <2>7, Fresh, SoleUseMeans DEF Safe
  <2> QED
    BY <2>6, <2>8 DEF Safe
<1>4. CASE Release(q) \/ ReleaseFull(q)
  <2>1. /\ pc' = [pc EXCEPT ![q] = "done"] /\ pc[q] = "executing"
        /\ conn' = [conn EXCEPT ![q] = 0] /\ UNCHANGED drop
    BY <1>4 DEF Release, ReleaseFull, Goto
  <2>2. pc'[q] = "done" /\ \A x \in Procs \ {q} : pc'[x] = pc[x]
    BY <2>1, OwnStage
  <2>3. \A r \in Queries \ {q} : conn'[r] = conn[r]
    BY <2>1 DEF TypeOK
  <2>4. /\ Executing' = Executing \ {q} /\ q \in Executing
        /\ \A r \in Executing' : conn'[r] = conn[r]
        /\ Held \subseteq Held' \cup {conn[q]} /\ Held' \subseteq Held
        /\ conn[q] \in Held /\ conn[q] \notin Held'
    BY <2>1, <2>2, <2>3, HeldLoses DEF Safe
  <2>5. Shut' = Shut
    BY <2>1, <2>2, ShutSame
  <2>6. CASE Release(q)
    <3>1. pool' = Append(pool, conn[q]) /\ UNCHANGED <<open, lost>>
      BY <2>6 DEF Release
    <3>2. pool \in Seq(Nat) /\ conn[q] \in Nat /\ conn[q] \notin Idle
      BY <2>4, SoleUseMeans DEF TypeOK, Safe
    <3>3. Idle' = Idle \cup {conn[q]} /\ Distinct(pool')
      BY <3>1, <3>2, AppendAdds, AppendKeepsDistinct, SoleUseMeans DEF Idle, Safe
    <3>4. Accounted'
      BY <2>4, <2>5, <3>1, <3>3, AccountedMeans DEF Safe
    <3>5. SoleUse'
      BY <2>4, <3>3, SoleUseMeans DEF Safe
    <3> QED
      BY <3>4, <3>5 DEF Safe
  <2>7. CASE ReleaseFull(q)
    <3>1. pool' = pool /\ open' \ lost' \subseteq (open \ lost) \ {conn[q]}
      BY <2>7, TypeParts, Closed DEF ReleaseFull
    <3>2. Idle' = Idle
      BY <3>1 DEF Idle
    <3>3. Accounted'
      BY <2>4, <2>5, <3>1, <3>2, AccountedMeans DEF Safe
    <3>4. SoleUse'
      BY <2>4, <3>1, <3>2, SoleUseMeans DEF Safe
    <3> QED
      BY <3>3, <3>4 DEF Safe
  <2> QED
    BY <1>4, <2>6, <2>7
<1> QED
  BY <1>1, <1>2, <1>3, <1>4 DEF Query

-----------------------------------------------------------------------------
(* The pool being filled, cleaned up and checked *)

\* What a step of a connect, a disconnect or a tick cannot change for queries.
LEMMA QueriesAside ==
    ASSUME NEW p \in Closers, \A x \in Procs \ {p} : pc'[x] = pc[x],
           \A q \in Queries : conn'[q] = conn[q]
    PROVE  Executing' = Executing /\ Held' = Held /\ \A q \in Executing : conn'[q] = conn[q]
<1>1. \A q \in Queries : pc'[q] = pc[q]
  BY Members
<1> QED
  BY <1>1, HeldSame

LEMMA PoolToShut ==
    ASSUME TypeOK, Safe, NEW p \in Closers, pc[p] # "closing", pc'[p] = "closing",
           \A x \in Procs \ {p} : pc'[x] = pc[x],
           \A q \in Queries : conn'[q] = conn[q],
           \A r \in Closers \ {p} : drop'[r] = drop[r],
           Idle' \subseteq Idle, Idle \subseteq Idle' \cup ToSet(drop'[p]),
           Distinct(pool'), open' = open, lost' = lost
    PROVE  Safe'
<1>1. Executing' = Executing /\ Held' = Held /\ \A q \in Executing : conn'[q] = conn[q]
  BY QueriesAside
<1>2. Shut' = Shut \cup ToSet(drop'[p])
  BY ShutAdds, Members
<1>3. Accounted'
  BY <1>1, <1>2, AccountedMeans DEF Safe
<1>4. SoleUse'
  BY <1>1, SoleUseMeans DEF Safe
<1> QED
  BY <1>3, <1>4 DEF Safe

LEMMA ShutIsClosed ==
    ASSUME TypeOK, Safe, NEW p \in Closers, pc[p] = "closing", pc'[p] # "closing",
           \A x \in Procs \ {p} : pc'[x] = pc[x],
           conn' = conn, drop' = [drop EXCEPT ![p] = <<>>],
           pool' = pool, open' \ lost' \subseteq (open \ lost) \ ToSet(drop[p])
    PROVE  Safe'
<1>1. Executing' = Executing /\ Held' = Held /\ \A q \in Executing : conn'[q] = conn[q]
  BY QueriesAside
<1>2. \A r \in Closers \ {p} : drop'[r] = drop[r]
  BY DEF TypeOK
<1>3. Shut \subseteq Shut' \cup ToSet(drop[p])
  BY <1>2, ShutLoses, Members
<1>4. Idle' = Idle
  BY DEF Idle
<1>5. Accounted'
  BY <1>1, <1>3, <1>4, AccountedMeans DEF Safe
<1>6. SoleUse'
  BY <1>1, <1>4, SoleUseMeans DEF Safe
<1> QED
  BY <1>5, <1>6 DEF Safe

\* A step that neither opens nor moves a connection.
LEMMA IdleStep ==
    ASSUME TypeOK, Safe, NEW p \in Closers, pc[p] # "closing", pc'[p] # "closing",
           \A x \in Procs \ {p} : pc'[x] = pc[x],
           \A q \in Queries : conn'[q] = conn[q],
           \A r \in Closers \ {p} : drop'[r] = drop[r],
           pool' = pool, open' \ lost' \subseteq open \ lost
    PROVE  Safe'
<1>1. Executing' = Executing /\ Held' = Held /\ \A q \in Executing : conn'[q] = conn[q]
  BY QueriesAside
<1>2. /\ \A r \in Closers : pc'[r] = "closing" <=> pc[r] = "closing"
      /\ \A r \in Closers : pc[r] = "closing" => drop'[r] = drop[r]
  BY Members
<1>3. Shut' = Shut
  BY <1>2, ShutSame
<1> QED
  BY <1>1, <1>3, QuietSafe

\* A connection becomes ready and goes into the pool, or does not.
LEMMA FillStep ==
    ASSUME TypeOK, Known, Safe, NEW p \in Closers, pc[p] # "closing", pc'[p] # "closing",
           \A x \in Procs \ {p} : pc'[x] = pc[x], conn' = conn, drop' = drop,
           \/ /\ open' = open \cup {made + 1} /\ lost' = lost
              /\ pool' = Append(pool, made + 1)
           \/ GiveUp /\ pool' = pool
    PROVE  Safe'
<1>1. CASE GiveUp /\ pool' = pool
  BY <1>1, GaveUp, IdleStep
<1>2. CASE open' = open \cup {made + 1} /\ lost' = lost /\ pool' = Append(pool, made + 1)
  <2>1. Executing' = Executing /\ Held' = Held /\ \A q \in Executing : conn'[q] = conn[q]
    BY QueriesAside
  <2>2. \A r \in Closers : pc'[r] = "closing" <=> pc[r] = "closing"
    BY Members
  <2>3. Shut' = Shut
    BY <2>2, ShutSame
  <2> QED
    BY <1>2, <2>1, <2>3, AddedSafe
<1> QED
  BY <1>1, <1>2

LEMMA CleanupSafe ==
    ASSUME TypeOK, Safe, NEW p \in Connects \cup Disconnects, pc[p] = "idle", Cleanup(p)
    PROVE  Safe'
<1>1. p \in Closers /\ p \in Procs
  BY Members
<1>2. UNCHANGED <<open, lost, conn>> /\ pool' = <<>>
  BY DEF Cleanup, Replace
<1>3. CASE pool # <<>>
  <2>1. drop' = [drop EXCEPT ![p] = pool] /\ pc' = [pc EXCEPT ![p] = "closing"]
    BY <1>3 DEF Cleanup, Goto
  <2>2. pc'[p] = "closing" /\ \A x \in Procs \ {p} : pc'[x] = pc[x]
    BY <1>1, <2>1, OwnStage
  <2>3. drop'[p] = pool /\ \A r \in Closers \ {p} : drop'[r] = drop[r]
    BY <1>1, <2>1 DEF TypeOK
  <2>4. Idle' = {} /\ Distinct(pool')
    BY <1>2 DEF Idle, ToSet, Distinct
  <2>5. Idle = ToSet(drop'[p])
    BY <2>3 DEF Idle
  <2> QED
    BY <1>1, <1>2, <2>2, <2>3, <2>4, <2>5, PoolToShut
<1>4. CASE pool = <<>>
  <2>1. pc' = [pc EXCEPT ![p] = "cleaned"] /\ UNCHANGED drop
    BY <1>4 DEF Cleanup, Reset, Goto
  <2>2. pc'[p] = "cleaned" /\ \A x \in Procs \ {p} : pc'[x] = pc[x]
    BY <1>1, <2>1, OwnStage
  <2> QED
    BY <1>1, <1>2, <1>4, <2>1, <2>2, IdleStep
<1> QED
  BY <1>3, <1>4

LEMMA CleaningSafe ==
    ASSUME TypeOK, Safe, NEW p \in Connects \cup Disconnects, CleanupEnds(p) \/ Cleaned(p)
    PROVE  Safe'
<1>1. p \in Closers /\ p \in Procs
  BY Members
<1>2. CASE CleanupEnds(p)
  <2>1. pc' = [pc EXCEPT ![p] = "cleaned"]
    BY <1>2 DEF CleanupEnds, Reset, Goto
  <2>2. pc'[p] = "cleaned" /\ \A x \in Procs \ {p} : pc'[x] = pc[x]
    BY <1>1, <2>1, OwnStage
  <2>3. open' \ lost' \subseteq (open \ lost) \ ToSet(drop[p])
    BY <1>2, TypeParts, Closed DEF CleanupEnds
  <2> QED
    BY <1>1, <1>2, <2>2, <2>3, ShutIsClosed DEF CleanupEnds
<1>3. CASE Cleaned(p)
  <2>1. pc' = [pc EXCEPT ![p] = "done"]
    BY <1>3 DEF Cleaned, Goto
  <2>2. pc'[p] = "done" /\ \A x \in Procs \ {p} : pc'[x] = pc[x]
    BY <1>1, <2>1, OwnStage
  <2> QED
    BY <1>1, <1>3, <2>2, IdleStep DEF Cleaned
<1> QED
  BY <1>2, <1>3

LEMMA ConnectingSafe ==
    ASSUME TypeOK, Known, Safe, NEW k \in Connects, Connecting(k)
    PROVE  Safe'
<1>1. k \in Closers /\ k \in Procs
  BY Members
<1>2. CASE Connect(k) \/ Connected(k)
  <2>1. PICK label \in {"creating", "initialized", "done"} : pc' = [pc EXCEPT ![k] = label]
    BY <1>2 DEF Connect, Connected, Goto
  <2>2. pc'[k] = label /\ \A x \in Procs \ {k} : pc'[x] = pc[x]
    BY <1>1, <2>1, OwnStage
  <2>3. pc[k] # "closing" /\ UNCHANGED <<pool, open, lost, conn, drop>>
    BY <1>2 DEF Connect, Connected
  <2> QED
    BY <1>1, <2>2, <2>3, IdleStep
<1>3. CASE Fill(k)
  <2>1. pc' = pc \/ pc' = [pc EXCEPT ![k] = "initialized"]
    BY <1>3 DEF Fill, FillGoesOn, Goto
  <2>2. pc[k] = "creating"
    BY <1>3 DEF Fill
  <2>3. pc'[k] # "closing" /\ \A x \in Procs \ {k} : pc'[x] = pc[x]
    BY <1>1, <2>1, <2>2, OwnStage
  <2> QED
    BY <1>1, <1>3, <2>2, <2>3, FillStep DEF Fill
<1>4. CASE ConnectFails(k)
  BY <1>4, CleanupSafe DEF ConnectFails
<1>5. CASE CleanupEnds(k) \/ Cleaned(k)
  BY <1>5, CleaningSafe
<1> QED
  BY <1>2, <1>3, <1>4, <1>5 DEF Connecting

LEMMA DisconnectingSafe ==
    ASSUME TypeOK, Safe, NEW d \in Disconnects, Disconnecting(d)
    PROVE  Safe'
  BY CleanupSafe, CleaningSafe DEF Disconnecting, Disconnect

LEMMA ReplenishStage ==
    ASSUME TypeOK, NEW h \in Checks, NEW missing, NEW counted, Replenish(h, missing, counted)
    PROVE  pc'[h] \in {"creating", "done"} /\ \A x \in Procs \ {h} : pc'[x] = pc[x]
<1>1. PICK label \in {"creating", "done"} : pc' = [pc EXCEPT ![h] = label]
  BY DEF Replenish, Goto
<1> QED
  BY <1>1, Members, OwnStage

LEMMA CheckingSafe ==
    ASSUME TypeOK, Known, Safe, NEW h \in Checks, Checking(h)
    PROVE  Safe'
<1>1. h \in Closers /\ h \in Procs /\ h \in Queries \cup Checks /\ h \notin Queries
  BY Members
<1>2. CASE Tick(h)
  <2>1. PICK label \in {"checking", "done"} : pc' = [pc EXCEPT ![h] = label]
    BY <1>2 DEF Tick, Goto
  <2>2. pc'[h] = label /\ \A x \in Procs \ {h} : pc'[x] = pc[x]
    BY <1>1, <2>1, OwnStage
  <2>3. pc[h] = "idle" /\ UNCHANGED <<pool, open, lost, drop>>
    BY <1>2 DEF Tick
  <2>4. \A q \in Queries : conn'[q] = conn[q]
    BY <1>1, <1>2 DEF Tick, TypeOK
  <2> QED
    BY <1>1, <2>2, <2>3, <2>4, IdleStep
<1>3. CASE Removed(h)
  <2>1. pc'[h] \in {"creating", "done"} /\ \A x \in Procs \ {h} : pc'[x] = pc[x]
    BY <1>3, ReplenishStage DEF Removed
  <2>2. open' \ lost' \subseteq (open \ lost) \ ToSet(drop[h])
    BY <1>3, TypeParts, Closed DEF Removed
  <2> QED
    BY <1>1, <1>3, <2>1, <2>2, ShutIsClosed DEF Removed
<1>4. CASE Replenished(h)
  <2>1. pc'[h] \in {"creating", "done"} /\ \A x \in Procs \ {h} : pc'[x] = pc[x]
    BY <1>4, ReplenishStage DEF Replenished
  <2> QED
    BY <1>1, <1>4, <2>1, FillStep DEF Replenished
<1>5. ASSUME NEW healthy \in BOOLEAN, Examine(h, healthy)
      PROVE  Safe'
  <2>1. pc' = pc /\ pc[h] = "checking" /\ UNCHANGED <<pool, open, lost>>
    BY <1>5 DEF Examine
  <2>2. \A q \in Queries : conn'[q] = conn[q]
    BY <1>1, <1>5 DEF Examine, TypeOK
  <2>3. \A r \in Closers \ {h} : drop'[r] = drop[r]
    BY <1>1, <1>5 DEF Examine, TypeOK
  <2> QED
    BY <1>1, <2>1, <2>2, <2>3, IdleStep
<1>6. ASSUME NEW healthy \in BOOLEAN, ExamineLast(h, healthy)
      PROVE  Safe'
  <2>1. pc[h] = "checking" /\ UNCHANGED <<open, lost>>
    BY <1>6 DEF ExamineLast
  <2>2. \A q \in Queries : conn'[q] = conn[q]
    BY <1>1, <1>6 DEF ExamineLast, TypeOK
  <2>3. drop'[h] = Found(h, healthy) /\ \A r \in Closers \ {h} : drop'[r] = drop[r]
    BY <1>1, <1>6 DEF ExamineLast, TypeOK
  <2>4. CASE Found(h, healthy) = <<>>
    <3>1. pc' = [pc EXCEPT ![h] = "done"] /\ UNCHANGED pool
      BY <1>6, <2>4 DEF ExamineLast, Goto
    <3>2. pc'[h] = "done" /\ \A x \in Procs \ {h} : pc'[x] = pc[x]
      BY <1>1, <3>1, OwnStage
    <3> QED
      BY <1>1, <2>1, <2>2, <2>3, <3>1, <3>2, IdleStep
  <2>5. CASE Found(h, healthy) # <<>>
    <3>1. pc' = [pc EXCEPT ![h] = "closing"]
      BY <1>6, <2>5 DEF ExamineLast, Goto
    <3>2. pc'[h] = "closing" /\ \A x \in Procs \ {h} : pc'[x] = pc[x]
      BY <1>1, <3>1, OwnStage
    <3>3. PICK kept \in Without(pool, ToSet(Found(h, healthy))) : pool' = kept
      BY <1>6, <2>5 DEF ExamineLast, Replace
    <3>4. /\ Idle' \subseteq Idle /\ Idle \subseteq Idle' \cup ToSet(drop'[h])
          /\ Distinct(pool')
      BY <2>3, <3>3, WithoutFilters, SoleUseMeans DEF TypeOK, Idle, Safe
    <3> QED
      BY <1>1, <2>1, <2>2, <2>3, <3>2, <3>4, PoolToShut
  <2> QED
    BY <2>4, <2>5
<1> QED
  BY <1>2, <1>3, <1>4, <1>5, <1>6 DEF Checking

-----------------------------------------------------------------------------
(* What is named was made *)

LEMMA KnownKept ==
    ASSUME TypeOK, Known, made' \in Nat, made <= made',
           Idle' \subseteq 1..made', Held' \subseteq 1..made',
           \A p \in Closers : drop'[p] = drop[p] \/ ToSet(drop'[p]) \subseteq 1..made',
           \A h \in Checks : array'[h] = array[h] \/ ToSet(array'[h]) \subseteq 1..made'
    PROVE  Known'
<1>1. 1..made \subseteq 1..made'
  BY DEF TypeOK
<1> QED
  BY <1>1 DEF Known

LEMMA ReplaceArrays ==
    ASSUME TypeOK, NEW newPool, NEW p, Replace(newPool, p), NEW h \in Checks
    PROVE  array'[h] = array[h] \/ array'[h] = pool \/ array'[h] = <<>>
  BY DEF Replace

LEMMA EmptySet == ToSet(<<>>) = {}
  BY DEF ToSet

LEMMA IdleGrows ==
    ASSUME TypeOK, Known, pool' = Append(pool, made + 1), made' = made + 1
    PROVE  Idle' \subseteq 1..made'
<1>1. Idle' = Idle \cup {made + 1}
  BY Fresh, AppendAdds DEF Idle, TypeOK
<1>2. 1..made \subseteq 1..(made + 1) /\ made + 1 \in 1..(made + 1)
  BY DEF TypeOK
<1> QED
  BY <1>1, <1>2 DEF Known

LEMMA QueryKnown ==
    ASSUME TypeOK, Known, Examining, NEW q \in Queries, Query(q)
    PROVE  Known' /\ Examining'
<1> USE Members
<1>1. UNCHANGED <<drop, array>>
  BY DEF Query, Pop, StartCreating, Refuse, Created, CreateFails, Release, ReleaseFull, loopVars
<1>2. made' \in Nat /\ made <= made'
  BY DEF TypeOK, Query, Pop, StartCreating, Refuse, Created, CreateFails, Release, ReleaseFull,
         GiveUp
<1>3. 1..made \subseteq 1..made'
  BY <1>2 DEF TypeOK
<1>4. \A h \in Checks : pc'[h] = pc[h] /\ conn'[h] = conn[h]
  BY DEF TypeOK, Query, Pop, StartCreating, Refuse, Created, CreateFails, Release, ReleaseFull,
         Goto
<1>5. Examining'
  BY <1>3, <1>4 DEF Examining
<1>6. Idle' \subseteq 1..made'
  <2>1. CASE Pop(q)
    <3>1. Idle' \subseteq Idle
      BY <2>1, FrontRemovesLast DEF Pop, Idle, TypeOK
    <3> QED
      BY <1>3, <3>1 DEF Known
  <2>2. CASE Release(q)
    <3>1. conn[q] \in 1..made /\ conn[q] \in Nat /\ pool \in Seq(Nat)
      BY <2>2 DEF Release, Known, Held, Executing, TypeOK
    <3>2. Idle' \subseteq Idle \cup {conn[q]}
      <4>1. pool' = Append(pool, conn[q])
        BY <2>2 DEF Release
      <4>2. ToSet(Append(pool, conn[q])) = ToSet(pool) \cup {conn[q]}
        BY <3>1, AppendAdds
      <4> QED
        BY <4>1, <4>2 DEF Idle
    <3> QED
      BY <1>3, <3>1, <3>2 DEF Known
  <2>3. CASE StartCreating(q) \/ Refuse(q) \/ Created(q) \/ CreateFails(q) \/ ReleaseFull(q)
    <3>1. Idle' = Idle
      BY <2>3 DEF StartCreating, Refuse, Created, CreateFails, ReleaseFull, Idle
    <3> QED
      BY <1>3, <3>1 DEF Known
  <2> QED
    BY <2>1, <2>2, <2>3 DEF Query
<1>7. Held' \subseteq 1..made'
  <2> SUFFICES ASSUME NEW r \in Queries, pc'[r] = "executing"
               PROVE  conn'[r] \in 1..made'
    BY DEF Held, Executing
  <2>1. CASE pc[r] = "executing" /\ conn'[r] = conn[r]
    BY <1>3, <2>1 DEF Known, Held, Executing
  <2>2. CASE r = q /\ Pop(q)
    <3>1. conn'[q] \in Idle
      BY <2>2, FrontRemovesLast DEF Pop, Idle, TypeOK
    <3> QED
      BY <1>3, <2>2, <3>1 DEF Known
  <2>3. CASE r = q /\ Created(q)
    BY <2>3 DEF Created, TypeOK
  <2>4. r # q => pc'[r] = pc[r] /\ conn'[r] = conn[r]
    BY DEF TypeOK, Query, Pop, StartCreating, Refuse, Created, CreateFails, Release, ReleaseFull,
         Goto
  <2>5. r = q => Pop(q) \/ Created(q)
    BY DEF TypeOK, Query, StartCreating, Refuse, CreateFails, Release, ReleaseFull, Goto
  <2> QED
    BY <2>1, <2>2, <2>3, <2>4, <2>5
<1> QED
  BY <1>1, <1>2, <1>5, <1>6, <1>7, KnownKept

LEMMA CleanupKnown ==
    ASSUME TypeOK, Known, Examining, NEW p \in Connects \cup Disconnects,
           Cleanup(p) \/ CleanupEnds(p) \/ Cleaned(p)
    PROVE  Known' /\ Examining'
<1> USE Members
<1>1. /\ made' = made /\ conn' = conn
      /\ pool' = pool \/ pool' = <<>>
      /\ \E label \in {"closing", "cleaned", "done"} : pc' = [pc EXCEPT ![p] = label]
  BY DEF Cleanup, CleanupEnds, Cleaned, Replace, Reset, Goto
<1>2. \A x \in Procs \ {p} : pc'[x] = pc[x]
  BY <1>1, OwnStage
<1>3. Held' = Held
  BY <1>1, <1>2, HeldSame
<1>4. Idle' \subseteq Idle
  BY <1>1, EmptySet DEF Idle
<1>5. \A h \in Checks : array'[h] = array[h] \/ ToSet(array'[h]) \subseteq 1..made
  <2>1. CASE Cleanup(p)
    <3>1. Replace(<<>>, p)
      BY <2>1 DEF Cleanup
    <3> QED
      BY <3>1, ReplaceArrays, EmptySet DEF Known, Idle
  <2>2. CASE CleanupEnds(p) \/ Cleaned(p)
    BY <2>2 DEF CleanupEnds, Cleaned, loopVars
  <2> QED
    BY <2>1, <2>2
<1>6. \A r \in Closers : drop'[r] = drop[r] \/ drop'[r] = pool \/ drop'[r] = <<>>
  BY DEF Cleanup, CleanupEnds, Cleaned, TypeOK
<1>7. \A r \in Closers : drop'[r] = drop[r] \/ ToSet(drop'[r]) \subseteq 1..made
  BY <1>6, EmptySet DEF Known, Idle
<1>8. Known'
  BY <1>1, <1>3, <1>4, <1>5, <1>7, KnownKept DEF Known, TypeOK
<1>9. Examining'
  BY <1>1, <1>2 DEF Examining
<1> QED
  BY <1>8, <1>9

LEMMA ConnectingKnown ==
    ASSUME TypeOK, Known, Examining, NEW k \in Connects, Connecting(k)
    PROVE  Known' /\ Examining'
<1> USE Members
<1>1. CASE Connect(k) \/ Connected(k)
  <2>1. UNCHANGED <<made, conn, pool, drop, array>>
    BY <1>1 DEF Connect, Connected, loopVars
  <2>2. PICK label \in {"creating", "initialized", "done"} : pc' = [pc EXCEPT ![k] = label]
    BY <1>1 DEF Connect, Connected, Goto
  <2>3. \A x \in Procs \ {k} : pc'[x] = pc[x]
    BY <2>2, OwnStage
  <2>4. Held' = Held /\ Idle' = Idle
    BY <2>1, <2>3, HeldSame DEF Idle
  <2>5. Examining'
    BY <2>1, <2>3 DEF Examining
  <2> QED
    BY <2>1, <2>4, <2>5, KnownKept DEF Known, TypeOK
<1>2. CASE Fill(k)
  <2>1. UNCHANGED <<conn, drop, array>> /\ made' \in Nat /\ made <= made'
    BY <1>2 DEF Fill, GiveUp, loopVars, TypeOK
  <2>2. pc' = pc \/ pc' = [pc EXCEPT ![k] = "initialized"]
    BY <1>2 DEF Fill, FillGoesOn, Goto
  <2>3. \A x \in Procs \ {k} : pc'[x] = pc[x]
    BY <2>2, OwnStage
  <2>4. 1..made \subseteq 1..made'
    BY <2>1 DEF TypeOK
  <2>5. Held' \subseteq 1..made'
    BY <2>1, <2>3, <2>4, HeldSame DEF Known
  <2>6. Idle' \subseteq 1..made'
    <3>1. CASE pool' = Append(pool, made + 1) /\ made' = made + 1
      BY <3>1, IdleGrows
    <3>2. CASE pool' = pool
      BY <2>4, <3>2 DEF Known, Idle
    <3> QED
      BY <1>2, <3>1, <3>2 DEF Fill
  <2>7. Examining'
    BY <2>1, <2>3, <2>4 DEF Examining
  <2> QED
    BY <2>1, <2>5, <2>6, <2>7, KnownKept
<1>3. CASE ConnectFails(k) \/ CleanupEnds(k) \/ Cleaned(k)
  BY <1>3, CleanupKnown DEF ConnectFails
<1> QED
  BY <1>1, <1>2, <1>3 DEF Connecting

LEMMA DisconnectingKnown ==
    ASSUME TypeOK, Known, Examining, NEW d \in Disconnects, Disconnecting(d)
    PROVE  Known' /\ Examining'
  BY CleanupKnown DEF Disconnecting, Disconnect

LEMMA InArray ==
    ASSUME TypeOK, Known, NEW h \in Checks, NEW i \in 1..Len(Array(h))
    PROVE  Array(h)[i] \in 1..made
  BY DEF TypeOK, Known, Idle, Array, ToSet

LEMMA FoundKnown ==
    ASSUME TypeOK, Known, NEW h \in Checks, NEW healthy \in BOOLEAN, conn[h] \in 1..made
    PROVE  ToSet(Found(h, healthy)) \subseteq 1..made
<1>1. drop[h] \in Seq(Nat) /\ ToSet(drop[h]) \subseteq 1..made /\ conn[h] \in Nat
  BY Members DEF TypeOK, Known
<1> QED
  BY <1>1, AppendAdds DEF Found

LEMMA CheckingKnown ==
    ASSUME TypeOK, Known, Examining, NEW h \in Checks, Checking(h)
    PROVE  Known' /\ Examining'
<1> USE Members
<1>1. CASE Tick(h)
  <2>1. UNCHANGED <<made, pool, drop, array>>
    BY <1>1 DEF Tick
  <2>2. PICK label \in {"checking", "done"} : pc' = [pc EXCEPT ![h] = label]
    BY <1>1 DEF Tick, Goto
  <2>3. /\ pc'[h] = label /\ \A x \in Procs \ {h} : pc'[x] = pc[x]
        /\ \A x \in Queries \cup Checks : x # h => conn'[x] = conn[x]
    BY <1>1, <2>2, OwnStage DEF Tick, TypeOK
  <2>4. Held' = Held /\ Idle' = Idle
    BY <2>1, <2>3, HeldSame DEF Idle
  <2>5. pc'[h] = "checking" => conn'[h] \in 1..made
    BY <1>1, <2>3 DEF Tick, Known, Idle, ToSet, TypeOK, Goto
  <2>6. Examining'
    BY <2>1, <2>3, <2>5 DEF Examining
  <2> QED
    BY <2>1, <2>4, <2>6, KnownKept DEF Known, TypeOK
<1>2. CASE Removed(h)
  <2>1. pc'[h] \in {"creating", "done"} /\ \A x \in Procs \ {h} : pc'[x] = pc[x]
    BY <1>2, ReplenishStage DEF Removed
  <2>2. UNCHANGED <<made, pool, conn, array>>
    BY <1>2 DEF Removed, loopVars
  <2>3. \A r \in Closers : drop'[r] = drop[r] \/ ToSet(drop'[r]) \subseteq 1..made
    BY <1>2, EmptySet DEF Removed, TypeOK
  <2>4. Held' = Held /\ Idle' = Idle
    BY <2>1, <2>2, HeldSame DEF Idle
  <2>5. Examining'
    BY <2>1, <2>2 DEF Examining
  <2> QED
    BY <2>2, <2>3, <2>4, <2>5, KnownKept DEF Known, TypeOK
<1>3. CASE Replenished(h)
  <2>1. pc'[h] \in {"creating", "done"} /\ \A x \in Procs \ {h} : pc'[x] = pc[x]
    BY <1>3, ReplenishStage DEF Replenished
  <2>2. UNCHANGED <<conn, drop, array>> /\ made' \in Nat /\ made <= made'
    BY <1>3 DEF Replenished, GiveUp, loopVars, TypeOK
  <2>3. 1..made \subseteq 1..made'
    BY <2>2 DEF TypeOK
  <2>4. Held' \subseteq 1..made'
    BY <2>1, <2>2, <2>3, HeldSame DEF Known
  <2>5. Idle' \subseteq 1..made'
    <3>1. CASE pool' = Append(pool, made + 1) /\ made' = made + 1
      BY <3>1, IdleGrows
    <3>2. CASE pool' = pool
      BY <2>3, <3>2 DEF Known, Idle
    <3> QED
      BY <1>3, <3>1, <3>2 DEF Replenished
  <2>6. Examining'
    BY <2>1, <2>2, <2>3 DEF Examining
  <2> QED
    BY <2>2, <2>4, <2>5, <2>6, KnownKept
<1>4. ASSUME NEW healthy \in BOOLEAN, Examine(h, healthy)
      PROVE  Known' /\ Examining'
  <2>1. pc' = pc /\ pc[h] = "checking" /\ UNCHANGED <<pool, made, array>>
    BY <1>4 DEF Examine
  <2>2. \A x \in Queries \cup Checks : x # h => conn'[x] = conn[x]
    BY <1>4 DEF Examine, TypeOK
  <2>3. conn'[h] \in 1..made
    <3>1. place[h] + 1 \in 1..Len(Array(h)) /\ conn'[h] = Array(h)[place[h] + 1]
      BY <1>4 DEF Examine, TypeOK, Array
    <3> QED
      BY <3>1, InArray
  <2>4. \A r \in Closers : drop'[r] = drop[r] \/ ToSet(drop'[r]) \subseteq 1..made
    <3>1. \A r \in Closers : r # h => drop'[r] = drop[r]
      BY <1>4 DEF Examine, TypeOK
    <3>2. drop'[h] = Found(h, healthy)
      BY <1>4 DEF Examine, TypeOK
    <3> QED
      BY <2>1, <3>1, <3>2, FoundKnown DEF Examining
  <2>5. Held' = Held /\ Idle' = Idle
    BY <2>1, <2>2, HeldSame DEF Idle
  <2>6. Examining'
    BY <2>1, <2>2, <2>3 DEF Examining
  <2> QED
    BY <2>1, <2>4, <2>5, <2>6, KnownKept DEF Known, TypeOK
<1>5. ASSUME NEW healthy \in BOOLEAN, ExamineLast(h, healthy)
      PROVE  Known' /\ Examining'
  <2>1. pc[h] = "checking" /\ made' = made
    BY <1>5 DEF ExamineLast
  <2>2. \A x \in Queries \cup Checks : x # h => conn'[x] = conn[x]
    BY <1>5 DEF ExamineLast, TypeOK
  <2>3. PICK label \in {"closing", "done"} : pc' = [pc EXCEPT ![h] = label]
    BY <1>5 DEF ExamineLast, Goto
  <2>4. pc'[h] = label /\ \A x \in Procs \ {h} : pc'[x] = pc[x]
    BY <2>3, OwnStage
  <2>5. \A r \in Closers : drop'[r] = drop[r] \/ ToSet(drop'[r]) \subseteq 1..made
    <3>1. \A r \in Closers : r # h => drop'[r] = drop[r]
      BY <1>5 DEF ExamineLast, TypeOK
    <3>2. drop'[h] = Found(h, healthy)
      BY <1>5 DEF ExamineLast, TypeOK
    <3> QED
      BY <2>1, <3>1, <3>2, FoundKnown DEF Examining
  <2>6. Held' = Held
    BY <2>2, <2>4, HeldSame
  <2>7. Examining'
    BY <2>1, <2>2, <2>4 DEF Examining
  <2>8. /\ Idle' \subseteq Idle
        /\ \A x \in Checks : array'[x] = array[x] \/ ToSet(array'[x]) \subseteq 1..made
    <3>1. CASE Found(h, healthy) = <<>>
      <4>1. array' = [array EXCEPT ![h] = <<>>] /\ pool' = pool
        BY <1>5, <3>1 DEF ExamineLast
      <4> QED
        BY <4>1, EmptySet DEF Idle, TypeOK
    <3>2. CASE Found(h, healthy) # <<>>
      <4>1. PICK kept \in Without(pool, ToSet(Found(h, healthy))) : Replace(kept, h)
        BY <1>5, <3>2 DEF ExamineLast
      <4>2. Idle' \subseteq Idle
        BY <4>1, WithoutFilters DEF Replace, Idle, TypeOK
      <4>3. \A x \in Checks : array'[x] = array[x] \/ ToSet(array'[x]) \subseteq 1..made
        BY <4>1, ReplaceArrays, EmptySet DEF Known, Idle
      <4> QED
        BY <4>2, <4>3
    <3> QED
      BY <3>1, <3>2
  <2> QED
    BY <2>1, <2>5, <2>6, <2>7, <2>8, KnownKept DEF Known, TypeOK
<1> QED
  BY <1>1, <1>2, <1>3, <1>4, <1>5 DEF Checking

-----------------------------------------------------------------------------
(* Counting connections *)

LEMMA DomainNumber ==
    ASSUME NEW s \in Seq(Nat)
    PROVE  Len(s) \in Nat /\ IsFiniteSet(DOMAIN s) /\ Cardinality(DOMAIN s) = Len(s)
<1>1. Len(s) \in Nat /\ DOMAIN s = 1..Len(s)
  OBVIOUS
<1> QED
  BY <1>1, FS_Interval

\* As many pairs as places.
LEMMA PlacesNumber ==
    ASSUME NEW p, NEW s \in Seq(Nat)
    PROVE  IsFiniteSet({p} \X DOMAIN s) /\ Cardinality({p} \X DOMAIN s) = Len(s)
<1>1. IsFiniteSet({p}) /\ Cardinality({p}) = 1
  BY FS_Singleton
<1>2. Cardinality({p} \X DOMAIN s) = Cardinality({p}) * Cardinality(DOMAIN s)
  BY <1>1, DomainNumber, FS_Product
<1> QED
  BY <1>1, <1>2, DomainNumber, FS_Product

LEMMA ProcsFinite ==
    /\ IsFiniteSet(Executing) /\ IsFiniteSet(Executing')
    /\ IsFiniteSet(Closing) /\ IsFiniteSet(Closing')
<1>1. /\ Executing \in SUBSET Procs /\ Executing' \in SUBSET Procs
      /\ Closing \in SUBSET Procs /\ Closing' \in SUBSET Procs
  BY DEF Executing, Closing, Procs
<1> QED
  BY <1>1, ProcsAssumption, FS_Subset

LEMMA PlacesFinite ==
    ASSUME NEW C, IsFiniteSet(C), NEW f, \A p \in C : f[p] \in Seq(Nat)
    PROVE  IsFiniteSet(UNION {{p} \X DOMAIN f[p] : p \in C})
<1> DEFINE parts == {{p} \X DOMAIN f[p] : p \in C}
           part == [p \in C |-> {p} \X DOMAIN f[p]]
<1>1. \A p \in C : IsFiniteSet({p} \X DOMAIN f[p])
  BY PlacesNumber
<1>2. part \in Surjection(C, parts)
  BY DEF Surjection
<1>3. IsFiniteSet(parts)
  BY <1>2, FS_Surjection
<1> QED
  BY <1>1, <1>3, FS_UNION

LEMMA DroppedFinite ==
    /\ TypeOK => IsFiniteSet(Dropped)
    /\ TypeOK' => IsFiniteSet(Dropped')
<1>1. ASSUME TypeOK PROVE IsFiniteSet(Dropped)
  <2>1. \A p \in Closing : drop[p] \in Seq(Nat)
    BY <1>1 DEF TypeOK, Closing
  <2> QED
    BY <2>1, ProcsFinite, PlacesFinite DEF Dropped
<1>2. ASSUME TypeOK' PROVE IsFiniteSet(Dropped')
  <2>1. \A p \in Closing' : drop'[p] \in Seq(Nat)
    BY <1>2 DEF TypeOK, Closing
  <2>2. IsFiniteSet(UNION {{p} \X DOMAIN drop'[p] : p \in Closing'})
    BY <2>1, ProcsFinite, PlacesFinite
  <2> QED
    BY <2>2 DEF Dropped
<1> QED
  BY <1>1, <1>2

LEMMA Numbers ==
    /\ TypeOK => /\ Len(pool) \in Nat /\ Cardinality(Executing) \in Nat
                 /\ Cardinality(Dropped) \in Nat /\ Countable \in Nat
    /\ TypeOK' => /\ Len(pool') \in Nat /\ Cardinality(Executing') \in Nat
                  /\ Cardinality(Dropped') \in Nat /\ Countable' \in Nat
<1>1. /\ TypeOK => Len(pool) \in Nat
      /\ TypeOK' => Len(pool') \in Nat
  BY DEF TypeOK
<1>2. /\ TypeOK => Cardinality(Executing) \in Nat /\ Cardinality(Dropped) \in Nat
      /\ TypeOK' => Cardinality(Executing') \in Nat /\ Cardinality(Dropped') \in Nat
  BY ProcsFinite, DroppedFinite, FS_CardinalityType
<1>3. TypeOK => Countable \in Nat
  BY <1>1, <1>2 DEF Countable
<1>4. TypeOK' => Countable' \in Nat
  BY <1>1, <1>2 DEF Countable
<1> QED
  BY <1>1, <1>2, <1>3, <1>4

LEMMA ExecutingGrows ==
    ASSUME NEW q, q \notin Executing, Executing' = Executing \cup {q}
    PROVE  Cardinality(Executing') = Cardinality(Executing) + 1
  BY ProcsFinite, FS_AddElement

LEMMA ExecutingShrinks ==
    ASSUME NEW q \in Executing, Executing' = Executing \ {q}
    PROVE  Cardinality(Executing') = Cardinality(Executing) - 1
  BY ProcsFinite, FS_RemoveElement

LEMMA DroppedSame ==
    ASSUME \A p \in Closers : pc'[p] = "closing" <=> pc[p] = "closing",
           \A p \in Closers : pc[p] = "closing" => drop'[p] = drop[p]
    PROVE  Dropped' = Dropped
<1>1. Closing' = Closing /\ \A p \in Closing : drop'[p] = drop[p]
  BY DEF Closing, Closers
<1> QED
  BY <1>1 DEF Dropped

LEMMA DroppedGrows ==
    ASSUME TypeOK, TypeOK', NEW p \in Closers, pc[p] # "closing", pc'[p] = "closing",
           \A r \in Closers \ {p} : pc'[r] = pc[r] /\ drop'[r] = drop[r]
    PROVE  Cardinality(Dropped') = Cardinality(Dropped) + Len(drop'[p])
<1> DEFINE new == {p} \X DOMAIN drop'[p]
<1>1. Closing' = Closing \cup {p} /\ p \notin Closing
  BY DEF Closing, Closers
<1>2. \A r \in Closing : drop'[r] = drop[r]
  BY DEF Closing, Closers
<1>3. Dropped' = Dropped \cup new /\ Dropped \cap new = {}
  BY <1>1, <1>2 DEF Dropped
<1>4. drop'[p] \in Seq(Nat)
  BY DEF TypeOK
<1>5. IsFiniteSet(new) /\ Cardinality(new) = Len(drop'[p]) /\ Len(drop'[p]) \in Nat
  BY <1>4, PlacesNumber, DomainNumber
<1> HIDE DEF new
<1>6. Cardinality(Dropped \cup new) = Cardinality(Dropped) + Cardinality(new) - Cardinality({})
  BY <1>3, <1>5, DroppedFinite, FS_Union
<1> QED
  BY <1>3, <1>5, <1>6, Numbers, FS_EmptySet

LEMMA DroppedShrinks ==
    ASSUME TypeOK, TypeOK', NEW p \in Closers, pc[p] = "closing", pc'[p] # "closing",
           \A r \in Closers \ {p} : pc'[r] = pc[r] /\ drop'[r] = drop[r]
    PROVE  Cardinality(Dropped') = Cardinality(Dropped) - Len(drop[p])
<1> DEFINE old == {p} \X DOMAIN drop[p]
<1>1. Closing = Closing' \cup {p} /\ p \notin Closing'
  BY DEF Closing, Closers
<1>2. \A r \in Closing' : drop'[r] = drop[r]
  BY <1>1 DEF Closing, Closers
<1>3. Dropped = Dropped' \cup old /\ Dropped' \cap old = {}
  BY <1>1, <1>2 DEF Dropped
<1>4. drop[p] \in Seq(Nat)
  BY DEF TypeOK
<1>5. IsFiniteSet(old) /\ Cardinality(old) = Len(drop[p]) /\ Len(drop[p]) \in Nat
  BY <1>4, PlacesNumber, DomainNumber
<1> HIDE DEF old
<1>6. IsFiniteSet(Dropped')
  BY <1>3, DroppedFinite, FS_Subset
<1>7. Cardinality(Dropped' \cup old) = Cardinality(Dropped') + Cardinality(old) - Cardinality({})
  BY <1>3, <1>5, <1>6, FS_Union
<1>8. Cardinality(Dropped') \in Nat
  BY <1>6, FS_CardinalityType
<1> QED
  BY <1>3, <1>5, <1>7, <1>8, Numbers, FS_EmptySet

\* What is filtered out is in the list of what is bad, once.
LEMMA WithoutNumber ==
    ASSUME NEW s \in Seq(Nat), NEW t \in Seq(Nat), Distinct(s), NEW r \in Without(s, ToSet(t))
    PROVE  Len(r) \in Nat /\ Len(s) <= Len(r) + Len(t)
<1> DEFINE kept == {i \in DOMAIN s : s[i] \notin ToSet(t)}
           gone == DOMAIN s \ kept
           size == Cardinality(kept)
<1>1. /\ IsFiniteSet(DOMAIN s) /\ Cardinality(DOMAIN s) = Len(s)
      /\ IsFiniteSet(DOMAIN t) /\ Cardinality(DOMAIN t) = Len(t)
      /\ Len(s) \in Nat /\ Len(t) \in Nat
  BY DomainNumber
<1>2. /\ IsFiniteSet(kept) /\ IsFiniteSet(gone)
      /\ Cardinality(kept) \in Nat /\ Cardinality(gone) \in Nat
  BY <1>1, FS_Subset, FS_CardinalityType
<1>3. Len(s) = Cardinality(kept) + Cardinality(gone)
  <2>1. kept \cup gone = DOMAIN s /\ kept \cap gone = {}
    OBVIOUS
  <2> HIDE DEF kept, gone
  <2>2. Cardinality(kept \cup gone)
          = Cardinality(kept) + Cardinality(gone) - Cardinality(kept \cap gone)
    BY <1>2, FS_Union
  <2>3. Cardinality(kept \cap gone) = 0
    BY <2>1, FS_EmptySet
  <2> QED
    BY <1>1, <1>2, <2>1, <2>2, <2>3
<1>4. IsFiniteSet(ToSet(t)) /\ Cardinality(ToSet(t)) <= Len(t) /\ Cardinality(ToSet(t)) \in Nat
  <2>1. [i \in DOMAIN t |-> t[i]] \in Surjection(DOMAIN t, ToSet(t))
    BY DEF Surjection, ToSet
  <2>2. IsFiniteSet(ToSet(t)) /\ Cardinality(ToSet(t)) <= Cardinality(DOMAIN t)
    BY <1>1, <2>1, FS_Surjection
  <2> QED
    BY <1>1, <2>2, FS_CardinalityType
<1>5. Cardinality(gone) <= Cardinality(ToSet(t))
  <2>1. [i \in gone |-> s[i]] \in Injection(gone, ToSet(t))
    BY DEF Injection, IsInjective, Distinct, ToSet
  <2> QED
    BY <1>4, <2>1, FS_Injection
<1>6. Len(r) = size
  <2>1. DOMAIN r = 1..size
    BY DEF Without
  <2>2. r \in Seq(Nat)
    BY WithoutFilters
  <2> HIDE DEF size
  <2>3. size \in Nat
    BY <1>2 DEF size
  <2> QED
    BY <2>1, <2>2, <2>3
<1> QED
  BY <1>1, <1>2, <1>3, <1>4, <1>5, <1>6

-----------------------------------------------------------------------------
(* What is counted *)

Counts == OvercountIsStuck /\ ExactUntilDisturbed /\ CreatesAlone

LEMMA NoDrift ==
    ASSUME NEW a \in Int, NEW b \in Int, NEW c \in Int, NEW d \in Int, NEW e \in Int,
           a <= b + e, c - a <= d - b
    PROVE  c <= d + e
  OBVIOUS

\* A step that moves the counters as it moves what they count.
LEMMA Balance ==
    ASSUME TypeOK, TypeOK', Counts, disturbed => disturbed',
           stuck' = stuck, total' - total <= Countable' - Countable,
           ~disturbed' => /\ total' - total = Countable' - Countable
                          /\ total' <= MaxPoolSize
                          /\ inUse' - inUse = Cardinality(Executing') - Cardinality(Executing)
    PROVE  OvercountIsStuck' /\ ExactUntilDisturbed'
<1>1. /\ Countable \in Nat /\ Countable' \in Nat /\ total \in Int /\ total' \in Int
      /\ Cardinality(Executing) \in Nat /\ Cardinality(Executing') \in Nat
      /\ inUse \in Int /\ inUse' \in Int
  BY Numbers DEF TypeOK
<1>2. OvercountIsStuck'
  <2>1. total <= Countable + stuck
    BY DEF Counts, OvercountIsStuck
  <2>2. total' - total <= Countable' - Countable
    OBVIOUS
  <2> DEFINE c == Countable
             d == Countable'
  <2>3. c \in Int /\ d \in Int /\ total \in Int /\ total' \in Int /\ stuck \in Int
    BY <1>1 DEF TypeOK
  <2>4. total <= c + stuck /\ total' - total <= d - c
    BY <2>1, <2>2
  <2> HIDE DEF c, d
  <2>5. total' <= d + stuck
    BY <2>3, <2>4, NoDrift
  <2> QED
    BY <2>5 DEF OvercountIsStuck, d
<1>3. ExactUntilDisturbed'
  BY <1>1 DEF Counts, ExactUntilDisturbed
<1> QED
  BY <1>2, <1>3

\* A creation starts or goes on.
LEMMA CreatesNow ==
    ASSUME TypeOK, NEW p \in Procs, \A x \in Procs \ {p} : pc'[x] = pc[x],
           ~disturbed' => /\ Creating \ {p} = {} /\ total' < MaxPoolSize
                          /\ p \in Connects => need'[p] >= 1 /\ total' + need'[p] <= MinPoolSize
    PROVE  CreatesAlone'
<1> SUFFICES ASSUME ~disturbed', NEW x \in Creating' PROVE x = p
  BY DEF CreatesAlone
<1> QED
  BY DEF Creating

\* No creation starts, and what is counted leaves room for the one there is.
LEMMA CreatesLess ==
    ASSUME TypeOK, TypeOK', Counts, NEW p \in Procs, \A x \in Procs \ {p} : pc'[x] = pc[x],
           disturbed => disturbed', pc'[p] # "creating",
           ~disturbed' => total' <= total \/ Creating \ {p} = {},
           \A k \in Connects \ {p} : need'[k] = need[k]
    PROVE  CreatesAlone'
<1>1. Creating' \subseteq Creating \ {p}
  BY DEF Creating
<1>2. /\ total \in Int /\ total' \in Int /\ MaxPoolSize \in Int /\ MinPoolSize \in Int
      /\ \A k \in Connects : need[k] \in Int
  BY SizeAssumption DEF TypeOK
<1>3. CASE ~disturbed' /\ total' <= total
  <2>1. /\ \A x, y \in Creating : x = y
        /\ Creating # {} => total < MaxPoolSize
        /\ \A k \in Connects \cap Creating : need[k] >= 1 /\ total + need[k] <= MinPoolSize
    BY <1>3 DEF CreatesAlone, Counts
  <2>2. Creating' # {} => total' < MaxPoolSize
    BY <1>1, <1>2, <1>3, <2>1
  <2>3. ASSUME NEW k \in Connects \cap Creating'
        PROVE  need'[k] >= 1 /\ total' + need'[k] <= MinPoolSize
    BY <1>1, <1>2, <1>3, <2>1
  <2> QED
    BY <1>1, <2>1, <2>2, <2>3 DEF CreatesAlone
<1>4. CASE ~disturbed' /\ Creating \ {p} = {}
  BY <1>1, <1>4 DEF CreatesAlone
<1> QED
  BY <1>3, <1>4 DEF CreatesAlone

\* What the steps of a query do to the numbers.
LEMMA QueryNumbers ==
    ASSUME TypeOK, TypeOK', NEW q \in Queries,
           \A x \in Procs \ {q} : pc'[x] = pc[x], drop' = drop
    PROVE  /\ Cardinality(Dropped') = Cardinality(Dropped)
           /\ pc[q] # "executing" /\ pc'[q] = "executing"
                 => Cardinality(Executing') = Cardinality(Executing) + 1
           /\ pc[q] = "executing" /\ pc'[q] # "executing"
                 => Cardinality(Executing') = Cardinality(Executing) - 1
           /\ pc[q] # "executing" /\ pc'[q] # "executing"
                 => Cardinality(Executing') = Cardinality(Executing)
<1>1. Dropped' = Dropped
  BY DroppedSame, Members
<1>2. ASSUME pc[q] # "executing", pc'[q] = "executing"
      PROVE  Cardinality(Executing') = Cardinality(Executing) + 1
  <2>1. q \notin Executing /\ Executing' = Executing \cup {q}
    BY <1>2, Members DEF Executing
  <2> QED
    BY <2>1, ExecutingGrows
<1>3. ASSUME pc[q] = "executing", pc'[q] # "executing"
      PROVE  Cardinality(Executing') = Cardinality(Executing) - 1
  <2>1. q \in Executing /\ Executing' = Executing \ {q}
    BY <1>3, Members DEF Executing
  <2> QED
    BY <2>1, ExecutingShrinks
<1>4. ASSUME pc[q] # "executing", pc'[q] # "executing"
      PROVE  Cardinality(Executing') = Cardinality(Executing)
  <2>1. Executing' = Executing
    BY <1>4, Members DEF Executing
  <2> QED
    BY <2>1
<1> QED
  BY <1>1, <1>2, <1>3, <1>4

LEMMA QueryCounts ==
    ASSUME TypeOK, TypeOK', Counts, NEW q \in Queries, Query(q)
    PROVE  Counts'
<1>1. q \in Procs /\ q \notin Connects
  BY Members
<1>2. /\ Len(pool) \in Nat /\ Cardinality(Executing) \in Nat /\ Cardinality(Dropped) \in Nat
      /\ total \in Int /\ inUse \in Int /\ MaxPoolSize \in Int /\ pool \in Seq(Nat)
  BY Numbers, SizeAssumption DEF TypeOK
<1>3. Countable = Len(pool) + Cardinality(Executing) + Cardinality(Dropped)
  BY DEF Countable
<1>4. Countable' = Len(pool') + Cardinality(Executing') + Cardinality(Dropped')
  BY DEF Countable
<1>5. ~disturbed => total <= MaxPoolSize
  BY DEF Counts, ExactUntilDisturbed
<1>6. CASE Pop(q)
  <2>1. /\ pc' = [pc EXCEPT ![q] = "executing"] /\ pc[q] = "idle"
        /\ pool # <<>> /\ pool' = Front(pool) /\ inUse' = inUse + 1
        /\ UNCHANGED <<total, stuck, disturbed, need, drop>>
    BY <1>6 DEF Pop, Goto
  <2>2. pc'[q] = "executing" /\ \A x \in Procs \ {q} : pc'[x] = pc[x]
    BY <1>1, <2>1, OwnStage
  <2>3. /\ Cardinality(Dropped') = Cardinality(Dropped)
        /\ Cardinality(Executing') = Cardinality(Executing) + 1
    BY <2>1, <2>2, QueryNumbers
  <2>4. Len(pool') = Len(pool) - 1
    <3>1. pool \in Seq(Nat) /\ Len(pool) \in Nat /\ Len(pool) > 0
      BY <1>2, <2>1
    <3>2. Front(pool) = [i \in 1..(Len(pool) - 1) |-> pool[i]]
      BY <3>1 DEF Front
    <3> QED
      BY <2>1, <3>1, <3>2
  <2>5. Countable' = Countable
    BY <1>2, <1>3, <1>4, <2>3, <2>4
  <2>6. CreatesAlone'
    BY <1>1, <1>2, <2>1, <2>2, CreatesLess
  <2> QED
    BY <1>2, <1>5, <2>1, <2>3, <2>5, <2>6, Numbers, Balance DEF Counts
<1>7. CASE StartCreating(q)
  <2>1. /\ pc' = [pc EXCEPT ![q] = "creating"] /\ pc[q] = "idle" /\ total < MaxPoolSize
        /\ UNCHANGED <<pool, total, inUse, stuck, drop>>
    BY <1>7 DEF StartCreating, Goto
  <2>2. (disturbed => disturbed') /\ (~disturbed' => Creating = {})
    BY <1>7 DEF StartCreating
  <2>3. pc'[q] = "creating" /\ \A x \in Procs \ {q} : pc'[x] = pc[x]
    BY <1>1, <2>1, OwnStage
  <2>4. /\ Cardinality(Dropped') = Cardinality(Dropped)
        /\ Cardinality(Executing') = Cardinality(Executing)
    BY <2>1, <2>3, QueryNumbers
  <2>5. Countable' = Countable
    BY <1>3, <1>4, <2>1, <2>4
  <2>6. CreatesAlone'
    BY <1>1, <2>1, <2>2, <2>3, CreatesNow
  <2> QED
    BY <1>2, <1>5, <2>1, <2>2, <2>4, <2>5, <2>6, Numbers, Balance DEF Counts
<1>8. CASE Refuse(q) \/ CreateFails(q)
  <2>1. /\ pc' = [pc EXCEPT ![q] = "done"] /\ pc[q] # "executing"
        /\ UNCHANGED <<pool, total, inUse, stuck, disturbed, need, drop>>
    BY <1>8 DEF Refuse, CreateFails, Goto, countVars
  <2>2. pc'[q] = "done" /\ \A x \in Procs \ {q} : pc'[x] = pc[x]
    BY <1>1, <2>1, OwnStage
  <2>3. /\ Cardinality(Dropped') = Cardinality(Dropped)
        /\ Cardinality(Executing') = Cardinality(Executing)
    BY <2>1, <2>2, QueryNumbers
  <2>4. Countable' = Countable
    BY <1>3, <1>4, <2>1, <2>3
  <2>5. CreatesAlone'
    BY <1>1, <1>2, <2>1, <2>2, CreatesLess
  <2> QED
    BY <1>2, <1>5, <2>1, <2>3, <2>4, <2>5, Numbers, Balance DEF Counts
<1>9. CASE Created(q)
  <2>1. /\ pc' = [pc EXCEPT ![q] = "executing"] /\ pc[q] = "creating"
        /\ total' = total + 1 /\ inUse' = inUse + 1
        /\ UNCHANGED <<pool, stuck, disturbed, need, drop>>
    BY <1>9 DEF Created, Goto
  <2>2. pc'[q] = "executing" /\ \A x \in Procs \ {q} : pc'[x] = pc[x]
    BY <1>1, <2>1, OwnStage
  <2>3. /\ Cardinality(Dropped') = Cardinality(Dropped)
        /\ Cardinality(Executing') = Cardinality(Executing) + 1
    BY <2>1, <2>2, QueryNumbers
  <2>4. Countable' = Countable + 1 /\ Countable \in Nat
    BY <1>2, <1>3, <1>4, <2>1, <2>3
  <2>5. q \in Creating
    BY <1>1, <2>1 DEF Creating
  <2>6. ~disturbed => Creating \ {q} = {} /\ total < MaxPoolSize
    BY <2>5 DEF Counts, CreatesAlone
  <2>7. CreatesAlone'
    BY <1>1, <2>1, <2>2, <2>6, CreatesLess
  <2>8. total' - total <= Countable' - Countable
    BY <1>2, <2>1, <2>4
  <2>9. ~disturbed' => /\ total' - total = Countable' - Countable
                       /\ total' <= MaxPoolSize
                       /\ inUse' - inUse = Cardinality(Executing') - Cardinality(Executing)
    BY <1>2, <2>1, <2>3, <2>4, <2>6
  <2> QED
    BY <2>1, <2>7, <2>8, <2>9, Balance DEF Counts
<1>10. CASE Release(q) \/ ReleaseFull(q)
  <2>1. /\ pc' = [pc EXCEPT ![q] = "done"] /\ pc[q] = "executing" /\ UNCHANGED <<need, drop>>
    BY <1>10 DEF Release, ReleaseFull, Goto
  <2>2. pc'[q] = "done" /\ \A x \in Procs \ {q} : pc'[x] = pc[x]
    BY <1>1, <2>1, OwnStage
  <2>3. /\ Cardinality(Dropped') = Cardinality(Dropped)
        /\ Cardinality(Executing') = Cardinality(Executing) - 1
    BY <2>1, <2>2, QueryNumbers
  <2>4. total' <= total /\ (disturbed => disturbed')
    BY <1>2, <1>10 DEF Release, ReleaseFull
  <2>5. CreatesAlone'
    BY <1>1, <2>1, <2>2, <2>4, CreatesLess
  <2>6. CASE /\ inUse' = inUse - 1 /\ UNCHANGED <<stuck, disturbed>>
             /\ \/ pool' = Append(pool, conn[q]) /\ total' = total
                \/ total' = total - 1 /\ pool' = pool
    <3>1. pool' = Append(pool, conn[q]) => Len(pool') = Len(pool) + 1
      BY <1>2
    <3>2. total' - total = Countable' - Countable
      BY <1>2, <1>3, <1>4, <2>3, <2>6, <3>1
    <3>3. total' - total <= Countable' - Countable
      BY <1>2, <1>3, <1>4, <2>3, <2>6, <3>1
    <3>4. ~disturbed' => /\ total' <= MaxPoolSize
                         /\ inUse' - inUse = Cardinality(Executing') - Cardinality(Executing)
      BY <1>2, <1>5, <2>3, <2>6
    <3> QED
      BY <2>4, <2>5, <2>6, <3>2, <3>3, <3>4, Balance DEF Counts
  <2>7. CASE stuck' = stuck + 1 /\ disturbed' = TRUE /\ UNCHANGED <<total, pool>>
    <3>1. Countable' = Countable - 1 /\ Countable \in Int /\ stuck \in Int
      BY <1>2, <1>3, <1>4, <2>3, <2>7 DEF TypeOK
    <3>2. OvercountIsStuck'
      <4>1. total <= Countable + stuck
        BY DEF Counts, OvercountIsStuck
      <4>2. Countable' + stuck' = Countable + stuck
        BY <2>7, <3>1
      <4>3. total' <= Countable' + stuck'
        BY <2>7, <4>1, <4>2
      <4> QED
        BY <4>3 DEF OvercountIsStuck
    <3>3. ExactUntilDisturbed'
      BY <2>7 DEF ExactUntilDisturbed
    <3> QED
      BY <2>5, <3>2, <3>3 DEF Counts
  <2> QED
    BY <1>10, <2>6, <2>7 DEF Release, ReleaseFull
<1> QED
  BY <1>6, <1>7, <1>8, <1>9, <1>10 DEF Query

\* What the steps of a connect, a disconnect or a tick do to the numbers.
LEMMA CloserNumbers ==
    ASSUME TypeOK, TypeOK', NEW p \in Closers,
           \A x \in Procs \ {p} : pc'[x] = pc[x],
           \A r \in Closers \ {p} : drop'[r] = drop[r]
    PROVE  /\ Executing' = Executing
           /\ pc[p] # "closing" /\ pc'[p] # "closing"
                 => Cardinality(Dropped') = Cardinality(Dropped)
           /\ pc[p] # "closing" /\ pc'[p] = "closing"
                 => Cardinality(Dropped') = Cardinality(Dropped) + Len(drop'[p])
           /\ pc[p] = "closing" /\ pc'[p] # "closing"
                 => Cardinality(Dropped') = Cardinality(Dropped) - Len(drop[p])
<1>1. Executing' = Executing
  BY Members DEF Executing
<1>2. \A r \in Closers \ {p} : pc'[r] = pc[r] /\ drop'[r] = drop[r]
  BY Members
<1>3. ASSUME pc[p] # "closing", pc'[p] # "closing"
      PROVE  Cardinality(Dropped') = Cardinality(Dropped)
  <2>1. Dropped' = Dropped
    BY <1>2, <1>3, DroppedSame
  <2> QED
    BY <2>1
<1> QED
  BY <1>1, <1>2, <1>3, DroppedGrows, DroppedShrinks

\* The counters after a cleanup's end, and what they ought to be.
LEMMA ResetCounts ==
    ASSUME TypeOK, TypeOK', Counts, NEW p \in Closers, Reset(p), need' = need
    PROVE  Counts'
<1>1. p \in Procs
  BY Members
<1>2. /\ total' = 0 /\ inUse' = 0 /\ stuck' = 0 /\ pc' = [pc EXCEPT ![p] = "cleaned"]
      /\ disturbed => disturbed'
      /\ ~disturbed' => /\ Executing = {} /\ Creating = {} /\ pool' = <<>>
                        /\ \A x \in Closers \ {p} : pc[x] # "closing"
  BY DEF Reset, Goto
<1>3. pc'[p] = "cleaned" /\ \A x \in Procs \ {p} : pc'[x] = pc[x]
  BY <1>1, <1>2, OwnStage
<1>4. CreatesAlone'
  BY <1>1, <1>2, <1>3, CreatesLess
<1>5. Countable' \in Nat
  BY Numbers
<1>6. OvercountIsStuck'
  <2> DEFINE d == Countable'
  <2>1. d \in Nat
    BY <1>5
  <2> HIDE DEF d
  <2>2. 0 <= d + 0
    BY <2>1
  <2> QED
    BY <1>2, <2>2 DEF OvercountIsStuck, d
<1>7. ASSUME ~disturbed' PROVE Countable' = 0 /\ Cardinality(Executing') = 0
  <2>1. Executing' = {}
    BY <1>2, <1>3, <1>7, Members DEF Executing
  <2>2. Closing' = {}
    BY <1>2, <1>3, <1>7, Members DEF Closing
  <2>3. Dropped' = {}
    BY <2>2 DEF Dropped
  <2>4. Cardinality(Executing') = 0 /\ Cardinality(Dropped') = 0
    BY <2>1, <2>3, FS_EmptySet
  <2>5. Len(pool') = 0
    BY <1>2, <1>7
  <2> QED
    BY <2>4, <2>5 DEF Countable
<1>8. ExactUntilDisturbed'
  BY <1>2, <1>7, SizeAssumption DEF ExactUntilDisturbed
<1> QED
  BY <1>4, <1>6, <1>8 DEF Counts

LEMMA CleanupCounts ==
    ASSUME TypeOK, TypeOK', Counts, NEW p \in Connects \cup Disconnects,
           \/ pc[p] = "idle" /\ Cleanup(p)
           \/ CleanupEnds(p)
           \/ Cleaned(p)
    PROVE  Counts'
<1>1. p \in Procs /\ p \in Closers
  BY Members
<1>2. /\ Len(pool) \in Nat /\ Cardinality(Executing) \in Nat /\ Cardinality(Dropped) \in Nat
      /\ total \in Int /\ inUse \in Int /\ MaxPoolSize \in Int
  BY Numbers, SizeAssumption DEF TypeOK
<1>3. Countable = Len(pool) + Cardinality(Executing) + Cardinality(Dropped)
  BY DEF Countable
<1>4. Countable' = Len(pool') + Cardinality(Executing') + Cardinality(Dropped')
  BY DEF Countable
<1>5. ~disturbed => total <= MaxPoolSize
  BY DEF Counts, ExactUntilDisturbed
<1>6. CASE Reset(p)
  <2>1. need' = need
    BY DEF Cleanup, CleanupEnds, Cleaned
  <2> QED
    BY <1>1, <1>6, <2>1, ResetCounts
<1>7. CASE pc[p] = "idle" /\ Cleanup(p) /\ ~Reset(p)
  <2>1. /\ drop' = [drop EXCEPT ![p] = pool] /\ pc' = [pc EXCEPT ![p] = "closing"]
        /\ UNCHANGED <<total, inUse, stuck, disturbed, need>>
    BY <1>7 DEF Cleanup, Goto, countVars
  <2>2. pool' = <<>>
    BY <1>7 DEF Cleanup, Replace
  <2>3. pc'[p] = "closing" /\ \A x \in Procs \ {p} : pc'[x] = pc[x]
    BY <1>1, <2>1, OwnStage
  <2>4. drop'[p] = pool /\ \A r \in Closers \ {p} : drop'[r] = drop[r]
    BY <1>1, <2>1 DEF TypeOK
  <2>5. Cardinality(Dropped') = Cardinality(Dropped) + Len(pool) /\ Executing' = Executing
    BY <1>1, <1>7, <2>3, <2>4, CloserNumbers
  <2>6. Len(pool') = 0
    BY <2>2
  <2>7. Countable' = Countable
    BY <1>2, <1>3, <1>4, <2>5, <2>6
  <2>8. CreatesAlone'
    BY <1>1, <1>2, <2>1, <2>3, CreatesLess
  <2> QED
    BY <1>2, <1>5, <2>1, <2>5, <2>7, <2>8, Numbers, Balance DEF Counts
<1>8. CASE Cleaned(p)
  <2>1. /\ pc' = [pc EXCEPT ![p] = "done"] /\ pc[p] = "cleaned"
        /\ UNCHANGED <<pool, total, inUse, stuck, disturbed, need, drop>>
    BY <1>8 DEF Cleaned, Goto, countVars
  <2>2. pc'[p] = "done" /\ \A x \in Procs \ {p} : pc'[x] = pc[x]
    BY <1>1, <2>1, OwnStage
  <2>3. Cardinality(Dropped') = Cardinality(Dropped) /\ Executing' = Executing
    BY <1>1, <2>1, <2>2, CloserNumbers
  <2>4. Countable' = Countable
    BY <1>3, <1>4, <2>1, <2>3
  <2>5. CreatesAlone'
    BY <1>1, <1>2, <2>1, <2>2, CreatesLess
  <2> QED
    BY <1>2, <1>5, <2>1, <2>3, <2>4, <2>5, Numbers, Balance DEF Counts
<1> QED
  BY <1>6, <1>7, <1>8 DEF CleanupEnds

\* A creation for the pool succeeds or fails.
LEMMA FillNumbers ==
    ASSUME TypeOK, TypeOK', NEW p \in Closers, pc[p] # "closing", pc'[p] # "closing",
           \A x \in Procs \ {p} : pc'[x] = pc[x], drop' = drop,
           \/ pool' = Append(pool, made + 1) /\ total' = total + 1
           \/ UNCHANGED <<pool, total>>
    PROVE  /\ total' - total = Countable' - Countable
           /\ total' - total <= Countable' - Countable
           /\ Executing' = Executing
<1>1. Executing' = Executing /\ Cardinality(Dropped') = Cardinality(Dropped)
  BY CloserNumbers
<1>2. /\ Len(pool) \in Nat /\ Cardinality(Executing) \in Nat /\ Cardinality(Dropped) \in Nat
      /\ total \in Int
  BY Numbers DEF TypeOK
<1>3. pool' = Append(pool, made + 1) => Len(pool') = Len(pool) + 1
  BY DEF TypeOK
<1> QED
  BY <1>1, <1>2, <1>3 DEF Countable

LEMMA ConnectingCounts ==
    ASSUME TypeOK, TypeOK', Counts, NEW k \in Connects, Connecting(k)
    PROVE  Counts'
<1>1. k \in Procs /\ k \in Closers /\ k \in Connects \cup Checks
  BY Members
<1>2. /\ Cardinality(Executing) \in Nat /\ Countable \in Nat /\ Countable' \in Nat
      /\ total \in Int /\ total' \in Int /\ inUse \in Int /\ need[k] \in Int
      /\ MaxPoolSize \in Int /\ MinPoolSize \in Int /\ 0 < MinPoolSize /\ MinPoolSize <= MaxPoolSize
  <2>1. /\ total \in Int /\ total' \in Int /\ inUse \in Int
        /\ need \in [Connects \cup Checks -> Int]
    BY DEF TypeOK
  <2>2. need[k] \in Int
    BY <1>1, <2>1
  <2>3. /\ MaxPoolSize \in Int /\ MinPoolSize \in Int /\ 0 < MinPoolSize
        /\ MinPoolSize <= MaxPoolSize
    BY SizeAssumption
  <2> QED
    BY <2>1, <2>2, <2>3, Numbers
<1>3. ~disturbed => total <= MaxPoolSize /\ total = Countable
  BY DEF Counts, ExactUntilDisturbed
<1>4. CASE Connect(k) \/ Connected(k)
  <2>1. UNCHANGED <<pool, total, inUse, stuck, drop>> /\ pc[k] # "closing"
    BY <1>4 DEF Connect, Connected, countVars
  <2>2. PICK label \in {"creating", "initialized", "done"} : pc' = [pc EXCEPT ![k] = label]
    BY <1>4 DEF Connect, Connected, Goto
  <2>3. pc'[k] = label /\ \A x \in Procs \ {k} : pc'[x] = pc[x]
    BY <1>1, <2>2, OwnStage
  <2>4. Executing' = Executing /\ Cardinality(Dropped') = Cardinality(Dropped)
    BY <1>1, <2>1, <2>3, CloserNumbers
  <2>5. Countable' = Countable
    BY <2>1, <2>4 DEF Countable
  <2>6. disturbed => disturbed'
    BY <1>4 DEF Connect, Connected, Disturb, countVars
  <2>7. CASE label = "creating"
    <3>1. need' = [need EXCEPT ![k] = MinPoolSize] /\ Disturb(k, total > 0)
      BY <1>1, <1>4, <2>3, <2>7 DEF Connect, Connected, Goto, TypeOK
    <3>2. need'[k] = MinPoolSize
      BY <1>1, <3>1 DEF TypeOK
    <3>3. ~disturbed' => Creating \ {k} = {} /\ ~(total > 0)
      BY <3>1 DEF Disturb
    <3>4. ~disturbed' => /\ total' < MaxPoolSize
                         /\ need'[k] >= 1 /\ total' + need'[k] <= MinPoolSize
      BY <1>2, <2>1, <3>2, <3>3
    <3> QED
      BY <1>1, <1>2, <1>3, <2>1, <2>3, <2>4, <2>5, <2>6, <3>3, <3>4, CreatesNow, Numbers, Balance
         DEF Counts
  <2>8. CASE label # "creating"
    <3>1. \A c \in Connects \ {k} : need'[c] = need[c]
      BY <1>4 DEF Connect, Connected, TypeOK
    <3>2. CreatesAlone'
      BY <1>1, <1>2, <2>1, <2>3, <2>6, <2>8, <3>1, CreatesLess
    <3> QED
      BY <1>2, <1>3, <2>1, <2>4, <2>5, <2>6, <3>2, Numbers, Balance DEF Counts
  <2> QED
    BY <2>7, <2>8
<1>5. CASE Fill(k)
  <2>1. /\ pc[k] = "creating" /\ UNCHANGED <<inUse, stuck, drop>>
        /\ \/ pool' = Append(pool, made + 1) /\ total' = total + 1
           \/ UNCHANGED <<pool, total>>
    BY <1>5 DEF Fill
  <2>2. /\ need' = [need EXCEPT ![k] = need[k] - 1]
        /\ \/ need[k] > 1 /\ Disturb(k, FALSE) /\ pc' = pc
           \/ need[k] = 1 /\ pc' = [pc EXCEPT ![k] = "initialized"] /\ disturbed' = disturbed
    BY <1>5 DEF Fill, FillGoesOn, Goto
  <2>3. pc'[k] # "closing" /\ \A x \in Procs \ {k} : pc'[x] = pc[x]
    BY <1>1, <2>1, <2>2, OwnStage
  <2>4. /\ total' - total = Countable' - Countable
        /\ total' - total <= Countable' - Countable
        /\ Executing' = Executing
    BY <1>1, <2>1, <2>3, FillNumbers
  <2>5. disturbed => disturbed'
    BY <2>2 DEF Disturb
  <2>6. k \in Connects \cap Creating
    BY <1>1, <2>1 DEF Creating
  <2>7. ~disturbed => Creating \ {k} = {} /\ need[k] >= 1 /\ total + need[k] <= MinPoolSize
    BY <2>6 DEF Counts, CreatesAlone
  <2>8. need'[k] = need[k] - 1 /\ \A c \in Connects \ {k} : need'[c] = need[c]
    BY <1>1, <2>2 DEF TypeOK
  <2>9. ~disturbed => total' + need'[k] <= MinPoolSize /\ total' <= MaxPoolSize
    BY <1>2, <2>1, <2>7, <2>8
  <2>10. OvercountIsStuck' /\ ExactUntilDisturbed'
    BY <1>2, <2>1, <2>4, <2>5, <2>9, Balance
  <2>11. CASE need[k] > 1
    <3>1. ~disturbed' => need'[k] >= 1 /\ total' < MaxPoolSize
      BY <1>2, <2>5, <2>8, <2>9, <2>11
    <3>2. CreatesAlone'
      BY <1>1, <2>3, <2>5, <2>7, <2>9, <3>1, CreatesNow
    <3> QED
      BY <2>10, <3>2 DEF Counts
  <2>12. CASE ~(need[k] > 1)
    <3>1. pc' = [pc EXCEPT ![k] = "initialized"]
      BY <2>2, <2>12
    <3>2. pc'[k] = "initialized"
      BY <1>1, <3>1 DEF TypeOK
    <3>3. CreatesAlone'
      BY <1>1, <2>3, <2>5, <2>7, <2>8, <3>2, CreatesLess
    <3> QED
      BY <2>10, <3>3 DEF Counts
  <2> QED
    BY <2>11, <2>12
<1>6. CASE ConnectFails(k)
  BY <1>6, CleanupCounts DEF ConnectFails
<1>7. CASE CleanupEnds(k) \/ Cleaned(k)
  BY <1>7, CleanupCounts
<1> QED
  BY <1>4, <1>5, <1>6, <1>7 DEF Connecting

LEMMA DisconnectingCounts ==
    ASSUME TypeOK, TypeOK', Counts, NEW d \in Disconnects, Disconnecting(d)
    PROVE  Counts'
  BY CleanupCounts DEF Disconnecting, Disconnect

\* The replenishing loop goes on creating, alone and within the limit, or stops.
LEMMA ReplenishCounts ==
    ASSUME TypeOK, TypeOK', Counts, NEW h \in Checks, NEW missing, Replenish(h, missing, total'),
           inUse' = inUse, stuck' = stuck, Executing' = Executing,
           total' - total = Countable' - Countable,
           total' - total <= Countable' - Countable,
           ~disturbed => total' <= MaxPoolSize,
           total' <= total \/ h \in Creating
    PROVE  Counts'
<1>1. h \in Procs /\ h \notin Connects /\ \A c \in Connects : c # h
  BY Members, ProcsAssumption
<1>2. pc'[h] \in {"creating", "done"} /\ \A x \in Procs \ {h} : pc'[x] = pc[x]
  BY ReplenishStage
<1>3. /\ disturbed => disturbed'
      /\ \A c \in Connects \ {h} : need'[c] = need[c]
  BY <1>1 DEF Replenish, Disturb, TypeOK
<1>4. CreatesAlone'
  <2>1. CASE pc'[h] = "creating"
    <3>1. Disturb(h, FALSE) /\ total' < MaxPoolSize
      BY <1>1, <2>1 DEF Replenish, Goto, TypeOK
    <3>2. ~disturbed' => Creating \ {h} = {}
      BY <3>1 DEF Disturb
    <3> QED
      BY <1>1, <1>2, <3>1, <3>2, CreatesNow
  <2>2. CASE pc'[h] # "creating"
    <3>1. ~disturbed /\ h \in Creating => Creating \ {h} = {}
      BY DEF Counts, CreatesAlone
    <3> QED
      BY <1>1, <1>2, <1>3, <2>2, <3>1, CreatesLess
  <2> QED
    BY <2>1, <2>2
<1>5. inUse' - inUse = Cardinality(Executing') - Cardinality(Executing)
  <2>1. inUse \in Int /\ Cardinality(Executing) \in Int
    BY Numbers DEF TypeOK
  <2>2. Cardinality(Executing') = Cardinality(Executing)
    OBVIOUS
  <2> QED
    BY <2>1, <2>2
<1> QED
  BY <1>3, <1>4, <1>5, Balance DEF Counts

LEMMA CheckingCounts ==
    ASSUME TypeOK, TypeOK', SoleUse, Counts, NEW h \in Checks, Checking(h)
    PROVE  Counts'
<1>1. h \in Procs /\ h \in Closers /\ h \notin Connects
  BY Members, ProcsAssumption
<1>2. /\ Len(pool) \in Nat /\ Cardinality(Executing) \in Nat /\ Cardinality(Dropped) \in Nat
      /\ total \in Int /\ inUse \in Int /\ MaxPoolSize \in Int /\ pool \in Seq(Nat)
  BY Numbers, SizeAssumption DEF TypeOK
<1>3. Countable = Len(pool) + Cardinality(Executing) + Cardinality(Dropped)
  BY DEF Countable
<1>4. Countable' = Len(pool') + Cardinality(Executing') + Cardinality(Dropped')
  BY DEF Countable
<1>5. ~disturbed => total <= MaxPoolSize
  BY DEF Counts, ExactUntilDisturbed
<1>6. CASE Tick(h) \/ \E healthy \in BOOLEAN : Examine(h, healthy)
  <2>1. /\ pc[h] \in {"idle", "checking"} /\ UNCHANGED <<pool, total, inUse, stuck, disturbed, need>>
        /\ pc' = pc \/ pc' = [pc EXCEPT ![h] = "checking"] \/ pc' = [pc EXCEPT ![h] = "done"]
    BY <1>6 DEF Tick, Examine, Goto, countVars
  <2>2. pc'[h] \in {"checking", "done"} /\ \A x \in Procs \ {h} : pc'[x] = pc[x]
    <3>1. CASE pc' = pc
      BY <1>1, <1>6, <3>1 DEF Tick, Examine, Goto, TypeOK
    <3>2. CASE pc' # pc
      BY <1>1, <2>1, <3>2, OwnStage
    <3> QED
      BY <3>1, <3>2
  <2>3. \A r \in Closers \ {h} : drop'[r] = drop[r]
    BY <1>6 DEF Tick, Examine, TypeOK
  <2>4. Executing' = Executing /\ Cardinality(Dropped') = Cardinality(Dropped)
    BY <1>1, <2>1, <2>2, <2>3, CloserNumbers
  <2>5. Countable' = Countable
    BY <1>3, <1>4, <2>1, <2>4
  <2>6. CreatesAlone'
    BY <1>1, <1>2, <2>1, <2>2, CreatesLess
  <2> QED
    BY <1>2, <1>5, <2>1, <2>4, <2>5, <2>6, Numbers, Balance DEF Counts
<1>7. CASE \E healthy \in BOOLEAN : ExamineLast(h, healthy)
  <2>1. PICK healthy \in BOOLEAN : ExamineLast(h, healthy)
    BY <1>7
  <2> DEFINE found == Found(h, healthy)
  <2>2. found \in Seq(Nat) /\ Len(found) \in Nat
    BY <1>1, Members DEF Found, TypeOK
  <2>3. /\ pc[h] = "checking" /\ UNCHANGED <<total, inUse, stuck, need>>
        /\ drop' = [drop EXCEPT ![h] = found]
    BY <2>1 DEF ExamineLast
  <2>4. /\ drop'[h] = found
        /\ \A r \in Closers \ {h} : drop'[r] = drop[r]
    BY <1>1, <2>3 DEF TypeOK
  <2>5. CASE found = <<>>
    <3>1. pc' = [pc EXCEPT ![h] = "done"] /\ UNCHANGED <<pool, disturbed>>
      BY <2>1, <2>5 DEF ExamineLast, Goto
    <3>2. pc'[h] = "done" /\ \A x \in Procs \ {h} : pc'[x] = pc[x]
      BY <1>1, <3>1, OwnStage
    <3>3. Executing' = Executing /\ Cardinality(Dropped') = Cardinality(Dropped)
      BY <1>1, <2>3, <2>4, <3>2, CloserNumbers
    <3>4. Countable' = Countable
      BY <1>3, <1>4, <3>1, <3>3
    <3>5. CreatesAlone'
      BY <1>1, <1>2, <2>3, <3>1, <3>2, CreatesLess
    <3> QED
      BY <1>2, <1>5, <2>3, <3>1, <3>3, <3>4, <3>5, Numbers, Balance DEF Counts
  <2>6. CASE found # <<>>
    <3>1. PICK kept \in Without(pool, ToSet(found)) : Replace(kept, h)
      BY <2>1, <2>6 DEF ExamineLast
    <3>2. /\ pool' = kept
          /\ disturbed' = (disturbed \/ Len(pool') + Len(found) # Len(pool))
          /\ pc' = [pc EXCEPT ![h] = "closing"]
      BY <2>1, <2>6, <3>1 DEF ExamineLast, Goto, Replace
    <3> HIDE DEF found
    <3>3. Len(pool') \in Nat /\ Len(pool) <= Len(pool') + Len(found)
      BY <1>2, <2>2, <3>1, <3>2, WithoutNumber, SoleUseMeans
    <3>4. pc'[h] = "closing" /\ \A x \in Procs \ {h} : pc'[x] = pc[x]
      BY <1>1, <3>2, OwnStage
    <3>5. Executing' = Executing /\ Cardinality(Dropped') = Cardinality(Dropped) + Len(found)
      BY <1>1, <2>3, <2>4, <3>4, CloserNumbers
    <3>6. total' - total <= Countable' - Countable
      BY <1>2, <1>3, <1>4, <2>2, <2>3, <3>3, <3>5
    <3>7. disturbed => disturbed'
      BY <3>2
    <3>8. ~disturbed' => Len(pool') + Len(found) = Len(pool)
      BY <3>2
    <3>9. ~disturbed' => total' - total = Countable' - Countable
      BY <1>2, <1>3, <1>4, <2>2, <2>3, <3>3, <3>5, <3>8
    <3>10. CreatesAlone'
      BY <1>1, <1>2, <2>3, <3>4, <3>7, CreatesLess
    <3> QED
      BY <1>2, <1>5, <2>3, <3>5, <3>6, <3>7, <3>9, <3>10, Numbers, Balance DEF Counts
  <2> QED
    BY <2>5, <2>6
<1>8. CASE Removed(h)
  <2> DEFINE missing == IF Len(pool) < MinPoolSize THEN MinPoolSize - Len(pool) ELSE 0
  <2>1. Replenish(h, missing, total')
    BY <1>8 DEF Removed
  <2> HIDE DEF missing
  <2>2. /\ pc[h] = "closing" /\ total' = total - Len(drop[h]) /\ UNCHANGED <<pool, inUse, stuck>>
        /\ \A r \in Closers \ {h} : drop'[r] = drop[r]
    BY <1>8 DEF Removed, TypeOK
  <2>3. pc'[h] # "closing" /\ \A x \in Procs \ {h} : pc'[x] = pc[x]
    BY <2>1, ReplenishStage
  <2>4. Executing' = Executing /\ Cardinality(Dropped') = Cardinality(Dropped) - Len(drop[h])
    BY <1>1, <2>2, <2>3, CloserNumbers
  <2>5. Len(drop[h]) \in Nat
    BY <1>1 DEF TypeOK
  <2>6. total' - total = Countable' - Countable /\ total' <= total
    BY <1>2, <1>3, <1>4, <2>2, <2>4, <2>5
  <2>7. total' - total <= Countable' - Countable
    BY <1>2, <1>3, <1>4, <2>2, <2>4, <2>5
  <2>8. ~disturbed => total' <= MaxPoolSize
    BY <1>2, <1>5, <2>2, <2>5
  <2> QED
    BY <2>1, <2>2, <2>4, <2>6, <2>7, <2>8, ReplenishCounts
<1>9. CASE Replenished(h)
  <2>1. /\ pc[h] = "creating" /\ UNCHANGED <<inUse, stuck, drop>>
        /\ \/ pool' = Append(pool, made + 1) /\ total' = total + 1
           \/ UNCHANGED <<pool, total>>
        /\ Replenish(h, need[h] - 1, total')
    BY <1>9 DEF Replenished
  <2>2. pc'[h] # "closing" /\ \A x \in Procs \ {h} : pc'[x] = pc[x]
    BY <2>1, ReplenishStage
  <2>3. /\ total' - total = Countable' - Countable
        /\ total' - total <= Countable' - Countable
        /\ Executing' = Executing
    BY <1>1, <2>1, <2>2, FillNumbers
  <2>4. h \in Creating
    BY <1>1, <2>1 DEF Creating
  <2>5. ~disturbed => total < MaxPoolSize
    BY <2>4 DEF Counts, CreatesAlone
  <2>6. ~disturbed => total' <= MaxPoolSize
    BY <1>2, <2>1, <2>5
  <2> QED
    BY <2>1, <2>3, <2>4, <2>6, ReplenishCounts
<1> QED
  BY <1>6, <1>7, <1>8, <1>9 DEF Checking

-----------------------------------------------------------------------------
(* The theorems *)

LEMMA InitInv == Init => IndInv
<1> SUFFICES ASSUME Init PROVE IndInv
  OBVIOUS
<1>1. /\ pool = <<>> /\ open = {} /\ made = 0
      /\ \A p \in Procs : pc[p] = "idle"
      /\ \A p \in Closers : drop[p] = <<>>
      /\ \A h \in Checks : array[h] = <<>>
  BY DEF Init
<1>2. Executing = {} /\ Held = {} /\ Idle = {}
  BY <1>1, Members, EmptySet DEF Executing, Held, Idle
<1>3. SoleUse
  BY <1>1, <1>2, SoleUseMeans DEF Distinct
<1>4. Accounted
  BY <1>1 DEF Accounted
<1>5. Known
  BY <1>1, <1>2, EmptySet DEF Known
<1>6. Examining
  BY <1>1, Members DEF Examining
<1>7. Countable = 0 /\ Cardinality(Executing) = 0
  <2>1. Closing = {}
    BY <1>1, Members DEF Closing
  <2>2. Dropped = {}
    BY <2>1 DEF Dropped
  <2> QED
    BY <1>1, <1>2, <2>2, FS_EmptySet DEF Countable
<1>8. total = 0 /\ inUse = 0 /\ stuck = 0 /\ Creating = {}
  BY <1>1 DEF Init, Creating
<1>9. OvercountIsStuck /\ ExactUntilDisturbed
  BY <1>7, <1>8, SizeAssumption DEF OvercountIsStuck, ExactUntilDisturbed
<1>10. CreatesAlone
  BY <1>8 DEF CreatesAlone
<1> QED
  BY <1>3, <1>4, <1>5, <1>6, <1>9, <1>10, InitType DEF IndInv

LEMMA StepInv == IndInv /\ [Next]_vars => IndInv'
<1> SUFFICES ASSUME IndInv, [Next]_vars PROVE IndInv'
  OBVIOUS
<1>1. TypeOK /\ Known /\ Examining /\ Safe /\ SoleUse /\ Counts
  BY DEF IndInv, Safe, Counts
<1>2. TypeOK'
  BY <1>1, NextType
<1>3. Safe' /\ Known' /\ Examining' /\ Counts'
  <2>1. ASSUME NEW q \in Queries, Query(q) PROVE Safe' /\ Known' /\ Examining' /\ Counts'
    BY <1>1, <1>2, <2>1, QuerySafe, QueryKnown, QueryCounts
  <2>2. ASSUME NEW k \in Connects, Connecting(k) PROVE Safe' /\ Known' /\ Examining' /\ Counts'
    BY <1>1, <1>2, <2>2, ConnectingSafe, ConnectingKnown, ConnectingCounts
  <2>3. ASSUME NEW d \in Disconnects, Disconnecting(d)
        PROVE  Safe' /\ Known' /\ Examining' /\ Counts'
    BY <1>1, <1>2, <2>3, DisconnectingSafe, DisconnectingKnown, DisconnectingCounts
  <2>4. ASSUME NEW h \in Checks, Checking(h) PROVE Safe' /\ Known' /\ Examining' /\ Counts'
    BY <1>1, <1>2, <2>4, CheckingSafe, CheckingKnown, CheckingCounts
  <2>5. CASE UNCHANGED vars
    <3>1. UNCHANGED <<pool, made, open, lost, pc, conn, drop, array, need, total, inUse, stuck,
                     disturbed>>
      BY <2>5 DEF vars, loopVars, countVars
    <3>2. Safe' /\ Known' /\ Examining'
      BY <1>1, <3>1 DEF Safe, SoleUse, Accounted, Known, Examining, Executing, Held, Idle, Closing
    <3>3. Executing' = Executing /\ Creating' = Creating /\ Closing' = Closing
      BY <3>1 DEF Executing, Creating, Closing
    <3>4. Countable' = Countable
      BY <3>1, <3>3 DEF Countable, Dropped
    <3>5. Counts'
      BY <1>1, <3>1, <3>3, <3>4
         DEF Counts, OvercountIsStuck, ExactUntilDisturbed, CreatesAlone
    <3> QED
      BY <3>2, <3>5
  <2> QED
    BY <2>1, <2>2, <2>3, <2>4, <2>5 DEF Next
<1> QED
  BY <1>2, <1>3 DEF IndInv, Safe, Counts

THEOREM Inductive == Spec => []IndInv
<1>1. Init => IndInv
  BY InitInv
<1>2. IndInv /\ [Next]_vars => IndInv'
  BY StepInv
<1> QED
  BY <1>1, <1>2, PTL DEF Spec

\* No connection ever serves two queries, or one and the pool.
THEOREM ConnectionsHaveOneUser == Spec => []SoleUse
<1>1. IndInv => SoleUse
  BY DEF IndInv
<1> QED
  BY <1>1, Inductive, PTL

\* Only the timeout of createNewConnection and a close that fails lose track of
\* an open session.
THEOREM NothingIsLostTrackOf == Spec => []Accounted
<1>1. IndInv => Accounted
  BY DEF IndInv
<1> QED
  BY <1>1, Inductive, PTL

\* totalConnectionsCreated counts more than what is idle, in use or being closed
\* by at most one for each close that threw at a full pool since the last reset,
\* however removals, cleanups, failed creations and failed closes interleave.
THEOREM OvercountsAreStuck == Spec => []OvercountIsStuck
<1>1. IndInv => OvercountIsStuck
  BY DEF IndInv
<1> QED
  BY <1>1, Inductive, PTL

\* As long as creations do not overlap and no counter is reset under somebody's
\* feet, the counters are exact and maxPoolSize is kept.
THEOREM CountersAreExact == Spec => []ExactUntilDisturbed
<1>1. IndInv => ExactUntilDisturbed
  BY DEF IndInv
<1> QED
  BY <1>1, Inductive, PTL

-----------------------------------------------------------------------------
(* The pool implements ResourcePool: what each step is there. *)

\* What a query holds.
LEMMA Holds ==
    ASSUME IndInv
    PROVE  \A q \in Queries : /\ pc[q] = "executing" => PoolHeld[q] = conn[q] /\ conn[q] \in 1..made
                              /\ pc[q] # "executing" => PoolHeld[q] = 0
BY DEF PoolHeld, IndInv, Known, Held, Executing

LEMMA HeldStays ==
    ASSUME \A q \in Queries : pc'[q] = "executing" <=> pc[q] = "executing",
           \A q \in Queries : conn'[q] = conn[q]
    PROVE  PoolHeld' = PoolHeld
BY DEF PoolHeld

LEMMA HeldMoves ==
    ASSUME NEW q \in Queries, \A r \in Queries \ {q} : pc'[r] = pc[r] /\ conn'[r] = conn[r]
    PROVE  PoolHeld' = [PoolHeld EXCEPT ![q] = IF pc'[q] = "executing" THEN conn'[q] ELSE 0]
BY DEF PoolHeld

\* The connection that becomes ready next was never made before.
LEMMA MadeNext ==
    ASSUME IndInv
    PROVE  /\ made + 1 \in Nat /\ made + 1 \notin 1..made
           /\ 1..(made + 1) = (1..made) \cup {made + 1}
<1>1. made \in Nat
  BY DEF IndInv, TypeOK
<1> QED BY <1>1

LEMMA Stutters ==
    ASSUME Idle' = Idle, PoolHeld' = PoolHeld, made' = made
    PROVE  [P!PoolNext]_P!poolVars
BY DEF P!poolVars

LEMMA Retires ==
    ASSUME Idle' \subseteq Idle, PoolHeld' = PoolHeld, made' = made
    PROVE  [P!PoolNext]_P!poolVars
BY DEF P!PoolNext, P!Retire

\* A new connection is for all queries, or its creator had given up.
LEMMA MakesForAll ==
    ASSUME IndInv, made' = made + 1, Idle' = Idle \/ Idle' = Idle \cup {made + 1},
           PoolHeld' = PoolHeld
    PROVE  [P!PoolNext]_P!poolVars
<1>1. made + 1 \in Nat /\ made + 1 \notin 1..made /\ 1..made' = (1..made) \cup {made + 1}
  BY MadeNext
<1>2. P!Make(made + 1)
  BY <1>1 DEF P!Make
<1> QED BY <1>1, <1>2 DEF P!PoolNext

LEMMA GivesUp ==
    ASSUME IndInv, GiveUp, Idle' = Idle, PoolHeld' = PoolHeld
    PROVE  [P!PoolNext]_P!poolVars
BY GaveUp, Stutters, MakesForAll DEF GiveUp

LEMMA QueryRefines ==
    ASSUME IndInv, NEW q \in Queries, Query(q)
    PROVE  [P!PoolNext]_P!poolVars
<1>1. TypeOK /\ q \in Procs /\ \A r \in Queries : r \in Procs /\ r \in Queries \cup Checks
  BY Members DEF IndInv
<1>2. CASE Pop(q)
  <2>1. /\ pc' = [pc EXCEPT ![q] = "executing"] /\ pc[q] # "executing"
        /\ pool # <<>> /\ pool' = Front(pool) /\ made' = made
        /\ conn' = [conn EXCEPT ![q] = Last(pool)]
    BY <1>2 DEF Pop, Goto
  <2>2. pc'[q] = "executing" /\ \A r \in Queries \ {q} : pc'[r] = pc[r]
    BY <1>1, <2>1, OwnStage
  <2>3. conn'[q] = Last(pool) /\ \A r \in Queries \ {q} : conn'[r] = conn[r]
    BY <1>1, <2>1 DEF TypeOK
  <2>4. PoolHeld' = [PoolHeld EXCEPT ![q] = Last(pool)] /\ PoolHeld[q] = 0
    BY <2>1, <2>2, <2>3, HeldMoves, Holds
  <2>5. pool \in Seq(Nat) /\ Distinct(pool)
    BY SoleUseMeans DEF IndInv, TypeOK
  <2>6. Last(pool) \in Idle /\ Last(pool) \in Nat /\ Idle' = Idle \ {Last(pool)}
    BY <2>1, <2>5, FrontRemovesLast DEF Idle
  <2>7. P!Take(q, Last(pool))
    BY <2>1, <2>4, <2>6 DEF P!Take
  <2> QED BY <2>6, <2>7 DEF P!PoolNext
<1>3. CASE StartCreating(q) \/ Refuse(q) \/ CreateFails(q)
  <2>1. /\ \E label \in {"creating", "done"} : pc' = [pc EXCEPT ![q] = label]
        /\ pc[q] # "executing" /\ UNCHANGED <<pool, conn>>
        /\ made' = made \/ GiveUp
    BY <1>3 DEF StartCreating, Refuse, CreateFails, Goto
  <2>2. pc'[q] # "executing" /\ \A r \in Queries \ {q} : pc'[r] = pc[r]
    BY <1>1, <2>1, OwnStage
  <2>3. PoolHeld' = PoolHeld
    BY <2>1, <2>2, HeldStays
  <2> QED BY <2>1, <2>3, GivesUp, Stutters DEF Idle
<1>4. CASE Created(q)
  <2>1. /\ pc[q] = "creating" /\ pc' = [pc EXCEPT ![q] = "executing"]
        /\ made' = made + 1 /\ pool' = pool /\ conn' = [conn EXCEPT ![q] = made + 1]
    BY <1>4 DEF Created, Goto
  <2>2. pc'[q] = "executing" /\ \A r \in Queries \ {q} : pc'[r] = pc[r]
    BY <1>1, <2>1, OwnStage
  <2>3. conn'[q] = made + 1 /\ \A r \in Queries \ {q} : conn'[r] = conn[r]
    BY <1>1, <2>1 DEF TypeOK
  <2>4. PoolHeld' = [PoolHeld EXCEPT ![q] = made + 1] /\ PoolHeld[q] = 0
    BY <2>1, <2>2, <2>3, HeldMoves, Holds
  <2>5. made + 1 \in Nat /\ made + 1 \notin 1..made /\ 1..made' = (1..made) \cup {made + 1}
    BY <2>1, MadeNext
  <2>6. P!Make(made + 1)
    BY <2>1, <2>4, <2>5 DEF P!Make, Idle
  <2> QED BY <2>5, <2>6 DEF P!PoolNext
<1>5. CASE Release(q) \/ ReleaseFull(q)
  <2>1. /\ pc[q] = "executing" /\ pc' = [pc EXCEPT ![q] = "done"]
        /\ made' = made /\ conn' = [conn EXCEPT ![q] = 0]
        /\ pool' = pool \/ pool' = Append(pool, conn[q])
    BY <1>5 DEF Release, ReleaseFull, Goto
  <2>2. pc'[q] = "done" /\ \A r \in Queries \ {q} : pc'[r] = pc[r]
    BY <1>1, <2>1, OwnStage
  <2>3. \A r \in Queries \ {q} : conn'[r] = conn[r]
    BY <1>1, <2>1 DEF TypeOK
  <2>4. PoolHeld' = [PoolHeld EXCEPT ![q] = 0]
    BY <2>2, <2>3, HeldMoves
  <2>5. PoolHeld[q] = conn[q] /\ conn[q] \in Nat /\ conn[q] # 0
    BY <1>1, <2>1, Holds DEF TypeOK
  <2>6. Idle' = Idle \/ Idle' = Idle \cup {conn[q]}
    <3>1. pool \in Seq(Nat)
      BY <1>1 DEF TypeOK
    <3>2. ToSet(Append(pool, conn[q])) = ToSet(pool) \cup {conn[q]}
      BY <2>5, <3>1, AppendAdds
    <3> QED BY <2>1, <3>2 DEF Idle
  <2>7. P!GiveBack(q)
    BY <2>1, <2>4, <2>5, <2>6 DEF P!GiveBack
  <2> QED BY <2>7 DEF P!PoolNext
<1> QED BY <1>2, <1>3, <1>4, <1>5 DEF Query

\* What the others do leaves what the queries hold alone.
LEMMA HeldAside ==
    ASSUME NEW p \in Closers, \A x \in Procs \ {p} : pc'[x] = pc[x],
           \A q \in Queries : conn'[q] = conn[q]
    PROVE  PoolHeld' = PoolHeld
BY Members, HeldStays

\* A creation of connect or of the replenishing loop is over.
LEMMA FillRefines ==
    ASSUME IndInv, PoolHeld' = PoolHeld,
           \/ made' = made + 1 /\ pool' = Append(pool, made + 1)
           \/ GiveUp /\ pool' = pool
    PROVE  [P!PoolNext]_P!poolVars
<1>1. CASE made' = made + 1 /\ pool' = Append(pool, made + 1)
  <2>1. pool \in Seq(Nat) /\ made + 1 \in Nat
    BY MadeNext DEF IndInv, TypeOK
  <2>2. Idle' = Idle \cup {made + 1}
    BY <1>1, <2>1, AppendAdds DEF Idle
  <2> QED BY <1>1, <2>2, MakesForAll
<1>2. CASE GiveUp /\ pool' = pool
  BY <1>2, GivesUp DEF Idle
<1> QED BY <1>1, <1>2

LEMMA CleanupRefines ==
    ASSUME IndInv, NEW p \in Closers, Cleanup(p)
    PROVE  [P!PoolNext]_P!poolVars
<1>1. /\ \E label : pc' = [pc EXCEPT ![p] = label]
      /\ UNCHANGED <<made, conn>> /\ pool' = <<>>
  BY DEF Cleanup, Replace, Reset, Goto
<1>2. \A x \in Procs \ {p} : pc'[x] = pc[x]
  BY <1>1, OwnStage, Members DEF IndInv
<1>3. Idle' = {}
  BY <1>1, EmptySet DEF Idle
<1> QED BY <1>1, <1>2, <1>3, HeldAside, Retires

LEMMA CleaningRefines ==
    ASSUME IndInv, NEW p \in Closers, CleanupEnds(p) \/ Cleaned(p)
    PROVE  [P!PoolNext]_P!poolVars
<1>1. /\ \E label : pc' = [pc EXCEPT ![p] = label]
      /\ UNCHANGED <<made, conn, pool>>
  BY DEF CleanupEnds, Cleaned, Reset, Goto
<1>2. \A x \in Procs \ {p} : pc'[x] = pc[x]
  BY <1>1, OwnStage, Members DEF IndInv
<1> QED BY <1>1, <1>2, HeldAside, Stutters DEF Idle

LEMMA ConnectingRefines ==
    ASSUME IndInv, NEW k \in Connects, Connecting(k)
    PROVE  [P!PoolNext]_P!poolVars
<1>1. k \in Closers /\ k \in Procs /\ TypeOK
  BY Members DEF IndInv
<1>2. CASE Connect(k) \/ Connected(k)
  <2>1. /\ \E label : pc' = [pc EXCEPT ![k] = label]
        /\ UNCHANGED <<made, conn, pool>>
    BY <1>2 DEF Connect, Connected, Goto
  <2>2. \A x \in Procs \ {k} : pc'[x] = pc[x]
    BY <1>1, <2>1, OwnStage
  <2> QED BY <1>1, <2>1, <2>2, HeldAside, Stutters DEF Idle
<1>3. CASE Fill(k)
  <2>1. pc' = pc \/ pc' = [pc EXCEPT ![k] = "initialized"]
    BY <1>3 DEF Fill, FillGoesOn, Goto
  <2>2. \A x \in Procs \ {k} : pc'[x] = pc[x]
    BY <1>1, <2>1, OwnStage
  <2>3. /\ conn' = conn
        /\ \/ made' = made + 1 /\ pool' = Append(pool, made + 1)
           \/ GiveUp /\ pool' = pool
    BY <1>3 DEF Fill
  <2> QED BY <1>1, <2>2, <2>3, HeldAside, FillRefines
<1>4. CASE ConnectFails(k)
  BY <1>1, <1>4, CleanupRefines DEF ConnectFails
<1>5. CASE CleanupEnds(k) \/ Cleaned(k)
  BY <1>1, <1>5, CleaningRefines
<1> QED BY <1>2, <1>3, <1>4, <1>5 DEF Connecting

LEMMA CheckingRefines ==
    ASSUME IndInv, NEW h \in Checks, Checking(h)
    PROVE  [P!PoolNext]_P!poolVars
<1>1. h \in Closers /\ h \in Procs /\ h \notin Queries /\ TypeOK
  BY Members DEF IndInv
<1>2. CASE Tick(h)
  <2>1. \E label : pc' = [pc EXCEPT ![h] = label]
    BY <1>2 DEF Tick, Goto
  <2>2. \A x \in Procs \ {h} : pc'[x] = pc[x]
    BY <1>1, <2>1, OwnStage
  <2>3. UNCHANGED <<made, pool>> /\ \A q \in Queries : conn'[q] = conn[q]
    BY <1>1, <1>2 DEF Tick, TypeOK
  <2> QED BY <1>1, <2>2, <2>3, HeldAside, Stutters DEF Idle
<1>3. CASE Removed(h)
  <2>1. UNCHANGED <<made, pool, conn>> /\ \A x \in Procs \ {h} : pc'[x] = pc[x]
    BY <1>1, <1>3, ReplenishStage DEF Removed
  <2> QED BY <1>1, <2>1, HeldAside, Stutters DEF Idle
<1>4. CASE Replenished(h)
  <2>1. /\ conn' = conn /\ \A x \in Procs \ {h} : pc'[x] = pc[x]
        /\ \/ made' = made + 1 /\ pool' = Append(pool, made + 1)
           \/ GiveUp /\ pool' = pool
    BY <1>1, <1>4, ReplenishStage DEF Replenished
  <2> QED BY <1>1, <2>1, HeldAside, FillRefines
<1>5. ASSUME NEW healthy \in BOOLEAN, Examine(h, healthy)
      PROVE  [P!PoolNext]_P!poolVars
  <2>1. UNCHANGED <<made, pool, pc>> /\ \A q \in Queries : conn'[q] = conn[q]
    BY <1>1, <1>5 DEF Examine, TypeOK
  <2> QED BY <1>1, <2>1, HeldAside, Stutters DEF Idle
<1>6. ASSUME NEW healthy \in BOOLEAN, ExamineLast(h, healthy)
      PROVE  [P!PoolNext]_P!poolVars
  <2>1. \E label : pc' = [pc EXCEPT ![h] = label]
    BY <1>6 DEF ExamineLast, Goto
  <2>2. \A x \in Procs \ {h} : pc'[x] = pc[x]
    BY <1>1, <2>1, OwnStage
  <2>3. made' = made /\ \A q \in Queries : conn'[q] = conn[q]
    BY <1>1, <1>6 DEF ExamineLast, TypeOK
  <2>4. pool' = pool \/ pool' \in Without(pool, ToSet(Found(h, healthy)))
    BY <1>6 DEF ExamineLast, Replace
  <2>5. Idle' \subseteq Idle
    BY <1>1, <2>4, WithoutFilters DEF Idle, TypeOK
  <2> QED BY <1>1, <2>2, <2>3, <2>5, HeldAside, Retires
<1> QED BY <1>2, <1>3, <1>4, <1>5, <1>6 DEF Checking

\* The refinement: with what is idle, executing on and ready so far for what is
\* free, held and made there, getConnection and releaseConnection are Take, Make
\* and GiveBack, and the health check, connect and disconnect only fill the
\* pool, retire what is idle, or do nothing that a query could tell.
THEOREM PoolOfConnections == Spec => ImplementsPool
<1>1. Init => P!PoolInit
  <2> SUFFICES ASSUME Init PROVE P!PoolInit
    OBVIOUS
  <2>1. Idle = {} /\ 1..made = {}
    BY EmptySet DEF Init, Idle
  <2>2. PoolHeld = [q \in Queries |-> 0]
    BY Members DEF Init, PoolHeld
  <2> QED BY <2>1, <2>2 DEF P!PoolInit
<1>2. IndInv /\ [Next]_vars => [P!PoolNext]_P!poolVars
  <2> SUFFICES ASSUME IndInv, [Next]_vars PROVE [P!PoolNext]_P!poolVars
    OBVIOUS
  <2>1. CASE UNCHANGED vars
    <3>1. UNCHANGED <<pool, pc, conn, made>>
      BY <2>1 DEF vars
    <3> QED BY <3>1, HeldStays, Stutters DEF Idle
  <2>2. ASSUME NEW d \in Disconnects, Disconnecting(d) PROVE [P!PoolNext]_P!poolVars
    BY <2>2, Members, CleanupRefines, CleaningRefines DEF Disconnecting, Disconnect
  <2> QED BY <2>1, <2>2, QueryRefines, ConnectingRefines, CheckingRefines DEF Next
<1> QED BY <1>1, <1>2, Inductive, PTL DEF Spec, ImplementsPool, P!PoolSpec
=============================================================================
