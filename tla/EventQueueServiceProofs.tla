----------------------- MODULE EventQueueServiceProofs -----------------------
(***************************************************************************)
(* Proofs about EventQueueService, for any finite set of events, any sizes *)
(* and any bounds.  For all behaviours: the map stays within its limit,    *)
(* batches respect the priorities, nothing waits without a timer.  Under   *)
(* hypotheses on what may happen to a service (Calm, Unread, Orderly): no  *)
(* accepted event is lost and no entry of the map forgotten, what clear    *)
(* takes out is never delivered, and no event is delivered twice.          *)
(***************************************************************************)
EXTENDS EventQueueService, FiniteSetTheorems, SequenceTheorems, TLAPS

-----------------------------------------------------------------------------
(* Priorities and the waiting list *)

LEMMA PriorityTyped == \A e \in Events : Priority(e) \in Int
<1> SUFFICES ASSUME NEW e \in Events PROVE Priority(e) \in Int
  OBVIOUS
<1> DEFINE c == Change[e]
           type == CASE c.type = "deleted" -> 4 [] c.type = "modified" -> 2 [] c.type = "created" -> 1
           size == CASE c.size = "small" -> 1 [] c.size = "large" -> -1 [] c.size \in {"medium", "none"} -> 0
           language == IF c.critical THEN 1 ELSE 0
           sum == type + size + language
           low == IF sum <= PriorityLevels - 1 THEN sum ELSE PriorityLevels - 1
<1>1. c.type \in {"created", "modified", "deleted"} /\ c.size \in {"none", "small", "medium", "large"}
  BY EventsAssumption DEF EventsAssumption
<1>2. type \in Int /\ size \in Int /\ language \in Int
  BY <1>1
<1> HIDE DEF type, size, language
<1>3. sum \in Int /\ PriorityLevels - 1 \in Int
  BY <1>2, OptionsAssumption DEF OptionsAssumption
<1> HIDE DEF sum
<1>4. Min({sum, PriorityLevels - 1}) = low
  BY <1>3 DEF Min
<1>5. low \in Int
  BY <1>3
<1> HIDE DEF low
<1>6. Max({0, low}) = IF low <= 0 THEN 0 ELSE low
  BY <1>5 DEF Max
<1>7. Priority(e) = Max({0, Min({sum, PriorityLevels - 1})})
  BY DEF Priority, CalculatePriority, sum, type, size, language
<1> QED BY <1>4, <1>5, <1>6, <1>7

Sorted(w) == \A j, k \in DOMAIN w : j < k => Priority(w[j]) >= Priority(w[k])

OnceIn(w, e) == \A j, k \in DOMAIN w : w[j] = e /\ w[k] = e => j = k

\* Push keeps the levels in order and adds e to the list, once.
LEMMA PushFacts ==
    ASSUME NEW w \in Seq(Events), Sorted(w), NEW e \in Events
    PROVE  /\ Push(w, e) \in Seq(Events) /\ Sorted(Push(w, e))
           /\ ToSet(Push(w, e)) = ToSet(w) \cup {e}
           /\ \A f \in Events : OnceIn(w, f) /\ (f = e => f \notin ToSet(w)) => OnceIn(Push(w, e), f)
<1> DEFINE H == {k \in DOMAIN w : Priority(w[k]) >= Priority(e)}
           n == Cardinality(H)
           L == Len(w)
<1>1. L \in Nat /\ DOMAIN w = 1..L /\ \A k \in 1..L : w[k] \in Events
  BY LenProperties, ElementOfSeq
<1>2. IsFiniteSet(H) /\ n \in Nat
  <2>1. IsFiniteSet(1..L) /\ H \subseteq 1..L
    BY <1>1, FS_Interval
  <2> QED BY <2>1, FS_Subset, FS_CardinalityType
<1>3. \A k \in H : 1..k \subseteq H
  BY <1>1, PriorityTyped DEF Sorted
<1>4. H \subseteq 1..n
  <2> SUFFICES ASSUME NEW k \in H PROVE k \in 1..n
    OBVIOUS
  <2>1. k \in 1..L /\ k \in Nat
    BY <1>1
  <2>2. Cardinality(1..k) = k
    BY <2>1, FS_Interval
  <2>3. k <= n
    BY <1>2, <1>3, <2>2, FS_Subset
  <2> QED BY <2>1, <2>3
<1>5. H = 1..n /\ n <= L
  <2>1. IsFiniteSet(1..n) /\ Cardinality(1..n) = n
    BY <1>2, FS_Interval
  <2>2. H = 1..n
    BY <1>2, <1>4, <2>1, FS_Subset
  <2>3. n > 0 => n \in H
    BY <1>2, <2>2
  <2> QED BY <1>1, <1>2, <2>2, <2>3
<1> HIDE DEF H, n, L
<1>6. /\ \A k \in 1..n : Priority(w[k]) >= Priority(e)
      /\ \A k \in (n + 1)..L : Priority(e) > Priority(w[k])
  <2>1. ASSUME NEW k \in (n + 1)..L PROVE Priority(e) > Priority(w[k])
    <3>1. k \in 1..L /\ k \notin H
      BY <1>1, <1>2, <1>5
    <3> QED BY <1>1, <3>1, PriorityTyped DEF H
  <2>2. ASSUME NEW k \in 1..n PROVE Priority(w[k]) >= Priority(e)
    BY <1>5, <2>2 DEF H
  <2> QED BY <2>1, <2>2
<1>7. n \in Nat
  BY <1>2
<1> DEFINE front == SubSeq(w, 1, n)
           back == SubSeq(w, n + 1, L)
<1>8. /\ front \in Seq(Events) /\ Len(front) = n /\ \A i \in 1..n : front[i] = w[i]
  <2>1. \A i \in 1..n : w[i] \in Events
    BY <1>1, <1>5, <1>7
  <2>2. front \in Seq(Events) /\ Len(front) = (IF 1 <= n THEN n - 1 + 1 ELSE 0)
        /\ \A i \in 1..(n - 1 + 1) : front[i] = w[1 + i - 1]
    BY <1>7, <2>1, SubSeqProperties
  <2> QED BY <1>7, <2>2
<1>9. /\ back \in Seq(Events) /\ Len(back) = L - n /\ \A i \in 1..(L - n) : back[i] = w[n + i]
  <2>1. \A i \in (n + 1)..L : w[i] \in Events
    BY <1>1, <1>5, <1>7
  <2>2. back \in Seq(Events) /\ Len(back) = (IF n + 1 <= L THEN L - (n + 1) + 1 ELSE 0)
        /\ \A i \in 1..(L - (n + 1) + 1) : back[i] = w[n + 1 + i - 1]
    BY <1>1, <1>7, <2>1, SubSeqProperties
  <2>3. (IF n + 1 <= L THEN L - (n + 1) + 1 ELSE 0) = L - n /\ L - (n + 1) + 1 = L - n
    BY <1>1, <1>5, <1>7
  <2>4. \A i \in 1..(L - n) : n + 1 + i - 1 = n + i
    BY <1>1, <1>7
  <2> QED BY <2>2, <2>3, <2>4
<1> HIDE DEF front, back
<1> DEFINE mid == front \o <<e>>
           all == mid \o back
<1>10. /\ mid \in Seq(Events) /\ Len(mid) = n + 1
       /\ \A i \in 1..(n + 1) : mid[i] = IF i <= n THEN w[i] ELSE e
  <2>1. <<e>> \in Seq(Events) /\ Len(<<e>>) = 1 /\ <<e>>[1] = e
    OBVIOUS
  <2>2. /\ mid \in Seq(Events) /\ Len(mid) = n + 1
        /\ \A i \in 1..(n + 1) : mid[i] = IF i <= n THEN front[i] ELSE <<e>>[i - n]
    BY <1>8, <2>1, ConcatProperties
  <2> QED BY <1>7, <1>8, <2>1, <2>2
<1> HIDE DEF mid
<1>11. /\ all \in Seq(Events) /\ Len(all) = L + 1
       /\ \A i \in 1..(L + 1) : all[i] = IF i <= n THEN w[i] ELSE IF i = n + 1 THEN e ELSE w[i - 1]
  <2>1. /\ all \in Seq(Events) /\ Len(all) = (n + 1) + (L - n)
        /\ \A i \in 1..((n + 1) + (L - n)) : all[i] = IF i <= n + 1 THEN mid[i] ELSE back[i - (n + 1)]
    <3>1. /\ all \in Seq(Events) /\ Len(all) = Len(mid) + Len(back)
          /\ \A i \in 1..(Len(mid) + Len(back)) : all[i] = IF i <= Len(mid) THEN mid[i] ELSE back[i - Len(mid)]
      BY <1>9, <1>10, ConcatProperties
    <3>2. Len(mid) = n + 1 /\ Len(back) = L - n
      BY <1>9, <1>10
    <3> HIDE DEF all
    <3> QED BY <3>1, <3>2
  <2>2. (n + 1) + (L - n) = L + 1
    BY <1>1, <1>7
  <2>3. ASSUME NEW i \in 1..(L + 1), i > n + 1 PROVE back[i - (n + 1)] = w[i - 1]
    <3>1. i - (n + 1) \in 1..(L - n)
      BY <1>1, <1>5, <1>7, <2>3
    <3>2. n + (i - (n + 1)) = i - 1
      BY <1>7
    <3> QED BY <1>9, <3>1, <3>2
  <2> HIDE DEF all
  <2>4. ASSUME NEW i \in 1..(L + 1)
        PROVE  all[i] = IF i <= n THEN w[i] ELSE IF i = n + 1 THEN e ELSE w[i - 1]
    <3>1. all[i] = IF i <= n + 1 THEN mid[i] ELSE back[i - (n + 1)]
      BY <2>1, <2>2
    <3>2. i <= n + 1 => i \in 1..(n + 1)
      BY <1>7
    <3> QED BY <1>7, <1>10, <2>3, <3>1, <3>2
  <2> QED BY <2>1, <2>2, <2>4
<1> HIDE DEF all
<1>12. Push(w, e) = all
  <2>1. SubSeq(w, 1, (n + 1) - 1) = front
    <3>1. (n + 1) - 1 = n
      BY <1>7
    <3> QED BY <3>1 DEF front
  <2>2. Push(w, e) = SubSeq(w, 1, (n + 1) - 1) \o <<e>> \o SubSeq(w, n + 1, Len(w))
    BY DEF Push, InsertAt, n, H
  <2> QED BY <2>1, <2>2 DEF all, mid, back, L
<1>13. Sorted(all)
  <2> SUFFICES ASSUME NEW j \in 1..(L + 1), NEW k \in 1..(L + 1), j < k
               PROVE  Priority(all[j]) >= Priority(all[k])
    BY <1>11, LenProperties DEF Sorted
  <2>1. \A i \in 1..L : Priority(w[i]) \in Int
    BY <1>1, PriorityTyped
  <2>2. Priority(e) \in Int
    BY PriorityTyped
  <2>3. CASE k <= n
    <3>1. all[j] = w[j] /\ all[k] = w[k] /\ j \in 1..L /\ k \in 1..L
      BY <1>1, <1>5, <1>7, <1>11, <2>3
    <3> QED BY <1>1, <3>1 DEF Sorted
  <2>4. CASE k = n + 1
    <3>1. all[j] = w[j] /\ all[k] = e /\ j \in 1..n
      BY <1>1, <1>5, <1>7, <1>11, <2>4
    <3> QED BY <1>6, <3>1
  <2>5. CASE k > n + 1
    <3>1. all[k] = w[k - 1] /\ k - 1 \in (n + 1)..L
      BY <1>1, <1>7, <1>11, <2>5
    <3>2. CASE j = n + 1
      <4>1. all[j] = e
        BY <1>7, <1>11, <3>2
      <4>2. Priority(e) > Priority(w[k - 1]) /\ Priority(w[k - 1]) \in Int
        BY <1>1, <1>5, <1>6, <1>7, <2>1, <3>1
      <4> QED BY <2>2, <3>1, <4>1, <4>2
    <3>3. CASE j <= n
      <4>1. all[j] = w[j] /\ j \in 1..L /\ k - 1 \in 1..L /\ j < k - 1
        BY <1>1, <1>5, <1>7, <1>11, <2>5, <3>3
      <4> QED BY <1>1, <3>1, <4>1 DEF Sorted
    <3>4. CASE j > n + 1
      <4>1. all[j] = w[j - 1] /\ j - 1 \in 1..L /\ k - 1 \in 1..L /\ j - 1 < k - 1
        BY <1>1, <1>5, <1>7, <1>11, <2>5, <3>4
      <4> QED BY <1>1, <3>1, <4>1 DEF Sorted
    <3> QED BY <1>7, <3>2, <3>3, <3>4
  <2> QED BY <1>7, <2>3, <2>4, <2>5
<1>14. ToSet(all) = ToSet(w) \cup {e}
  <2>1. DOMAIN all = 1..(L + 1)
    BY <1>11, LenProperties
  <2>2. ASSUME NEW x \in ToSet(all) PROVE x \in ToSet(w) \cup {e}
    <3>1. PICK i \in 1..(L + 1) : x = all[i]
      BY <2>1, <2>2 DEF ToSet
    <3>2. i <= n => i \in 1..L
      BY <1>1, <1>5, <1>7, <3>1
    <3>3. i > n + 1 => i - 1 \in 1..L
      BY <1>1, <1>7, <3>1
    <3>4. i <= n \/ i = n + 1 \/ i > n + 1
      BY <1>7, <3>1
    <3>5. x = w[i] \/ x = e \/ x = w[i - 1]
      BY <1>11, <3>1
    <3>6. CASE i <= n
      BY <1>1, <1>11, <3>1, <3>2, <3>6 DEF ToSet
    <3>7. CASE i = n + 1
      <4>1. ~(i <= n)
        BY <1>7, <3>7
      <4> QED BY <1>11, <3>1, <3>7, <4>1
    <3>8. CASE i > n + 1
      <4>1. ~(i <= n) /\ i # n + 1
        BY <1>7, <3>8
      <4> QED BY <1>1, <1>11, <3>1, <3>3, <3>8, <4>1 DEF ToSet
    <3> QED BY <3>4, <3>6, <3>7, <3>8
  <2>3. e \in ToSet(all)
    <3>1. n + 1 \in 1..(L + 1)
      BY <1>1, <1>5, <1>7
    <3>2. all[n + 1] = e
      BY <1>7, <1>11, <3>1
    <3> QED BY <2>1, <3>1, <3>2 DEF ToSet
  <2>4. ASSUME NEW x \in ToSet(w) PROVE x \in ToSet(all)
    <3>1. PICK i \in 1..L : x = w[i]
      BY <1>1, <2>4 DEF ToSet
    <3>2. CASE i <= n
      <4>1. i \in 1..(L + 1) /\ all[i] = w[i]
        BY <1>1, <1>11, <3>2
      <4> QED BY <2>1, <3>1, <4>1 DEF ToSet
    <3>3. CASE i > n
      <4>1. i + 1 \in 1..(L + 1) /\ all[i + 1] = w[i]
        BY <1>1, <1>7, <1>11, <3>3
      <4> QED BY <2>1, <3>1, <4>1 DEF ToSet
    <3> QED BY <1>7, <3>2, <3>3
  <2> QED BY <2>2, <2>3, <2>4
<1>15. ASSUME NEW f \in Events, OnceIn(w, f), f = e => f \notin ToSet(w) PROVE OnceIn(all, f)
  <2> SUFFICES ASSUME NEW j \in 1..(L + 1), NEW k \in 1..(L + 1), all[j] = f, all[k] = f PROVE j = k
    BY <1>11, LenProperties DEF OnceIn
  <2> DEFINE old(i) == IF i <= n THEN i ELSE i - 1
  <2>1. ASSUME NEW i \in 1..(L + 1), i # n + 1 PROVE old(i) \in 1..L /\ all[i] = w[old(i)]
    <3>1. old(i) \in 1..L
      BY <1>1, <1>5, <1>7, <2>1
    <3> QED BY <1>7, <1>11, <2>1, <3>1
  <2>2. all[n + 1] = e
    <3>1. n + 1 \in 1..(L + 1) /\ ~(n + 1 <= n)
      BY <1>1, <1>5, <1>7
    <3> QED BY <1>11, <3>1
  <2>3. CASE f = e
    <3>1. \A i \in 1..(L + 1) : i # n + 1 => all[i] # e
      BY <1>1, <1>15, <2>1, <2>3 DEF ToSet
    <3> QED BY <2>3, <3>1
  <2>4. CASE f # e
    <3>1. j # n + 1 /\ k # n + 1
      BY <2>2, <2>4
    <3>2. old(j) = old(k)
      <4>1. old(j) \in 1..L /\ old(k) \in 1..L /\ w[old(j)] = f /\ w[old(k)] = f
        BY <2>1, <3>1
      <4> HIDE DEF old
      <4> QED BY <1>1, <1>15, <4>1 DEF OnceIn
    <3> QED BY <1>1, <1>7, <3>1, <3>2
  <2> QED BY <2>3, <2>4
<1> QED BY <1>11, <1>12, <1>13, <1>14, <1>15

-----------------------------------------------------------------------------
(* Batches *)

BatchStates ==
    [at : {"idle", "process", "remove", "drop", "park"}, todo : Seq(Objects), failed : Seq(Objects)]

\* What a batch may look like between two of its awaits.
Shape(b) ==
    /\ b \in BatchStates
    /\ b.at = "idle" <=> b = NoBatch
    /\ b.at \in {"process", "remove", "drop"} => b.todo # <<>>
    /\ b.at = "park" => b.todo = <<>> /\ b.failed # <<>>
    /\ b.at = "drop" => Head(b.todo) \in ToSet(b.failed)
    /\ Len(b.todo) + Len(b.failed) <= BatchSize + 1
    /\ b.at # "drop" => Len(b.todo) + Len(b.failed) <= BatchSize

Shaped(f) == DOMAIN f = Slots /\ (\A s \in Slots : Shape(f[s])) /\ f = [s \in Slots |-> f[s]]

Fresh(b, q) == b.at = "process" /\ b.failed = <<>> /\ \A k \in DOMAIN b.todo : b.todo[k][2] = q[b.todo[k][1]]

\* Of what waited once, at most one object is taken, and then none waits.
TakenOnce(w) ==
    /\ \A s, r \in Slots : batch'[s] # batch[s] /\ batch'[r] # batch[r] => s = r
    /\ \A s \in Slots : batch'[s] # batch[s] =>
          /\ \A i \in DOMAIN batch'[s].todo : batch'[s].todo[i][1] \in ToSet(w)
          /\ \A f \in Events : OnceIn(w, f) =>
                \A i \in DOMAIN batch'[s].todo : batch'[s].todo[i][1] = f =>
                    /\ f \notin ToSet(waiting')
                    /\ \A j \in DOMAIN batch'[s].todo : batch'[s].todo[j][1] = f => i = j
    /\ \A f \in Events : OnceIn(w, f) => OnceIn(waiting', f)

\* The waiting list was w on the map q and has lost a prefix to a new batch, at most.
Moved(q, w) ==
    /\ waiting' \in Seq(Events) /\ Sorted(waiting') /\ ToSet(waiting') \subseteq ToSet(w)
    /\ Shaped(batch')
    /\ \A s \in Slots : batch'[s] = batch[s] \/ (batch[s] = NoBatch /\ Fresh(batch'[s], q))
    /\ \A e \in ToSet(w) \ ToSet(waiting') :
          /\ q[e] = 0 \/ \E s \in Slots : Fresh(batch'[s], q) /\ <<e, q[e]>> \in ToSet(batch'[s].todo)
          /\ \A f \in ToSet(waiting') : Priority(f) <= Priority(e)
    /\ TakenOnce(w)

\* createBatch never takes more than batchSize events.
LEMMA AtMostABatch ==
    ASSUME NEW q \in [Events -> 0..Copies], NEW w \in Seq(Events), NEW n \in 0..Len(w), Shifts(q, w, n)
    PROVE  /\ IsFiniteSet(Live(q, w, n)) /\ Cardinality(Live(q, w, n)) \in Nat
           /\ Cardinality(Live(q, w, n)) <= BatchSize
<1>1. Len(w) \in Nat /\ n \in Nat /\ BatchSize \in Nat \ {0}
  BY LenProperties, OptionsAssumption DEF OptionsAssumption
<1>2. \A m \in Nat : IsFiniteSet(Live(q, w, m)) /\ Cardinality(Live(q, w, m)) \in Nat
  <2> SUFFICES ASSUME NEW m \in Nat PROVE IsFiniteSet(Live(q, w, m)) /\ Cardinality(Live(q, w, m)) \in Nat
    OBVIOUS
  <2>1. IsFiniteSet(1..m) /\ Live(q, w, m) \subseteq 1..m
    BY FS_Interval DEF Live
  <2> QED BY <2>1, FS_Subset, FS_CardinalityType
<1>3. CASE n = 0
  <2>1. Live(q, w, n) = {}
    BY <1>3 DEF Live
  <2> QED BY <1>1, <1>2, <2>1, FS_EmptySet
<1>4. CASE n > 0
  <2>1. n - 1 \in 0..(n - 1) /\ n - 1 \in Nat
    BY <1>1, <1>4
  <2>2. ~(Cardinality(Live(q, w, n - 1)) >= BatchSize)
    BY <2>1 DEF Shifts
  <2>3. Live(q, w, n) \subseteq Live(q, w, n - 1) \cup {n}
    BY <1>1, <1>4 DEF Live
  <2>4. Cardinality(Live(q, w, n - 1) \cup {n}) <= Cardinality(Live(q, w, n - 1)) + 1
        /\ IsFiniteSet(Live(q, w, n - 1) \cup {n})
    <3> DEFINE S == Live(q, w, n - 1)
    <3>1. IsFiniteSet(S) /\ Cardinality(S) \in Nat
      BY <1>2, <2>1
    <3> HIDE DEF S
    <3>2. /\ IsFiniteSet(S \cup {n})
          /\ Cardinality(S \cup {n}) = Cardinality(S) \/ Cardinality(S \cup {n}) = Cardinality(S) + 1
      BY <3>1, FS_AddElement
    <3>3. Cardinality(S \cup {n}) <= Cardinality(S) + 1
      BY <3>1, <3>2
    <3> QED BY <3>2, <3>3 DEF S
  <2>5. Cardinality(Live(q, w, n)) <= Cardinality(Live(q, w, n - 1) \cup {n})
    BY <2>3, <2>4, FS_Subset
  <2>6. Cardinality(Live(q, w, n - 1) \cup {n}) \in Nat
    BY <2>4, FS_CardinalityType
  <2> QED BY <1>1, <1>2, <2>1, <2>2, <2>4, <2>5, <2>6
<1> QED BY <1>1, <1>3, <1>4

LEMMA SizesTyped ==
    /\ BatchSize \in Nat \ {0} /\ MaxQueueSize \in Nat \ {0} /\ MaxRetries \in Nat
    /\ Copies \in Nat \ {0} /\ Batches \in Nat \ {0}
BY OptionsAssumption, BoundsAssumption DEF OptionsAssumption, BoundsAssumption

\* A batch that was taken holds the entries of the map at the positions it took.
LEMMA StartFacts ==
    ASSUME NEW q \in [Events -> 0..Copies], NEW w \in Seq(Events), NEW n \in 0..Len(w),
           Shifts(q, w, n), Shaped(batch), StartBatch(q, w, Live(q, w, n))
    PROVE  /\ Shaped(batch')
           /\ \A s \in Slots : batch'[s] = batch[s] \/ (batch[s] = NoBatch /\ Fresh(batch'[s], q))
           /\ \A k \in Live(q, w, n) :
                 \E s \in Slots : Fresh(batch'[s], q) /\ <<w[k], q[w[k]]>> \in ToSet(batch'[s].todo)
           /\ \A s, r \in Slots : batch'[s] # batch[s] /\ batch'[r] # batch[r] => s = r
           /\ \A s \in Slots : batch'[s] # batch[s] =>
                 /\ \A i \in DOMAIN batch'[s].todo : \E k \in Live(q, w, n) : batch'[s].todo[i][1] = w[k]
                 /\ \A f \in Events : OnceIn(w, f) =>
                       \A i, j \in DOMAIN batch'[s].todo :
                           batch'[s].todo[i][1] = f /\ batch'[s].todo[j][1] = f => i = j
<1> DEFINE L == Live(q, w, n)
           c == Cardinality(L)
<1>0. L \subseteq 1..n /\ \A k \in L : k \in 1..Len(w) /\ w[k] \in Events /\ q[w[k]] \in 1..Copies
  <2>1. \A k \in 1..n : k \in 1..Len(w) /\ w[k] \in Events
    BY LenProperties, ElementOfSeq
  <2>2. \A e \in Events : q[e] # 0 => q[e] \in 1..Copies
    BY SizesTyped
  <2> QED BY <2>1, <2>2 DEF Live
<1>1. c \in Nat /\ c <= BatchSize
  BY AtMostABatch
<1>2. CASE L = {}
  BY <1>2 DEF StartBatch
<1>3. CASE L # {}
  <2> HIDE DEF L
  <2>1. PICK p \in InOrder(L), s \in Slots :
          /\ batch[s] = NoBatch
          /\ batch' = [batch EXCEPT ![s] =
               [at |-> "process", todo |-> [k \in DOMAIN p |-> <<w[p[k]], q[w[p[k]]]>>], failed |-> <<>>]]
    BY <1>3 DEF StartBatch, L
  <2> DEFINE t == [k \in DOMAIN p |-> <<w[p[k]], q[w[p[k]]]>>]
             b == [at |-> "process", todo |-> t, failed |-> <<>>]
  <2>2. /\ p \in [1..c -> L] /\ \A l \in L : \E k \in 1..c : p[k] = l
        /\ \A i, j \in 1..c : p[i] = p[j] => i = j
    BY DEF InOrder, Bijection, Injection, Surjection, IsInjective, c
  <2> HIDE DEF c
  <2>3. DOMAIN t = 1..c /\ \A k \in 1..c : t[k] = <<w[p[k]], q[w[p[k]]]>> /\ t[k] \in Objects
    BY <1>0, <2>2 DEF Objects
  <2>4. t \in Seq(Objects) /\ Len(t) = c
    <3> HIDE DEF t
    <3>1. t \in [1..c -> Objects]
      <4>1. t = [k \in 1..c |-> t[k]]
        BY <2>2 DEF t
      <4> QED BY <2>3, <4>1
    <3> QED BY <1>1, <3>1, SeqDef
  <2>5. t # <<>>
    <3>1. c # 0
      <4>1. IsFiniteSet(L)
        BY AtMostABatch DEF L
      <4> QED BY <1>3, <4>1, FS_EmptySet DEF c
    <3> QED BY <2>4, <3>1
  <2>6. \A l \in L : <<w[l], q[w[l]]>> \in ToSet(t)
    <3> SUFFICES ASSUME NEW l \in L PROVE <<w[l], q[w[l]]>> \in ToSet(t)
      OBVIOUS
    <3>1. PICK k \in 1..c : p[k] = l
      BY <2>2
    <3> HIDE DEF t
    <3> QED BY <2>3, <3>1 DEF ToSet
  <2>7. Fresh(b, q)
    <3>1. \A k \in DOMAIN t : t[k][2] = q[t[k][1]]
      BY <2>3
    <3> HIDE DEF t
    <3> QED BY <3>1 DEF Fresh
  <2> HIDE DEF t
  <2>8. Shape(b)
    <3>1. b \in BatchStates
      BY <2>4 DEF BatchStates
    <3>2. Len(b.todo) + Len(b.failed) <= BatchSize /\ Len(b.todo) + Len(b.failed) <= BatchSize + 1
      BY <1>1, <2>4, SizesTyped
    <3> QED BY <2>5, <3>1, <3>2, SizesTyped DEF Shape, NoBatch
  <2>9. batch' = [batch EXCEPT ![s] = b]
    BY <2>1 DEF t
  <2> HIDE DEF b
  <2>10. \A r \in Slots : batch'[r] = IF r = s THEN b ELSE batch[r]
    BY <2>9 DEF Shaped
  <2>11. Shaped(batch')
    <3>1. DOMAIN batch' = Slots /\ batch' = [r \in Slots |-> batch'[r]]
      BY <2>9 DEF Shaped
    <3> QED BY <2>8, <2>10, <3>1 DEF Shaped
  <2>12. b.todo = t
    BY DEF b
  <2>13. \A i \in DOMAIN t : \E k \in L : t[i][1] = w[k]
    BY <2>2, <2>3
  <2>14. ASSUME NEW f \in Events, OnceIn(w, f), NEW i \in DOMAIN t, NEW j \in DOMAIN t, t[i][1] = f, t[j][1] = f
         PROVE  i = j
    <3>1. i \in 1..c /\ j \in 1..c /\ p[i] \in L /\ p[j] \in L
      BY <2>2, <2>3
    <3>2. t[i] = <<w[p[i]], q[w[p[i]]]>> /\ t[j] = <<w[p[j]], q[w[p[j]]]>>
      BY <2>3, <3>1
    <3> HIDE DEF t
    <3>3. t[i][1] = w[p[i]] /\ t[j][1] = w[p[j]]
      BY <3>2
    <3>4. w[p[i]] = f /\ w[p[j]] = f
      BY <2>14, <3>3
    <3>5. p[i] \in DOMAIN w /\ p[j] \in DOMAIN w
      <4>1. DOMAIN w = 1..Len(w)
        BY LenProperties
      <4> QED BY <1>0, <3>1, <4>1
    <3>6. p[i] = p[j]
      BY <2>14, <3>4, <3>5 DEF OnceIn
    <3> QED BY <2>2, <3>1, <3>6
  <2>15. \A r \in Slots : batch'[r] # batch[r] => r = s /\ batch'[r].todo = t
    BY <2>10, <2>12
  <2>16. \A r \in Slots : batch'[r] = batch[r] \/ (batch[r] = NoBatch /\ Fresh(batch'[r], q))
    BY <2>1, <2>7, <2>10
  <2>17. \A l \in L : Fresh(batch'[s], q) /\ <<w[l], q[w[l]]>> \in ToSet(batch'[s].todo)
    BY <2>6, <2>7, <2>10, <2>12
  <2> HIDE DEF Fresh
  <2>18. \A r \in Slots : batch'[r] # batch[r] =>
            /\ \A i \in DOMAIN batch'[r].todo : \E k \in L : batch'[r].todo[i][1] = w[k]
            /\ \A f \in Events : OnceIn(w, f) =>
                  \A i, j \in DOMAIN batch'[r].todo :
                      batch'[r].todo[i][1] = f /\ batch'[r].todo[j][1] = f => i = j
    BY <2>13, <2>14, <2>15
  <2> QED BY <2>11, <2>15, <2>16, <2>17, <2>18 DEF L
<1> QED BY <1>2, <1>3

LEMMA TakeFacts ==
    ASSUME NEW q \in [Events -> 0..Copies], NEW w \in Seq(Events), Sorted(w), Shaped(batch), TakeBatch(q, w)
    PROVE  Moved(q, w)
<1>1. PICK n \in 0..Len(w) :
        Shifts(q, w, n) /\ waiting' = SubSeq(w, n + 1, Len(w)) /\ StartBatch(q, w, Live(q, w, n))
  BY DEF TakeBatch
<1> DEFINE L == Len(w)
<1>2. L \in Nat /\ n \in Nat /\ n <= L /\ DOMAIN w = 1..L /\ \A i \in 1..L : w[i] \in Events
  BY LenProperties, ElementOfSeq
<1>3. /\ waiting' \in Seq(Events) /\ DOMAIN waiting' = 1..(L - n)
      /\ \A i \in 1..(L - n) : waiting'[i] = w[n + i] /\ n + i \in 1..L
  <2> HIDE DEF L
  <2>1. \A i \in (n + 1)..L : w[i] \in Events
    BY <1>2
  <2>2. /\ SubSeq(w, n + 1, L) \in Seq(Events)
        /\ Len(SubSeq(w, n + 1, L)) = (IF n + 1 <= L THEN L - (n + 1) + 1 ELSE 0)
        /\ \A i \in 1..(L - (n + 1) + 1) : SubSeq(w, n + 1, L)[i] = w[n + 1 + i - 1]
    BY <1>2, <2>1, SubSeqProperties
  <2>3. (IF n + 1 <= L THEN L - (n + 1) + 1 ELSE 0) = L - n /\ L - (n + 1) + 1 = L - n
    BY <1>2
  <2>4. \A i \in 1..(L - n) : n + 1 + i - 1 = n + i /\ n + i \in 1..L
    BY <1>2
  <2>5. waiting' = SubSeq(w, n + 1, L)
    BY <1>1 DEF L
  <2>6. DOMAIN waiting' = 1..(L - n)
    BY <2>2, <2>3, <2>5, LenProperties
  <2> QED BY <2>2, <2>3, <2>4, <2>5, <2>6
<1> HIDE DEF L
<1>4. Sorted(waiting')
  <2> SUFFICES ASSUME NEW j \in 1..(L - n), NEW k \in 1..(L - n), j < k
               PROVE  Priority(waiting'[j]) >= Priority(waiting'[k])
    BY <1>3 DEF Sorted
  <2>1. n + j < n + k
    BY <1>2
  <2> QED BY <1>2, <1>3, <2>1 DEF Sorted
<1>5. ToSet(waiting') \subseteq ToSet(w)
  BY <1>2, <1>3 DEF ToSet
<1>6. \A e \in ToSet(w) \ ToSet(waiting') : \E k \in 1..n : w[k] = e
  <2> SUFFICES ASSUME NEW e \in ToSet(w), e \notin ToSet(waiting') PROVE \E k \in 1..n : w[k] = e
    OBVIOUS
  <2>1. PICK k \in 1..L : w[k] = e
    BY <1>2 DEF ToSet
  <2>2. CASE k > n
    <3>1. k - n \in 1..(L - n) /\ n + (k - n) = k
      BY <1>2, <2>2
    <3>2. waiting'[k - n] = e
      BY <1>3, <2>1, <3>1
    <3> QED BY <1>3, <3>1, <3>2 DEF ToSet
  <2> QED BY <1>2, <2>1, <2>2
<1>7. ASSUME NEW e \in ToSet(w) \ ToSet(waiting')
      PROVE  /\ q[e] = 0 \/ \E s \in Slots : Fresh(batch'[s], q) /\ <<e, q[e]>> \in ToSet(batch'[s].todo)
             /\ \A f \in ToSet(waiting') : Priority(f) <= Priority(e)
  <2>1. PICK k \in 1..n : w[k] = e
    BY <1>6, <1>7
  <2>2. q[e] = 0 \/ k \in Live(q, w, n)
    BY <2>1 DEF Live
  <2>3. ASSUME NEW f \in ToSet(waiting') PROVE Priority(f) <= Priority(e)
    <3>1. PICK i \in 1..(L - n) : waiting'[i] = f
      BY <1>3, <2>3 DEF ToSet
    <3>2. f = w[n + i] /\ n + i \in 1..L /\ k \in 1..L /\ k < n + i
      BY <1>2, <1>3, <3>1
    <3>3. Priority(e) >= Priority(f) /\ Priority(e) \in Int /\ Priority(f) \in Int
      BY <1>2, <2>1, <3>2, PriorityTyped DEF Sorted
    <3> QED BY <3>3
  <2> QED BY <1>1, <2>1, <2>2, <2>3, StartFacts
<1>8. /\ Shaped(batch')
      /\ \A s \in Slots : batch'[s] = batch[s] \/ (batch[s] = NoBatch /\ Fresh(batch'[s], q))
  BY <1>1, StartFacts
<1>9. ASSUME NEW f \in Events, OnceIn(w, f)
      PROVE  OnceIn(waiting', f) /\ \A k \in 1..n : w[k] = f => f \notin ToSet(waiting')
  <2>1. OnceIn(waiting', f)
    <3> SUFFICES ASSUME NEW j \in 1..(L - n), NEW k \in 1..(L - n), waiting'[j] = f, waiting'[k] = f PROVE j = k
      BY <1>3 DEF OnceIn
    <3>1. n + j = n + k
      BY <1>2, <1>3, <1>9 DEF OnceIn
    <3> QED BY <1>2, <3>1
  <2>2. ASSUME NEW k \in 1..n, w[k] = f, f \in ToSet(waiting') PROVE FALSE
    <3>1. PICK i \in 1..(L - n) : waiting'[i] = f
      BY <1>3, <2>2 DEF ToSet
    <3>2. k \in 1..L /\ n + i \in 1..L /\ w[n + i] = f
      BY <1>2, <1>3, <3>1
    <3>3. k = n + i
      BY <1>2, <1>9, <2>2, <3>2 DEF OnceIn
    <3> QED BY <1>2, <3>3
  <2> QED BY <2>1, <2>2
<1>10. ASSUME NEW s \in Slots, batch'[s] # batch[s]
       PROVE  /\ \A i \in DOMAIN batch'[s].todo : \E k \in 1..n : batch'[s].todo[i][1] = w[k] /\ k \in DOMAIN w
              /\ \A f \in Events : OnceIn(w, f) =>
                    \A i, j \in DOMAIN batch'[s].todo :
                        batch'[s].todo[i][1] = f /\ batch'[s].todo[j][1] = f => i = j
  <2>1. \A k \in Live(q, w, n) : k \in 1..n /\ k \in DOMAIN w
    BY <1>2 DEF Live
  <2> QED BY <1>1, <1>10, <2>1, StartFacts
<1>11. TakenOnce(w)
  <2>1. \A s, r \in Slots : batch'[s] # batch[s] /\ batch'[r] # batch[r] => s = r
    BY <1>1, StartFacts
  <2>2. ASSUME NEW s \in Slots, batch'[s] # batch[s], NEW i \in DOMAIN batch'[s].todo
        PROVE  batch'[s].todo[i][1] \in ToSet(w)
    BY <1>10, <2>2 DEF ToSet
  <2>3. ASSUME NEW s \in Slots, batch'[s] # batch[s], NEW f \in Events, OnceIn(w, f),
               NEW i \in DOMAIN batch'[s].todo, batch'[s].todo[i][1] = f
        PROVE  /\ f \notin ToSet(waiting')
               /\ \A j \in DOMAIN batch'[s].todo : batch'[s].todo[j][1] = f => i = j
    BY <1>9, <1>10, <2>3
  <2> QED BY <1>9, <2>1, <2>2, <2>3 DEF TakenOnce
<1> QED BY <1>3, <1>4, <1>5, <1>7, <1>8, <1>11 DEF Moved

LEMMA StillFacts ==
    ASSUME NEW q, NEW w \in Seq(Events), Sorted(w), Shaped(batch), waiting' = w, batch' = batch
    PROVE  Moved(q, w)
BY DEF Moved, TakenOnce

-----------------------------------------------------------------------------
(* Types *)

FlagsTyped == isProcessing \in BOOLEAN /\ processingTimer \in BOOLEAN /\ leaked \in Nat

EngineTyped ==
    /\ queue \in [Events -> 0..Copies]
    /\ waiting \in Seq(Events) /\ Sorted(waiting)
    /\ Shaped(batch)
    /\ FlagsTyped

TimersTyped ==
    /\ retries \in [Objects -> 0..MaxRetries]
    /\ retrying \in [Objects -> Nat] /\ parking \in [Events -> Nat]

FilesTyped ==
    /\ persisting \subseteq Events /\ disk \subseteq Events /\ overflow \subseteq Events
    /\ doubled \subseteq Events /\ exposed \subseteq Events /\ cleared \subseteq Events

CallsTyped ==
    /\ boot.at \in {"down", "mkdir", "load", "ready", "off"} /\ boot.left \subseteq Events
    /\ retryCall.at \in {"idle", "list", "read", "unlink", "park"} /\ retryCall.left \subseteq Events
    /\ retryCall.at \in {"unlink", "park"} => retryCall.file \in Events
    /\ clearCall \in [at : {"idle", "list", "unlink", "listOverflow", "unlinkOverflow"}, left : SUBSET Events]

Typed == EngineTyped /\ TimersTyped /\ FilesTyped /\ CallsTyped

LEMMA TypedMeansTypeOK == Typed => TypeOK
<1> SUFFICES ASSUME Typed PROVE TypeOK
  OBVIOUS
<1>1. ASSUME NEW s \in Slots
      PROVE  /\ batch[s].at \in {"idle", "process", "remove", "drop", "park"}
             /\ batch[s].todo \in Seq(Objects) /\ batch[s].failed \in Seq(Objects)
             /\ Len(batch[s].todo) + Len(batch[s].failed) <= BatchSize + 1
             /\ batch[s].at = "idle" <=> batch[s] = NoBatch
  <2>1. Shape(batch[s])
    BY DEF Typed, EngineTyped, Shaped
  <2>2. batch[s].todo \in Seq(Objects) /\ batch[s].failed \in Seq(Objects)
    BY <2>1 DEF Shape, BatchStates
  <2> QED BY <2>1, <2>2 DEF Shape, BatchStates
<1> QED BY <1>1 DEF Typed, EngineTyped, FlagsTyped, TimersTyped, FilesTyped, CallsTyped, TypeOK, Sorted

\* startProcessing after the map became q and the list w.
LEMMA ProcessingFacts ==
    ASSUME EngineTyped, NEW q \in [Events -> 0..Copies], NEW w \in Seq(Events), Sorted(w), StartProcessing(q, w)
    PROVE  /\ Moved(q, w) /\ FlagsTyped'
           /\ isProcessing' = (isProcessing \/ Size(q) > 0)
<1>1. Shaped(batch) /\ isProcessing \in BOOLEAN /\ processingTimer \in BOOLEAN /\ leaked \in Nat
  BY DEF EngineTyped, FlagsTyped
<1>2. CASE isProcessing /\ waiting' = w /\ UNCHANGED <<isProcessing, processingTimer, leaked, batch>>
  BY <1>1, <1>2, StillFacts DEF FlagsTyped
<1>3. CASE /\ ~isProcessing /\ Size(q) > 0
           /\ isProcessing' = TRUE /\ processingTimer' = TRUE
           /\ leaked' = leaked + (IF processingTimer THEN 1 ELSE 0)
           /\ TakeBatch(q, w)
  <2>1. Moved(q, w)
    BY <1>1, <1>3, TakeFacts
  <2>2. leaked' \in Nat
    BY <1>1, <1>3
  <2>3. FlagsTyped'
    BY <1>3, <2>2 DEF FlagsTyped
  <2> QED BY <1>3, <2>1, <2>3
<1>4. CASE /\ ~isProcessing /\ Size(q) = 0
           /\ processingTimer' = TRUE /\ waiting' = w
           /\ UNCHANGED <<isProcessing, leaked, batch>>
  BY <1>1, <1>4, StillFacts DEF FlagsTyped
<1> QED BY <1>2, <1>3, <1>4 DEF StartProcessing

LEMMA StopFacts == ASSUME FlagsTyped, StopProcessing PROVE FlagsTyped' /\ isProcessing' = FALSE
BY DEF FlagsTyped, StopProcessing

\* enqueueInternal of an object that was queued before, or read from a file.
LEMMA RequeueFacts ==
    ASSUME EngineTyped, NEW o \in Objects, Requeue(o)
    PROVE  \/ /\ Full /\ Park(o[1]) /\ UNCHANGED <<queue, waiting, batch, isProcessing, processingTimer, leaked>>
           \/ /\ ~Full /\ parking' = parking
              /\ queue' = [queue EXCEPT ![o[1]] = o[2]] /\ queue' \in [Events -> 0..Copies]
              /\ Moved(queue', Push(waiting, o[1])) /\ ToSet(Push(waiting, o[1])) = ToSet(waiting) \cup {o[1]}
              /\ FlagsTyped'
              /\ isProcessing' = (isProcessing \/ Size(queue') > 0)
<1>1. o[1] \in Events /\ o[2] \in 0..Copies
  BY SizesTyped DEF Objects
<1>2. CASE Full /\ Park(o[1]) /\ UNCHANGED <<queue, scheduler>>
  BY <1>2 DEF scheduler
<1>3. CASE /\ ~Full /\ queue' = [queue EXCEPT ![o[1]] = o[2]]
           /\ StartProcessing(queue', Push(waiting, o[1])) /\ UNCHANGED parking
  <2>1. queue' \in [Events -> 0..Copies]
    BY <1>1, <1>3 DEF EngineTyped
  <2>2. /\ Push(waiting, o[1]) \in Seq(Events) /\ Sorted(Push(waiting, o[1]))
        /\ ToSet(Push(waiting, o[1])) = ToSet(waiting) \cup {o[1]}
    BY <1>1, PushFacts DEF EngineTyped
  <2>3. /\ Moved(queue', Push(waiting, o[1])) /\ FlagsTyped'
        /\ isProcessing' = (isProcessing \/ Size(queue') > 0)
    BY <1>3, <2>1, <2>2, ProcessingFacts
  <2> QED BY <1>3, <2>1, <2>2, <2>3
<1> QED BY <1>2, <1>3 DEF Requeue

\* The batch of s goes on to b.
BatchGoesOn(s, b) == batch' = [batch EXCEPT ![s] = b] /\ Shape(b)

LEMMA GoesOnFacts ==
    ASSUME Shaped(batch), NEW s \in Slots, NEW b, BatchGoesOn(s, b)
    PROVE  Shaped(batch') /\ \A r \in Slots : batch'[r] = IF r = s THEN b ELSE batch[r]
BY DEF Shaped, BatchGoesOn

\* What NextEvent makes of a batch.
After(b) ==
    IF Tail(b.todo) # <<>> THEN [at |-> "process", todo |-> Tail(b.todo), failed |-> b.failed]
    ELSE IF b.failed # <<>> THEN [at |-> "park", todo |-> <<>>, failed |-> b.failed]
    ELSE NoBatch

LEMMA AfterFacts ==
    ASSUME NEW b, Shape(b), b.at \in {"process", "remove", "drop"}
    PROVE  /\ Shape(After(b)) /\ After(b).at \in {"idle", "process", "park"}
           /\ After(b).failed = b.failed /\ After(b).todo = Tail(b.todo)
           /\ Head(b.todo) \in Objects
           /\ \A k \in DOMAIN b.todo : k # 1 => k - 1 \in DOMAIN After(b).todo /\ After(b).todo[k - 1] = b.todo[k]
<1>1. b.todo \in Seq(Objects) /\ b.todo # <<>> /\ b.failed \in Seq(Objects)
  BY DEF Shape, BatchStates
<1> DEFINE t == Tail(b.todo)
<1>2. /\ Head(b.todo) \in Objects /\ t \in Seq(Objects) /\ Len(t) = Len(b.todo) - 1
      /\ \A i \in 1..Len(t) : t[i] = b.todo[i + 1]
  BY <1>1, HeadTailProperties
<1>3. /\ DOMAIN t = 1..Len(t) /\ DOMAIN b.todo = 1..Len(b.todo) /\ Len(b.todo) \in Nat /\ Len(t) \in Nat
      /\ Len(b.failed) \in Nat /\ BatchSize \in Nat \ {0}
  BY <1>1, <1>2, LenProperties, SizesTyped
<1>4. \A k \in DOMAIN b.todo : k # 1 => k - 1 \in DOMAIN t /\ t[k - 1] = b.todo[k]
  <2> HIDE DEF t
  <2> SUFFICES ASSUME NEW k \in 1..Len(b.todo), k # 1 PROVE k - 1 \in 1..Len(t) /\ t[k - 1] = b.todo[k]
    BY <1>3
  <2>1. k - 1 \in 1..Len(t) /\ (k - 1) + 1 = k
    BY <1>2, <1>3
  <2> QED BY <1>2, <2>1
<1> HIDE DEF t
<1>5. Len(t) + Len(b.failed) <= BatchSize
  <2>1. Len(b.todo) + Len(b.failed) <= BatchSize + 1
    BY DEF Shape
  <2>2. Len(t) = Len(b.todo) - 1 /\ Len(t) \in Nat /\ Len(b.failed) \in Nat /\ Len(b.todo) \in Nat /\ BatchSize \in Nat
    BY <1>2, <1>3
  <2> DEFINE x == Len(t)  y == Len(b.todo)  z == Len(b.failed)
  <2>3. x = y - 1 /\ x \in Nat /\ y \in Nat /\ z \in Nat /\ y + z <= BatchSize + 1
    BY <2>1, <2>2
  <2> HIDE DEF x, y, z
  <2>4. x + z <= BatchSize
    BY <2>2, <2>3
  <2> QED BY <2>4 DEF x, z
<1>6. CASE t # <<>>
  <2>1. After(b) = [at |-> "process", todo |-> t, failed |-> b.failed]
    BY <1>6 DEF After, t
  <2>2. Shape(After(b))
    BY <1>1, <1>2, <1>3, <1>5, <1>6, <2>1 DEF Shape, BatchStates, NoBatch
  <2> QED BY <1>2, <1>4, <2>1, <2>2 DEF t
<1>7. CASE t = <<>> /\ b.failed # <<>>
  <2>1. After(b) = [at |-> "park", todo |-> <<>>, failed |-> b.failed]
    BY <1>7 DEF After, t
  <2>2. <<>> \in Seq(Objects) /\ Len(<<>>) = 0
    BY EmptySeq
  <2>3. Shape(After(b))
    BY <1>1, <1>3, <1>5, <1>7, <2>1, <2>2 DEF Shape, BatchStates, NoBatch
  <2> QED BY <1>2, <1>4, <1>7, <2>1, <2>3 DEF t
<1>8. CASE t = <<>> /\ b.failed = <<>>
  <2>1. After(b) = NoBatch
    BY <1>8 DEF After, t
  <2>2. <<>> \in Seq(Objects) /\ Len(<<>>) = 0
    BY EmptySeq
  <2>3. Shape(After(b))
    BY <1>3, <2>1, <2>2 DEF Shape, BatchStates, NoBatch
  <2> QED BY <1>2, <1>4, <1>8, <2>1, <2>3 DEF t, NoBatch
<1> QED BY <1>6, <1>7, <1>8

\* One event of the batch of s is dealt with.
LEMMA NextEventFacts ==
    ASSUME Shaped(batch), NEW s \in Slots, batch[s].at \in {"process", "remove", "drop"},
           NextEvent(s, batch[s].failed)
    PROVE  BatchGoesOn(s, After(batch[s])) /\ Current(s) \in Objects /\ Current(s) = Head(batch[s].todo)
<1>1. Shape(batch[s])
  BY DEF Shaped
<1>2. batch' = [batch EXCEPT ![s] = After(batch[s])]
  BY DEF NextEvent, After
<1> QED BY <1>1, <1>2, AfterFacts DEF BatchGoesOn, Current

LEMMA MovedEngine ==
    ASSUME NEW q, NEW w, Moved(q, w), queue' \in [Events -> 0..Copies], FlagsTyped'
    PROVE  EngineTyped'
BY DEF Moved, EngineTyped

LEMMA MemoryTyped ==
    ASSUME Typed, UNCHANGED memory PROVE EngineTyped' /\ retries' = retries /\ retrying' = retrying
BY DEF Typed, EngineTyped, FlagsTyped, Shaped, memory, Sorted

\* parking with one write more, or one less.
LEMMA ParkTyped ==
    ASSUME TimersTyped, NEW e \in Events
    PROVE  /\ Park(e) => parking' \in [Events -> Nat]
           /\ parking[e] > 0 => [parking EXCEPT ![e] = @ - 1] \in [Events -> Nat]
BY DEF TimersTyped, Park

\* A file that was read: the object is new, and queued or parked.
LEMMA ReadTyped ==
    ASSUME Typed, NEW e \in Events, NEW n \in 1..Copies, Parsed(e, <<e, n>>), Requeue(<<e, n>>), retrying' = retrying
    PROVE  EngineTyped' /\ TimersTyped' /\ doubled' \subseteq Events
<1>1. <<e, n>> \in Objects /\ <<e, n>>[1] = e
  BY DEF Objects
<1>2. retries' \in [Objects -> 0..MaxRetries]
  BY <1>1, SizesTyped DEF Parsed, Typed, TimersTyped
<1>3. doubled' \subseteq Events
  BY DEF Parsed, Typed, FilesTyped
<1>4. CASE Full /\ Park(e) /\ UNCHANGED <<queue, waiting, batch, isProcessing, processingTimer, leaked>>
  <2>1. EngineTyped'
    BY <1>4 DEF Typed, EngineTyped, FlagsTyped, Shaped, Sorted
  <2> QED BY <1>2, <1>3, <1>4, <2>1, ParkTyped DEF Typed, TimersTyped
<1>5. CASE /\ parking' = parking /\ queue' \in [Events -> 0..Copies]
           /\ Moved(queue', Push(waiting, e)) /\ FlagsTyped'
  <2>1. EngineTyped'
    BY <1>5, MovedEngine
  <2> QED BY <1>2, <1>3, <1>5, <2>1 DEF Typed, TimersTyped
<1> QED BY <1>1, <1>4, <1>5, RequeueFacts DEF Typed

LEMMA TickTyped == ASSUME Typed, Tick PROVE Typed'
<1>1. UNCHANGED <<queue, retries, retrying, files, calls, past>>
  BY DEF Tick
<1>2. EngineTyped'
  <2>1. CASE StopProcessing /\ UNCHANGED <<waiting, batch>>
    BY <1>1, <2>1, StopFacts DEF Typed, EngineTyped, Shaped, Sorted
  <2>2. CASE TakeBatch(queue, waiting) /\ UNCHANGED <<isProcessing, processingTimer, leaked>>
    BY <1>1, <2>2, TakeFacts, MovedEngine DEF Typed, EngineTyped, FlagsTyped
  <2> QED BY <2>1, <2>2 DEF Tick
<1> QED BY <1>1, <1>2 DEF Typed, TimersTyped, FilesTyped, CallsTyped, files, calls, past, outcome

LEMMA EnqueueTyped == ASSUME Typed, NEW e \in Events, Enqueue(e) PROVE Typed'
<1>1. UNCHANGED <<retries, isProcessing, processingTimer, leaked, batch, retrying,
                  disk, overflow, calls, accepted, delivered, outcome>>
  BY DEF Enqueue
<1>2. CASE Full /\ Park(e) /\ UNCHANGED <<queue, waiting, persisting>>
  BY <1>1, <1>2, ParkTyped DEF Typed, EngineTyped, FlagsTyped, Shaped, Sorted, TimersTyped, FilesTyped, CallsTyped, calls, outcome
<1>3. CASE /\ queue' = [queue EXCEPT ![e] = 1] /\ waiting' = Push(waiting, e)
           /\ persisting' = persisting \cup {e} /\ UNCHANGED parking
  <2>1. queue' \in [Events -> 0..Copies]
    BY <1>3, SizesTyped DEF Typed, EngineTyped
  <2>2. waiting' \in Seq(Events) /\ Sorted(waiting')
    BY <1>3, PushFacts DEF Typed, EngineTyped
  <2>3. EngineTyped'
    BY <1>1, <2>1, <2>2 DEF Typed, EngineTyped, FlagsTyped, Shaped
  <2> QED BY <1>1, <1>3, <2>3 DEF Typed, TimersTyped, FilesTyped, CallsTyped, calls, outcome
<1> QED BY <1>2, <1>3 DEF Enqueue

LEMMA SettledTyped == ASSUME Typed, NEW e \in Events, Persisted(e) \/ Parked(e) PROVE Typed'
<1>1. CASE Persisted(e)
  <2>1. /\ UNCHANGED <<queue, retries, retrying, parking, overflow, calls, exposed, cleared>>
        /\ persisting' = persisting \ {e} /\ disk' \in {disk, disk \cup {e}} /\ doubled' \in {doubled, doubled \cup {e}}
        /\ StartProcessing(queue, waiting)
    BY <1>1 DEF Persisted
  <2>2. EngineTyped'
    BY <2>1, ProcessingFacts, MovedEngine DEF Typed, EngineTyped
  <2> QED BY <2>1, <2>2 DEF Typed, TimersTyped, FilesTyped, CallsTyped, calls
<1>2. CASE Parked(e)
  <2>1. /\ UNCHANGED <<memory, persisting, disk, calls, exposed, cleared>>
        /\ parking' = [parking EXCEPT ![e] = @ - 1] /\ parking[e] > 0
        /\ overflow' \in {overflow, overflow \cup {e}} /\ doubled' \in {doubled, doubled \cup {e}}
    BY <1>2 DEF Parked
  <2> QED BY <2>1, MemoryTyped, ParkTyped DEF Typed, TimersTyped, FilesTyped, CallsTyped, calls
<1> QED BY <1>1, <1>2

\* A batch that goes on leaves the rest of the engine alone.
LEMMA GoesOnTyped ==
    ASSUME EngineTyped, NEW s \in Slots, NEW b, BatchGoesOn(s, b), queue' \in [Events -> 0..Copies],
           UNCHANGED <<waiting, isProcessing, processingTimer, leaked>>
    PROVE  EngineTyped'
BY GoesOnFacts DEF EngineTyped, FlagsTyped, Sorted

LEMMA HeadFacts ==
    ASSUME Shaped(batch), NEW s \in Slots, batch[s].at \in {"process", "remove", "drop"}
    PROVE  /\ Shape(batch[s]) /\ Current(s) = Head(batch[s].todo) /\ Current(s) \in Objects
           /\ Current(s)[1] \in Events /\ Current(s)[2] \in 1..Copies
<1>1. Shape(batch[s])
  BY DEF Shaped
<1> QED BY <1>1, AfterFacts DEF Current, Objects

\* processEvent succeeded: the file is next.
LEMMA DeliverFacts ==
    ASSUME Shaped(batch), NEW s \in Slots, Deliver(s)
    PROVE  BatchGoesOn(s, [batch[s] EXCEPT !.at = "remove"])
<1>1. Shape(batch[s]) /\ batch[s].at = "process"
  BY HeadFacts DEF Deliver
<1>2. Shape([batch[s] EXCEPT !.at = "remove"])
  BY <1>1 DEF Shape, BatchStates, NoBatch
<1>3. batch' = [batch EXCEPT ![s] = [batch[s] EXCEPT !.at = "remove"]]
  BY DEF Deliver
<1> QED BY <1>2, <1>3 DEF BatchGoesOn

\* The listener threw once too often: the event joins the failed.
Failing(s) == [at |-> "drop", todo |-> batch[s].todo, failed |-> Append(batch[s].failed, Current(s))]

LEMMA GiveUpFacts ==
    ASSUME Shaped(batch), NEW s \in Slots, GiveUp(s)
    PROVE  BatchGoesOn(s, Failing(s)) /\ ToSet(Failing(s).failed) = ToSet(batch[s].failed) \cup {Current(s)}
<1> DEFINE b == batch[s]
           f == Append(b.failed, Current(s))
<1>1. Shape(b) /\ b.at = "process" /\ Current(s) = Head(b.todo) /\ Current(s) \in Objects
  BY HeadFacts DEF GiveUp
<1>2. b.todo \in Seq(Objects) /\ b.failed \in Seq(Objects)
  BY <1>1 DEF Shape, BatchStates
<1>3. /\ f \in Seq(Objects) /\ Len(f) = Len(b.failed) + 1 /\ f[Len(b.failed) + 1] = Current(s)
      /\ \A i \in 1..Len(b.failed) : f[i] = b.failed[i]
  BY <1>1, <1>2, AppendProperties
<1>4. /\ Len(b.failed) \in Nat /\ Len(b.todo) \in Nat
      /\ DOMAIN b.failed = 1..Len(b.failed) /\ DOMAIN f = 1..(Len(b.failed) + 1)
  BY <1>2, <1>3, LenProperties
<1>5. ToSet(f) = ToSet(b.failed) \cup {Current(s)}
  <2> HIDE DEF f
  <2>1. ASSUME NEW x \in ToSet(f) PROVE x \in ToSet(b.failed) \cup {Current(s)}
    <3>1. PICK i \in 1..(Len(b.failed) + 1) : x = f[i]
      BY <1>4, <2>1 DEF ToSet
    <3>2. CASE i = Len(b.failed) + 1
      BY <1>3, <3>1, <3>2
    <3>3. CASE i # Len(b.failed) + 1
      <4>1. i \in 1..Len(b.failed)
        BY <1>4, <3>3
      <4> QED BY <1>3, <1>4, <3>1, <4>1 DEF ToSet
    <3> QED BY <3>2, <3>3
  <2>2. Len(b.failed) + 1 \in DOMAIN f
    BY <1>4
  <2>3. Current(s) \in ToSet(f)
    BY <1>3, <2>2 DEF ToSet
  <2>4. ToSet(b.failed) \subseteq ToSet(f)
    <3>1. \A i \in 1..Len(b.failed) : i \in DOMAIN f
      BY <1>4
    <3> QED BY <1>3, <1>4, <3>1 DEF ToSet
  <2> QED BY <2>1, <2>3, <2>4
<1>6. Len(b.todo) + Len(f) <= BatchSize + 1
  <2>1. Len(b.todo) + Len(b.failed) <= BatchSize
    BY <1>1 DEF Shape
  <2>2. Len(f) = Len(b.failed) + 1
    BY <1>3
  <2> DEFINE x == Len(b.todo)  y == Len(b.failed)  z == Len(f)
  <2>3. x + y <= BatchSize /\ z = y + 1 /\ x \in Nat /\ y \in Nat /\ BatchSize \in Nat
    BY <1>4, <2>1, <2>2, SizesTyped
  <2> HIDE DEF x, y, z
  <2>4. x + z <= BatchSize + 1
    BY <2>3
  <2> QED BY <2>4 DEF x, z
<1> HIDE DEF f
<1>7. b.at # "idle" /\ b.todo # <<>>
  BY <1>1 DEF Shape
<1>8. Failing(s) = [at |-> "drop", todo |-> b.todo, failed |-> f]
  BY DEF Failing, f
<1>9. Shape(Failing(s))
  <2> DEFINE d == [at |-> "drop", todo |-> b.todo, failed |-> f]
  <2>1. d.at = "drop" /\ d.todo = b.todo /\ d.failed = f
    OBVIOUS
  <2>2. d \in BatchStates
    BY <1>2, <1>3 DEF BatchStates
  <2>3. d # NoBatch
    BY <2>1 DEF NoBatch
  <2>4. Head(d.todo) \in ToSet(d.failed)
    BY <1>1, <1>5, <2>1
  <2> HIDE DEF d
  <2>5. Shape(d)
    BY <1>6, <1>7, <2>1, <2>2, <2>3, <2>4 DEF Shape
  <2> QED BY <1>8, <2>5 DEF d
<1>10. batch' = [batch EXCEPT ![s] = Failing(s)]
  BY DEF GiveUp, Failing
<1> QED BY <1>5, <1>8, <1>9, <1>10 DEF BatchGoesOn

\* One failed event is parked, or an error ends the loop.
LEMMA BatchParkedFacts ==
    ASSUME Shaped(batch), NEW s \in Slots, BatchParked(s)
    PROVE  /\ batch[s].at = "park" /\ Head(batch[s].failed) \in Objects /\ Head(batch[s].failed)[1] \in Events
           /\ \E b : /\ BatchGoesOn(s, b) /\ b.todo = <<>> /\ b.at \in {"idle", "park"}
                     /\ \/ DiskMayFail
                        \/ /\ overflow' = overflow \cup {Head(batch[s].failed)[1]}
                           /\ ToSet(batch[s].failed) \subseteq ToSet(b.failed) \cup {Head(batch[s].failed)}
<1> DEFINE b == batch[s]
           rest == Tail(b.failed)
<1>1. Shape(b) /\ b.at = "park" /\ b.todo = <<>> /\ b.failed # <<>>
  BY DEF BatchParked, Shaped, Shape
<1>2. b.failed \in Seq(Objects)
  BY <1>1 DEF Shape, BatchStates
<1>3. /\ Head(b.failed) \in Objects /\ rest \in Seq(Objects) /\ Len(rest) = Len(b.failed) - 1
      /\ \A i \in 1..Len(rest) : rest[i] = b.failed[i + 1]
  BY <1>1, <1>2, HeadTailProperties
<1>4. /\ Len(rest) \in Nat /\ Len(b.failed) \in Nat
      /\ DOMAIN rest = 1..Len(rest) /\ DOMAIN b.failed = 1..Len(b.failed) /\ Head(b.failed) = b.failed[1]
  BY <1>1, <1>2, <1>3, LenProperties
<1>5. <<>> \in Seq(Objects) /\ Len(<<>>) = 0
  BY EmptySeq
<1> HIDE DEF rest
<1>6. ToSet(b.failed) \subseteq ToSet(rest) \cup {Head(b.failed)}
  <2> SUFFICES ASSUME NEW k \in 1..Len(b.failed), k # 1 PROVE b.failed[k] \in ToSet(rest)
    BY <1>4 DEF ToSet
  <2>1. k - 1 \in 1..Len(rest) /\ (k - 1) + 1 = k
    BY <1>3, <1>4
  <2> QED BY <1>3, <1>4, <2>1 DEF ToSet
<1>7. Shape(NoBatch) /\ NoBatch.todo = <<>> /\ NoBatch.failed = <<>> /\ NoBatch.at = "idle"
  BY <1>5, SizesTyped DEF Shape, BatchStates, NoBatch
<1>8. ASSUME rest # <<>> PROVE Shape([b EXCEPT !.failed = rest])
  <2>1. [b EXCEPT !.failed = rest] = [at |-> "park", todo |-> <<>>, failed |-> rest]
    BY <1>1 DEF Shape, BatchStates
  <2>2. Len(rest) <= BatchSize /\ 0 + Len(rest) <= BatchSize /\ 0 + Len(rest) <= BatchSize + 1
    <3>1. 0 + Len(b.failed) <= BatchSize
      BY <1>1, <1>5 DEF Shape
    <3> QED BY <1>3, <1>4, <3>1, SizesTyped
  <2> QED BY <1>3, <1>5, <1>8, <2>1, <2>2 DEF Shape, BatchStates, NoBatch
<1>9. CASE /\ overflow' = overflow \cup {Head(b.failed)[1]}
           /\ batch' = [batch EXCEPT ![s] = IF rest = <<>> THEN NoBatch ELSE [b EXCEPT !.failed = rest]]
  <2>1. CASE rest = <<>>
    <3>1. BatchGoesOn(s, NoBatch) /\ ToSet(b.failed) \subseteq ToSet(NoBatch.failed) \cup {Head(b.failed)}
      BY <1>6, <1>7, <1>9, <2>1 DEF BatchGoesOn
    <3> QED BY <1>1, <1>3, <1>7, <1>9, <3>1 DEF Objects
  <2>2. CASE rest # <<>>
    <3> DEFINE r == [b EXCEPT !.failed = rest]
    <3>1. r = [at |-> "park", todo |-> <<>>, failed |-> rest]
      BY <1>1 DEF Shape, BatchStates
    <3>2. BatchGoesOn(s, r)
      BY <1>8, <1>9, <2>2 DEF BatchGoesOn
    <3>3. r.todo = <<>> /\ r.at = "park" /\ r.failed = rest
      BY <3>1
    <3> HIDE DEF r
    <3> QED BY <1>1, <1>3, <1>6, <1>9, <3>2, <3>3 DEF Objects
  <2> QED BY <2>1, <2>2
<1>10. CASE DiskMayFail /\ batch' = [batch EXCEPT ![s] = NoBatch]
  <2>1. BatchGoesOn(s, NoBatch)
    BY <1>7, <1>10 DEF BatchGoesOn
  <2> QED BY <1>1, <1>3, <1>7, <1>10, <2>1 DEF Objects
<1> QED BY <1>9, <1>10 DEF BatchParked, rest

\* The steps of a batch.
BatchAct(s) == Deliver(s) \/ RetryLater(s) \/ GiveUp(s) \/ Removed(s) \/ BatchParked(s)

LEMMA BatchTyped == ASSUME Typed, NEW s \in Slots, BatchAct(s) PROVE Typed'
<1>1. Shaped(batch) /\ EngineTyped
  BY DEF Typed, EngineTyped
<1>2. CASE Deliver(s)
  <2>1. Current(s)[1] \in Events
    BY <1>1, <1>2, HeadFacts DEF Deliver
  <2>2. queue' = [queue EXCEPT ![Current(s)[1]] = 0]
    BY <1>2 DEF Deliver
  <2>3. queue' \in [Events -> 0..Copies]
    BY <2>1, <2>2, SizesTyped DEF Typed, EngineTyped
  <2>4. /\ UNCHANGED <<waiting, retries, isProcessing, processingTimer, leaked, retrying, files, calls, outcome>>
        /\ BatchGoesOn(s, [batch[s] EXCEPT !.at = "remove"])
    BY <1>1, <1>2, DeliverFacts DEF Deliver
  <2>5. EngineTyped'
    BY <1>1, <2>3, <2>4, GoesOnTyped
  <2> QED BY <2>4, <2>5 DEF Typed, TimersTyped, FilesTyped, CallsTyped, files, calls, outcome
<1>3. CASE RetryLater(s)
  <2>1. /\ batch[s].at = "process" /\ retries[Current(s)] < MaxRetries
        /\ retries' = [retries EXCEPT ![Current(s)] = @ + 1]
        /\ retrying' = [retrying EXCEPT ![Current(s)] = @ + 1]
        /\ NextEvent(s, batch[s].failed)
        /\ UNCHANGED <<queue, waiting, isProcessing, processingTimer, leaked, files, calls, past>>
    BY <1>3 DEF RetryLater
  <2>2. BatchGoesOn(s, After(batch[s])) /\ Current(s) \in Objects
    BY <1>1, <2>1, NextEventFacts
  <2>3. EngineTyped'
    BY <1>1, <2>1, <2>2, GoesOnTyped DEF EngineTyped
  <2>4. retries' \in [Objects -> 0..MaxRetries] /\ retrying' \in [Objects -> Nat]
    <3>1. retries[Current(s)] + 1 \in 0..MaxRetries /\ retrying[Current(s)] + 1 \in Nat
      BY <2>1, <2>2, SizesTyped DEF Typed, TimersTyped
    <3> QED BY <2>1, <3>1 DEF Typed, TimersTyped
  <2> QED BY <2>1, <2>3, <2>4 DEF Typed, TimersTyped, FilesTyped, CallsTyped, files, calls, past, outcome
<1>4. CASE GiveUp(s)
  <2>1. Current(s)[1] \in Events
    BY <1>1, <1>4, HeadFacts DEF GiveUp
  <2>2. queue' = [queue EXCEPT ![Current(s)[1]] = 0]
    BY <1>4 DEF GiveUp
  <2>3. queue' \in [Events -> 0..Copies]
    BY <2>1, <2>2, SizesTyped DEF Typed, EngineTyped
  <2>4. /\ UNCHANGED <<waiting, retries, isProcessing, processingTimer, leaked, retrying, files, calls, past>>
        /\ BatchGoesOn(s, Failing(s))
    BY <1>1, <1>4, GiveUpFacts DEF GiveUp
  <2>5. EngineTyped'
    BY <1>1, <2>3, <2>4, GoesOnTyped
  <2> QED BY <2>4, <2>5 DEF Typed, TimersTyped, FilesTyped, CallsTyped, files, calls, past, outcome
<1>5. CASE Removed(s)
  <2>1. /\ batch[s].at \in {"remove", "drop"} /\ NextEvent(s, batch[s].failed)
        /\ disk' \in {disk, disk \ {Current(s)[1]}} /\ doubled' \in {doubled, doubled \cup {Current(s)[1]}}
        /\ UNCHANGED <<queue, waiting, retries, isProcessing, processingTimer, leaked, retrying,
                       persisting, parking, overflow, calls, exposed, cleared>>
    BY <1>5 DEF Removed
  <2>2. BatchGoesOn(s, After(batch[s])) /\ Current(s)[1] \in Events
    BY <1>1, <2>1, NextEventFacts, HeadFacts
  <2>3. EngineTyped'
    BY <1>1, <2>1, <2>2, GoesOnTyped DEF EngineTyped
  <2> QED BY <2>1, <2>2, <2>3 DEF Typed, TimersTyped, FilesTyped, CallsTyped, calls
<1>6. CASE BatchParked(s)
  <2>1. PICK b : BatchGoesOn(s, b)
    BY <1>1, <1>6, BatchParkedFacts
  <2>2. LET e == Head(batch[s].failed)[1] IN
        e \in Events /\ overflow' \in {overflow, overflow \cup {e}} /\ doubled' \in {doubled, doubled \cup {e}}
    BY <1>1, <1>6, BatchParkedFacts DEF BatchParked
  <2>3. UNCHANGED <<queue, waiting, retries, isProcessing, processingTimer, leaked, retrying,
                    persisting, parking, disk, calls, exposed, cleared>>
    BY <1>6 DEF BatchParked
  <2>4. EngineTyped'
    BY <1>1, <2>1, <2>3, GoesOnTyped DEF EngineTyped
  <2> QED BY <2>2, <2>3, <2>4 DEF Typed, TimersTyped, FilesTyped, CallsTyped, calls
<1> QED BY <1>2, <1>3, <1>4, <1>5, <1>6 DEF BatchAct

LEMMA RetryTyped == ASSUME Typed, NEW o \in Objects, RetryFires(o) PROVE Typed'
<1>1. /\ retrying[o] > 0 /\ retrying' = [retrying EXCEPT ![o] = @ - 1] /\ Requeue(o)
      /\ UNCHANGED <<retries, persisting, disk, overflow, calls, past>>
  BY DEF RetryFires
<1>2. o[1] \in Events
  BY DEF Objects
<1>3. retrying' \in [Objects -> Nat]
  BY <1>1 DEF Typed, TimersTyped
<1>4. CASE Full /\ Park(o[1]) /\ UNCHANGED <<queue, waiting, batch, isProcessing, processingTimer, leaked>>
  <2>1. EngineTyped'
    BY <1>4 DEF Typed, EngineTyped, FlagsTyped, Shaped, Sorted
  <2>2. TimersTyped'
    BY <1>1, <1>2, <1>3, <1>4, ParkTyped DEF Typed, TimersTyped
  <2> QED BY <1>1, <2>1, <2>2 DEF Typed, FilesTyped, CallsTyped, calls, past, outcome
<1>5. CASE /\ parking' = parking /\ queue' \in [Events -> 0..Copies]
           /\ Moved(queue', Push(waiting, o[1])) /\ FlagsTyped'
  <2>1. EngineTyped'
    BY <1>5, MovedEngine
  <2>2. TimersTyped'
    BY <1>1, <1>3, <1>5 DEF Typed, TimersTyped
  <2> QED BY <1>1, <2>1, <2>2 DEF Typed, FilesTyped, CallsTyped, calls, past, outcome
<1> QED BY <1>1, <1>4, <1>5, RequeueFacts DEF Typed

\* The steps that read files back.
LEMMA LoadTyped == ASSUME Typed, NEW e \in Events, Load(e) PROVE Typed'
<1>1. /\ e \in boot.left /\ BootGoesOn(e)
      /\ UNCHANGED <<retryCall, clearCall, budget, shut, arrived, accepted, delivered, exposed, cleared>>
  BY DEF Load
<1>2. CallsTyped'
  BY <1>1 DEF BootGoesOn, Typed, CallsTyped
<1>3. CASE UNCHANGED <<memory, files, doubled>>
  BY <1>1, <1>2, <1>3, MemoryTyped DEF Typed, TimersTyped, FilesTyped, files
<1>4. ASSUME NEW n \in 1..Copies, Parsed(e, <<e, n>>), Requeue(<<e, n>>), UNCHANGED <<retrying, persisting, disk, overflow>>
      PROVE  Typed'
  BY <1>1, <1>2, <1>4, ReadTyped DEF Typed, FilesTyped
<1> QED BY <1>3, <1>4 DEF Load

LEMMA RetryReadTyped == ASSUME Typed, NEW e \in Events, RetryRead(e) PROVE Typed'
<1>1. UNCHANGED <<boot, clearCall, budget, shut, arrived, accepted, delivered, exposed, cleared>>
  BY DEF RetryRead
<1>2. RetryGoesOn(e) \/ RetryWaits("unlink", e) \/ RetryWaits("park", e) => CallsTyped'
  BY <1>1 DEF RetryGoesOn, RetryWaits, NoCall, Typed, CallsTyped
<1>3. CASE RetryGoesOn(e) /\ UNCHANGED <<memory, files, doubled>>
  BY <1>1, <1>2, <1>3, MemoryTyped DEF Typed, TimersTyped, FilesTyped, files
<1>4. CASE RetryWaits("park", e) /\ UNCHANGED <<memory, files, doubled>>
  BY <1>1, <1>2, <1>4, MemoryTyped DEF Typed, TimersTyped, FilesTyped, files
<1>5. ASSUME NEW n \in 1..Copies, RetryWaits("unlink", e), Parsed(e, <<e, n>>), Requeue(<<e, n>>),
             UNCHANGED <<retrying, persisting, disk, overflow>>
      PROVE  Typed'
  BY <1>1, <1>2, <1>5, ReadTyped DEF Typed, FilesTyped
<1> QED BY <1>3, <1>4, <1>5 DEF RetryRead

\* The steps that only list, write or remove files, or begin a call.
CallAct ==
    \/ ListFiles \/ ClearList \/ Restart \/ RetryFailedEvents \/ RetryList \/ RetryParked \/ RetryUnlinked
    \/ \E e \in Events : ClearUnlink(e)

LEMMA CallActFacts ==
    ASSUME Typed, CallAct
    PROVE  /\ UNCHANGED <<memory, persisting, parking, shut, past>>
           /\ overflow' \subseteq Events /\ disk' \subseteq disk /\ CallsTyped'
<1>1. CASE ListFiles
  BY <1>1 DEF ListFiles, files, Typed, CallsTyped, FilesTyped
<1>2. CASE ClearList
  BY <1>2 DEF ClearList, files, NoCall, Typed, CallsTyped, FilesTyped
<1>3. CASE Restart
  BY <1>3 DEF Restart, files, Typed, CallsTyped, FilesTyped
<1>4. CASE RetryFailedEvents \/ RetryList
  BY <1>4 DEF RetryFailedEvents, RetryList, files, NoCall, Typed, CallsTyped, FilesTyped
<1>5. CASE RetryParked \/ RetryUnlinked
  BY <1>5 DEF RetryParked, RetryUnlinked, RetryGoesOn, NoCall, Typed, CallsTyped, FilesTyped
<1>6. ASSUME NEW e \in Events, ClearUnlink(e)
      PROVE  /\ UNCHANGED <<memory, persisting, parking, shut, past>>
             /\ overflow' \subseteq Events /\ disk' \subseteq disk /\ CallsTyped'
  <2>1. UNCHANGED <<memory, persisting, parking, boot, retryCall, shut, past>>
    BY <1>6 DEF ClearUnlink
  <2>2. overflow' \subseteq Events /\ disk' \subseteq disk
    BY <1>6 DEF ClearUnlink, Typed, FilesTyped
  <2>3. clearCall' \in [at : {"idle", "list", "unlink", "listOverflow", "unlinkOverflow"}, left : SUBSET Events]
    BY <1>6 DEF ClearUnlink, NoCall, Typed, CallsTyped
  <2> QED BY <2>1, <2>2, <2>3 DEF Typed, CallsTyped
<1> QED BY <1>1, <1>2, <1>3, <1>4, <1>5, <1>6 DEF CallAct

LEMMA CallTyped == ASSUME Typed, CallAct PROVE Typed'
<1>1. /\ UNCHANGED <<memory, persisting, parking, past>>
      /\ overflow' \subseteq Events /\ disk' \subseteq disk /\ CallsTyped'
  BY CallActFacts
<1> QED BY <1>1, MemoryTyped DEF Typed, TimersTyped, FilesTyped, past, outcome

LEMMA NoBatchShape == Shape(NoBatch) /\ NoBatch.todo = <<>> /\ NoBatch.failed = <<>> /\ NoBatch.at = "idle"
<1>1. <<>> \in Seq(Objects) /\ Len(<<>>) = 0
  BY EmptySeq
<1> QED BY <1>1, SizesTyped DEF Shape, BatchStates, NoBatch

JustStarted ==
    Blank(queue, waiting, retries, isProcessing, processingTimer, leaked, batch, retrying,
          persisting, parking, retryCall, clearCall, shut)

AtStart ==
    /\ EngineTyped /\ TimersTyped /\ persisting = {} /\ retryCall = NoCall /\ clearCall = NoCall
    /\ queue = [e \in Events |-> 0] /\ waiting = <<>> /\ batch = [s \in Slots |-> NoBatch]

LEMMA BlankTyped == JustStarted => AtStart
<1> SUFFICES ASSUME JustStarted PROVE AtStart
  OBVIOUS
<1>1. /\ queue = [e \in Events |-> 0] /\ waiting = <<>> /\ retries = [o \in Objects |-> 0]
      /\ isProcessing = FALSE /\ processingTimer = FALSE /\ leaked = 0
      /\ batch = [s \in Slots |-> NoBatch] /\ retrying = [o \in Objects |-> 0]
      /\ persisting = {} /\ parking = [e \in Events |-> 0] /\ retryCall = NoCall /\ clearCall = NoCall
  BY DEF JustStarted, Blank
<1>2. queue \in [Events -> 0..Copies] /\ waiting \in Seq(Events) /\ Sorted(waiting)
  BY <1>1, SizesTyped, EmptySeq DEF Sorted
<1>3. Shaped(batch)
  BY <1>1, NoBatchShape DEF Shaped
<1>4. FlagsTyped
  <2>1. isProcessing \in BOOLEAN /\ processingTimer \in BOOLEAN
    BY <1>1
  <2> QED BY <1>1, <2>1 DEF FlagsTyped
<1>5. TimersTyped
  BY <1>1, SizesTyped DEF TimersTyped
<1> QED BY <1>1, <1>2, <1>3, <1>4, <1>5 DEF AtStart, EngineTyped

LEMMA CrashFacts == Crash => AtStart'
<1>1. Crash => JustStarted'
  BY DEF Crash, JustStarted, Blank
<1> QED BY <1>1, BlankTyped, PTL

LEMMA EndsTyped == ASSUME Typed, Clear \/ Shutdown \/ Crash PROVE Typed'
<1>1. CASE Clear
  <2>1. /\ queue' = [e \in Events |-> 0] /\ waiting' = <<>> /\ StopProcessing
        /\ clearCall' \in {[at |-> "list", left |-> {}], NoCall} /\ JustCleared
        /\ UNCHANGED <<retries, batch, retrying, files, boot, retryCall, shut, doubled, exposed>>
    BY <1>1 DEF Clear
  <2>2. FlagsTyped'
    BY <2>1, StopFacts DEF Typed, EngineTyped
  <2>3. EngineTyped'
    BY <2>1, <2>2, SizesTyped, EmptySeq DEF Typed, EngineTyped, Shaped, Sorted
  <2>4. cleared' \subseteq Events
    BY <2>1 DEF JustCleared, Typed, FilesTyped
  <2> QED BY <2>1, <2>3, <2>4 DEF Typed, TimersTyped, FilesTyped, CallsTyped, NoCall, files
<1>2. CASE Shutdown
  <2>1. /\ StopProcessing
        /\ UNCHANGED <<queue, waiting, retries, batch, retrying, files, boot, retryCall, clearCall, past>>
    BY <1>2 DEF Shutdown
  <2>2. FlagsTyped'
    BY <2>1, StopFacts DEF Typed, EngineTyped
  <2>3. EngineTyped'
    BY <2>1, <2>2 DEF Typed, EngineTyped, Shaped, Sorted
  <2> QED BY <2>1, <2>3 DEF Typed, TimersTyped, FilesTyped, CallsTyped, files, past, outcome
<1>3. CASE Crash
  <2>1. AtStart'
    BY <1>3, CrashFacts
  <2>2. /\ boot' = [at |-> "down", left |-> {}]
        /\ doubled' \subseteq Events /\ exposed' \subseteq Events /\ UNCHANGED <<disk, overflow, cleared>>
    BY <1>3 DEF Crash, Typed, FilesTyped
  <2> QED BY <2>1, <2>2 DEF AtStart, Typed, FilesTyped, CallsTyped, NoCall
<1> QED BY <1>1, <1>2, <1>3

LEMMA TypesStep == ASSUME Typed, [Next]_vars PROVE Typed'
<1>1. CASE UNCHANGED vars
  <2>1. UNCHANGED <<memory, files, calls, outcome>>
    BY <1>1 DEF vars, past
  <2> QED BY <2>1, MemoryTyped DEF Typed, TimersTyped, FilesTyped, CallsTyped, files, calls, outcome
<1>2. CASE Tick
  BY <1>2, TickTyped
<1>3. CASE Clear \/ Shutdown \/ Crash
  BY <1>3, EndsTyped
<1>4. CASE CallAct
  BY <1>4, CallTyped
<1>5. ASSUME NEW e \in Events, Enqueue(e) \/ Persisted(e) \/ Parked(e) \/ Load(e) \/ RetryRead(e) PROVE Typed'
  BY <1>5, EnqueueTyped, SettledTyped, LoadTyped, RetryReadTyped
<1>6. ASSUME NEW s \in Slots, BatchAct(s) PROVE Typed'
  BY <1>6, BatchTyped
<1>7. ASSUME NEW o \in Objects, RetryFires(o) PROVE Typed'
  BY <1>7, RetryTyped
<1> QED BY <1>1, <1>2, <1>3, <1>4, <1>5, <1>6, <1>7 DEF Next, CallAct, BatchAct

-----------------------------------------------------------------------------
(* The size of the map, and its timer *)

LEMMA SizeFacts ==
    ASSUME NEW q \in [Events -> 0..Copies]
    PROVE  /\ Size(q) \in Nat
           /\ \A e \in Events : q[e] # 0 => Size(q) > 0
           /\ \A e \in Events : Size([q EXCEPT ![e] = 0]) <= Size(q)
           /\ \A e \in Events : \A x \in 0..Copies : Size([q EXCEPT ![e] = x]) <= Size(q) + 1
<1> DEFINE In(r) == {e \in Events : r[e] # 0}
<1>1. IsFiniteSet(Events)
  BY EventsAssumption DEF EventsAssumption
<1>2. \A r : IsFiniteSet(In(r)) /\ Size(r) = Cardinality(In(r)) /\ Size(r) \in Nat
  <2> SUFFICES ASSUME NEW r PROVE IsFiniteSet(In(r)) /\ Size(r) = Cardinality(In(r)) /\ Size(r) \in Nat
    OBVIOUS
  <2>1. IsFiniteSet(In(r))
    BY <1>1, FS_Subset
  <2> QED BY <2>1, FS_CardinalityType DEF Size
<1>3. ASSUME NEW e \in Events, q[e] # 0 PROVE Size(q) > 0
  <2>1. In(q) # {}
    BY <1>3
  <2>2. Cardinality(In(q)) # 0
    BY <1>2, <2>1, FS_EmptySet
  <2> QED BY <1>2, <2>2
<1>4. ASSUME NEW e \in Events PROVE Size([q EXCEPT ![e] = 0]) <= Size(q)
  <2>1. In([q EXCEPT ![e] = 0]) \subseteq In(q)
    OBVIOUS
  <2> QED BY <1>2, <2>1, FS_Subset
<1>5. ASSUME NEW e \in Events, NEW x \in 0..Copies PROVE Size([q EXCEPT ![e] = x]) <= Size(q) + 1
  <2>1. In([q EXCEPT ![e] = x]) \subseteq In(q) \cup {e}
    OBVIOUS
  <2> DEFINE S == In(q)
             T == In([q EXCEPT ![e] = x])
  <2>2. IsFiniteSet(S) /\ Cardinality(S) = Size(q) /\ Cardinality(T) = Size([q EXCEPT ![e] = x])
        /\ Cardinality(S) \in Nat /\ Cardinality(T) \in Nat
    BY <1>2
  <2>3. T \subseteq S \cup {e}
    BY <2>1
  <2> HIDE DEF S, T, In
  <2>4. /\ IsFiniteSet(S \cup {e})
        /\ Cardinality(S \cup {e}) = Cardinality(S) \/ Cardinality(S \cup {e}) = Cardinality(S) + 1
    BY <2>2, FS_AddElement
  <2>5. Cardinality(T) <= Cardinality(S \cup {e})
    BY <2>3, <2>4, FS_Subset
  <2> QED BY <2>2, <2>4, <2>5
<1> QED BY <1>2, <1>3, <1>4, <1>5

\* What a step may do to the map.
LEMMA QueueSteps ==
    ASSUME Typed, [Next]_vars
    PROVE  \/ queue' = queue
           \/ \E e \in Events : queue' = [queue EXCEPT ![e] = 0]
           \/ ~Full /\ \E e \in Events, x \in 0..Copies : queue' = [queue EXCEPT ![e] = x]
           \/ queue' = [e \in Events |-> 0]
<1>1. Shaped(batch) /\ EngineTyped
  BY DEF Typed, EngineTyped
<1>2. CASE UNCHANGED vars \/ Tick \/ Shutdown
  BY <1>2 DEF vars, memory, Tick, Shutdown
<1>3. CASE Clear
  BY <1>3 DEF Clear
<1>4. CASE Crash
  BY <1>4, CrashFacts DEF AtStart
<1>5. CASE CallAct
  BY <1>5, CallActFacts DEF memory
<1>6. ASSUME NEW e \in Events, Enqueue(e) \/ Persisted(e) \/ Parked(e)
      PROVE  queue' = queue \/ (~Full /\ \E x \in 0..Copies : queue' = [queue EXCEPT ![e] = x])
  BY <1>6, SizesTyped DEF Enqueue, Persisted, Parked, memory
<1>7. ASSUME NEW o \in Objects, Requeue(o)
      PROVE  queue' = queue \/ (~Full /\ \E e \in Events, x \in 0..Copies : queue' = [queue EXCEPT ![e] = x])
  <2>1. o[1] \in Events /\ o[2] \in 0..Copies
    BY SizesTyped DEF Objects
  <2> QED BY <1>1, <1>7, <2>1, RequeueFacts
<1>8. ASSUME NEW e \in Events, Load(e) \/ RetryRead(e)
      PROVE  queue' = queue \/ (~Full /\ \E f \in Events, x \in 0..Copies : queue' = [queue EXCEPT ![f] = x])
  <2>1. \A n \in 1..Copies : <<e, n>> \in Objects
    BY DEF Objects
  <2> QED BY <1>7, <1>8, <2>1 DEF Load, RetryRead, memory
<1>9. ASSUME NEW o \in Objects, RetryFires(o)
      PROVE  queue' = queue \/ (~Full /\ \E e \in Events, x \in 0..Copies : queue' = [queue EXCEPT ![e] = x])
  BY <1>7, <1>9 DEF RetryFires
<1>10. ASSUME NEW s \in Slots, BatchAct(s)
       PROVE  queue' = queue \/ \E e \in Events : queue' = [queue EXCEPT ![e] = 0]
  <2>1. CASE Deliver(s)
    BY <1>1, <2>1, HeadFacts DEF Deliver
  <2>2. CASE GiveUp(s)
    BY <1>1, <2>2, HeadFacts DEF GiveUp
  <2>3. CASE RetryLater(s) \/ Removed(s) \/ BatchParked(s)
    BY <2>3 DEF RetryLater, Removed, BatchParked
  <2> QED BY <1>10, <2>1, <2>2, <2>3 DEF BatchAct
<1> QED BY <1>2, <1>3, <1>4, <1>5, <1>6, <1>8, <1>9, <1>10 DEF Next, CallAct, BatchAct

LEMMA BoundedStep == ASSUME Typed, Bounded, [Next]_vars PROVE Bounded'
<1>1. queue \in [Events -> 0..Copies] /\ MaxQueueSize \in Nat \ {0}
  BY SizesTyped DEF Typed, EngineTyped
<1>2. Size(queue) \in Nat /\ Size(queue) <= MaxQueueSize
  BY <1>1, SizeFacts DEF Bounded
<1>3. CASE queue' = queue
  BY <1>2, <1>3 DEF Size, Bounded
<1>4. ASSUME NEW e \in Events, queue' = [queue EXCEPT ![e] = 0] PROVE Bounded'
  <2>1. Size(queue') \in Nat /\ Size(queue') <= Size(queue)
    <3>1. queue' \in [Events -> 0..Copies]
      BY <1>1, <1>4, SizesTyped
    <3> QED BY <1>1, <1>4, <3>1, SizeFacts
  <2> QED BY <1>1, <1>2, <2>1 DEF Bounded, Size
<1>5. ASSUME ~Full, NEW e \in Events, NEW x \in 0..Copies, queue' = [queue EXCEPT ![e] = x] PROVE Bounded'
  <2>1. Size(queue') \in Nat /\ Size(queue') <= Size(queue) + 1
    <3>1. queue' \in [Events -> 0..Copies]
      BY <1>1, <1>5
    <3> QED BY <1>1, <1>5, <3>1, SizeFacts
  <2>2. Size(queue) < MaxQueueSize
    BY <1>1, <1>2, <1>5 DEF Full
  <2>3. Size(queue') <= MaxQueueSize
    BY <1>1, <1>2, <2>1, <2>2
  <2> QED BY <2>3 DEF Bounded, Size
<1>6. CASE queue' = [e \in Events |-> 0]
  <2>1. {e \in Events : queue'[e] # 0} = {}
    BY <1>6
  <2> QED BY <1>1, <2>1, FS_EmptySet DEF Bounded, Size
<1> QED BY <1>3, <1>4, <1>5, <1>6, QueueSteps

\* Processing goes on, or nothing in the map waits for it.
LEMMA AwakeFacts ==
    ASSUME Typed', NEW q, NEW w, Moved(q, w), isProcessing' = (isProcessing \/ Size(queue') > 0)
    PROVE  NeverIdle'
<1> SUFFICES ASSUME NEW e \in ToSet(waiting'), queue'[e] # 0 PROVE isProcessing'
  BY DEF NeverIdle
<1>1. e \in Events
  BY LenProperties, ElementOfSeq DEF Typed, EngineTyped, ToSet
<1>2. Size(queue') > 0
  BY <1>1, SizeFacts DEF Typed, EngineTyped
<1> QED BY <1>2

\* A step after which no more is waiting, and as much is going on.
LEMMA StillAwake ==
    ASSUME NeverIdle, waiting' = waiting, isProcessing' = isProcessing, persisting' = persisting, shut' = shut,
           \A e \in ToSet(waiting) : queue'[e] # 0 => queue[e] # 0
    PROVE  NeverIdle'
BY DEF NeverIdle, ToSet

LEMMA NeverIdleStep == ASSUME Typed, Typed', NeverIdle, [Next]_vars PROVE NeverIdle'
<1>1. Shaped(batch) /\ EngineTyped /\ FlagsTyped /\ queue \in [Events -> 0..Copies]
      /\ \A e \in ToSet(waiting) : e \in Events
  BY LenProperties, ElementOfSeq DEF Typed, EngineTyped, ToSet
<1>2. CASE UNCHANGED vars
  BY <1>2, StillAwake DEF vars, memory, files, calls
<1>3. CASE Tick
  <2>1. CASE Size(queue) = 0 /\ UNCHANGED <<queue, waiting>>
    BY <1>1, <2>1, SizeFacts DEF NeverIdle, ToSet
  <2>2. CASE isProcessing /\ UNCHANGED isProcessing
    BY <2>2 DEF NeverIdle
  <2> QED BY <1>3, <2>1, <2>2 DEF Tick
<1>4. CASE Clear
  BY <1>4 DEF Clear, NeverIdle, ToSet
<1>5. CASE Shutdown
  BY <1>5 DEF Shutdown, NeverIdle
<1>6. CASE Crash
  BY <1>6, CrashFacts DEF AtStart, NeverIdle, ToSet
<1>7. CASE CallAct
  BY <1>7, CallActFacts, StillAwake DEF memory
<1>8. ASSUME NEW e \in Events, Enqueue(e) PROVE NeverIdle'
  <2>1. CASE UNCHANGED <<queue, waiting, persisting>>
    BY <1>8, <2>1, StillAwake DEF Enqueue, calls
  <2>2. CASE waiting' = Push(waiting, e) /\ persisting' = persisting \cup {e}
    <3>1. e \in ToSet(waiting') \cap persisting'
      BY <2>2, PushFacts DEF Typed, EngineTyped
    <3> QED BY <3>1 DEF NeverIdle
  <2> QED BY <1>8, <2>1, <2>2 DEF Enqueue
<1>9. ASSUME NEW e \in Events, Persisted(e) PROVE NeverIdle'
  <2>1. StartProcessing(queue, waiting) /\ queue' = queue
    BY <1>9 DEF Persisted
  <2>2. Moved(queue, waiting) /\ isProcessing' = (isProcessing \/ Size(queue') > 0)
    BY <1>1, <2>1, ProcessingFacts DEF EngineTyped
  <2> QED BY <2>2, AwakeFacts
<1>10. ASSUME NEW e \in Events, Parked(e) PROVE NeverIdle'
  BY <1>10, StillAwake DEF Parked, memory, calls
<1>11. ASSUME NEW o \in Objects, Requeue(o), UNCHANGED <<shut, persisting>> PROVE NeverIdle'
  <2>1. CASE UNCHANGED <<queue, waiting, isProcessing>>
    BY <1>11, <2>1, StillAwake
  <2>2. CASE /\ Moved(queue', Push(waiting, o[1]))
             /\ isProcessing' = (isProcessing \/ Size(queue') > 0)
    BY <2>2, AwakeFacts
  <2> QED BY <1>1, <1>11, <2>1, <2>2, RequeueFacts
<1>12. ASSUME NEW e \in Events, Load(e) \/ RetryRead(e) PROVE NeverIdle'
  <2>1. \A n \in 1..Copies : <<e, n>> \in Objects
    BY DEF Objects
  <2>2. shut' = shut /\ persisting' = persisting
    BY <1>12 DEF Load, RetryRead, files
  <2>3. CASE UNCHANGED memory
    BY <2>2, <2>3, StillAwake DEF memory
  <2>4. CASE \E n \in 1..Copies : Requeue(<<e, n>>)
    BY <1>11, <2>1, <2>2, <2>4
  <2> QED BY <1>12, <2>3, <2>4 DEF Load, RetryRead
<1>13. ASSUME NEW o \in Objects, RetryFires(o) PROVE NeverIdle'
  BY <1>11, <1>13 DEF RetryFires, calls
<1>14. ASSUME NEW s \in Slots, BatchAct(s) PROVE NeverIdle'
  <2>1. UNCHANGED <<waiting, isProcessing, persisting, shut>>
    BY <1>14 DEF BatchAct, Deliver, RetryLater, GiveUp, Removed, BatchParked, files, calls
  <2>2. queue' = queue \/ \E e : queue' = [queue EXCEPT ![e] = 0]
    BY <1>14 DEF BatchAct, Deliver, RetryLater, GiveUp, Removed, BatchParked
  <2>3. \A e \in Events : queue'[e] # 0 => queue[e] # 0
    BY <1>1, <2>2
  <2> QED BY <1>1, <2>1, <2>3, StillAwake
<1> QED BY <1>2, <1>3, <1>4, <1>5, <1>6, <1>7, <1>8, <1>9, <1>10, <1>12, <1>13, <1>14 DEF Next, CallAct, BatchAct

-----------------------------------------------------------------------------
(* Priorities *)

HigherFirst ==
    boot'.at # "down" =>
        \A e \in ToSet(waiting) \ ToSet(waiting'), f \in ToSet(waiting') :
            queue[e] # 0 /\ queue'[e] # 0 => Priority(f) <= Priority(e)

LEMMA PriorityStep == ASSUME Typed, [Next]_vars PROVE HigherFirst
<1>1. Shaped(batch) /\ EngineTyped
  BY DEF Typed, EngineTyped
<1>2. ASSUME waiting' = waiting PROVE HigherFirst
  BY <1>2 DEF HigherFirst
<1>3. ASSUME NEW q, NEW w, Moved(q, w), ToSet(waiting) \subseteq ToSet(w) PROVE HigherFirst
  BY <1>3 DEF HigherFirst, Moved
<1>4. CASE UNCHANGED vars \/ Shutdown \/ CallAct
  BY <1>2, <1>4, CallActFacts DEF vars, memory, Shutdown
<1>5. CASE Tick
  <2>1. CASE UNCHANGED waiting
    BY <1>2, <2>1
  <2>2. CASE TakeBatch(queue, waiting)
    BY <1>1, <1>3, <2>2, TakeFacts DEF EngineTyped
  <2> QED BY <1>5, <2>1, <2>2 DEF Tick
<1>6. CASE Clear
  BY <1>6 DEF Clear, HigherFirst, ToSet
<1>7. CASE Crash
  BY <1>7 DEF Crash, HigherFirst
<1>8. ASSUME NEW e \in Events, Enqueue(e) PROVE HigherFirst
  <2>1. ToSet(waiting) \subseteq ToSet(waiting')
    BY <1>8, PushFacts DEF Enqueue, Typed, EngineTyped
  <2> QED BY <2>1 DEF HigherFirst
<1>9. ASSUME NEW e \in Events, Persisted(e) PROVE HigherFirst
  BY <1>1, <1>3, <1>9, ProcessingFacts DEF Persisted, EngineTyped
<1>10. ASSUME NEW e \in Events, Parked(e) PROVE HigherFirst
  BY <1>2, <1>10 DEF Parked, memory
<1>11. ASSUME NEW o \in Objects, Requeue(o) PROVE HigherFirst
  <2>1. CASE UNCHANGED waiting
    BY <1>2, <2>1
  <2>2. CASE Moved(queue', Push(waiting, o[1])) /\ ToSet(Push(waiting, o[1])) = ToSet(waiting) \cup {o[1]}
    BY <2>2 DEF HigherFirst, Moved
  <2> QED BY <1>1, <1>11, <2>1, <2>2, RequeueFacts
<1>12. ASSUME NEW e \in Events, Load(e) \/ RetryRead(e) PROVE HigherFirst
  <2>1. \A n \in 1..Copies : <<e, n>> \in Objects
    BY DEF Objects
  <2> QED BY <1>2, <1>11, <1>12, <2>1 DEF Load, RetryRead, memory
<1>13. ASSUME NEW o \in Objects, RetryFires(o) PROVE HigherFirst
  BY <1>11, <1>13 DEF RetryFires
<1>14. ASSUME NEW s \in Slots, BatchAct(s) PROVE HigherFirst
  BY <1>2, <1>14 DEF BatchAct, Deliver, RetryLater, GiveUp, Removed, BatchParked
<1> QED BY <1>4, <1>5, <1>6, <1>7, <1>8, <1>9, <1>10, <1>12, <1>13, <1>14 DEF Next, CallAct, BatchAct

-----------------------------------------------------------------------------
(* The invariant *)

MainInv == Typed /\ Bounded /\ NeverIdle

LEMMA InitFacts == Init => AtStart /\ MainInv
<1> SUFFICES ASSUME Init PROVE AtStart /\ MainInv
  OBVIOUS
<1>1. AtStart
  BY BlankTyped DEF Init, JustStarted
<1>2. /\ disk = {} /\ overflow = {} /\ boot = [at |-> "mkdir", left |-> {}]
      /\ doubled = {} /\ exposed = {} /\ cleared = {}
  BY DEF Init
<1>3. Typed
  BY <1>1, <1>2 DEF AtStart, Typed, FilesTyped, CallsTyped, NoCall
<1>4. Bounded
  <2>1. {e \in Events : queue[e] # 0} = {}
    BY <1>1 DEF AtStart
  <2> QED BY <2>1, FS_EmptySet, SizesTyped DEF Bounded, Size
<1>5. NeverIdle
  BY <1>1 DEF AtStart, NeverIdle, ToSet
<1> QED BY <1>1, <1>3, <1>4, <1>5 DEF MainInv

LEMMA MainStep == MainInv /\ [Next]_vars => MainInv'
BY TypesStep, BoundedStep, NeverIdleStep DEF MainInv

THEOREM Invariance == Spec => []MainInv
<1>1. Init => MainInv
  BY InitFacts
<1> QED BY <1>1, MainStep, PTL DEF Spec

\* Every field of the service keeps its type, the waiting list stays ordered by
\* priority, and no batch grows beyond its size.
THEOREM TypeCorrect == Spec => []TypeOK
<1>1. MainInv => TypeOK
  BY TypedMeansTypeOK DEF MainInv
<1> QED BY Invariance, <1>1, PTL

\* The map never exceeds maxQueueSize, although retries and files read back enter
\* it from timers.
THEOREM MapStaysBounded == Spec => []Bounded
<1>1. MainInv => Bounded
  BY DEF MainInv
<1> QED BY Invariance, <1>1, PTL

\* An event that waits has processing going on, or an enqueue in flight that will
\* start it, unless shutdown was called.
THEOREM NothingWaitsWithoutTimer == Spec => []NeverIdle
<1>1. MainInv => NeverIdle
  BY DEF MainInv
<1> QED BY Invariance, <1>1, PTL

\* No batch passes over an event of higher priority.
THEOREM HigherPrioritiesFirst == Spec => PriorityRespected
<1>1. MainInv /\ [Next]_vars => [HigherFirst]_vars
  BY PriorityStep DEF MainInv
<1>2. Spec => [][HigherFirst]_vars
  BY Invariance, <1>1, PTL DEF Spec
<1> QED BY <1>2 DEF PriorityRespected, HigherFirst

-----------------------------------------------------------------------------
(* Nothing is lost when files are reliable and nobody empties the queue *)

Calm ==
    /\ ~DiskMayFail
    /\ \A b \in Budgets : b["clear"] = 0 /\ (b["retry"] = 0 \/ (b["crash"] = 0 /\ ~SlowDisk))

NoCalls ==
    /\ budget \in [{"crash", "shutdown", "clear", "retry"} -> Nat]
    /\ budget["clear"] = 0 /\ budget["retry"] = 0
    /\ clearCall = NoCall /\ retryCall = NoCall

HistoryTyped == accepted \subseteq Events /\ delivered \in [Events -> Nat]

\* A file is removed only after a delivery, or when the event failed for good.
RemovedIsDelivered ==
    \A s \in Slots : batch[s].at = "remove" => delivered[Current(s)[1]] > 0

\* Kept, without the help of memory.
Filed ==
    \A e \in accepted \ exposed : delivered[e] > 0 \/ e \in disk \cup overflow \/ GivenUp(e)

\* e is in a batch that has yet to process it, or a retry timer is set for it.
Active(e) ==
    \/ \E s \in Slots, n \in 1..Copies : \E k \in DOMAIN batch[s].todo :
          batch[s].todo[k] = <<e, n>> /\ (k = 1 => batch[s].at = "process")
    \/ \E n \in 1..Copies : retrying[<<e, n>>] > 0

HasFuture ==
    \A e \in Events :
        queue[e] # 0 => e \in ToSet(waiting) \/ Active(e) \/ e \in overflow \/ parking[e] > 0

Safe == Typed /\ NoCalls /\ HistoryTyped /\ RemovedIsDelivered /\ Filed /\ HasFuture

LEMMA NoCallsStep == ASSUME Typed, NoCalls, [Next]_vars PROVE NoCalls'
<1>1. ASSUME UNCHANGED <<budget, clearCall, retryCall>> PROVE NoCalls'
  BY <1>1 DEF NoCalls
<1>2. CASE UNCHANGED vars \/ Tick \/ ListFiles \/ Restart
  BY <1>1, <1>2 DEF vars, calls, Tick, ListFiles, Restart
<1>3. CASE Clear \/ RetryFailedEvents
  BY <1>3 DEF Clear, RetryFailedEvents, Spend, NoCalls
<1>4. CASE ClearList \/ RetryList \/ RetryParked \/ RetryUnlinked
  BY <1>4 DEF ClearList, RetryList, RetryParked, RetryUnlinked, NoCalls, NoCall
<1>5. CASE Shutdown
  BY <1>5 DEF Shutdown, Spend, NoCalls
<1>6. CASE Crash
  BY <1>6, CrashFacts DEF Crash, Spend, NoCalls, AtStart
<1>7. ASSUME NEW e \in Events, Enqueue(e) \/ Persisted(e) \/ Parked(e) \/ Load(e) \/ RetryRead(e) \/ ClearUnlink(e)
      PROVE  NoCalls'
  <2>1. ~RetryRead(e) /\ ~ClearUnlink(e)
    BY DEF RetryRead, ClearUnlink, NoCalls, NoCall
  <2> QED BY <1>1, <1>7, <2>1 DEF Enqueue, Persisted, Parked, Load, calls
<1>8. ASSUME NEW s \in Slots, BatchAct(s) PROVE NoCalls'
  BY <1>1, <1>8 DEF BatchAct, Deliver, RetryLater, GiveUp, Removed, BatchParked, calls
<1>9. ASSUME NEW o \in Objects, RetryFires(o) PROVE NoCalls'
  BY <1>1, <1>9 DEF RetryFires, calls
<1> QED BY <1>2, <1>3, <1>4, <1>5, <1>6, <1>7, <1>8, <1>9 DEF Next, BatchAct

\* The steps that can be taken while no call of clear or retryFailedEvents is.
LEMMA CalmSteps ==
    ASSUME NoCalls, [Next]_vars
    PROVE  \/ UNCHANGED vars \/ Tick \/ ListFiles \/ Restart \/ Shutdown \/ Crash
           \/ \E e \in Events : Enqueue(e) \/ Persisted(e) \/ Parked(e) \/ Load(e)
           \/ \E s \in Slots : BatchAct(s)
           \/ \E o \in Objects : RetryFires(o)
<1>1. ~Clear /\ ~RetryFailedEvents
  BY DEF Clear, RetryFailedEvents, Spend, NoCalls
<1>2. ~ClearList /\ ~RetryList /\ ~RetryParked /\ ~RetryUnlinked
  BY DEF ClearList, RetryList, RetryParked, RetryUnlinked, NoCalls, NoCall
<1>3. \A e \in Events : ~RetryRead(e) /\ ~ClearUnlink(e)
  BY DEF RetryRead, ClearUnlink, NoCalls, NoCall
<1> QED BY <1>1, <1>2, <1>3 DEF Next, BatchAct

\* A step that may take a batch touches no batch in flight, and the new one has
\* neither delivered nor failed yet.
LEMMA EngineKeepsBatches ==
    ASSUME Shaped(batch), NEW q, NEW w, Moved(q, w)
    PROVE  \A s \in Slots : /\ batch[s].failed = batch'[s].failed
                            /\ batch[s].at \in {"idle", "process"} \/ batch'[s] = batch[s]
                            /\ batch'[s].at = "remove" => batch'[s] = batch[s]
BY DEF Moved, Fresh, NoBatch

\* The effect of every step but those of batches and the crash.
Peaceful ==
    /\ \A s \in Slots : /\ batch[s].failed = batch'[s].failed
                        /\ batch'[s].at = "remove" => batch'[s] = batch[s]
    /\ delivered' = delivered /\ exposed' = exposed
    /\ disk \subseteq disk' /\ overflow \subseteq overflow'
    /\ accepted' \subseteq Events /\ accepted' \subseteq accepted \cup disk' \cup overflow'

LEMMA PeacefulSteps ==
    ASSUME Safe, ~DiskMayFail,
           \/ UNCHANGED vars \/ Tick \/ ListFiles \/ Restart \/ Shutdown
           \/ \E e \in Events : Enqueue(e) \/ Persisted(e) \/ Parked(e) \/ Load(e)
           \/ \E o \in Objects : RetryFires(o)
    PROVE  Peaceful
<1>1. Typed /\ EngineTyped /\ Shaped(batch) /\ accepted \subseteq Events /\ ~DiskMayFail
  BY DEF Safe, Typed, EngineTyped, HistoryTyped
<1>2. CASE UNCHANGED vars \/ ListFiles \/ Restart \/ Shutdown
  BY <1>1, <1>2 DEF vars, memory, files, past, outcome, ListFiles, Restart, Shutdown, Peaceful
<1>3. CASE Tick
  <2>1. UNCHANGED <<files, past>>
    BY <1>3 DEF Tick
  <2>2. CASE UNCHANGED batch
    BY <1>1, <2>1, <2>2 DEF files, past, outcome, Peaceful
  <2>3. CASE TakeBatch(queue, waiting)
    <3>1. Moved(queue, waiting)
      BY <1>1, <2>3, TakeFacts DEF EngineTyped
    <3> QED BY <1>1, <2>1, <3>1, EngineKeepsBatches DEF files, past, outcome, Peaceful
  <2> QED BY <1>3, <2>2, <2>3 DEF Tick
<1>4. ASSUME NEW e \in Events, Enqueue(e) PROVE Peaceful
  BY <1>1, <1>4 DEF Enqueue, outcome, Peaceful
<1>5. ASSUME NEW e \in Events, Persisted(e) PROVE Peaceful
  <2>1. Moved(queue, waiting)
    BY <1>1, <1>5, ProcessingFacts DEF Persisted, EngineTyped
  <2>2. /\ disk' = disk \cup {e} /\ accepted' = accepted \cup {e}
        /\ UNCHANGED <<overflow, delivered, exposed>>
    BY <1>1, <1>5 DEF Persisted
  <2> QED BY <1>1, <2>1, <2>2, EngineKeepsBatches DEF Peaceful
<1>6. ASSUME NEW e \in Events, Parked(e) PROVE Peaceful
  BY <1>1, <1>6 DEF Parked, memory, Peaceful
<1>7. ASSUME NEW o \in Objects, Requeue(o), UNCHANGED <<disk, overflow, accepted, delivered, exposed>>
      PROVE  Peaceful
  <2>1. CASE UNCHANGED batch
    BY <1>1, <1>7, <2>1 DEF Peaceful
  <2>2. CASE Moved(queue', Push(waiting, o[1]))
    BY <1>1, <1>7, <2>2, EngineKeepsBatches DEF Peaceful
  <2> QED BY <1>1, <1>7, <2>1, <2>2, RequeueFacts
<1>8. ASSUME NEW e \in Events, Load(e) PROVE Peaceful
  <2>1. UNCHANGED <<accepted, delivered, exposed, disk, overflow>>
    BY <1>8 DEF Load, files
  <2>2. CASE UNCHANGED memory
    BY <1>1, <2>1, <2>2 DEF memory, Peaceful
  <2>3. ASSUME NEW n \in 1..Copies, Requeue(<<e, n>>) PROVE Peaceful
    BY <1>7, <2>1, <2>3 DEF Objects
  <2> QED BY <1>8, <2>2, <2>3 DEF Load
<1>9. ASSUME NEW o \in Objects, RetryFires(o) PROVE Peaceful
  BY <1>7, <1>9 DEF RetryFires, past, outcome
<1> QED BY <1>2, <1>3, <1>4, <1>5, <1>6, <1>8, <1>9

LEMMA PeacefulKeeps ==
    ASSUME Safe, Peaceful PROVE HistoryTyped' /\ RemovedIsDelivered' /\ Filed'
<1>1. HistoryTyped'
  BY DEF Safe, HistoryTyped, Peaceful
<1>2. RemovedIsDelivered'
  BY DEF Safe, RemovedIsDelivered, Current, Peaceful
<1>3. \A e : GivenUp(e) => GivenUp(e)'
  BY DEF GivenUp, Peaceful
<1>4. Filed'
  BY <1>3 DEF Safe, Filed, Peaceful
<1> QED BY <1>1, <1>2, <1>4

\* In a batch, an event leaves the disk only when it was delivered or failed for good,
\* and the failed only for the overflow directory.
LEMMA BatchKeeps ==
    ASSUME Safe, ~DiskMayFail, NEW s \in Slots, BatchAct(s)
    PROVE  HistoryTyped' /\ RemovedIsDelivered' /\ Filed'
<1>1. /\ Shaped(batch) /\ ~DiskMayFail /\ accepted \subseteq Events /\ delivered \in [Events -> Nat]
      /\ RemovedIsDelivered /\ Filed
  BY DEF Safe, Typed, EngineTyped, HistoryTyped
<1>2. ASSUME NEW b, BatchGoesOn(s, b), b.at # "remove", delivered' = delivered, accepted' = accepted
      PROVE  HistoryTyped' /\ RemovedIsDelivered'
  <2>1. \A r \in Slots : batch'[r] = IF r = s THEN b ELSE batch[r]
    BY <1>1, <1>2, GoesOnFacts
  <2> QED BY <1>1, <1>2, <2>1 DEF HistoryTyped, RemovedIsDelivered, Current
<1>3. ASSUME NEW b, BatchGoesOn(s, b), ToSet(batch[s].failed) \subseteq ToSet(b.failed)
      PROVE  \A e : GivenUp(e) => GivenUp(e)'
  <2>1. \A r \in Slots : batch'[r] = IF r = s THEN b ELSE batch[r]
    BY <1>1, <1>3, GoesOnFacts
  <2> QED BY <1>3, <2>1 DEF GivenUp
<1>4. CASE Deliver(s)
  <2> DEFINE b == [batch[s] EXCEPT !.at = "remove"]
             e == Current(s)[1]
  <2>1. /\ BatchGoesOn(s, b) /\ e \in Events
        /\ delivered' = [delivered EXCEPT ![e] = @ + 1]
        /\ UNCHANGED <<files, accepted, outcome>>
    BY <1>1, <1>4, DeliverFacts, HeadFacts DEF Deliver
  <2>2. b.failed = batch[s].failed /\ b.todo = batch[s].todo
    BY <1>1 DEF Shaped, Shape, BatchStates
  <2>3. delivered' \in [Events -> Nat] /\ \A f \in Events : delivered[f] > 0 => delivered'[f] > 0
    BY <1>1, <2>1
  <2>4. delivered'[e] > 0
    BY <1>1, <2>1
  <2>5. \A r \in Slots : batch'[r] = IF r = s THEN b ELSE batch[r]
    BY <1>1, <2>1, GoesOnFacts
  <2>6. RemovedIsDelivered'
    <3> SUFFICES ASSUME NEW r \in Slots, batch'[r].at = "remove" PROVE delivered'[Head(batch'[r].todo)[1]] > 0
      BY DEF RemovedIsDelivered, Current
    <3>1. CASE r = s
      BY <2>2, <2>4, <2>5, <3>1 DEF Current
    <3>2. CASE r # s
      <4>1. batch'[r] = batch[r] /\ delivered[Current(r)[1]] > 0
        BY <1>1, <2>5, <3>2 DEF RemovedIsDelivered
      <4>2. Current(r)[1] \in Events
        BY <1>1, <2>5, <3>2, HeadFacts
      <4> QED BY <2>3, <4>1, <4>2 DEF Current
    <3> QED BY <3>1, <3>2
  <2>7. \A f : GivenUp(f) => GivenUp(f)'
    BY <1>3, <2>1, <2>2
  <2>8. Filed'
    BY <1>1, <2>1, <2>3, <2>7 DEF Filed, files, outcome
  <2> QED BY <1>1, <2>1, <2>3, <2>6, <2>8 DEF HistoryTyped
<1>5. CASE RetryLater(s)
  <2>1. /\ BatchGoesOn(s, After(batch[s])) /\ After(batch[s]).at # "remove" /\ After(batch[s]).failed = batch[s].failed
        /\ UNCHANGED <<files, past>>
    BY <1>1, <1>5, HeadFacts, AfterFacts, NextEventFacts DEF RetryLater
  <2>2. \A f : GivenUp(f) => GivenUp(f)'
    BY <1>3, <2>1
  <2> QED BY <1>1, <1>2, <2>1, <2>2 DEF Filed, files, past, outcome
<1>6. CASE GiveUp(s)
  <2>1. /\ BatchGoesOn(s, Failing(s)) /\ Failing(s).at # "remove"
        /\ ToSet(batch[s].failed) \subseteq ToSet(Failing(s).failed)
        /\ UNCHANGED <<files, past>>
    BY <1>1, <1>6, GiveUpFacts DEF GiveUp, Failing
  <2>2. \A f : GivenUp(f) => GivenUp(f)'
    BY <1>3, <2>1
  <2> QED BY <1>1, <1>2, <2>1, <2>2 DEF Filed, files, past, outcome
<1>7. CASE Removed(s)
  <2> DEFINE e == Current(s)[1]
  <2>1. /\ batch[s].at \in {"remove", "drop"} /\ disk' = disk \ {e}
        /\ UNCHANGED <<overflow, accepted, delivered, exposed>>
        /\ BatchGoesOn(s, After(batch[s])) /\ After(batch[s]).at # "remove" /\ After(batch[s]).failed = batch[s].failed
    BY <1>1, <1>7, HeadFacts, AfterFacts, NextEventFacts DEF Removed
  <2>2. \A f : GivenUp(f) => GivenUp(f)'
    BY <1>3, <2>1
  <2>3. delivered[e] > 0 \/ GivenUp(e)
    <3>1. CASE batch[s].at = "remove"
      BY <1>1, <3>1 DEF RemovedIsDelivered
    <3>2. CASE batch[s].at = "drop"
      <4>1. Current(s) \in Objects /\ Current(s) \in ToSet(batch[s].failed)
        BY <1>1, <3>2, HeadFacts DEF Shape
      <4>2. PICK f \in Events, n \in 1..Copies : Current(s) = <<f, n>>
        BY <4>1 DEF Objects
      <4>3. e = f
        BY <4>2
      <4> QED BY <4>1, <4>2, <4>3 DEF GivenUp
    <3> QED BY <2>1, <3>1, <3>2
  <2> HIDE DEF e
  <2> QED BY <1>1, <1>2, <2>1, <2>2, <2>3 DEF Filed
<1>8. CASE BatchParked(s)
  <2> DEFINE h == Head(batch[s].failed)
  <2>1. h \in Objects
    BY <1>1, <1>8, BatchParkedFacts
  <2>2. PICK b : /\ BatchGoesOn(s, b) /\ b.at \in {"idle", "park"}
                 /\ overflow' = overflow \cup {h[1]}
                 /\ ToSet(batch[s].failed) \subseteq ToSet(b.failed) \cup {h}
    BY <1>1, <1>8, BatchParkedFacts
  <2>3. UNCHANGED <<disk, accepted, delivered, exposed>>
    BY <1>8 DEF BatchParked
  <2>4. ASSUME NEW f, GivenUp(f) PROVE GivenUp(f)' \/ f \in overflow'
    <3>1. PICK r \in Slots, n \in 1..Copies : <<f, n>> \in ToSet(batch[r].failed)
      BY <2>4 DEF GivenUp
    <3>2. batch'[r] = IF r = s THEN b ELSE batch[r]
      BY <1>1, <2>2, GoesOnFacts
    <3>3. CASE r = s /\ <<f, n>> = h
      BY <2>2, <3>3
    <3>4. CASE r # s \/ <<f, n>> \in ToSet(b.failed)
      BY <3>1, <3>2, <3>4 DEF GivenUp
    <3> QED BY <2>2, <3>1, <3>3, <3>4
  <2> QED BY <1>1, <1>2, <2>2, <2>3, <2>4 DEF Filed
<1> QED BY <1>4, <1>5, <1>6, <1>7, <1>8 DEF BatchAct

LEMMA CrashKeeps == ASSUME Safe, Crash PROVE HistoryTyped' /\ RemovedIsDelivered' /\ Filed'
<1>1. /\ exposed' = exposed \cup {e \in Events \ (disk \cup overflow) : GivenUp(e)}
      /\ UNCHANGED <<disk, overflow, accepted, delivered>>
  BY DEF Crash
<1>2. batch' = [s \in Slots |-> NoBatch]
  BY CrashFacts DEF AtStart
<1> QED BY <1>1, <1>2 DEF Safe, HistoryTyped, RemovedIsDelivered, Filed, NoBatch

\* An event at work in a batch stays so, or its object has gone to a retry timer,
\* or its entry has left the map.
LEMMA ActiveInBatch ==
    ASSUME Shaped(batch), NEW s \in Slots, NEW b, BatchGoesOn(s, b),
           NEW e, Active(e), \A n \in 1..Copies : retrying'[<<e, n>>] >= retrying[<<e, n>>],
           \A n \in 1..Copies : retrying[<<e, n>>] \in Int /\ retrying'[<<e, n>>] \in Int,
           \A n \in 1..Copies, k \in DOMAIN batch[s].todo :
               batch[s].todo[k] = <<e, n>> /\ (k = 1 => batch[s].at = "process") =>
                   \/ retrying'[<<e, n>>] > 0
                   \/ \E j \in DOMAIN b.todo : b.todo[j] = <<e, n>> /\ (j = 1 => b.at = "process")
    PROVE  Active(e)'
<1>1. \A r \in Slots : batch'[r] = IF r = s THEN b ELSE batch[r]
  BY GoesOnFacts
<1>2. CASE \E n \in 1..Copies : retrying[<<e, n>>] > 0
  <2>1. \E n \in 1..Copies : retrying'[<<e, n>>] > 0
    BY <1>2
  <2> QED BY <2>1 DEF Active
<1>3. ASSUME NEW r \in Slots, NEW n \in 1..Copies, NEW k \in DOMAIN batch[r].todo,
             batch[r].todo[k] = <<e, n>>, k = 1 => batch[r].at = "process"
      PROVE  Active(e)'
  <2>1. CASE r # s
    BY <1>1, <1>3, <2>1 DEF Active
  <2>2. CASE r = s
    <3>1. CASE retrying'[<<e, n>>] > 0
      BY <3>1 DEF Active
    <3>2. ASSUME NEW j \in DOMAIN b.todo, b.todo[j] = <<e, n>>, j = 1 => b.at = "process" PROVE Active(e)'
      BY <1>1, <3>2 DEF Active
    <3> QED BY <1>3, <2>2, <3>1, <3>2
  <2> QED BY <2>1, <2>2
<1> QED BY <1>2, <1>3 DEF Active

\* When an event is dealt with, those behind it move up.
LEMMA MovesUp ==
    ASSUME NEW b, Shape(b), b.at \in {"process", "remove", "drop"}, NEW o, NEW k \in DOMAIN b.todo, b.todo[k] = o, k # 1
    PROVE  \E j \in DOMAIN After(b).todo : After(b).todo[j] = o /\ (j = 1 => After(b).at = "process")
<1>1. k - 1 \in DOMAIN After(b).todo /\ After(b).todo[k - 1] = o
  BY AfterFacts
<1>2. After(b).at = "process"
  <2>1. Shape(After(b)) /\ After(b).at \in {"idle", "process", "park"}
    BY AfterFacts
  <2>2. After(b).todo # <<>>
    BY <1>1
  <2> QED BY <2>1, <2>2 DEF Shape, NoBatch
<1> QED BY <1>1, <1>2

\* A step that may take a batch: what leaves the waiting list is at work, and the
\* events that are not in it go on as before.
LEMMA FutureMoved ==
    ASSUME Shaped(batch), HasFuture, queue' \in [Events -> 0..Copies], NEW w, Moved(queue', w),
           \A e \in Events \ ToSet(w) :
               /\ e \notin ToSet(waiting) /\ queue'[e] = queue[e] /\ parking'[e] = parking[e]
               /\ \A n \in 1..Copies : retrying'[<<e, n>>] = retrying[<<e, n>>],
           overflow \subseteq overflow'
    PROVE  HasFuture'
<1> SUFFICES ASSUME NEW e \in Events, queue'[e] # 0, e \notin ToSet(waiting')
             PROVE  Active(e)' \/ e \in overflow' \/ parking'[e] > 0
  BY DEF HasFuture
<1>1. CASE e \in ToSet(w)
  <2>1. PICK s \in Slots : Fresh(batch'[s], queue') /\ <<e, queue'[e]>> \in ToSet(batch'[s].todo)
    BY <1>1 DEF Moved
  <2>2. PICK k \in DOMAIN batch'[s].todo : batch'[s].todo[k] = <<e, queue'[e]>>
    BY <2>1 DEF ToSet
  <2>3. queue'[e] \in 1..Copies
    BY SizesTyped
  <2> QED BY <2>1, <2>2, <2>3 DEF Active, Fresh
<1>2. CASE e \notin ToSet(w)
  <2>1. queue[e] # 0 /\ (Active(e) \/ e \in overflow \/ parking[e] > 0)
    BY <1>2 DEF HasFuture
  <2>2. Active(e) => Active(e)'
    <3>1. \A s \in Slots : batch'[s] = batch[s] \/ batch[s].todo = <<>>
      BY DEF Moved, NoBatch
    <3>2. DOMAIN <<>> = {}
      OBVIOUS
    <3> QED BY <1>2, <3>1, <3>2 DEF Active
  <2> QED BY <1>2, <2>1, <2>2
<1> QED BY <1>1, <1>2

\* A step that leaves the batches alone, and forgets nothing.
LEMMA FutureStays ==
    ASSUME HasFuture, UNCHANGED batch, NEW e \in Events, queue'[e] # 0 => queue[e] # 0,
           ToSet(waiting) \subseteq ToSet(waiting'), overflow \subseteq overflow',
           parking[e] > 0 => parking'[e] > 0 \/ e \in overflow',
           \A n \in 1..Copies : retrying[<<e, n>>] > 0 => retrying'[<<e, n>>] > 0 \/ parking'[e] > 0
    PROVE  queue'[e] # 0 => e \in ToSet(waiting') \/ Active(e)' \/ e \in overflow' \/ parking'[e] > 0
BY DEF HasFuture, Active

\* In a batch, what is at work stays so but for the event it has dealt with, whose
\* entry leaves the map.
LEMMA ActiveBatch ==
    ASSUME Typed, NEW s \in Slots, BatchAct(s), NEW e \in Events
    PROVE  \/ queue'[e] = queue[e] /\ (Active(e) => Active(e)')
           \/ (Deliver(s) \/ GiveUp(s)) /\ e = Current(s)[1] /\ queue'[e] = 0
<1>1. /\ Shaped(batch) /\ queue \in [Events -> 0..Copies] /\ retrying \in [Objects -> Nat]
      /\ \A n \in 1..Copies : <<e, n>> \in Objects
  BY DEF Typed, EngineTyped, TimersTyped, Objects
<1>2. ASSUME NEW b, BatchGoesOn(s, b), UNCHANGED retrying, Active(e),
             \A n \in 1..Copies, k \in DOMAIN batch[s].todo :
               batch[s].todo[k] = <<e, n>> /\ (k = 1 => batch[s].at = "process") =>
                  \E j \in DOMAIN b.todo : b.todo[j] = <<e, n>> /\ (j = 1 => b.at = "process")
      PROVE  Active(e)'
  <2>1. \A n \in 1..Copies : /\ retrying'[<<e, n>>] >= retrying[<<e, n>>]
                             /\ retrying[<<e, n>>] \in Int /\ retrying'[<<e, n>>] \in Int
    BY <1>1, <1>2
  <2>2. \A n \in 1..Copies, k \in DOMAIN batch[s].todo :
          batch[s].todo[k] = <<e, n>> /\ (k = 1 => batch[s].at = "process") =>
             \/ retrying'[<<e, n>>] > 0
             \/ \E j \in DOMAIN b.todo : b.todo[j] = <<e, n>> /\ (j = 1 => b.at = "process")
    BY <1>2
  <2> QED BY <1>1, <1>2, <2>1, <2>2, ActiveInBatch
<1>3. CASE Deliver(s) \/ GiveUp(s)
  <2> DEFINE c == Current(s)[1]
  <2>1. /\ batch[s].at = "process" /\ c \in Events /\ queue' = [queue EXCEPT ![c] = 0] /\ UNCHANGED retrying
        /\ Current(s) = Head(batch[s].todo)
    BY <1>1, <1>3, HeadFacts DEF Deliver, GiveUp
  <2>2. PICK b : BatchGoesOn(s, b) /\ b.todo = batch[s].todo
    <3>1. CASE Deliver(s)
      <4>1. [batch[s] EXCEPT !.at = "remove"].todo = batch[s].todo
        BY <1>1 DEF Shaped, Shape, BatchStates
      <4> QED BY <1>1, <3>1, <4>1, DeliverFacts
    <3>2. CASE GiveUp(s)
      <4>1. Failing(s).todo = batch[s].todo
        BY DEF Failing
      <4> QED BY <1>1, <3>2, <4>1, GiveUpFacts
    <3> QED BY <1>3, <3>1, <3>2
  <2> SUFFICES ASSUME e # c PROVE queue'[e] = queue[e] /\ (Active(e) => Active(e)')
    BY <1>1, <1>3, <2>1
  <2>3. e # c /\ queue'[e] = queue[e]
    BY <1>1, <2>1
  <2>4. \A n \in 1..Copies, k \in DOMAIN batch[s].todo : batch[s].todo[k] = <<e, n>> => k # 1
    <3>1. Head(batch[s].todo) = batch[s].todo[1]
      BY <1>1 DEF Shaped, Shape, BatchStates
    <3> QED BY <2>1, <2>3, <3>1
  <2> HIDE DEF c
  <2> QED BY <1>2, <2>1, <2>2, <2>3, <2>4
<1>4. CASE Removed(s)
  <2>1. batch[s].at \in {"remove", "drop"} /\ UNCHANGED <<queue, retrying>> /\ BatchGoesOn(s, After(batch[s]))
        /\ Shape(batch[s])
    BY <1>1, <1>4, NextEventFacts, HeadFacts DEF Removed
  <2> SUFFICES ASSUME Active(e) PROVE Active(e)'
    BY <2>1
  <2>2. ASSUME NEW n \in 1..Copies, NEW k \in DOMAIN batch[s].todo,
               batch[s].todo[k] = <<e, n>>, k = 1 => batch[s].at = "process"
        PROVE  \E j \in DOMAIN After(batch[s]).todo :
                  After(batch[s]).todo[j] = <<e, n>> /\ (j = 1 => After(batch[s]).at = "process")
    <3>1. k # 1
      BY <2>1, <2>2
    <3> QED BY <2>1, <2>2, <3>1, MovesUp
  <2> QED BY <1>2, <2>1, <2>2
<1>5. CASE RetryLater(s)
  <2>1. /\ batch[s].at = "process" /\ queue' = queue /\ retrying' = [retrying EXCEPT ![Current(s)] = @ + 1]
        /\ BatchGoesOn(s, After(batch[s])) /\ Shape(batch[s])
        /\ Current(s) \in Objects /\ Current(s) = batch[s].todo[1]
    <3>1. batch[s].at = "process" /\ NextEvent(s, batch[s].failed) /\ queue' = queue
          /\ retrying' = [retrying EXCEPT ![Current(s)] = @ + 1]
      BY <1>5 DEF RetryLater
    <3>2. Current(s) = Head(batch[s].todo) /\ Head(batch[s].todo) = batch[s].todo[1]
      <4>1. Current(s) = Head(batch[s].todo)
        BY <1>1, <3>1, HeadFacts
      <4>2. Head(batch[s].todo) = batch[s].todo[1]
        BY <1>1 DEF Shaped, Shape, BatchStates
      <4> QED BY <4>1, <4>2
    <3> QED BY <1>1, <3>1, <3>2, NextEventFacts, HeadFacts
  <2> SUFFICES ASSUME Active(e) PROVE Active(e)'
    BY <2>1
  <2>2. \A n \in 1..Copies : /\ retrying'[<<e, n>>] >= retrying[<<e, n>>]
                             /\ retrying[<<e, n>>] \in Int /\ retrying'[<<e, n>>] \in Int
    BY <1>1, <2>1
  <2>3. ASSUME NEW n \in 1..Copies, NEW k \in DOMAIN batch[s].todo,
               batch[s].todo[k] = <<e, n>>
        PROVE  \/ retrying'[<<e, n>>] > 0
               \/ \E j \in DOMAIN After(batch[s]).todo :
                     After(batch[s]).todo[j] = <<e, n>> /\ (j = 1 => After(batch[s]).at = "process")
    <3>1. CASE k = 1
      <4>1. <<e, n>> = Current(s)
        BY <2>1, <2>3, <3>1
      <4>2. retrying[<<e, n>>] \in Nat /\ retrying'[<<e, n>>] = retrying[<<e, n>>] + 1
        BY <1>1, <2>1, <4>1
      <4> QED BY <4>2
    <3>2. CASE k # 1
      BY <2>1, <2>3, <3>2, MovesUp
    <3> QED BY <3>1, <3>2
  <2>4. Shaped(batch) /\ BatchGoesOn(s, After(batch[s])) /\ Active(e)
    BY <1>1, <2>1
  <2> QED BY <2>2, <2>3, <2>4, ActiveInBatch
<1>6. CASE BatchParked(s)
  <2>1. PICK b : BatchGoesOn(s, b)
    BY <1>1, <1>6, BatchParkedFacts
  <2>2. batch[s].todo = <<>> /\ UNCHANGED <<queue, retrying>>
    BY <1>1, <1>6 DEF BatchParked, Shaped, Shape
  <2>3. DOMAIN batch[s].todo = {}
    BY <2>2
  <2> QED BY <1>2, <2>1, <2>2, <2>3
<1> QED BY <1>3, <1>4, <1>5, <1>6 DEF BatchAct

LEMMA FutureBatch == ASSUME Safe, ~DiskMayFail, NEW s \in Slots, BatchAct(s) PROVE HasFuture'
<1>1. Typed /\ HasFuture /\ UNCHANGED <<waiting, parking>> /\ overflow \subseteq overflow'
  BY DEF Safe, BatchAct, Deliver, RetryLater, GiveUp, Removed, BatchParked, files
<1>2. \A e \in Events : queue'[e] # 0 => queue[e] # 0 /\ (Active(e) => Active(e)')
  BY <1>1, ActiveBatch
<1> QED BY <1>1, <1>2 DEF HasFuture

LEMMA FutureStep == ASSUME Safe, ~DiskMayFail, [Next]_vars PROVE HasFuture'
<1>1. /\ Shaped(batch) /\ EngineTyped /\ ~DiskMayFail /\ queue \in [Events -> 0..Copies] /\ HasFuture /\ NoCalls
      /\ waiting \in Seq(Events) /\ Sorted(waiting) /\ retrying \in [Objects -> Nat] /\ parking \in [Events -> Nat]
      /\ \A e \in Events, n \in 1..Copies : <<e, n>> \in Objects
  BY DEF Safe, Typed, EngineTyped, TimersTyped, Objects
<1>2. ASSUME UNCHANGED <<queue, waiting, batch, retrying, parking, overflow>> PROVE HasFuture'
  BY <1>1, <1>2, FutureStays DEF HasFuture
<1>3. CASE UNCHANGED vars \/ ListFiles \/ Restart \/ Shutdown
  BY <1>2, <1>3 DEF vars, memory, files, ListFiles, Restart, Shutdown
<1>4. CASE Tick
  <2>1. UNCHANGED <<queue, retrying, parking, overflow>>
    BY <1>4 DEF Tick, files
  <2>2. CASE UNCHANGED <<waiting, batch>>
    BY <1>2, <2>1, <2>2
  <2>3. CASE TakeBatch(queue, waiting)
    BY <1>1, <2>1, <2>3, TakeFacts, FutureMoved
  <2> QED BY <1>4, <2>2, <2>3 DEF Tick
<1>5. CASE Crash
  BY <1>5, CrashFacts DEF AtStart, HasFuture
<1>6. ASSUME NEW e \in Events, Enqueue(e) PROVE HasFuture'
  <2>1. UNCHANGED <<batch, retrying, overflow>>
    BY <1>6 DEF Enqueue
  <2>2. CASE Park(e) /\ UNCHANGED <<queue, waiting>>
    <3>1. \A f \in Events : parking[f] > 0 => parking'[f] > 0
      BY <1>1, <2>2 DEF Park
    <3> QED BY <1>1, <2>1, <2>2, <3>1, FutureStays DEF HasFuture
  <2>3. CASE queue' = [queue EXCEPT ![e] = 1] /\ waiting' = Push(waiting, e) /\ UNCHANGED parking
    <3>1. ToSet(waiting') = ToSet(waiting) \cup {e}
      BY <1>1, <2>3, PushFacts
    <3>2. \A f \in Events : f # e => queue'[f] = queue[f]
      BY <1>1, <2>3
    <3> QED BY <1>1, <2>1, <2>3, <3>1, <3>2, FutureStays DEF HasFuture
  <2> QED BY <1>6, <2>2, <2>3 DEF Enqueue
<1>7. ASSUME NEW e \in Events, Persisted(e) PROVE HasFuture'
  <2>1. UNCHANGED <<queue, retrying, parking, overflow>> /\ StartProcessing(queue, waiting)
    BY <1>7 DEF Persisted
  <2>2. Moved(queue, waiting)
    BY <1>1, <2>1, ProcessingFacts
  <2> QED BY <1>1, <2>1, <2>2, FutureMoved
<1>8. ASSUME NEW e \in Events, Parked(e) PROVE HasFuture'
  <2>1. /\ UNCHANGED memory /\ overflow' = overflow \cup {e}
        /\ parking' = [parking EXCEPT ![e] = @ - 1]
    BY <1>1, <1>8 DEF Parked
  <2>2. \A f \in Events : parking[f] > 0 => parking'[f] > 0 \/ f \in overflow'
    BY <1>1, <2>1
  <2> QED BY <1>1, <2>1, <2>2, FutureStays DEF memory, HasFuture
<1>9. ASSUME NEW o \in Objects, Requeue(o), UNCHANGED overflow,
             \A e \in Events, n \in 1..Copies : e # o[1] => retrying'[<<e, n>>] = retrying[<<e, n>>]
      PROVE  HasFuture'
  <2>1. o[1] \in Events
    BY DEF Objects
  <2>2. CASE Park(o[1]) /\ UNCHANGED <<queue, waiting, batch>>
    <3>1. \A f \in Events : parking[f] > 0 => parking'[f] > 0
      BY <1>1, <2>2 DEF Park
    <3>2. parking'[o[1]] > 0
      BY <1>1, <2>1, <2>2 DEF Park
    <3>3. \A f \in Events, n \in 1..Copies :
             retrying[<<f, n>>] > 0 => retrying'[<<f, n>>] > 0 \/ parking'[f] > 0
      BY <1>9, <3>2
    <3> QED BY <1>1, <1>9, <2>2, <3>1, <3>3, FutureStays DEF HasFuture
  <2>3. CASE /\ parking' = parking /\ queue' = [queue EXCEPT ![o[1]] = o[2]] /\ queue' \in [Events -> 0..Copies]
             /\ Moved(queue', Push(waiting, o[1])) /\ ToSet(Push(waiting, o[1])) = ToSet(waiting) \cup {o[1]}
    <3> DEFINE w == Push(waiting, o[1])
    <3>1. \A e \in Events \ ToSet(w) :
            /\ e \notin ToSet(waiting) /\ queue'[e] = queue[e] /\ parking'[e] = parking[e]
            /\ \A n \in 1..Copies : retrying'[<<e, n>>] = retrying[<<e, n>>]
      BY <1>1, <1>9, <2>3
    <3> QED BY <1>1, <1>9, <2>3, <3>1, FutureMoved
  <2> QED BY <1>1, <1>9, <2>2, <2>3, RequeueFacts
<1>10. ASSUME NEW e \in Events, Load(e) PROVE HasFuture'
  <2>1. CASE UNCHANGED <<memory, files>>
    BY <1>2, <2>1 DEF memory, files
  <2>2. ASSUME NEW n \in 1..Copies, Requeue(<<e, n>>), UNCHANGED <<retrying, overflow>> PROVE HasFuture'
    BY <1>1, <1>9, <2>2
  <2> QED BY <1>10, <2>1, <2>2 DEF Load
<1>11. ASSUME NEW o \in Objects, RetryFires(o) PROVE HasFuture'
  <2>1. Requeue(o) /\ UNCHANGED overflow /\ retrying' = [retrying EXCEPT ![o] = @ - 1]
    BY <1>11 DEF RetryFires
  <2>2. \A e \in Events, n \in 1..Copies : e # o[1] => retrying'[<<e, n>>] = retrying[<<e, n>>]
    BY <1>1, <2>1
  <2> QED BY <1>9, <2>1, <2>2
<1>12. ASSUME NEW s \in Slots, BatchAct(s) PROVE HasFuture'
  BY <1>12, FutureBatch
<1> QED BY <1>1, <1>3, <1>4, <1>5, <1>6, <1>7, <1>8, <1>10, <1>11, <1>12, CalmSteps

LEMMA SafeInit == Init /\ Calm /\ budget["retry"] = 0 => Safe
<1> SUFFICES ASSUME Init, Calm, budget["retry"] = 0 PROVE Safe
  OBVIOUS
<1>1. AtStart /\ Typed
  BY InitFacts DEF MainInv
<1>2. NoCalls
  BY <1>1, BoundsAssumption DEF AtStart, Init, Calm, BoundsAssumption, NoCalls
<1>3. HistoryTyped /\ Filed
  BY DEF Init, HistoryTyped, Filed
<1>4. RemovedIsDelivered
  BY <1>1 DEF AtStart, RemovedIsDelivered, NoBatch
<1>5. HasFuture
  BY <1>1 DEF AtStart, HasFuture
<1> QED BY <1>1, <1>2, <1>3, <1>4, <1>5 DEF Safe

LEMMA SafeStep == Safe /\ ~DiskMayFail /\ [Next]_vars => Safe'
<1> SUFFICES ASSUME Safe, ~DiskMayFail, [Next]_vars PROVE Safe'
  OBVIOUS
<1>1. Typed' /\ NoCalls' /\ HasFuture'
  BY TypesStep, NoCallsStep, FutureStep DEF Safe
<1>2. HistoryTyped' /\ RemovedIsDelivered' /\ Filed'
  <2>1. CASE Crash
    BY <2>1, CrashKeeps
  <2>2. ASSUME NEW s \in Slots, BatchAct(s) PROVE HistoryTyped' /\ RemovedIsDelivered' /\ Filed'
    BY <2>2, BatchKeeps
  <2>3. CASE Peaceful
    BY <2>3, PeacefulKeeps
  <2> QED BY <2>1, <2>2, <2>3, PeacefulSteps, CalmSteps DEF Safe
<1> QED BY <1>1, <1>2 DEF Safe

(* And with retryFailedEvents instead of crashes *)

NoCrashes ==
    /\ budget \in [{"crash", "shutdown", "clear", "retry"} -> Nat]
    /\ budget["crash"] = 0 /\ budget["clear"] = 0
    /\ clearCall = NoCall /\ ~SlowDisk

\* e will be processed: it waits with its entry, is in a batch or has a retry timer.
Carried(e) == (e \in ToSet(waiting) /\ queue[e] # 0) \/ Active(e)

Fated(e) == delivered[e] > 0 \/ e \in overflow \/ parking[e] > 0 \/ GivenUp(e) \/ Carried(e)

\* Nothing reported is forgotten, and retryFailedEvents removes the overflow file
\* only of an event that has yet to be processed.
Unforgotten ==
    /\ \A e \in accepted \cup persisting : Fated(e)
    /\ \A e \in Events : queue[e] # 0 => Carried(e) \/ e \in overflow \/ parking[e] > 0
    /\ retryCall.at = "unlink" => \E e \in Events : e = retryCall.file /\ Carried(e)

Reread == Typed /\ NoCrashes /\ HistoryTyped /\ Unforgotten

\* The step has processed e, or its timer found the queue full.
LetGo(e) == TimersFire /\ (parking'[e] > 0 \/ (queue'[e] = 0 /\ (delivered'[e] > 0 \/ GivenUp(e)')))

\* What a step does about e.
Effect(e) ==
    /\ Carried(e) => Carried(e)' \/ LetGo(e)
    /\ queue[e] = 0 => queue'[e] = 0 \/ Carried(e)'
    /\ delivered[e] > 0 => delivered'[e] > 0
    /\ parking[e] > 0 => parking'[e] > 0 \/ e \in overflow'
    /\ GivenUp(e) => GivenUp(e)' \/ e \in overflow'
    /\ e \in overflow => e \in overflow' \/ Carried(e)'
    /\ e \in accepted' \cup persisting' => e \in accepted \cup persisting \/ Fated(e)'

LEMMA NoCrashesStep == ASSUME Typed, NoCrashes, [Next]_vars PROVE NoCrashes'
<1>1. ASSUME UNCHANGED <<budget, clearCall>> PROVE NoCrashes'
  BY <1>1 DEF NoCrashes
<1>2. CASE UNCHANGED vars \/ Tick \/ ListFiles \/ Restart \/ RetryList \/ RetryParked \/ RetryUnlinked
  BY <1>1, <1>2 DEF vars, calls, Tick, ListFiles, Restart, RetryList, RetryParked, RetryUnlinked
<1>3. CASE Clear \/ Crash
  BY <1>3 DEF Clear, Crash, Spend, NoCrashes
<1>4. CASE ClearList
  BY <1>4 DEF ClearList, NoCrashes, NoCall
<1>5. CASE Shutdown \/ RetryFailedEvents
  BY <1>5 DEF Shutdown, RetryFailedEvents, Spend, NoCrashes
<1>6. ASSUME NEW e \in Events, Enqueue(e) \/ Persisted(e) \/ Parked(e) \/ Load(e) \/ RetryRead(e) \/ ClearUnlink(e)
      PROVE  NoCrashes'
  <2>1. ~ClearUnlink(e)
    BY DEF ClearUnlink, NoCrashes, NoCall
  <2> QED BY <1>1, <1>6, <2>1 DEF Enqueue, Persisted, Parked, Load, RetryRead, calls
<1>7. ASSUME NEW s \in Slots, BatchAct(s) PROVE NoCrashes'
  BY <1>1, <1>7 DEF BatchAct, Deliver, RetryLater, GiveUp, Removed, BatchParked, calls
<1>8. ASSUME NEW o \in Objects, RetryFires(o) PROVE NoCrashes'
  BY <1>1, <1>8 DEF RetryFires, calls
<1> QED BY <1>2, <1>3, <1>4, <1>5, <1>6, <1>7, <1>8 DEF Next, BatchAct

LEMMA RereadSteps ==
    ASSUME NoCrashes, [Next]_vars
    PROVE  \/ UNCHANGED vars \/ Tick \/ ListFiles \/ Restart \/ Shutdown
           \/ RetryFailedEvents \/ RetryList \/ RetryParked \/ RetryUnlinked
           \/ \E e \in Events : Enqueue(e) \/ Persisted(e) \/ Parked(e) \/ Load(e) \/ RetryRead(e)
           \/ \E s \in Slots : BatchAct(s)
           \/ \E o \in Objects : RetryFires(o)
<1>1. ~Clear /\ ~Crash
  BY DEF Clear, Crash, Spend, NoCrashes
<1>2. ~ClearList
  BY DEF ClearList, NoCrashes, NoCall
<1>3. \A e \in Events : ~ClearUnlink(e)
  BY DEF ClearUnlink, NoCrashes, NoCall
<1> QED BY <1>1, <1>2, <1>3 DEF Next, BatchAct

\* Whether a step takes a batch or not, what waits with its entry is carried on.
LEMMA WaitingCarried ==
    ASSUME queue' \in [Events -> 0..Copies], NEW w, Moved(queue', w), NEW e \in Events, e \in ToSet(w), queue'[e] # 0
    PROVE  Carried(e)'
<1>1. CASE e \in ToSet(waiting')
  BY <1>1 DEF Carried
<1>2. CASE e \notin ToSet(waiting')
  <2>1. PICK s \in Slots : Fresh(batch'[s], queue') /\ <<e, queue'[e]>> \in ToSet(batch'[s].todo)
    BY <1>2 DEF Moved
  <2>2. PICK k \in DOMAIN batch'[s].todo : batch'[s].todo[k] = <<e, queue'[e]>>
    BY <2>1 DEF ToSet
  <2>3. queue'[e] \in 1..Copies
    BY SizesTyped
  <2> QED BY <2>1, <2>2, <2>3 DEF Active, Fresh, Carried
<1> QED BY <1>1, <1>2

\* And what is at work stays so.
LEMMA ActiveMoved ==
    ASSUME Shaped(batch), NEW q, NEW w, Moved(q, w), NEW e, Active(e),
           \A n \in 1..Copies : retrying[<<e, n>>] > 0 => retrying'[<<e, n>>] > 0
    PROVE  Active(e)'
<1>1. \A s \in Slots : batch'[s] = batch[s] \/ batch[s].todo = <<>>
  BY DEF Moved, NoBatch
<1>2. DOMAIN <<>> = {}
  OBVIOUS
<1> QED BY <1>1, <1>2 DEF Active

LEMMA StaysCarried ==
    ASSUME NEW e, UNCHANGED <<queue, waiting, batch>>, Carried(e),
           \A n \in 1..Copies : retrying[<<e, n>>] > 0 => retrying'[<<e, n>>] > 0
    PROVE  Carried(e)'
BY DEF Carried, Active

\* Requeueing o leaves the other events alone.
LEMMA RequeueCarried ==
    ASSUME Typed, NEW o \in Objects, Requeue(o), NEW e \in Events,
           e # o[1] => \A n \in 1..Copies : retrying'[<<e, n>>] = retrying[<<e, n>>]
    PROVE  /\ e # o[1] => (Carried(e) => Carried(e)') /\ queue'[e] = queue[e]
           /\ e = o[1] => \/ Carried(e)'
                          \/ Full /\ parking'[e] > 0 /\ UNCHANGED <<queue, waiting, batch>>
           /\ parking[e] > 0 => parking'[e] > 0
<1>1. /\ EngineTyped /\ Shaped(batch) /\ parking \in [Events -> Nat] /\ queue \in [Events -> 0..Copies]
      /\ o[1] \in Events /\ o[2] \in 1..Copies
  BY DEF Typed, EngineTyped, TimersTyped, Objects
<1>2. CASE Full /\ Park(o[1]) /\ UNCHANGED <<queue, waiting, batch>>
  <2>1. parking'[o[1]] > 0 /\ (parking[e] > 0 => parking'[e] > 0)
    BY <1>1, <1>2 DEF Park
  <2> QED BY <1>2, <2>1, StaysCarried
<1>3. CASE /\ ~Full /\ parking' = parking
           /\ queue' = [queue EXCEPT ![o[1]] = o[2]] /\ queue' \in [Events -> 0..Copies]
           /\ Moved(queue', Push(waiting, o[1])) /\ ToSet(Push(waiting, o[1])) = ToSet(waiting) \cup {o[1]}
  <2> DEFINE w == Push(waiting, o[1])
  <2>1. queue'[o[1]] # 0 /\ (e # o[1] => queue'[e] = queue[e])
    BY <1>1, <1>3, SizesTyped
  <2>2. CASE e = o[1]
    BY <1>1, <1>3, <2>1, <2>2, WaitingCarried
  <2>3. CASE e # o[1] /\ Carried(e)
    <3>1. CASE e \in ToSet(waiting) /\ queue[e] # 0
      BY <1>1, <1>3, <2>1, <2>3, <3>1, WaitingCarried
    <3>2. CASE Active(e)
      <4>1. Active(e)'
        BY <1>1, <1>3, <2>3, <3>2, ActiveMoved
      <4> QED BY <1>3, <2>1, <2>3, <4>1 DEF Carried
    <3> QED BY <2>3, <3>1, <3>2 DEF Carried
  <2> QED BY <1>3, <2>1, <2>2, <2>3
<1> QED BY <1>1, <1>2, <1>3, RequeueFacts

\* An event that failed for good leaves its batch only for the overflow directory.
LEMMA BatchGivenUp ==
    ASSUME Typed, ~DiskMayFail, NEW s \in Slots, BatchAct(s), NEW f, GivenUp(f)
    PROVE  GivenUp(f)' \/ f \in overflow'
<1>1. Shaped(batch)
  BY DEF Typed, EngineTyped
<1>2. ASSUME NEW b, BatchGoesOn(s, b), ToSet(batch[s].failed) \subseteq ToSet(b.failed)
      PROVE  GivenUp(f)'
  <2>1. \A r \in Slots : batch'[r] = IF r = s THEN b ELSE batch[r]
    BY <1>1, <1>2, GoesOnFacts
  <2> QED BY <1>2, <2>1 DEF GivenUp
<1>3. CASE Deliver(s)
  <2>1. [batch[s] EXCEPT !.at = "remove"].failed = batch[s].failed
    BY <1>1 DEF Shaped, Shape, BatchStates
  <2> QED BY <1>1, <1>2, <1>3, <2>1, DeliverFacts
<1>4. CASE RetryLater(s) \/ Removed(s)
  <2>1. BatchGoesOn(s, After(batch[s])) /\ After(batch[s]).failed = batch[s].failed
    BY <1>1, <1>4, HeadFacts, AfterFacts, NextEventFacts DEF RetryLater, Removed
  <2> QED BY <1>2, <2>1
<1>5. CASE GiveUp(s)
  BY <1>1, <1>2, <1>5, GiveUpFacts
<1>6. CASE BatchParked(s)
  <2> DEFINE h == Head(batch[s].failed)
  <2>1. h \in Objects
    BY <1>1, <1>6, BatchParkedFacts
  <2>2. PICK b : /\ BatchGoesOn(s, b)
                 /\ overflow' = overflow \cup {h[1]}
                 /\ ToSet(batch[s].failed) \subseteq ToSet(b.failed) \cup {h}
    BY <1>1, <1>6, BatchParkedFacts
  <2>3. PICK r \in Slots, n \in 1..Copies : <<f, n>> \in ToSet(batch[r].failed)
    BY DEF GivenUp
  <2>4. batch'[r] = IF r = s THEN b ELSE batch[r]
    BY <1>1, <2>2, GoesOnFacts
  <2>5. CASE r = s /\ <<f, n>> = h
    BY <2>2, <2>5
  <2>6. CASE r # s \/ <<f, n>> \in ToSet(b.failed)
    BY <2>3, <2>4, <2>6 DEF GivenUp
  <2> QED BY <2>2, <2>3, <2>5, <2>6
<1> QED BY <1>3, <1>4, <1>5, <1>6 DEF BatchAct

LEMMA BatchEffect ==
    ASSUME Reread, ~DiskMayFail, NEW s \in Slots, BatchAct(s), NEW e \in Events PROVE Effect(e)
<1>1. Typed /\ Shaped(batch) /\ delivered \in [Events -> Nat] /\ queue \in [Events -> 0..Copies]
  BY DEF Reread, HistoryTyped, Typed, EngineTyped
<1>2. UNCHANGED <<waiting, parking, persisting, accepted>> /\ overflow \subseteq overflow'
  BY DEF BatchAct, Deliver, RetryLater, GiveUp, Removed, BatchParked, files, past
<1>3. delivered[e] > 0 => delivered'[e] > 0
  <2>1. CASE Deliver(s)
    BY <1>1, <2>1 DEF Deliver
  <2>2. CASE RetryLater(s) \/ GiveUp(s) \/ Removed(s) \/ BatchParked(s)
    BY <2>2 DEF RetryLater, GiveUp, Removed, BatchParked, past
  <2> QED BY <2>1, <2>2 DEF BatchAct
<1>4. GivenUp(e) => GivenUp(e)' \/ e \in overflow'
  BY <1>1, BatchGivenUp
<1>5. CASE queue'[e] = queue[e] /\ (Active(e) => Active(e)')
  BY <1>2, <1>3, <1>4, <1>5 DEF Effect, Carried
<1>6. CASE (Deliver(s) \/ GiveUp(s)) /\ e = Current(s)[1] /\ queue'[e] = 0
  <2>1. TimersFire /\ batch[s].at = "process"
    BY <1>6 DEF Deliver, GiveUp
  <2>2. CASE Deliver(s)
    <3>1. delivered'[e] > 0
      BY <1>1, <1>6, <2>2 DEF Deliver
    <3> QED BY <1>2, <1>3, <1>4, <1>6, <2>1, <3>1 DEF Effect, LetGo
  <2>3. CASE GiveUp(s)
    <3>1. Current(s) \in Objects /\ BatchGoesOn(s, Failing(s)) /\ Current(s) \in ToSet(Failing(s).failed)
      BY <1>1, <2>1, <2>3, HeadFacts, GiveUpFacts
    <3>2. PICK f \in Events, n \in 1..Copies : Current(s) = <<f, n>>
      BY <3>1 DEF Objects
    <3>3. f = e /\ batch'[s] = Failing(s)
      BY <1>1, <1>6, <3>1, <3>2, GoesOnFacts
    <3>4. GivenUp(e)'
      BY <3>1, <3>2, <3>3 DEF GivenUp
    <3> QED BY <1>2, <1>3, <1>4, <1>6, <2>1, <3>4 DEF Effect, LetGo
  <2> QED BY <1>6, <2>2, <2>3
<1> QED BY <1>1, <1>5, <1>6, ActiveBatch

\* A step that touches neither events nor batches.
LEMMA IdleEffect ==
    ASSUME UNCHANGED <<queue, waiting, batch, retrying, parking, delivered>>, NEW e,
           accepted' \cup persisting' \subseteq accepted \cup persisting,
           e \in overflow => e \in overflow' \/ Carried(e)
    PROVE  Effect(e)
<1>1. Carried(e) => Carried(e)'
  BY DEF Carried, Active
<1>2. GivenUp(e) => GivenUp(e)'
  BY DEF GivenUp
<1> QED BY <1>1, <1>2 DEF Effect

\* A step that may take a batch of what waits.
LEMMA MovedEffect ==
    ASSUME Typed, Moved(queue, waiting), UNCHANGED <<queue, retrying, parking, overflow, delivered>>,
           accepted' \cup persisting' \subseteq accepted \cup persisting, NEW e \in Events
    PROVE  Effect(e)
<1>1. Shaped(batch) /\ queue' \in [Events -> 0..Copies] /\ Moved(queue', waiting)
  BY DEF Typed, EngineTyped
<1>2. Active(e) => Active(e)'
  BY <1>1, ActiveMoved
<1>3. Carried(e) => Carried(e)'
  BY <1>1, <1>2, WaitingCarried DEF Carried
<1>4. GivenUp(e) => GivenUp(e)'
  BY <1>1, EngineKeepsBatches DEF GivenUp
<1> QED BY <1>3, <1>4 DEF Effect

\* A step that queues an object again, because its timer fired or its file was read.
LEMMA RequeueEffect ==
    ASSUME Typed, NEW o \in Objects, Requeue(o), NEW e \in Events,
           e # o[1] => \A n \in 1..Copies : retrying'[<<e, n>>] = retrying[<<e, n>>],
           TimersFire \/ retrying' = retrying,
           UNCHANGED <<persisting, overflow, accepted, delivered>>
    PROVE  Effect(e)
<1>1. EngineTyped /\ Shaped(batch)
  BY DEF Typed, EngineTyped
<1>2. GivenUp(e) => GivenUp(e)'
  <2>1. CASE UNCHANGED batch
    BY <2>1 DEF GivenUp
  <2>2. CASE Moved(queue', Push(waiting, o[1]))
    BY <1>1, <2>2, EngineKeepsBatches DEF GivenUp
  <2> QED BY <1>1, <2>1, <2>2, RequeueFacts
<1>3. parking[e] > 0 => parking'[e] > 0
  BY RequeueCarried
<1>4. CASE e # o[1]
  <2>1. (Carried(e) => Carried(e)') /\ queue'[e] = queue[e]
    BY <1>4, RequeueCarried
  <2> QED BY <1>2, <1>3, <2>1 DEF Effect
<1>5. CASE e = o[1]
  <2>1. CASE Carried(e)'
    BY <1>2, <1>3, <2>1 DEF Effect
  <2>2. CASE parking'[e] > 0 /\ UNCHANGED <<queue, waiting, batch>>
    <3>1. Carried(e) => Carried(e)' \/ LetGo(e)
      <4>1. CASE TimersFire
        BY <2>2, <4>1 DEF LetGo
      <4>2. CASE retrying' = retrying
        BY <2>2, <4>2, StaysCarried
      <4> QED BY <4>1, <4>2
    <3> QED BY <1>2, <1>3, <2>2, <3>1 DEF Effect
  <2> QED BY <1>5, <2>1, <2>2, RequeueCarried
<1> QED BY <1>4, <1>5

LEMMA EffectStep == ASSUME Reread, ~DiskMayFail, [Next]_vars, NEW e \in Events PROVE Effect(e)
<1>1. /\ Typed /\ EngineTyped /\ Shaped(batch) /\ Unforgotten /\ NoCrashes
      /\ queue \in [Events -> 0..Copies] /\ waiting \in Seq(Events) /\ Sorted(waiting)
      /\ retrying \in [Objects -> Nat] /\ parking \in [Events -> Nat]
      /\ \A f \in Events, n \in 1..Copies : <<f, n>> \in Objects
  BY DEF Reread, Typed, EngineTyped, TimersTyped, Objects
<1>2. CASE UNCHANGED vars \/ ListFiles \/ Restart \/ Shutdown \/ RetryFailedEvents \/ RetryList
  BY <1>2, IdleEffect DEF vars, memory, files, past, ListFiles, Restart, Shutdown, RetryFailedEvents, RetryList
<1>3. CASE RetryParked
  BY <1>3, IdleEffect DEF RetryParked, memory, past
<1>4. CASE RetryUnlinked
  <2>1. e \in overflow => e \in overflow' \/ Carried(e)
    BY <1>1, <1>4 DEF RetryUnlinked, Unforgotten
  <2> QED BY <1>4, <2>1, IdleEffect DEF RetryUnlinked, memory, past
<1>5. CASE Tick
  <2>1. UNCHANGED <<queue, retrying, files, past>>
    BY <1>5 DEF Tick
  <2>2. CASE UNCHANGED <<waiting, batch>>
    BY <2>1, <2>2, IdleEffect DEF files, past
  <2>3. CASE TakeBatch(queue, waiting)
    BY <1>1, <2>1, <2>3, TakeFacts, MovedEffect DEF files, past
  <2> QED BY <1>5, <2>2, <2>3 DEF Tick
<1>6. ASSUME NEW f \in Events, Enqueue(f) PROVE Effect(e)
  <2>1. UNCHANGED <<batch, retrying, overflow, accepted, delivered>>
    BY <1>6 DEF Enqueue
  <2>2. GivenUp(e) => GivenUp(e)'
    BY <2>1 DEF GivenUp
  <2>3. CASE Park(f) /\ UNCHANGED <<queue, waiting, persisting>>
    <3>1. parking[e] > 0 => parking'[e] > 0
      BY <1>1, <2>3 DEF Park
    <3> QED BY <2>1, <2>2, <2>3, <3>1, StaysCarried DEF Effect
  <2>4. CASE /\ queue' = [queue EXCEPT ![f] = 1] /\ waiting' = Push(waiting, f)
             /\ persisting' = persisting \cup {f} /\ UNCHANGED parking
    <3>1. ToSet(waiting') = ToSet(waiting) \cup {f}
      BY <1>1, <2>4, PushFacts
    <3>2. (e # f => queue'[e] = queue[e]) /\ queue'[f] = 1
      BY <1>1, <2>4
    <3>3. e = f => Carried(e)'
      BY <3>1, <3>2 DEF Carried
    <3>4. Carried(e) => Carried(e)'
      BY <2>1, <3>1, <3>2 DEF Carried, Active
    <3> QED BY <2>1, <2>2, <2>4, <3>2, <3>3, <3>4 DEF Effect, Fated
  <2> QED BY <1>6, <2>3, <2>4 DEF Enqueue
<1>7. ASSUME NEW f \in Events, Persisted(f) PROVE Effect(e)
  <2>1. /\ UNCHANGED <<queue, retrying, parking, overflow, delivered>> /\ StartProcessing(queue, waiting)
        /\ accepted' \cup persisting' \subseteq accepted \cup persisting
    BY <1>7 DEF Persisted
  <2>2. Moved(queue, waiting)
    BY <1>1, <2>1, ProcessingFacts
  <2> QED BY <1>1, <2>1, <2>2, MovedEffect
<1>8. ASSUME NEW f \in Events, Parked(f) PROVE Effect(e)
  <2>1. /\ UNCHANGED <<memory, persisting, delivered>> /\ overflow' = overflow \cup {f} /\ accepted' = accepted \cup {f}
        /\ parking' = [parking EXCEPT ![f] = @ - 1]
    BY <1>8 DEF Parked
  <2>2. parking[e] > 0 => parking'[e] > 0 \/ e \in overflow'
    BY <1>1, <2>1
  <2>3. UNCHANGED <<queue, waiting, batch, retrying>>
    BY <2>1 DEF memory
  <2>4. (Carried(e) => Carried(e)') /\ (GivenUp(e) => GivenUp(e)')
    BY <2>3 DEF Carried, Active, GivenUp
  <2> QED BY <2>1, <2>2, <2>3, <2>4 DEF Effect, Fated
<1>9. ASSUME NEW f \in Events, Load(f) \/ RetryRead(f) PROVE Effect(e)
  <2>1. UNCHANGED <<accepted, delivered>>
    BY <1>9 DEF Load, RetryRead
  <2>2. CASE UNCHANGED <<memory, files>>
    BY <2>1, <2>2, IdleEffect DEF memory, files
  <2>3. ASSUME NEW n \in 1..Copies, Requeue(<<f, n>>), UNCHANGED <<retrying, persisting, disk, overflow>>
        PROVE  Effect(e)
    BY <1>1, <2>1, <2>3, RequeueEffect
  <2> QED BY <1>9, <2>2, <2>3 DEF Load, RetryRead
<1>10. ASSUME NEW o \in Objects, RetryFires(o) PROVE Effect(e)
  <2>1. /\ TimersFire /\ Requeue(o) /\ retrying' = [retrying EXCEPT ![o] = @ - 1]
        /\ UNCHANGED <<persisting, overflow, past>>
    BY <1>10 DEF RetryFires
  <2>2. e # o[1] => \A n \in 1..Copies : retrying'[<<e, n>>] = retrying[<<e, n>>]
    BY <1>1, <2>1
  <2> QED BY <1>1, <2>1, <2>2, RequeueEffect DEF past
<1>11. ASSUME NEW s \in Slots, BatchAct(s) PROVE Effect(e)
  BY <1>11, BatchEffect
<1> QED BY <1>1, <1>2, <1>3, <1>4, <1>5, <1>6, <1>7, <1>8, <1>9, <1>10, <1>11, RereadSteps

\* retryFailedEvents comes to remove a file only after it queued the event again.
LEMMA RetryCallStep ==
    ASSUME Reread, [Next]_vars
    PROVE  \/ retryCall' = retryCall
           \/ retryCall'.at # "unlink"
           \/ \E e \in Events : e = retryCall'.file /\ Carried(e)'
<1>1. NoCrashes /\ Typed
  BY DEF Reread
<1>2. CASE UNCHANGED vars \/ Tick \/ ListFiles \/ Restart \/ Shutdown
  BY <1>2 DEF vars, calls, Tick, ListFiles, Restart, Shutdown
<1>3. CASE RetryFailedEvents \/ RetryList \/ RetryParked \/ RetryUnlinked
  BY <1>3 DEF RetryFailedEvents, RetryList, RetryParked, RetryUnlinked, RetryGoesOn, NoCall
<1>4. ASSUME NEW e \in Events, Enqueue(e) \/ Persisted(e) \/ Parked(e) \/ Load(e) PROVE retryCall' = retryCall
  BY <1>4 DEF Enqueue, Persisted, Parked, Load, calls
<1>5. ASSUME NEW e \in Events, RetryRead(e)
      PROVE  retryCall'.at # "unlink" \/ (e = retryCall'.file /\ Carried(e)')
  <2>1. CASE RetryGoesOn(e) \/ RetryWaits("park", e)
    BY <2>1 DEF RetryGoesOn, RetryWaits, NoCall
  <2>2. ASSUME ~Full, RetryWaits("unlink", e), NEW n \in 1..Copies, Requeue(<<e, n>>)
        PROVE  e = retryCall'.file /\ Carried(e)'
    <3>1. <<e, n>> \in Objects /\ <<e, n>>[1] = e
      BY DEF Objects
    <3>2. Carried(e)'
      BY <1>1, <2>2, <3>1, RequeueCarried
    <3> QED BY <2>2, <3>2 DEF RetryWaits
  <2> QED BY <1>5, <2>1, <2>2 DEF RetryRead
<1>6. ASSUME NEW s \in Slots, BatchAct(s) PROVE retryCall' = retryCall
  BY <1>6 DEF BatchAct, Deliver, RetryLater, GiveUp, Removed, BatchParked, calls
<1>7. ASSUME NEW o \in Objects, RetryFires(o) PROVE retryCall' = retryCall
  BY <1>7 DEF RetryFires, calls
<1> QED BY <1>1, <1>2, <1>3, <1>4, <1>5, <1>6, <1>7, RereadSteps

LEMMA RereadHistory == ASSUME Reread, [Next]_vars PROVE HistoryTyped'
<1>1. accepted \subseteq Events /\ delivered \in [Events -> Nat] /\ NoCrashes
  BY DEF Reread, HistoryTyped
<1>2. CASE UNCHANGED vars \/ Tick \/ ListFiles \/ Restart \/ Shutdown \/ RetryFailedEvents \/ RetryList
           \/ RetryParked \/ RetryUnlinked
  BY <1>1, <1>2 DEF vars, past, Tick, ListFiles, Restart, Shutdown, RetryFailedEvents, RetryList, RetryParked,
     RetryUnlinked, HistoryTyped
<1>3. ASSUME NEW e \in Events, Enqueue(e) \/ Persisted(e) \/ Parked(e) \/ Load(e) \/ RetryRead(e) PROVE HistoryTyped'
  <2>1. delivered' = delivered /\ accepted' \subseteq accepted \cup {e}
    BY <1>3 DEF Enqueue, Persisted, Parked, Load, RetryRead
  <2> QED BY <1>1, <2>1 DEF HistoryTyped
<1>4. ASSUME NEW s \in Slots, BatchAct(s) PROVE HistoryTyped'
  <2>1. ASSUME Deliver(s) PROVE delivered' \in [Events -> Nat] /\ accepted' = accepted
    <3>1. delivered' = [delivered EXCEPT ![Current(s)[1]] = @ + 1] /\ accepted' = accepted
      BY <2>1 DEF Deliver
    <3>2. Current(s)[1] \in Events
      BY <2>1, HeadFacts DEF Deliver, Reread, Typed, EngineTyped
    <3> QED BY <1>1, <3>1, <3>2
  <2>2. CASE RetryLater(s) \/ GiveUp(s) \/ Removed(s) \/ BatchParked(s)
    BY <1>1, <2>2 DEF RetryLater, GiveUp, Removed, BatchParked, past, HistoryTyped
  <2> QED BY <1>1, <1>4, <2>1, <2>2 DEF BatchAct, HistoryTyped
<1>5. ASSUME NEW o \in Objects, RetryFires(o) PROVE HistoryTyped'
  BY <1>1, <1>5 DEF RetryFires, past, HistoryTyped
<1> QED BY <1>1, <1>2, <1>3, <1>4, <1>5, RereadSteps

LEMMA RereadStep == Reread /\ ~DiskMayFail /\ [Next]_vars => Reread'
<1> SUFFICES ASSUME Reread, ~DiskMayFail, [Next]_vars PROVE Reread'
  OBVIOUS
<1>1. Typed' /\ NoCrashes' /\ HistoryTyped' /\ Unforgotten
  BY TypesStep, NoCrashesStep, RereadHistory DEF Reread
<1>2. \A e \in Events : Effect(e)
  BY EffectStep
<1>3. accepted' \cup persisting' \subseteq Events
  BY <1>1 DEF Typed, FilesTyped, HistoryTyped
<1>4. ASSUME NEW e \in accepted' \cup persisting' PROVE Fated(e)'
  BY <1>1, <1>2, <1>3 DEF Unforgotten, Effect, Fated, LetGo
<1>5. ASSUME NEW e \in Events, queue'[e] # 0 PROVE Carried(e)' \/ e \in overflow' \/ parking'[e] > 0
  BY <1>1, <1>2, <1>5 DEF Unforgotten, Effect, LetGo
<1>6. ASSUME retryCall'.at = "unlink" PROVE \E e \in Events : e = retryCall'.file /\ Carried(e)'
  <2>1. CASE retryCall' = retryCall
    <3>1. PICK e \in Events : e = retryCall.file /\ Carried(e)
      BY <1>1, <1>6, <2>1 DEF Unforgotten
    <3>2. ~TimersFire
      BY <1>6, <2>1 DEF TimersFire, Reread, NoCrashes
    <3> QED BY <1>2, <2>1, <3>1, <3>2 DEF Effect, LetGo
  <2> QED BY <1>6, <2>1, RetryCallStep
<1>7. Unforgotten'
  BY <1>4, <1>5, <1>6 DEF Unforgotten
<1> QED BY <1>1, <1>7 DEF Reread

LEMMA RereadInit == Init /\ Calm /\ budget["retry"] # 0 => Reread
<1> SUFFICES ASSUME Init, Calm, budget["retry"] # 0 PROVE Reread
  OBVIOUS
<1>1. AtStart /\ Typed
  BY InitFacts DEF MainInv
<1>2. NoCrashes
  BY <1>1, BoundsAssumption DEF AtStart, Init, Calm, BoundsAssumption, NoCrashes
<1>3. HistoryTyped /\ Unforgotten
  BY <1>1 DEF Init, AtStart, HistoryTyped, Unforgotten, NoCall
<1> QED BY <1>1, <1>2, <1>3 DEF Reread

LEMMA CalmInv == Calm => (Spec => [](Safe \/ Reread))
<1>1. SUFFICES ASSUME Calm PROVE Spec => [](Safe \/ Reread)
  OBVIOUS
<1>2. Init => Safe \/ Reread
  BY <1>1, SafeInit, RereadInit
<1>3. ~DiskMayFail
  BY <1>1 DEF Calm
<1>4. (Safe \/ Reread) /\ [Next]_vars => (Safe \/ Reread)'
  BY <1>3, SafeStep, RereadStep
<1> QED BY <1>2, <1>4, PTL DEF Spec

LEMMA ActiveInFlight == \A e \in Events : Active(e) => InFlight(e)
BY DEF Active, InFlight, ToSet

\* While file operations succeed and nobody calls clear, neither crashes, nor
\* overflows and retries, nor retryFailedEvents in a process that does not crash,
\* lose an accepted event: it was delivered, its file is there or about to be
\* written, or it is scheduled, but for those that had failed for good in a crash.
THEOREM CrashesLoseNothing == Calm => (Spec => []Kept)
<1>1. SUFFICES ASSUME Calm PROVE Spec => []Kept
  OBVIOUS
<1>2. Safe => Kept
  BY DEF Safe, Filed, Kept, InFile
<1>3. Reread => Kept
  BY ActiveInFlight DEF Reread, HistoryTyped, Unforgotten, Fated, Carried, Kept, InFile, Scheduled
<1>4. Spec => [](Safe \/ Reread)
  BY <1>1, CalmInv
<1> QED BY <1>2, <1>3, <1>4, PTL

\* Under the same conditions no entry of the map is forgotten: it waits, it is in a
\* batch, a timer is set for it, or a copy of it is in the overflow directory.
THEOREM NoEntryForgotten == Calm => (Spec => []EntryHasFuture)
<1>1. SUFFICES ASSUME Calm PROVE Spec => []EntryHasFuture
  OBVIOUS
<1>2. Safe => EntryHasFuture
  BY ActiveInFlight DEF Safe, HasFuture, EntryHasFuture, Scheduled
<1>3. Reread => EntryHasFuture
  BY ActiveInFlight DEF Reread, Unforgotten, Carried, EntryHasFuture, Scheduled
<1>4. Spec => [](Safe \/ Reread)
  BY <1>1, CalmInv
<1> QED BY <1>2, <1>3, <1>4, PTL

-----------------------------------------------------------------------------
(* What clear takes out stays out, as long as no file is read again *)

Unread == \A b \in Budgets : b["crash"] = 0 /\ b["retry"] = 0

NeverRead ==
    /\ budget \in [{"crash", "shutdown", "clear", "retry"} -> Nat]
    /\ budget["crash"] = 0 /\ budget["retry"] = 0
    /\ retryCall = NoCall

\* e is in the map, in a batch or with a timer: it may still be delivered.
Busy(e) == queue[e] # 0 \/ InFlight(e)

\* Whatever has a file or is at work was reported to the service.
Known ==
    /\ disk \cup persisting \cup cleared \subseteq arrived
    /\ \A e \in Events : Busy(e) => e \in arrived

TakenOut ==
    /\ cleared # {} => boot.at \in {"ready", "off"}
    /\ \A e \in cleared : delivered[e] = 0 /\ ~Busy(e)

CountsTyped == delivered \in [Events -> Nat]

Clean == Typed /\ NeverRead /\ CountsTyped /\ Known /\ TakenOut

LEMMA NeverReadStep == ASSUME Typed, NeverRead, [Next]_vars PROVE NeverRead'
<1>1. ASSUME UNCHANGED <<budget, retryCall>> PROVE NeverRead'
  BY <1>1 DEF NeverRead
<1>2. CASE UNCHANGED vars \/ Tick \/ ListFiles \/ ClearList \/ Restart
  BY <1>1, <1>2 DEF vars, calls, Tick, ListFiles, ClearList, Restart
<1>3. CASE Crash \/ RetryFailedEvents
  BY <1>3 DEF Crash, RetryFailedEvents, Spend, NeverRead
<1>4. CASE RetryList \/ RetryParked \/ RetryUnlinked
  BY <1>4 DEF RetryList, RetryParked, RetryUnlinked, NeverRead, NoCall
<1>5. CASE Shutdown \/ Clear
  BY <1>5 DEF Shutdown, Clear, Spend, NeverRead
<1>6. ASSUME NEW e \in Events, Enqueue(e) \/ Persisted(e) \/ Parked(e) \/ Load(e) \/ RetryRead(e) \/ ClearUnlink(e)
      PROVE  NeverRead'
  <2>1. ~RetryRead(e)
    BY DEF RetryRead, NeverRead, NoCall
  <2> QED BY <1>1, <1>6, <2>1 DEF Enqueue, Persisted, Parked, Load, ClearUnlink, calls
<1>7. ASSUME NEW s \in Slots, BatchAct(s) PROVE NeverRead'
  BY <1>1, <1>7 DEF BatchAct, Deliver, RetryLater, GiveUp, Removed, BatchParked, calls
<1>8. ASSUME NEW o \in Objects, RetryFires(o) PROVE NeverRead'
  BY <1>1, <1>8 DEF RetryFires, calls
<1> QED BY <1>2, <1>3, <1>4, <1>5, <1>6, <1>7, <1>8 DEF Next, BatchAct

\* The steps that can be taken while nobody crashes the process or calls
\* retryFailedEvents.
LEMMA UnreadSteps ==
    ASSUME NeverRead, [Next]_vars
    PROVE  \/ UNCHANGED vars \/ Tick \/ ListFiles \/ Restart \/ Shutdown \/ Clear \/ ClearList
           \/ \E e \in Events : Enqueue(e) \/ Persisted(e) \/ Parked(e) \/ Load(e) \/ ClearUnlink(e)
           \/ \E s \in Slots : BatchAct(s)
           \/ \E o \in Objects : RetryFires(o)
<1>1. ~Crash /\ ~RetryFailedEvents
  BY DEF Crash, RetryFailedEvents, Spend, NeverRead
<1>2. ~RetryList /\ ~RetryParked /\ ~RetryUnlinked
  BY DEF RetryList, RetryParked, RetryUnlinked, NeverRead, NoCall
<1>3. \A e \in Events : ~RetryRead(e)
  BY DEF RetryRead, NeverRead, NoCall
<1> QED BY <1>1, <1>2, <1>3 DEF Next, BatchAct

\* A batch is made of what the map holds.
LEMMA TakenIsBusy ==
    ASSUME Shaped(batch), NEW q \in [Events -> 0..Copies], NEW w, Moved(q, w), NEW e \in Events, NEW n \in 1..Copies,
           NEW s \in Slots, <<e, n>> \in ToSet(batch'[s].todo)
    PROVE  <<e, n>> \in ToSet(batch[s].todo) \/ q[e] # 0
<1>1. CASE batch'[s] = batch[s]
  BY <1>1
<1>2. CASE Fresh(batch'[s], q)
  <2>1. PICK k \in DOMAIN batch'[s].todo : batch'[s].todo[k] = <<e, n>>
    BY DEF ToSet
  <2>2. n = q[e] /\ n # 0
    <3>1. batch'[s].todo[k][1] = e /\ batch'[s].todo[k][2] = n
      BY <2>1
    <3>2. batch'[s].todo[k][2] = q[batch'[s].todo[k][1]]
      BY <1>2 DEF Fresh
    <3>3. n # 0
      BY SizesTyped
    <3> QED BY <3>1, <3>2, <3>3
  <2> QED BY <2>2
<1> QED BY <1>1, <1>2 DEF Moved

\* A step that may take a batch makes no other event busy.
LEMMA MovedBusy ==
    ASSUME Shaped(batch), queue' \in [Events -> 0..Copies], NEW w, Moved(queue', w), NEW e \in Events,
           \A n \in 1..Copies : retrying'[<<e, n>>] > 0 => retrying[<<e, n>>] > 0, Busy(e)'
    PROVE  Busy(e) \/ queue'[e] # 0
<1>1. CASE queue'[e] # 0
  BY <1>1
<1>2. ASSUME NEW s \in Slots, NEW n \in 1..Copies, <<e, n>> \in ToSet(batch'[s].todo)
      PROVE  Busy(e) \/ queue'[e] # 0
  BY <1>2, TakenIsBusy DEF Busy, InFlight
<1>3. ASSUME NEW n \in 1..Copies, retrying'[<<e, n>>] > 0 PROVE Busy(e)
  BY <1>3 DEF Busy, InFlight
<1> QED BY <1>1, <1>2, <1>3 DEF Busy, InFlight

LEMMA TailMembers ==
    ASSUME NEW S, NEW q \in Seq(S), q # <<>>
    PROVE  ToSet(Tail(q)) \subseteq ToSet(q) /\ Head(q) \in ToSet(q)
<1> DEFINE t == Tail(q)
<1>1. /\ Head(q) = q[1] /\ t \in Seq(S) /\ Len(t) = Len(q) - 1 /\ Len(q) \in Nat
      /\ \A i \in 1..Len(t) : t[i] = q[i + 1]
  BY HeadTailProperties, LenProperties
<1>2. DOMAIN t = 1..Len(t) /\ DOMAIN q = 1..Len(q) /\ Len(t) \in Nat
  BY <1>1, LenProperties
<1> HIDE DEF t
<1>3. 1 \in DOMAIN q /\ \A i \in 1..Len(t) : i + 1 \in DOMAIN q
  BY <1>1, <1>2
<1>4. ToSet(t) \subseteq ToSet(q)
  <2> SUFFICES ASSUME NEW i \in 1..Len(t) PROVE t[i] \in ToSet(q)
    BY <1>2 DEF ToSet
  <2>1. t[i] = q[i + 1] /\ i + 1 \in DOMAIN q
    BY <1>1, <1>3
  <2> QED BY <2>1 DEF ToSet
<1> QED BY <1>1, <1>3, <1>4 DEF ToSet, t

\* The steps of a batch make nothing busy.
LEMMA BatchBusy ==
    ASSUME Typed, NEW s \in Slots, BatchAct(s), NEW e \in Events, Busy(e)' PROVE Busy(e)
<1>1. /\ Shaped(batch) /\ queue \in [Events -> 0..Copies] /\ retrying \in [Objects -> Nat]
      /\ \A n \in 1..Copies : <<e, n>> \in Objects
  BY DEF Typed, EngineTyped, TimersTyped, Objects
<1>2. ASSUME NEW b, BatchGoesOn(s, b), ToSet(b.todo) \subseteq ToSet(batch[s].todo),
             queue'[e] # 0 => queue[e] # 0,
             \A n \in 1..Copies : retrying'[<<e, n>>] > 0 => retrying[<<e, n>>] > 0 \/ <<e, n>> \in ToSet(batch[s].todo)
      PROVE  Busy(e)
  <2>1. \A r \in Slots : batch'[r] = IF r = s THEN b ELSE batch[r]
    BY <1>1, <1>2, GoesOnFacts
  <2>2. ASSUME NEW r \in Slots, NEW n \in 1..Copies, <<e, n>> \in ToSet(batch'[r].todo) PROVE InFlight(e)
    BY <1>2, <2>1, <2>2 DEF InFlight
  <2>3. ASSUME NEW n \in 1..Copies, retrying'[<<e, n>>] > 0 PROVE InFlight(e)
    BY <1>2, <2>3 DEF InFlight
  <2> QED BY <1>2, <2>2, <2>3 DEF Busy, InFlight
<1>3. ASSUME batch[s].at \in {"process", "remove", "drop"}
      PROVE  /\ ToSet(After(batch[s]).todo) \subseteq ToSet(batch[s].todo)
             /\ Current(s) \in ToSet(batch[s].todo)
  <2>1. Shape(batch[s]) /\ batch[s].todo # <<>> /\ batch[s].todo \in Seq(Objects)
    BY <1>1, <1>3 DEF Shaped, Shape, BatchStates
  <2>2. After(batch[s]).todo = Tail(batch[s].todo) /\ Current(s) = Head(batch[s].todo)
    BY <1>1, <1>3, <2>1, AfterFacts, HeadFacts
  <2> QED BY <2>1, <2>2, TailMembers
<1>4. CASE Deliver(s) \/ GiveUp(s)
  <2>1. PICK b : BatchGoesOn(s, b) /\ b.todo = batch[s].todo
    <3>1. CASE Deliver(s)
      <4>1. [batch[s] EXCEPT !.at = "remove"].todo = batch[s].todo
        BY <1>1 DEF Shaped, Shape, BatchStates
      <4> QED BY <1>1, <3>1, <4>1, DeliverFacts
    <3>2. CASE GiveUp(s)
      <4>1. Failing(s).todo = batch[s].todo
        BY DEF Failing
      <4> QED BY <1>1, <3>2, <4>1, GiveUpFacts
    <3> QED BY <1>4, <3>1, <3>2
  <2>2. queue'[e] # 0 => queue[e] # 0
    BY <1>1, <1>4 DEF Deliver, GiveUp
  <2>3. retrying' = retrying
    BY <1>4 DEF Deliver, GiveUp
  <2> QED BY <1>2, <2>1, <2>2, <2>3
<1>5. CASE Removed(s)
  <2>1. batch[s].at \in {"remove", "drop"} /\ UNCHANGED <<queue, retrying>> /\ BatchGoesOn(s, After(batch[s]))
    BY <1>1, <1>5, NextEventFacts DEF Removed
  <2> QED BY <1>2, <1>3, <2>1
<1>6. CASE RetryLater(s)
  <2>1. /\ batch[s].at = "process" /\ queue' = queue /\ retrying' = [retrying EXCEPT ![Current(s)] = @ + 1]
        /\ BatchGoesOn(s, After(batch[s]))
    BY <1>1, <1>6, NextEventFacts DEF RetryLater
  <2>2. \A n \in 1..Copies : <<e, n>> # Current(s) => retrying'[<<e, n>>] = retrying[<<e, n>>]
    BY <1>1, <2>1
  <2> QED BY <1>2, <1>3, <2>1, <2>2
<1>7. CASE BatchParked(s)
  <2>1. PICK b : BatchGoesOn(s, b) /\ b.todo = <<>>
    BY <1>1, <1>7, BatchParkedFacts
  <2>2. UNCHANGED <<queue, retrying>>
    BY <1>7 DEF BatchParked
  <2>3. ToSet(b.todo) = {}
    BY <2>1 DEF ToSet
  <2> QED BY <1>2, <2>1, <2>2, <2>3
<1> QED BY <1>4, <1>5, <1>6, <1>7 DEF BatchAct

\* Nothing becomes busy but an event that is reported, or read at the start.
LEMMA BusySteps ==
    ASSUME Typed, NeverRead, [Next]_vars, NEW e \in Events, Busy(e)'
    PROVE  \/ Busy(e)
           \/ e \notin arrived /\ e \in arrived'
           \/ e \in disk /\ boot.at = "load"
<1>1. /\ Shaped(batch) /\ EngineTyped /\ queue \in [Events -> 0..Copies]
      /\ waiting \in Seq(Events) /\ Sorted(waiting) /\ retrying \in [Objects -> Nat]
      /\ \A n \in 1..Copies : <<e, n>> \in Objects
  BY DEF Typed, EngineTyped, TimersTyped, Objects
<1>2. ASSUME UNCHANGED <<queue, batch, retrying>> PROVE Busy(e)
  BY <1>2 DEF Busy, InFlight
<1>3. CASE UNCHANGED vars \/ ListFiles \/ ClearList \/ Restart \/ Shutdown
  BY <1>2, <1>3 DEF vars, memory, ListFiles, ClearList, Restart, Shutdown
<1>4. CASE Tick
  <2>1. UNCHANGED <<queue, retrying>>
    BY <1>4 DEF Tick
  <2>2. CASE UNCHANGED batch
    BY <1>2, <2>1, <2>2
  <2>3. CASE TakeBatch(queue, waiting)
    <3>1. Moved(queue', waiting)
      BY <1>1, <2>1, <2>3, TakeFacts
    <3>2. queue' \in [Events -> 0..Copies] /\ queue'[e] # 0 => Busy(e)
      BY <1>1, <2>1 DEF Busy
    <3>3. \A n \in 1..Copies : retrying'[<<e, n>>] > 0 => retrying[<<e, n>>] > 0
      BY <2>1
    <3>4. queue' \in [Events -> 0..Copies]
      BY <1>1, <2>1
    <3> QED BY <1>1, <3>1, <3>2, <3>3, <3>4, MovedBusy
  <2> QED BY <1>4, <2>2, <2>3 DEF Tick
<1>5. CASE Clear
  BY <1>1, <1>5 DEF Clear, Busy, InFlight
<1>6. ASSUME NEW f \in Events, Enqueue(f) PROVE Busy(e) \/ (e \notin arrived /\ e \in arrived')
  <2>1. UNCHANGED <<batch, retrying>> /\ f \notin arrived /\ f \in arrived'
    BY <1>6 DEF Enqueue
  <2>2. queue' = queue \/ queue' = [queue EXCEPT ![f] = 1]
    BY <1>6 DEF Enqueue
  <2> QED BY <1>1, <2>1, <2>2 DEF Busy, InFlight
<1>7. ASSUME NEW f \in Events, Persisted(f) PROVE Busy(e)
  <2>1. UNCHANGED <<queue, retrying>> /\ StartProcessing(queue, waiting)
    BY <1>7 DEF Persisted
  <2>2. Moved(queue', waiting) /\ queue' \in [Events -> 0..Copies]
    BY <1>1, <2>1, ProcessingFacts
  <2>3. queue'[e] # 0 => Busy(e)
    BY <2>1 DEF Busy
  <2> QED BY <1>1, <2>1, <2>2, <2>3, MovedBusy
<1>8. ASSUME NEW f \in Events, Parked(f) \/ ClearUnlink(f) PROVE Busy(e)
  BY <1>2, <1>8 DEF Parked, ClearUnlink, memory
<1>9. ASSUME NEW o \in Objects, Requeue(o), \A n \in 1..Copies : retrying'[<<e, n>>] > 0 => retrying[<<e, n>>] > 0
      PROVE  Busy(e) \/ e = o[1]
  <2>1. CASE UNCHANGED <<queue, batch>>
    BY <1>9, <2>1 DEF Busy, InFlight
  <2>2. CASE /\ queue' = [queue EXCEPT ![o[1]] = o[2]] /\ queue' \in [Events -> 0..Copies]
             /\ Moved(queue', Push(waiting, o[1]))
    <3>1. Busy(e) \/ queue'[e] # 0
      BY <1>1, <1>9, <2>2, MovedBusy
    <3>2. e = o[1] \/ queue'[e] = queue[e]
      BY <1>1, <2>2
    <3> QED BY <3>1, <3>2 DEF Busy
  <2> QED BY <1>1, <1>9, <2>1, <2>2, RequeueFacts
<1>10. ASSUME NEW f \in Events, Load(f) PROVE Busy(e) \/ (e \in disk /\ boot.at = "load")
  <2>1. CASE UNCHANGED memory
    BY <1>2, <2>1 DEF memory
  <2>2. ASSUME NEW n \in 1..Copies, Requeue(<<f, n>>), UNCHANGED retrying, f \in disk PROVE Busy(e) \/ e \in disk
    <3>1. <<f, n>> \in Objects /\ <<f, n>>[1] = f
      BY DEF Objects
    <3> QED BY <1>9, <2>2, <3>1
  <2> QED BY <1>10, <2>1, <2>2 DEF Load
<1>11. ASSUME NEW o \in Objects, RetryFires(o) PROVE Busy(e)
  <2>1. Requeue(o) /\ retrying[o] > 0 /\ retrying' = [retrying EXCEPT ![o] = @ - 1]
    BY <1>11 DEF RetryFires
  <2>2. ASSUME NEW n \in 1..Copies, retrying'[<<e, n>>] > 0 PROVE retrying[<<e, n>>] > 0
    BY <1>1, <2>1, <2>2
  <2>3. CASE e = o[1]
    <3>1. PICK f \in Events, n \in 1..Copies : o = <<f, n>>
      BY DEF Objects
    <3> QED BY <2>1, <2>3, <3>1 DEF Busy, InFlight
  <2> QED BY <1>9, <2>1, <2>2, <2>3
<1>12. ASSUME NEW s \in Slots, BatchAct(s) PROVE Busy(e)
  BY <1>12, BatchBusy
<1> QED BY <1>3, <1>4, <1>5, <1>6, <1>7, <1>8, <1>10, <1>11, <1>12, UnreadSteps

\* A file is written only for an event that was reported.
LEMMA KnownFiles ==
    ASSUME Typed, NeverRead, Known, [Next]_vars
    PROVE  disk' \cup persisting' \subseteq arrived' /\ arrived \subseteq arrived'
<1>1. disk \cup persisting \subseteq arrived
  BY DEF Known
<1>2. CASE UNCHANGED vars \/ Tick \/ ListFiles \/ Restart \/ Shutdown \/ Clear \/ ClearList
  BY <1>1, <1>2 DEF vars, files, past, Tick, ListFiles, Restart, Shutdown, Clear, ClearList
<1>3. ASSUME NEW e \in Events, Enqueue(e) \/ Persisted(e) \/ Parked(e) \/ Load(e) \/ ClearUnlink(e)
      PROVE  disk' \cup persisting' \subseteq arrived' /\ arrived \subseteq arrived'
  <2>1. CASE Enqueue(e)
    BY <1>1, <2>1 DEF Enqueue
  <2>2. CASE Persisted(e)
    BY <1>1, <2>2 DEF Persisted
  <2>3. CASE Parked(e) \/ Load(e)
    BY <1>1, <2>3 DEF Parked, Load, files
  <2>4. CASE ClearUnlink(e)
    BY <1>1, <2>4 DEF ClearUnlink, past
  <2> QED BY <1>3, <2>1, <2>2, <2>3, <2>4
<1>4. ASSUME NEW s \in Slots, BatchAct(s) PROVE disk' \cup persisting' \subseteq arrived' /\ arrived \subseteq arrived'
  BY <1>1, <1>4 DEF BatchAct, Deliver, RetryLater, GiveUp, Removed, BatchParked, files, past
<1>5. ASSUME NEW o \in Objects, RetryFires(o) PROVE disk' \cup persisting' \subseteq arrived' /\ arrived \subseteq arrived'
  BY <1>1, <1>5 DEF RetryFires, past
<1> QED BY <1>2, <1>3, <1>4, <1>5, UnreadSteps

\* Only an event at work is delivered.
LEMMA OnlyBusyDelivered ==
    ASSUME Typed, NeverRead, CountsTyped, [Next]_vars
    PROVE  CountsTyped' /\ \A e \in Events : delivered'[e] = delivered[e] \/ Busy(e)
<1>1. CASE delivered' = delivered
  BY <1>1 DEF CountsTyped
<1>2. ASSUME NEW s \in Slots, Deliver(s)
      PROVE  CountsTyped' /\ \A e \in Events : delivered'[e] = delivered[e] \/ Busy(e)
  <2> DEFINE c == Current(s)[1]
  <2>1. Shaped(batch) /\ batch[s].at = "process"
    BY <1>2 DEF Deliver, Typed, EngineTyped
  <2>2. Shape(batch[s]) /\ Current(s) = Head(batch[s].todo) /\ Current(s) \in Objects /\ c \in Events
    BY <2>1, HeadFacts
  <2>3. batch[s].todo \in Seq(Objects) /\ batch[s].todo # <<>>
    BY <2>1, <2>2 DEF Shape, BatchStates
  <2>4. Current(s) \in ToSet(batch[s].todo)
    BY <2>2, <2>3, TailMembers
  <2>5. InFlight(c)
    <3>1. PICK f \in Events, n \in 1..Copies : Current(s) = <<f, n>>
      BY <2>2 DEF Objects
    <3>2. c = f
      BY <3>1
    <3> QED BY <2>4, <3>1, <3>2 DEF InFlight
  <2>6. delivered' = [delivered EXCEPT ![c] = @ + 1]
    BY <1>2 DEF Deliver
  <2> HIDE DEF c
  <2> QED BY <2>2, <2>5, <2>6 DEF CountsTyped, Busy
<1>3. \/ delivered' = delivered
      \/ \E s \in Slots : Deliver(s)
  <2>1. CASE UNCHANGED vars \/ Tick \/ ListFiles \/ Restart \/ Shutdown \/ Clear \/ ClearList
    BY <2>1 DEF vars, past, Tick, ListFiles, Restart, Shutdown, Clear, ClearList
  <2>2. ASSUME NEW e \in Events, Enqueue(e) \/ Persisted(e) \/ Parked(e) \/ Load(e) \/ ClearUnlink(e)
        PROVE  delivered' = delivered
    BY <2>2 DEF Enqueue, Persisted, Parked, Load, ClearUnlink, past
  <2>3. ASSUME NEW s \in Slots, RetryLater(s) \/ GiveUp(s) \/ Removed(s) \/ BatchParked(s) PROVE delivered' = delivered
    BY <2>3 DEF RetryLater, GiveUp, Removed, BatchParked, past
  <2>4. ASSUME NEW o \in Objects, RetryFires(o) PROVE delivered' = delivered
    BY <2>4 DEF RetryFires, past
  <2> QED BY <2>1, <2>2, <2>3, <2>4, UnreadSteps DEF BatchAct
<1> QED BY <1>1, <1>2, <1>3

\* Once the files found at the start are read, none is any more.
LEMMA StaysReady ==
    ASSUME NeverRead, [Next]_vars, boot.at \in {"ready", "off"} PROVE boot'.at \in {"ready", "off"}
<1>1. CASE UNCHANGED vars \/ Tick \/ Shutdown \/ Clear \/ ClearList
  BY <1>1 DEF vars, calls, Tick, Shutdown, Clear, ClearList
<1>2. ~ListFiles /\ ~Restart /\ \A e \in Events : ~Load(e)
  BY DEF ListFiles, Restart, Load
<1>3. ASSUME NEW e \in Events, Enqueue(e) \/ Persisted(e) \/ Parked(e) \/ ClearUnlink(e) PROVE boot' = boot
  BY <1>3 DEF Enqueue, Persisted, Parked, ClearUnlink, calls
<1>4. ASSUME NEW s \in Slots, BatchAct(s) PROVE boot' = boot
  BY <1>4 DEF BatchAct, Deliver, RetryLater, GiveUp, Removed, BatchParked, calls
<1>5. ASSUME NEW o \in Objects, RetryFires(o) PROVE boot' = boot
  BY <1>5 DEF RetryFires, calls
<1> QED BY <1>1, <1>2, <1>3, <1>4, <1>5, UnreadSteps

LEMMA OnlyClearTakesOut == ASSUME NeverRead, [Next]_vars PROVE cleared' = cleared \/ Clear
<1>1. CASE UNCHANGED vars \/ Tick \/ ListFiles \/ Restart \/ Shutdown \/ ClearList
  BY <1>1 DEF vars, past, outcome, Tick, ListFiles, Restart, Shutdown, ClearList
<1>2. ASSUME NEW e \in Events, Enqueue(e) \/ Persisted(e) \/ Parked(e) \/ Load(e) \/ ClearUnlink(e)
      PROVE  cleared' = cleared
  BY <1>2 DEF Enqueue, Persisted, Parked, Load, ClearUnlink, past, outcome
<1>3. ASSUME NEW s \in Slots, BatchAct(s) PROVE cleared' = cleared
  BY <1>3 DEF BatchAct, Deliver, RetryLater, GiveUp, Removed, BatchParked, past, outcome
<1>4. ASSUME NEW o \in Objects, RetryFires(o) PROVE cleared' = cleared
  BY <1>4 DEF RetryFires, past, outcome
<1> QED BY <1>1, <1>2, <1>3, <1>4, UnreadSteps

LEMMA CleanStep == Clean /\ [Next]_vars => Clean'
<1> SUFFICES ASSUME Clean, [Next]_vars PROVE Clean'
  OBVIOUS
<1>1. Typed /\ NeverRead /\ CountsTyped /\ Known /\ TakenOut /\ cleared \subseteq Events
  BY DEF Clean, Typed, FilesTyped
<1>2. Typed' /\ NeverRead' /\ CountsTyped'
  BY <1>1, TypesStep, NeverReadStep, OnlyBusyDelivered
<1>3. disk' \cup persisting' \subseteq arrived' /\ arrived \subseteq arrived'
  BY <1>1, KnownFiles
<1>4. \A e \in Events : Busy(e)' => Busy(e) \/ (e \notin arrived /\ e \in arrived') \/ (e \in disk /\ boot.at = "load")
  BY <1>1, BusySteps
<1>5. \A e \in Events : Busy(e)' => e \in arrived'
  BY <1>1, <1>3, <1>4 DEF Known
<1>6. ASSUME cleared' = cleared PROVE Known' /\ TakenOut'
  <2>1. Known'
    BY <1>1, <1>3, <1>5, <1>6 DEF Known
  <2>2. cleared' # {} => boot'.at \in {"ready", "off"}
    BY <1>1, <1>6, StaysReady DEF TakenOut
  <2>3. ASSUME NEW e \in cleared PROVE delivered'[e] = 0 /\ ~(Busy(e)')
    <3>1. e \in Events /\ e \in arrived /\ delivered[e] = 0 /\ ~Busy(e) /\ boot.at \in {"ready", "off"}
      BY <1>1 DEF TakenOut, Known
    <3> QED BY <1>1, <1>4, <3>1, OnlyBusyDelivered
  <2> QED BY <1>6, <2>1, <2>2, <2>3 DEF TakenOut
<1>7. ASSUME Clear PROVE Known' /\ TakenOut'
  <2>1. /\ UNCHANGED <<arrived, delivered, boot, batch, retrying>>
        /\ queue' = [e \in Events |-> 0]
        /\ cleared' = cleared \cup {e \in Events :
                         boot.at \in {"ready", "off"} /\ queue[e] # 0 /\ delivered[e] = 0 /\ ~InFlight(e)}
    BY <1>7 DEF Clear, JustCleared
  <2>2. \A e \in cleared' : e \in Events /\ e \in arrived /\ delivered[e] = 0 /\ ~InFlight(e) /\ boot.at \in {"ready", "off"}
    BY <1>1, <2>1 DEF Known, TakenOut, Busy
  <2>3. \A e \in Events : ~InFlight(e) => ~(Busy(e)')
    BY <2>1 DEF Busy, InFlight
  <2>4. Known'
    BY <1>3, <1>5, <2>1, <2>2 DEF Known
  <2>5. TakenOut'
    BY <2>1, <2>2, <2>3 DEF TakenOut
  <2> QED BY <2>4, <2>5
<1> QED BY <1>1, <1>2, <1>6, <1>7, OnlyClearTakesOut DEF Clean

LEMMA CleanInit == Init /\ Unread => Clean
<1> SUFFICES ASSUME Init, Unread PROVE Clean
  OBVIOUS
<1>1. AtStart /\ Typed
  BY InitFacts DEF MainInv
<1>2. NeverRead
  BY <1>1, BoundsAssumption DEF AtStart, Init, Unread, BoundsAssumption, NeverRead
<1>3. retrying = [o \in Objects |-> 0] /\ \A e \in Events, n \in 1..Copies : <<e, n>> \in Objects
  BY DEF Init, Blank, Objects
<1>4. \A e \in Events : ~Busy(e)
  <2> SUFFICES ASSUME NEW e \in Events PROVE ~Busy(e)
    OBVIOUS
  <2>1. queue[e] = 0 /\ \A n \in 1..Copies : ~(retrying[<<e, n>>] > 0)
    BY <1>1, <1>3 DEF AtStart
  <2>2. \A s \in Slots : batch[s].todo = <<>>
    BY <1>1 DEF AtStart, NoBatch
  <2>3. ToSet(<<>>) = {}
    BY DEF ToSet
  <2> QED BY <2>1, <2>2, <2>3 DEF Busy, InFlight
<1>5. CountsTyped /\ TakenOut
  BY DEF Init, CountsTyped, TakenOut
<1>6. Known
  BY <1>1, <1>4 DEF AtStart, Init, Known
<1> QED BY <1>1, <1>2, <1>5, <1>6 DEF Clean

\* As long as the process does not die and nobody calls retryFailedEvents, whatever
\* only waited when clear was called is never delivered, however many batches,
\* retries and writes were in flight, and whether file operations fail or not.
THEOREM ClearedNeverDelivered == Unread => (Spec => []ClearTakesOut)
<1>1. SUFFICES ASSUME Unread PROVE Spec => []ClearTakesOut
  OBVIOUS
<1>2. Init => Clean
  BY <1>1, CleanInit
<1>3. Clean => ClearTakesOut
  BY DEF Clean, TakenOut, ClearTakesOut
<1> QED BY <1>2, <1>3, CleanStep, PTL DEF Spec

-----------------------------------------------------------------------------
(* No event is delivered twice *)

\* retryFailedEvents is called without clear, on a disk that neither fails nor is slow.
Orderly == \A b \in Budgets : b["retry"] = 0 \/ (b["clear"] = 0 /\ ~DiskMayFail /\ ~SlowDisk)

OneReader ==
    /\ budget \in [{"crash", "shutdown", "clear", "retry"} -> Nat]
    /\ \/ budget["retry"] = 0 /\ retryCall = NoCall
       \/ budget["clear"] = 0 /\ clearCall = NoCall /\ ~DiskMayFail /\ ~SlowDisk
    /\ retryCall.at = "park" => retryCall.file \in overflow

\* The k-th object of batch b is one of e, and still to be processed.
Ahead(b, e, k) == b.todo[k][1] = e /\ (k = 1 => b.at = "process")

\* The places from which memory may deliver e, or write it to the overflow directory.
Waits(e) == e \in ToSet(waiting)
Works(e) == \E s \in Slots : \E k \in DOMAIN batch[s].todo : Ahead(batch[s], e, k)
Timed(e) == \E n \in 1..Copies : retrying[<<e, n>>] > 0
Parks(e) == parking[e] > 0
Fails(e) == \E s \in Slots : \E k \in DOMAIN batch[s].failed : batch[s].failed[k][1] = e
Held(e) == Waits(e) \/ Works(e) \/ Timed(e) \/ Parks(e) \/ Fails(e)

LoneWork(e) ==
    \A s, r \in Slots : \A j \in DOMAIN batch[s].todo, k \in DOMAIN batch[r].todo :
        Ahead(batch[s], e, j) /\ Ahead(batch[r], e, k) => s = r /\ j = k
LoneTimer(e) ==
    \A n, m \in 1..Copies :
        retrying[<<e, n>>] > 0 /\ retrying[<<e, m>>] > 0 => n = m /\ retrying[<<e, n>>] <= 1
LoneFailure(e) ==
    \A s, r \in Slots : \A j \in DOMAIN batch[s].failed, k \in DOMAIN batch[r].failed :
        batch[s].failed[j][1] = e /\ batch[r].failed[k][1] = e => s = r /\ j = k

\* Each of these places holds e once, and only one of them does.
Lone(e) == OnceIn(waiting, e) /\ LoneWork(e) /\ LoneTimer(e) /\ parking[e] <= 1 /\ LoneFailure(e)

Apart(e) ==
    /\ Waits(e) => ~Works(e) /\ ~Timed(e) /\ ~Parks(e) /\ ~Fails(e)
    /\ Works(e) => ~Timed(e) /\ ~Parks(e) /\ ~Fails(e)
    /\ Timed(e) => ~Parks(e) /\ ~Fails(e)
    /\ Parks(e) => ~Fails(e)

\* A file is a second copy only while it is being removed, or until memory has
\* written it again.
Stored(e) ==
    /\ delivered[e] <= 1
    /\ Held(e) \/ e \in overflow => delivered[e] = 0
    /\ e \in disk => e \notin overflow
    /\ e \in disk /\ delivered[e] > 0 => Removing(e)
    /\ e \in disk /\ Fails(e) => Dropping(e)
    /\ e \in overflow /\ Held(e) => retryCall.at = "unlink" /\ retryCall.file = e

OneCopy(e) == Lone(e) /\ Apart(e) /\ Stored(e)

Absent(e) == ~Held(e) /\ e \notin disk \cup overflow \cup persisting /\ delivered[e] = 0

Single ==
    /\ Typed /\ CountsTyped /\ OneReader
    /\ \A e \in Events \ arrived : Absent(e)
    /\ \A e \in Events \ doubled : OneCopy(e)

LEMMA ObjectFacts ==
    ASSUME NEW o \in Objects
    PROVE  o[1] \in Events /\ \E n \in 1..Copies : o = <<o[1], n>>
BY DEF Objects

LEMMA BatchTypes ==
    ASSUME Shaped(batch), NEW s \in Slots
    PROVE  /\ batch[s].todo \in Seq(Objects) /\ batch[s].failed \in Seq(Objects)
           /\ DOMAIN batch[s].todo = 1..Len(batch[s].todo) /\ Len(batch[s].todo) \in Nat
           /\ DOMAIN batch[s].failed = 1..Len(batch[s].failed) /\ Len(batch[s].failed) \in Nat
           /\ \A k \in DOMAIN batch[s].todo : batch[s].todo[k] \in Objects
           /\ \A k \in DOMAIN batch[s].failed : batch[s].failed[k] \in Objects
<1>1. batch[s].todo \in Seq(Objects) /\ batch[s].failed \in Seq(Objects)
  BY DEF Shaped, Shape, BatchStates
<1>2. \A t \in Seq(Objects) : DOMAIN t = 1..Len(t) /\ Len(t) \in Nat /\ \A k \in DOMAIN t : t[k] \in Objects
  BY LenProperties, ElementOfSeq
<1> QED BY <1>1, <1>2

\* What Parsed and Persisted look at covers the places of an event.
LEMMA ScheduledFacts ==
    ASSUME Shaped(batch), NEW e \in Events
    PROVE  /\ Waits(e) \/ Works(e) \/ Timed(e) \/ Removing(e) \/ Dropping(e) => Scheduled(e)
           /\ Fails(e) <=> GivenUp(e)
<1>1. ASSUME NEW s \in Slots, NEW k \in DOMAIN batch[s].todo, batch[s].todo[k][1] = e PROVE InFlight(e)
  <2>1. PICK n \in 1..Copies : batch[s].todo[k] = <<e, n>>
    BY <1>1, BatchTypes, ObjectFacts
  <2> QED BY <2>1 DEF InFlight, ToSet
<1>2. ASSUME NEW s \in Slots, batch[s].at \in {"remove", "drop"}, Current(s)[1] = e PROVE InFlight(e)
  <2>1. batch[s].todo # <<>> /\ batch[s].todo \in Seq(Objects) /\ Current(s) = Head(batch[s].todo)
    BY <1>2, BatchTypes, HeadFacts DEF Shape
  <2>2. Head(batch[s].todo) \in ToSet(batch[s].todo)
    BY <2>1, TailMembers
  <2> QED BY <1>1, <1>2, <2>1, <2>2 DEF ToSet
<1>3. ASSUME NEW s \in Slots, NEW k \in DOMAIN batch[s].failed, batch[s].failed[k][1] = e PROVE GivenUp(e)
  <2>1. PICK n \in 1..Copies : batch[s].failed[k] = <<e, n>>
    BY <1>3, BatchTypes, ObjectFacts
  <2> QED BY <2>1 DEF GivenUp, ToSet
<1>4. ASSUME NEW s \in Slots, NEW n \in 1..Copies, <<e, n>> \in ToSet(batch[s].failed) PROVE Fails(e)
  <2>1. PICK k \in DOMAIN batch[s].failed : batch[s].failed[k] = <<e, n>>
    BY <1>4 DEF ToSet
  <2>2. batch[s].failed[k][1] = e
    BY <2>1
  <2> QED BY <2>2 DEF Fails
<1>5. Works(e) \/ Timed(e) \/ Removing(e) \/ Dropping(e) => InFlight(e)
  BY <1>1, <1>2 DEF Works, Ahead, Timed, Removing, Dropping, InFlight
<1> QED BY <1>3, <1>4, <1>5 DEF Scheduled, Waits, Fails, GivenUp

\* In the batch of s, what is ahead was ahead before, d places further back.
LEMMA WorkShrinks ==
    ASSUME Shaped(batch), NEW s \in Slots, NEW b, BatchGoesOn(s, b), NEW e, NEW d \in Nat,
           \A j \in DOMAIN b.todo : Ahead(b, e, j) => j + d \in DOMAIN batch[s].todo /\ Ahead(batch[s], e, j + d)
    PROVE  (Works(e)' => Works(e)) /\ (LoneWork(e) => LoneWork(e)')
<1>1. \A r \in Slots : batch'[r] = IF r = s THEN b ELSE batch[r]
  BY GoesOnFacts
<1>2. \A r \in Slots : \A j \in DOMAIN batch'[r].todo : Ahead(batch'[r], e, j) =>
        \E i \in DOMAIN batch[r].todo : Ahead(batch[r], e, i) /\ i = j + (IF r = s THEN d ELSE 0)
  <2> SUFFICES ASSUME NEW r \in Slots, NEW j \in DOMAIN batch'[r].todo, Ahead(batch'[r], e, j)
               PROVE  \E i \in DOMAIN batch[r].todo : Ahead(batch[r], e, i) /\ i = j + (IF r = s THEN d ELSE 0)
    OBVIOUS
  <2>1. CASE r = s
    BY <1>1, <2>1
  <2>2. CASE r # s
    <3>1. batch'[r] = batch[r] /\ j \in Nat
      BY <1>1, <2>2, BatchTypes
    <3>2. j + (IF r = s THEN d ELSE 0) = j
      BY <2>2, <3>1
    <3> QED BY <3>1, <3>2
  <2> QED BY <2>1, <2>2
<1>3. \A r \in Slots : \A j \in DOMAIN batch'[r].todo : j \in Nat
  <2>1. DOMAIN b.todo \subseteq Nat
    <3>1. b.todo \in Seq(Objects)
      BY DEF BatchGoesOn, Shape, BatchStates
    <3> QED BY <3>1, LenProperties
  <2> QED BY <1>1, <2>1, BatchTypes
<1>4. ASSUME LoneWork(e), NEW q \in Slots, NEW r \in Slots,
             NEW j \in DOMAIN batch'[q].todo, NEW k \in DOMAIN batch'[r].todo,
             Ahead(batch'[q], e, j), Ahead(batch'[r], e, k)
      PROVE  q = r /\ j = k
  <2>1. PICK i \in DOMAIN batch[q].todo : Ahead(batch[q], e, i) /\ i = j + (IF q = s THEN d ELSE 0)
    BY <1>2, <1>4
  <2>2. PICK l \in DOMAIN batch[r].todo : Ahead(batch[r], e, l) /\ l = k + (IF r = s THEN d ELSE 0)
    BY <1>2, <1>4
  <2>3. q = r /\ i = l
    BY <1>4, <2>1, <2>2 DEF LoneWork
  <2>4. j \in Nat /\ k \in Nat
    BY <1>3
  <2> QED BY <2>1, <2>2, <2>3, <2>4
<1> QED BY <1>2, <1>4 DEF Works, LoneWork

\* The same for the events that have failed.
LEMMA FailuresShrink ==
    ASSUME Shaped(batch), NEW s \in Slots, NEW b, BatchGoesOn(s, b), NEW e, NEW d \in Nat,
           \A j \in DOMAIN b.failed :
               b.failed[j][1] = e => j + d \in DOMAIN batch[s].failed /\ batch[s].failed[j + d][1] = e
    PROVE  (Fails(e)' => Fails(e)) /\ (LoneFailure(e) => LoneFailure(e)')
<1>1. \A r \in Slots : batch'[r] = IF r = s THEN b ELSE batch[r]
  BY GoesOnFacts
<1>2. \A r \in Slots : \A j \in DOMAIN batch'[r].failed : batch'[r].failed[j][1] = e =>
        \E i \in DOMAIN batch[r].failed : batch[r].failed[i][1] = e /\ i = j + (IF r = s THEN d ELSE 0)
  <2> SUFFICES ASSUME NEW r \in Slots, NEW j \in DOMAIN batch'[r].failed, batch'[r].failed[j][1] = e
               PROVE  \E i \in DOMAIN batch[r].failed :
                          batch[r].failed[i][1] = e /\ i = j + (IF r = s THEN d ELSE 0)
    OBVIOUS
  <2>1. CASE r = s
    BY <1>1, <2>1
  <2>2. CASE r # s
    <3>1. batch'[r] = batch[r] /\ j \in Nat
      BY <1>1, <2>2, BatchTypes
    <3>2. j + (IF r = s THEN d ELSE 0) = j
      BY <2>2, <3>1
    <3> QED BY <3>1, <3>2
  <2> QED BY <2>1, <2>2
<1>3. \A r \in Slots : \A j \in DOMAIN batch'[r].failed : j \in Nat
  <2>1. DOMAIN b.failed \subseteq Nat
    <3>1. b.failed \in Seq(Objects)
      BY DEF BatchGoesOn, Shape, BatchStates
    <3> QED BY <3>1, LenProperties
  <2> QED BY <1>1, <2>1, BatchTypes
<1>4. ASSUME LoneFailure(e), NEW q \in Slots, NEW r \in Slots,
             NEW j \in DOMAIN batch'[q].failed, NEW k \in DOMAIN batch'[r].failed,
             batch'[q].failed[j][1] = e, batch'[r].failed[k][1] = e
      PROVE  q = r /\ j = k
  <2>1. PICK i \in DOMAIN batch[q].failed : batch[q].failed[i][1] = e /\ i = j + (IF q = s THEN d ELSE 0)
    BY <1>2, <1>4
  <2>2. PICK l \in DOMAIN batch[r].failed : batch[r].failed[l][1] = e /\ l = k + (IF r = s THEN d ELSE 0)
    BY <1>2, <1>4
  <2>3. q = r /\ i = l
    BY <1>4, <2>1, <2>2 DEF LoneFailure
  <2>4. j \in Nat /\ k \in Nat
    BY <1>3
  <2> QED BY <2>1, <2>2, <2>3, <2>4
<1> QED BY <1>2, <1>4 DEF Fails, LoneFailure

\* When an event is dealt with, only those behind it are ahead.
LEMMA AfterAhead ==
    ASSUME NEW b, Shape(b), b.at \in {"process", "remove", "drop"}, NEW e
    PROVE  \A j \in DOMAIN After(b).todo :
              /\ j + 1 \in DOMAIN b.todo /\ j + 1 # 1
              /\ Ahead(After(b), e, j) => Ahead(b, e, j + 1)
<1> DEFINE t == Tail(b.todo)
<1>1. b.todo \in Seq(Objects) /\ b.todo # <<>>
  BY DEF Shape, BatchStates
<1>2. /\ t \in Seq(Objects) /\ Len(t) = Len(b.todo) - 1 /\ Len(b.todo) \in Nat
      /\ \A i \in 1..Len(t) : t[i] = b.todo[i + 1]
  BY <1>1, HeadTailProperties, LenProperties
<1>3. DOMAIN t = 1..Len(t) /\ DOMAIN b.todo = 1..Len(b.todo) /\ Len(t) \in Nat
  BY <1>1, <1>2, LenProperties
<1>4. After(b).todo = t
  BY AfterFacts
<1> HIDE DEF t
<1> SUFFICES ASSUME NEW j \in 1..Len(t)
             PROVE  j + 1 \in DOMAIN b.todo /\ j + 1 # 1 /\ (Ahead(After(b), e, j) => Ahead(b, e, j + 1))
  BY <1>3, <1>4
<1>5. j + 1 \in 1..Len(b.todo) /\ j + 1 # 1
  BY <1>2, <1>3
<1>6. t[j] = b.todo[j + 1]
  BY <1>2
<1> QED BY <1>3, <1>4, <1>5, <1>6 DEF Ahead

\* A step that may take a batch leaves the batches in flight as they are.
KeepsBatches(e) ==
    /\ Fails(e)' <=> Fails(e)
    /\ LoneFailure(e) => LoneFailure(e)'
    /\ Removing(e) => Removing(e)'
    /\ Dropping(e) => Dropping(e)'

LEMMA MovedKeeps ==
    ASSUME Shaped(batch), NEW q, NEW w, Moved(q, w), NEW e PROVE KeepsBatches(e)
<1>1. \A s \in Slots : /\ batch'[s].failed = batch[s].failed
                       /\ batch[s].at \in {"remove", "drop"} => batch'[s] = batch[s]
  BY EngineKeepsBatches
<1> QED BY <1>1 DEF KeepsBatches, Fails, LoneFailure, Removing, Dropping, Current

LEMMA SameKeeps == ASSUME UNCHANGED batch, NEW e PROVE KeepsBatches(e)
BY DEF KeepsBatches, Fails, LoneFailure, Removing, Dropping, Current

\* Only what waited is taken.
LEMMA MovedHeld ==
    ASSUME NEW q, NEW w, Moved(q, w), NEW e
    PROVE  (Waits(e)' => e \in ToSet(w)) /\ (Works(e)' => Works(e) \/ e \in ToSet(w))
<1>1. TakenOnce(w) /\ ToSet(waiting') \subseteq ToSet(w)
  BY DEF Moved
<1>2. ASSUME NEW s \in Slots, NEW k \in DOMAIN batch'[s].todo, Ahead(batch'[s], e, k)
      PROVE  Works(e) \/ e \in ToSet(w)
  <2>1. CASE batch'[s] = batch[s]
    BY <1>2, <2>1 DEF Works
  <2>2. CASE batch'[s] # batch[s]
    BY <1>1, <1>2, <2>2 DEF TakenOnce, Ahead
  <2> QED BY <2>1, <2>2
<1> QED BY <1>1, <1>2 DEF Waits, Works

\* An event that waits once, or is at work once, is then taken, waits or works once.
LEMMA MovedOnce ==
    ASSUME Shaped(batch), NEW q, NEW w, Moved(q, w), NEW e \in Events,
           OnceIn(w, e), LoneWork(e), e \in ToSet(w) => ~Works(e)
    PROVE  OnceIn(waiting', e) /\ LoneWork(e)' /\ (Waits(e)' => ~(Works(e)'))
<1>1. TakenOnce(w) /\ OnceIn(waiting', e) /\ ToSet(waiting') \subseteq ToSet(w)
  BY DEF Moved, TakenOnce
<1>2. ASSUME NEW s \in Slots, batch'[s] # batch[s], NEW k \in DOMAIN batch'[s].todo, Ahead(batch'[s], e, k)
      PROVE  /\ e \in ToSet(w) /\ e \notin ToSet(waiting')
             /\ \A j \in DOMAIN batch'[s].todo : Ahead(batch'[s], e, j) => k = j
  BY <1>1, <1>2 DEF TakenOnce, Ahead
<1>3. ASSUME NEW s \in Slots, batch'[s] = batch[s], NEW k \in DOMAIN batch'[s].todo, Ahead(batch'[s], e, k)
      PROVE  Works(e)
  BY <1>3 DEF Works
<1>4. Waits(e)' => ~(Works(e)')
  <2> SUFFICES ASSUME e \in ToSet(waiting'), NEW s \in Slots, NEW k \in DOMAIN batch'[s].todo, Ahead(batch'[s], e, k)
               PROVE  FALSE
    BY DEF Waits, Works
  <2> QED BY <1>1, <1>2, <1>3
<1>5. LoneWork(e)'
  <2> SUFFICES ASSUME NEW s \in Slots, NEW r \in Slots,
                      NEW j \in DOMAIN batch'[s].todo, NEW k \in DOMAIN batch'[r].todo,
                      Ahead(batch'[s], e, j), Ahead(batch'[r], e, k)
               PROVE  s = r /\ j = k
    BY DEF LoneWork
  <2>1. CASE batch'[s] # batch[s] /\ batch'[r] # batch[r]
    <3>1. s = r
      BY <1>1, <2>1 DEF TakenOnce
    <3> QED BY <1>2, <2>1, <3>1
  <2>2. CASE batch'[s] = batch[s] /\ batch'[r] = batch[r]
    BY <2>2 DEF LoneWork
  <2>3. CASE batch'[s] # batch[s] /\ batch'[r] = batch[r]
    BY <1>2, <1>3, <2>3
  <2>4. CASE batch'[s] = batch[s] /\ batch'[r] # batch[r]
    BY <1>2, <1>3, <2>4
  <2> QED BY <2>1, <2>2, <2>3, <2>4
<1> QED BY <1>1, <1>4, <1>5

\* The same for all the places of an event, when timers and parked events were
\* dealt with.
LEMMA MovedPlaces ==
    ASSUME Shaped(batch), NEW q, NEW w, Moved(q, w), NEW e \in Events,
           OnceIn(w, e), LoneWork(e), LoneTimer(e)', parking'[e] <= 1, LoneFailure(e),
           e \in ToSet(w) => ~Works(e) /\ ~(Timed(e)') /\ ~(Parks(e)') /\ ~Fails(e),
           Works(e) => ~(Timed(e)') /\ ~(Parks(e)') /\ ~Fails(e),
           Timed(e)' => ~(Parks(e)') /\ ~Fails(e),
           Parks(e)' => ~Fails(e)
    PROVE  /\ Lone(e)' /\ Apart(e)' /\ KeepsBatches(e)
           /\ Held(e)' => e \in ToSet(w) \/ Works(e) \/ Timed(e)' \/ Parks(e)' \/ Fails(e)
<1>1. OnceIn(waiting', e) /\ LoneWork(e)' /\ (Waits(e)' => ~(Works(e)'))
  BY MovedOnce
<1>2. (Waits(e)' => e \in ToSet(w)) /\ (Works(e)' => Works(e) \/ e \in ToSet(w))
  BY MovedHeld
<1>3. KeepsBatches(e)
  BY MovedKeeps
<1>4. Lone(e)'
  BY <1>1, <1>3 DEF Lone, KeepsBatches
<1>5. Apart(e)'
  BY <1>1, <1>2, <1>3 DEF Apart, KeepsBatches
<1> QED BY <1>2, <1>3, <1>4, <1>5 DEF Held, KeepsBatches

\* A step that may take a batch, and touches neither timers nor parked events.
LEMMA EnginePlaces ==
    ASSUME Typed, NEW q, Moved(q, waiting), UNCHANGED <<retrying, parking>>, NEW e \in Events, Lone(e), Apart(e)
    PROVE  Lone(e)' /\ Apart(e)' /\ KeepsBatches(e) /\ (Held(e)' => Held(e))
<1>1. Shaped(batch) /\ OnceIn(waiting, e) /\ LoneWork(e) /\ LoneTimer(e) /\ parking[e] <= 1 /\ LoneFailure(e)
  BY DEF Typed, EngineTyped, Lone
<1>2. /\ LoneTimer(e)' /\ parking'[e] <= 1 /\ (Timed(e)' <=> Timed(e)) /\ (Parks(e)' <=> Parks(e))
  BY <1>1 DEF LoneTimer, Timed, Parks
<1>3. /\ Waits(e) => ~Works(e) /\ ~Timed(e) /\ ~Parks(e) /\ ~Fails(e)
      /\ Works(e) => ~Timed(e) /\ ~Parks(e) /\ ~Fails(e)
      /\ Timed(e) => ~Parks(e) /\ ~Fails(e)
      /\ Parks(e) => ~Fails(e)
  BY DEF Apart
<1>4. Waits(e) <=> e \in ToSet(waiting)
  BY DEF Waits
<1>5. /\ Lone(e)' /\ Apart(e)' /\ KeepsBatches(e)
      /\ Held(e)' => e \in ToSet(waiting) \/ Works(e) \/ Timed(e)' \/ Parks(e)' \/ Fails(e)
  BY <1>1, <1>2, <1>3, <1>4, MovedPlaces
<1> QED BY <1>2, <1>4, <1>5 DEF Held

\* An object is queued again: its event then waits, is taken, or is parked, once.
LEMMA RequeuePlaces ==
    ASSUME Typed, NEW o \in Objects, Requeue(o), NEW e \in Events, Lone(e), Apart(e),
           LoneTimer(e)', Timed(e)' => Timed(e),
           e = o[1] => ~Waits(e) /\ ~Works(e) /\ ~(Timed(e)') /\ ~Parks(e) /\ ~Fails(e)
    PROVE  Lone(e)' /\ Apart(e)' /\ KeepsBatches(e) /\ (Held(e)' => Held(e) \/ e = o[1])
<1>1. /\ Shaped(batch) /\ EngineTyped /\ waiting \in Seq(Events) /\ Sorted(waiting) /\ parking \in [Events -> Nat]
      /\ OnceIn(waiting, e) /\ LoneWork(e) /\ LoneTimer(e) /\ parking[e] <= 1 /\ LoneFailure(e) /\ o[1] \in Events
  BY ObjectFacts DEF Typed, EngineTyped, TimersTyped, Lone
<1>2. /\ Waits(e) => ~Works(e) /\ ~Timed(e) /\ ~Parks(e) /\ ~Fails(e)
      /\ Works(e) => ~Timed(e) /\ ~Parks(e) /\ ~Fails(e)
      /\ Timed(e) => ~Parks(e) /\ ~Fails(e)
      /\ Parks(e) => ~Fails(e)
  BY DEF Apart
<1>3. CASE Park(o[1]) /\ UNCHANGED <<queue, waiting, batch>>
  <2>1. KeepsBatches(e)
    BY <1>3, SameKeeps
  <2>2. (Waits(e)' <=> Waits(e)) /\ (Works(e)' <=> Works(e)) /\ LoneWork(e)' /\ OnceIn(waiting', e)
    BY <1>1, <1>3 DEF Waits, Works, LoneWork
  <2>3. parking'[e] <= 1 /\ (Parks(e)' => Parks(e) \/ e = o[1])
    BY <1>1, <1>3 DEF Park, Parks
  <2>4. Lone(e)'
    BY <1>1, <2>1, <2>2, <2>3 DEF Lone, KeepsBatches
  <2>5. Apart(e)'
    BY <1>2, <2>1, <2>2, <2>3 DEF Apart, KeepsBatches
  <2> QED BY <2>1, <2>2, <2>3, <2>4, <2>5 DEF Held, KeepsBatches
<1>4. CASE /\ parking' = parking /\ Moved(queue', Push(waiting, o[1]))
           /\ ToSet(Push(waiting, o[1])) = ToSet(waiting) \cup {o[1]}
  <2> DEFINE w == Push(waiting, o[1])
  <2>1. OnceIn(w, e)
    BY <1>1, PushFacts DEF Waits
  <2>2. e \in ToSet(w) <=> Waits(e) \/ e = o[1]
    BY <1>4 DEF Waits
  <2>3. Moved(queue', w) /\ parking'[e] <= 1 /\ (Parks(e)' <=> Parks(e))
    BY <1>1, <1>4 DEF Parks
  <2> HIDE DEF w
  <2>4. /\ Lone(e)' /\ Apart(e)' /\ KeepsBatches(e)
        /\ Held(e)' => e \in ToSet(w) \/ Works(e) \/ Timed(e)' \/ Parks(e)' \/ Fails(e)
    <3>1. /\ e \in ToSet(w) => ~Works(e) /\ ~(Timed(e)') /\ ~(Parks(e)') /\ ~Fails(e)
          /\ Works(e) => ~(Timed(e)') /\ ~(Parks(e)') /\ ~Fails(e)
          /\ Timed(e)' => ~(Parks(e)') /\ ~Fails(e)
          /\ Parks(e)' => ~Fails(e)
      BY <1>2, <2>2, <2>3
    <3> QED BY <1>1, <2>1, <2>3, <3>1, MovedPlaces
  <2> QED BY <2>2, <2>3, <2>4 DEF Held
<1> QED BY <1>1, <1>3, <1>4, RequeueFacts

LEMMA SamePlaces ==
    ASSUME UNCHANGED <<waiting, batch, retrying>>, NEW e, parking'[e] = parking[e], Lone(e), Apart(e)
    PROVE  Lone(e)' /\ Apart(e)' /\ KeepsBatches(e) /\ (Held(e)' => Held(e))
<1>1. KeepsBatches(e)
  BY SameKeeps
<1>2. /\ Waits(e)' <=> Waits(e)
      /\ Works(e)' <=> Works(e)
      /\ Timed(e)' <=> Timed(e)
      /\ Parks(e)' <=> Parks(e)
  BY DEF Waits, Works, Timed, Parks
<1>3. LoneWork(e)' /\ LoneTimer(e)' /\ parking'[e] <= 1 /\ OnceIn(waiting', e)
  BY DEF Lone, LoneWork, LoneTimer
<1>4. Lone(e)'
  BY <1>1, <1>3 DEF Lone, KeepsBatches
<1>5. Apart(e)'
  BY <1>1, <1>2 DEF Apart, KeepsBatches
<1> QED BY <1>1, <1>2, <1>4, <1>5 DEF Held, KeepsBatches

\* An event whose places and files become no more.
LEMMA CopyStays ==
    ASSUME NEW e, OneCopy(e), Lone(e)', Apart(e)', Held(e)' => Held(e),
           delivered'[e] = delivered[e], e \in overflow' => e \in overflow, e \in disk' => e \in disk,
           e \in disk' /\ Removing(e) => Removing(e)',
           e \in disk' /\ Fails(e)' => Fails(e),
           e \in disk' /\ Dropping(e) => Dropping(e)',
           e \in overflow' /\ retryCall.at = "unlink" /\ retryCall.file = e => retryCall' = retryCall
    PROVE  OneCopy(e)'
<1>1. Stored(e)'
  BY DEF OneCopy, Stored
<1> QED BY <1>1 DEF OneCopy

LEMMA CopyTick ==
    ASSUME Single, Tick, NEW e \in Events, e \notin doubled' PROVE OneCopy(e)'
<1>1. UNCHANGED <<queue, retrying, files, calls, past>> /\ EngineTyped /\ Typed
  BY DEF Tick, Single, Typed
<1>2. UNCHANGED <<retrying, parking, disk, overflow, retryCall, delivered, doubled>>
  BY <1>1 DEF files, calls, past, outcome
<1>3. OneCopy(e) /\ Lone(e) /\ Apart(e)
  BY <1>2 DEF Single, OneCopy
<1>4. Moved(queue, waiting)
  BY <1>1, TakeFacts, StillFacts DEF Tick, EngineTyped
<1>5. Lone(e)' /\ Apart(e)' /\ KeepsBatches(e) /\ (Held(e)' => Held(e))
  BY <1>1, <1>2, <1>3, <1>4, EnginePlaces
<1> QED BY <1>2, <1>3, <1>5, CopyStays DEF KeepsBatches

LEMMA CopyPersisted ==
    ASSUME Single, NEW c \in Events, Persisted(c), NEW e \in Events, e \notin doubled' PROVE OneCopy(e)'
<1>1. /\ Typed /\ EngineTyped /\ StartProcessing(queue, waiting)
      /\ UNCHANGED <<queue, retries, retrying, parking, overflow, calls, arrived, delivered, exposed, cleared>>
  BY DEF Persisted, Single, Typed
<1>2. UNCHANGED <<retrying, parking, overflow, retryCall, delivered>>
  BY <1>1 DEF calls
<1>3. \/ /\ disk' = disk \cup {c}
         /\ c \in overflow \/ (delivered[c] > 0 /\ ~Removing(c)) \/ (GivenUp(c) /\ ~Dropping(c)) => c \in doubled'
         /\ doubled \subseteq doubled'
      \/ UNCHANGED <<disk, doubled>>
  BY DEF Persisted
<1>4. OneCopy(e) /\ Lone(e) /\ Apart(e)
  BY <1>3 DEF Single, OneCopy
<1>5. Moved(queue, waiting)
  BY <1>1, ProcessingFacts DEF EngineTyped
<1>6. Lone(e)' /\ Apart(e)' /\ KeepsBatches(e) /\ (Held(e)' => Held(e))
  BY <1>1, <1>2, <1>4, <1>5, EnginePlaces
<1>7. CASE e \in disk' => e \in disk
  BY <1>2, <1>4, <1>6, <1>7, CopyStays DEF KeepsBatches
<1>8. CASE e \in disk' /\ e \notin disk
  <2>1. e = c /\ e \notin overflow /\ (delivered[e] > 0 => Removing(e)) /\ (GivenUp(e) => Dropping(e))
    BY <1>3, <1>8
  <2>2. Fails(e) => Dropping(e)
    BY <1>1, <2>1, ScheduledFacts DEF EngineTyped
  <2>3. Stored(e)'
    BY <1>2, <1>4, <1>6, <2>1, <2>2 DEF OneCopy, Stored, KeepsBatches
  <2> QED BY <1>6, <2>3 DEF OneCopy
<1> QED BY <1>7, <1>8

\* An event that is nowhere is queued, or parked.
LEMMA CopyEnqueue ==
    ASSUME Single, NEW c \in Events, Enqueue(c), NEW e \in Events, e \notin doubled' PROVE OneCopy(e)'
<1>1. /\ Typed /\ waiting \in Seq(Events) /\ Sorted(waiting) /\ parking \in [Events -> Nat]
      /\ UNCHANGED <<retrying, batch, overflow, disk, retryCall, delivered, doubled>> /\ c \notin arrived
  BY DEF Enqueue, calls, outcome, Single, Typed, EngineTyped, TimersTyped
<1>2. OneCopy(e) /\ Lone(e) /\ Apart(e) /\ Absent(c)
  BY <1>1 DEF Single, OneCopy
<1>3. ~Waits(c) /\ ~Works(c) /\ ~Timed(c) /\ ~Parks(c) /\ ~Fails(c)
  BY <1>2 DEF Absent, Held
<1>4. /\ KeepsBatches(e)
      /\ Works(e)' <=> Works(e)
      /\ Timed(e)' <=> Timed(e)
      /\ LoneWork(e)' /\ LoneTimer(e)'
  BY <1>1, <1>2, SameKeeps DEF Works, Timed, Lone, LoneWork, LoneTimer
<1>5. /\ OnceIn(waiting', e) /\ parking'[e] <= 1
      /\ \/ /\ Waits(e)' <=> Waits(e)
            /\ Parks(e)' => Parks(e) \/ e = c
         \/ /\ Waits(e)' => Waits(e) \/ e = c
            /\ Parks(e)' <=> Parks(e)
  <2>1. CASE Park(c) /\ UNCHANGED <<queue, waiting, persisting>>
    BY <1>1, <1>2, <1>3, <2>1 DEF Park, Parks, Waits, Lone
  <2>2. CASE waiting' = Push(waiting, c) /\ parking' = parking
    <3>1. OnceIn(waiting', e) /\ ToSet(waiting') = ToSet(waiting) \cup {c}
      BY <1>1, <1>2, <1>3, <2>2, PushFacts DEF Lone, Waits
    <3> QED BY <1>2, <2>2, <3>1 DEF Parks, Waits, Lone
  <2> QED BY <2>1, <2>2 DEF Enqueue
<1>6. Lone(e)'
  BY <1>2, <1>4, <1>5 DEF Lone, KeepsBatches
<1>7. Apart(e)'
  BY <1>2, <1>3, <1>4, <1>5 DEF Apart, KeepsBatches
<1>8. CASE e # c
  <2>1. Held(e)' => Held(e)
    BY <1>4, <1>5, <1>8 DEF Held, KeepsBatches
  <2> QED BY <1>1, <1>2, <1>4, <1>6, <1>7, <2>1, CopyStays DEF KeepsBatches
<1>9. CASE e = c
  <2>1. Stored(e)'
    BY <1>1, <1>2, <1>9 DEF Absent, Stored
  <2> QED BY <1>6, <1>7, <2>1 DEF OneCopy
<1> QED BY <1>8, <1>9

\* A parked event moves to the overflow directory.
LEMMA CopyParked ==
    ASSUME Single, NEW c \in Events, Parked(c), NEW e \in Events, e \notin doubled' PROVE OneCopy(e)'
<1>1. /\ Typed /\ parking \in [Events -> Nat] /\ parking[c] > 0 /\ parking' = [parking EXCEPT ![c] = @ - 1]
      /\ UNCHANGED <<waiting, batch, retrying, disk, retryCall, delivered>>
      /\ doubled \subseteq doubled'
      /\ \/ overflow' = overflow \cup {c} /\ (c \in disk => c \in doubled')
         \/ overflow' = overflow
  BY DEF Parked, memory, calls, Single, Typed, TimersTyped
<1>2. OneCopy(e) /\ Lone(e) /\ Apart(e) /\ Stored(e)
  BY <1>1 DEF Single, OneCopy
<1>3. CASE e # c
  <2>1. parking'[e] = parking[e]
    BY <1>1, <1>3
  <2>2. Lone(e)' /\ Apart(e)' /\ KeepsBatches(e) /\ (Held(e)' => Held(e))
    BY <1>1, <1>2, <2>1, SamePlaces
  <2> QED BY <1>1, <1>2, <1>3, <2>2, CopyStays DEF KeepsBatches
<1>4. CASE e = c
  <2>1. parking'[e] = 0 /\ Parks(e) /\ ~(Parks(e)')
    BY <1>1, <1>2, <1>4 DEF Lone, Parks
  <2>2. ~Waits(e) /\ ~Works(e) /\ ~Timed(e) /\ ~Fails(e) /\ Held(e)
    BY <1>2, <2>1 DEF Apart, Held
  <2>3. /\ KeepsBatches(e)
        /\ Waits(e)' <=> Waits(e)
        /\ Works(e)' <=> Works(e)
        /\ Timed(e)' <=> Timed(e)
        /\ LoneWork(e)' /\ LoneTimer(e)' /\ OnceIn(waiting', e)
    BY <1>1, <1>2, SameKeeps DEF Waits, Works, Timed, Lone, LoneWork, LoneTimer
  <2>4. ~(Held(e)') /\ Lone(e)' /\ Apart(e)'
    BY <1>2, <2>1, <2>2, <2>3 DEF Held, Lone, Apart, KeepsBatches
  <2>5. Stored(e)'
    BY <1>1, <1>2, <1>4, <2>2, <2>3, <2>4 DEF Stored, KeepsBatches
  <2> QED BY <2>4, <2>5 DEF OneCopy
<1> QED BY <1>3, <1>4

LEMMA CopyRetryFires ==
    ASSUME Single, NEW o \in Objects, RetryFires(o), NEW e \in Events, e \notin doubled' PROVE OneCopy(e)'
<1>1. /\ Typed /\ retrying \in [Objects -> Nat] /\ Requeue(o)
      /\ retrying[o] > 0 /\ retrying' = [retrying EXCEPT ![o] = @ - 1]
      /\ UNCHANGED <<disk, overflow, retryCall, delivered, doubled>>
      /\ \A n \in 1..Copies : <<e, n>> \in Objects
  BY DEF RetryFires, calls, past, outcome, Single, Typed, TimersTyped, Objects
<1>2. OneCopy(e) /\ Lone(e) /\ Apart(e)
  BY <1>1 DEF Single, OneCopy
<1>3. \A n \in 1..Copies : /\ retrying'[<<e, n>>] \in Nat /\ retrying[<<e, n>>] \in Nat
                           /\ retrying'[<<e, n>>] <= retrying[<<e, n>>]
  BY <1>1
<1>4. LoneTimer(e)' /\ (Timed(e)' => Timed(e))
  BY <1>2, <1>3 DEF Lone, LoneTimer, Timed
<1>5. ASSUME e = o[1] PROVE Timed(e) /\ ~(Timed(e)')
  <2>1. PICK n \in 1..Copies : o = <<e, n>>
    BY <1>5, ObjectFacts
  <2>2. retrying[<<e, n>>] > 0 /\ retrying'[<<e, n>>] = retrying[<<e, n>>] - 1
    BY <1>1, <2>1
  <2>3. \A m \in 1..Copies : ~(retrying'[<<e, m>>] > 0)
    BY <1>2, <1>3, <2>2 DEF Lone, LoneTimer
  <2> QED BY <2>2, <2>3 DEF Timed
<1>6. e = o[1] => ~Waits(e) /\ ~Works(e) /\ ~(Timed(e)') /\ ~Parks(e) /\ ~Fails(e)
  BY <1>2, <1>5 DEF Apart
<1>7. Lone(e)' /\ Apart(e)' /\ KeepsBatches(e) /\ (Held(e)' => Held(e))
  BY <1>1, <1>2, <1>4, <1>5, <1>6, RequeuePlaces DEF Held
<1> QED BY <1>1, <1>2, <1>7, CopyStays DEF KeepsBatches

\* A file is read, and its event queued again under another object.
LEMMA ReadPlaces ==
    ASSUME Typed, NEW c \in Events, NEW n \in 1..Copies, Parsed(c, <<c, n>>), Requeue(<<c, n>>), UNCHANGED retrying,
           NEW e \in Events, e \notin doubled', Lone(e), Apart(e), e = c => ~Fails(e)
    PROVE  /\ Lone(e)' /\ Apart(e)' /\ KeepsBatches(e) /\ (Held(e)' => Held(e) \/ e = c)
           /\ e = c => ~Scheduled(e) /\ ~Parks(e)
<1>1. <<c, n>> \in Objects /\ <<c, n>>[1] = c /\ Shaped(batch)
  BY DEF Objects, Typed, EngineTyped
<1>2. Scheduled(c) \/ parking[c] > 0 => c \in doubled'
  BY DEF Parsed
<1>3. LoneTimer(e)' /\ (Timed(e)' <=> Timed(e))
  BY DEF Lone, LoneTimer, Timed
<1>4. e = c => ~Scheduled(e) /\ ~Parks(e) /\ ~Waits(e) /\ ~Works(e) /\ ~Timed(e)
  BY <1>1, <1>2, ScheduledFacts DEF Parks
<1> HIDE DEF Parks
<1>5. e = <<c, n>>[1] => ~Waits(e) /\ ~Works(e) /\ ~(Timed(e)') /\ ~Parks(e) /\ ~Fails(e)
  BY <1>1, <1>3, <1>4
<1>6. Lone(e)' /\ Apart(e)' /\ KeepsBatches(e) /\ (Held(e)' => Held(e) \/ e = <<c, n>>[1])
  BY <1>1, <1>3, <1>5, RequeuePlaces
<1> QED BY <1>1, <1>4, <1>6

LEMMA CopyLoad ==
    ASSUME Single, NEW c \in Events, Load(c), NEW e \in Events, e \notin doubled' PROVE OneCopy(e)'
<1>1. UNCHANGED <<retryCall, delivered>> /\ Typed /\ Shaped(batch)
  BY DEF Load, Single, Typed, EngineTyped
<1>2. CASE UNCHANGED <<memory, files, doubled>>
  <2>1. UNCHANGED <<waiting, batch, retrying, parking, disk, overflow, doubled>>
    BY <1>2 DEF memory, files
  <2>2. OneCopy(e) /\ Lone(e) /\ Apart(e)
    BY <2>1 DEF Single, OneCopy
  <2>3. Lone(e)' /\ Apart(e)' /\ KeepsBatches(e) /\ (Held(e)' => Held(e))
    BY <2>1, <2>2, SamePlaces
  <2> QED BY <1>1, <2>1, <2>2, <2>3, CopyStays DEF KeepsBatches
<1>3. ASSUME c \in disk, NEW n \in 1..Copies, Parsed(c, <<c, n>>), Requeue(<<c, n>>),
             UNCHANGED <<retrying, persisting, disk, overflow>>
      PROVE  OneCopy(e)'
  <2>1. doubled \subseteq doubled' /\ (Scheduled(c) => c \in doubled')
    BY <1>3 DEF Parsed
  <2>2. OneCopy(e) /\ Lone(e) /\ Apart(e) /\ Stored(e)
    BY <2>1 DEF Single, OneCopy
  <2>3. e = c => ~Removing(e) /\ ~Dropping(e)
    BY <1>1, <2>1, ScheduledFacts
  <2>4. e = c => ~Fails(e) /\ ~(delivered[e] > 0) /\ e \notin overflow
    BY <1>3, <2>2, <2>3 DEF Stored
  <2>5. Lone(e)' /\ Apart(e)' /\ KeepsBatches(e) /\ (Held(e)' => Held(e) \/ e = c)
    BY <1>1, <1>3, <2>2, <2>4, ReadPlaces
  <2>6. CASE e # c
    BY <1>1, <1>3, <2>2, <2>5, <2>6, CopyStays DEF KeepsBatches
  <2>7. CASE e = c
    <3>1. delivered[e] = 0
      BY <2>4, <2>7 DEF Single, CountsTyped
    <3>2. Stored(e)'
      BY <1>1, <1>3, <2>4, <2>5, <2>7, <3>1 DEF Stored, KeepsBatches
    <3> QED BY <2>5, <3>2 DEF OneCopy
  <2> QED BY <2>6, <2>7
<1> QED BY <1>2, <1>3 DEF Load

LEMMA CopyRetryRead ==
    ASSUME Single, NEW c \in Events, RetryRead(c), NEW e \in Events, e \notin doubled' PROVE OneCopy(e)'
<1>1. UNCHANGED delivered /\ Typed /\ retryCall.at = "read"
  BY DEF RetryRead, Single
<1>2. CASE UNCHANGED <<memory, files, doubled>>
  <2>1. UNCHANGED <<waiting, batch, retrying, parking, disk, overflow, doubled>>
    BY <1>2 DEF memory, files
  <2>2. OneCopy(e) /\ Lone(e) /\ Apart(e)
    BY <2>1 DEF Single, OneCopy
  <2>3. Lone(e)' /\ Apart(e)' /\ KeepsBatches(e) /\ (Held(e)' => Held(e))
    BY <2>1, <2>2, SamePlaces
  <2> QED BY <1>1, <2>1, <2>2, <2>3, CopyStays DEF KeepsBatches
<1>3. ASSUME c \in overflow, RetryWaits("unlink", c), NEW n \in 1..Copies, Parsed(c, <<c, n>>), Requeue(<<c, n>>),
             UNCHANGED <<retrying, persisting, disk, overflow>>
      PROVE  OneCopy(e)'
  <2>1. doubled \subseteq doubled'
    BY <1>3 DEF Parsed
  <2>2. OneCopy(e) /\ Lone(e) /\ Apart(e) /\ Stored(e)
    BY <2>1 DEF Single, OneCopy
  <2>3. e = c => ~Held(e) /\ delivered[e] = 0 /\ e \notin disk
    BY <1>1, <1>3, <2>2 DEF Stored
  <2>4. e = c => ~Fails(e)
    BY <2>3 DEF Held
  <2>5. Lone(e)' /\ Apart(e)' /\ KeepsBatches(e) /\ (Held(e)' => Held(e) \/ e = c)
    BY <1>1, <1>3, <2>2, <2>4, ReadPlaces
  <2>6. CASE e # c
    BY <1>1, <1>3, <2>2, <2>5, <2>6, CopyStays DEF KeepsBatches
  <2>7. CASE e = c
    <3>1. retryCall'.at = "unlink" /\ retryCall'.file = e
      BY <1>3, <2>7 DEF RetryWaits
    <3>2. Stored(e)'
      BY <1>1, <1>3, <2>3, <2>7, <3>1 DEF Stored
    <3> QED BY <2>5, <3>2 DEF OneCopy
  <2> QED BY <2>6, <2>7
<1> QED BY <1>2, <1>3 DEF RetryRead

\* The calls only remove files, but for a parked file that is written again where it is.
LEMMA CallFiles ==
    ASSUME Typed, OneReader, CallAct
    PROVE  /\ disk' \subseteq disk /\ overflow' \subseteq overflow
           /\ \A e : e \in overflow' /\ retryCall.at = "unlink" /\ retryCall.file = e => retryCall' = retryCall
           /\ OneReader'
<1>1. disk' \subseteq disk
  BY CallActFacts
<1>2. CASE ListFiles \/ Restart
  BY <1>2 DEF ListFiles, Restart, files, OneReader
<1>3. CASE ClearList
  BY <1>3 DEF ClearList, files, OneReader, NoCall
<1>4. CASE RetryFailedEvents
  <2>1. /\ retryCall.at = "idle" /\ retryCall' = [at |-> "list", left |-> {}] /\ budget["retry"] > 0
        /\ budget' = [budget EXCEPT !["retry"] = @ - 1]
        /\ UNCHANGED <<overflow, clearCall>>
    BY <1>4 DEF RetryFailedEvents, Spend, files
  <2>2. budget["clear"] = 0 /\ clearCall = NoCall /\ ~DiskMayFail /\ ~SlowDisk
    BY <2>1 DEF OneReader
  <2>3. budget' \in [{"crash", "shutdown", "clear", "retry"} -> Nat] /\ budget'["clear"] = 0
    BY <2>1, <2>2 DEF OneReader
  <2> QED BY <1>1, <2>1, <2>2, <2>3 DEF OneReader
<1>5. CASE RetryList
  BY <1>5 DEF RetryList, files, OneReader, NoCall
<1>6. CASE RetryParked \/ RetryUnlinked
  <2>1. retryCall # NoCall /\ retryCall.at # "idle"
    BY <1>6 DEF RetryParked, RetryUnlinked, NoCall
  <2>2. budget["clear"] = 0 /\ clearCall = NoCall /\ ~DiskMayFail /\ ~SlowDisk
    BY <2>1 DEF OneReader
  <2>3. UNCHANGED <<budget, clearCall>> /\ retryCall'.at \in {"idle", "read"}
    BY <1>6 DEF RetryParked, RetryUnlinked, RetryGoesOn, NoCall
  <2>4. CASE RetryParked
    BY <1>1, <2>2, <2>3, <2>4 DEF RetryParked, OneReader
  <2>5. CASE RetryUnlinked
    BY <1>1, <2>2, <2>3, <2>5 DEF RetryUnlinked, OneReader
  <2> QED BY <1>6, <2>4, <2>5
<1>7. ASSUME NEW c \in Events, ClearUnlink(c)
      PROVE  /\ overflow' \subseteq overflow /\ retryCall' = retryCall /\ OneReader'
  <2>1. overflow' \subseteq overflow /\ UNCHANGED <<retryCall, budget>>
    BY <1>7 DEF ClearUnlink
  <2>2. clearCall # NoCall
    BY <1>7 DEF ClearUnlink, NoCall
  <2>3. budget["retry"] = 0 /\ retryCall = NoCall /\ retryCall.at = "idle"
    BY <2>2 DEF OneReader, NoCall
  <2> QED BY <2>1, <2>3 DEF OneReader
<1> QED BY <1>1, <1>2, <1>3, <1>4, <1>5, <1>6, <1>7 DEF CallAct

LEMMA CopyCall ==
    ASSUME Single, CallAct, NEW e \in Events, e \notin doubled' PROVE OneCopy(e)'
<1>1. UNCHANGED <<memory, parking, past>> /\ Typed /\ OneReader
  BY CallActFacts DEF Single
<1>2. UNCHANGED <<waiting, batch, retrying, parking, delivered, doubled>>
  BY <1>1 DEF memory, past, outcome
<1>3. OneCopy(e) /\ Lone(e) /\ Apart(e)
  BY <1>2 DEF Single, OneCopy
<1>4. Lone(e)' /\ Apart(e)' /\ KeepsBatches(e) /\ (Held(e)' => Held(e))
  BY <1>2, <1>3, SamePlaces
<1> QED BY <1>1, <1>2, <1>3, <1>4, CallFiles, CopyStays DEF KeepsBatches

\* A process that has just started holds nothing.
HoldsNothing == \A e \in Events : Lone(e) /\ Apart(e) /\ ~Held(e)

LEMMA BlankLone == JustStarted => HoldsNothing
<1> SUFFICES ASSUME JustStarted, NEW e \in Events PROVE Lone(e) /\ Apart(e) /\ ~Held(e)
  BY DEF HoldsNothing
<1>1. /\ waiting = <<>> /\ batch = [s \in Slots |-> NoBatch] /\ retrying = [o \in Objects |-> 0]
      /\ parking = [f \in Events |-> 0]
  BY DEF JustStarted, Blank
<1>2. \A n \in 1..Copies : retrying[<<e, n>>] = 0 /\ ~(retrying[<<e, n>>] > 0)
  BY <1>1 DEF Objects
<1>3. \A s \in Slots : DOMAIN batch[s].todo = {} /\ DOMAIN batch[s].failed = {}
  BY <1>1 DEF NoBatch
<1>4. parking[e] = 0 /\ DOMAIN waiting = {}
  BY <1>1
<1>5. ~Waits(e) /\ ~Works(e) /\ ~Fails(e)
  BY <1>3, <1>4 DEF Waits, ToSet, Works, Fails
<1>6. ~Timed(e) /\ ~Parks(e)
  <2>1. ~Timed(e)
    BY <1>2 DEF Timed
  <2>2. ~Parks(e)
    BY <1>4 DEF Parks
  <2> QED BY <2>1, <2>2
<1>7. Lone(e)
  BY <1>2, <1>3, <1>4 DEF Lone, OnceIn, LoneWork, LoneTimer, LoneFailure
<1> QED BY <1>5, <1>6, <1>7 DEF Apart, Held

LEMMA CrashHolds == Crash => HoldsNothing'
<1>1. Crash => JustStarted'
  BY DEF Crash, JustStarted, Blank
<1> QED BY <1>1, BlankLone, PTL

LEMMA CopyEnds ==
    ASSUME Single, Clear \/ Shutdown \/ Crash, NEW e \in Events, e \notin doubled' PROVE OneCopy(e)'
<1>1. CASE Shutdown
  <2>1. UNCHANGED <<waiting, batch, retrying, parking, disk, overflow, retryCall, delivered, doubled>>
    BY <1>1 DEF Shutdown, files, past, outcome
  <2>2. OneCopy(e) /\ Lone(e) /\ Apart(e)
    BY <2>1 DEF Single, OneCopy
  <2>3. Lone(e)' /\ Apart(e)' /\ KeepsBatches(e) /\ (Held(e)' => Held(e))
    BY <2>1, <2>2, SamePlaces
  <2> QED BY <2>1, <2>2, <2>3, CopyStays DEF KeepsBatches
<1>2. CASE Clear
  <2>1. waiting' = <<>> /\ UNCHANGED <<batch, retrying, parking, disk, overflow, retryCall, delivered, doubled>>
    BY <1>2 DEF Clear, files
  <2>2. OneCopy(e) /\ Lone(e) /\ Apart(e)
    BY <2>1 DEF Single, OneCopy
  <2>3. /\ KeepsBatches(e) /\ ~(Waits(e)')
        /\ Works(e)' <=> Works(e)
        /\ Timed(e)' <=> Timed(e)
        /\ Parks(e)' <=> Parks(e)
        /\ OnceIn(waiting', e) /\ LoneWork(e)' /\ LoneTimer(e)' /\ parking'[e] <= 1
    BY <2>1, <2>2, SameKeeps DEF Waits, ToSet, Works, Timed, Parks, OnceIn, Lone, LoneWork, LoneTimer
  <2>4. Lone(e)' /\ Apart(e)' /\ (Held(e)' => Held(e))
    BY <2>2, <2>3 DEF Lone, Apart, Held, KeepsBatches
  <2> QED BY <2>1, <2>2, <2>3, <2>4, CopyStays DEF KeepsBatches
<1>3. CASE Crash
  <2>1. /\ retryCall' = NoCall
        /\ doubled' = doubled \cup {f \in disk : Removing(f)}
        /\ UNCHANGED <<disk, overflow, delivered>>
    BY <1>3 DEF Crash, Blank
  <2>2. OneCopy(e) /\ Stored(e) /\ ~(e \in disk /\ Removing(e))
    BY <2>1 DEF Single, OneCopy
  <2>3. Lone(e)' /\ Apart(e)' /\ ~(Held(e)') /\ ~(Fails(e)')
    BY <1>3, CrashHolds DEF HoldsNothing, Held
  <2>4. Stored(e)'
    BY <2>1, <2>2, <2>3 DEF Stored
  <2> QED BY <2>3, <2>4 DEF OneCopy
<1> QED BY <1>1, <1>2, <1>3

LEMMA TailPlaces ==
    ASSUME NEW S, NEW q \in Seq(S), q # <<>>
    PROVE  /\ Head(q) = q[1] /\ 1 \in DOMAIN q
           /\ \A j \in DOMAIN Tail(q) : j + 1 \in DOMAIN q /\ j + 1 # 1 /\ Tail(q)[j] = q[j + 1]
<1> DEFINE t == Tail(q)
<1>1. /\ Head(q) = q[1] /\ t \in Seq(S) /\ Len(t) = Len(q) - 1 /\ Len(q) \in Nat
      /\ \A i \in 1..Len(t) : t[i] = q[i + 1]
  BY HeadTailProperties, LenProperties
<1>2. DOMAIN t = 1..Len(t) /\ DOMAIN q = 1..Len(q) /\ Len(t) \in Nat
  BY <1>1, LenProperties
<1> HIDE DEF t
<1>3. 1 \in DOMAIN q /\ \A i \in 1..Len(t) : i + 1 \in DOMAIN q /\ i + 1 # 1
  BY <1>1, <1>2
<1> QED BY <1>1, <1>2, <1>3 DEF t

\* The places in batches become fewer with each step of a batch, but for the event
\* that fails for good.
LEMMA BatchShrinks ==
    ASSUME Typed, NEW s \in Slots, BatchAct(s), NEW e
    PROVE  /\ (Works(e)' => Works(e)) /\ (LoneWork(e) => LoneWork(e)')
           /\ \/ GiveUp(s) /\ e = Current(s)[1]
              \/ (Fails(e)' => Fails(e)) /\ (LoneFailure(e) => LoneFailure(e)')
           /\ \A r \in Slots \ {s} : batch'[r] = batch[r]
<1>1. Shaped(batch) /\ 0 \in Nat /\ 1 \in Nat
  BY DEF Typed, EngineTyped
<1>2. /\ \A j \in DOMAIN batch[s].todo : j \in Nat /\ j + 0 = j
      /\ \A j \in DOMAIN batch[s].failed : j \in Nat /\ j + 0 = j
  <2>1. DOMAIN batch[s].todo \subseteq Nat /\ DOMAIN batch[s].failed \subseteq Nat
    BY <1>1, BatchTypes
  <2> QED BY <2>1
<1>3. ASSUME NEW b, BatchGoesOn(s, b), b.todo = batch[s].todo, batch[s].at = "process"
      PROVE  (Works(e)' => Works(e)) /\ (LoneWork(e) => LoneWork(e)')
  <2>1. \A j \in DOMAIN b.todo : Ahead(b, e, j) => j + 0 \in DOMAIN batch[s].todo /\ Ahead(batch[s], e, j + 0)
    BY <1>2, <1>3 DEF Ahead
  <2> QED BY <1>1, <1>3, <2>1, WorkShrinks
<1>4. ASSUME NEW b, BatchGoesOn(s, b), b.failed = batch[s].failed
      PROVE  (Fails(e)' => Fails(e)) /\ (LoneFailure(e) => LoneFailure(e)')
  <2>1. \A j \in DOMAIN b.failed :
           b.failed[j][1] = e => j + 0 \in DOMAIN batch[s].failed /\ batch[s].failed[j + 0][1] = e
    BY <1>2, <1>4
  <2> QED BY <1>1, <1>4, <2>1, FailuresShrink
<1>5. ASSUME NEW b, BatchGoesOn(s, b) PROVE \A r \in Slots \ {s} : batch'[r] = batch[r]
  BY <1>1, <1>5, GoesOnFacts
<1>6. CASE Deliver(s)
  <2> DEFINE b == [batch[s] EXCEPT !.at = "remove"]
  <2>1. BatchGoesOn(s, b) /\ b.todo = batch[s].todo /\ b.failed = batch[s].failed /\ batch[s].at = "process"
    BY <1>1, <1>6, DeliverFacts DEF Deliver, Shaped, Shape, BatchStates
  <2> HIDE DEF b
  <2> QED BY <1>3, <1>4, <1>5, <2>1
<1>7. ASSUME BatchGoesOn(s, After(batch[s])), batch[s].at \in {"process", "remove", "drop"}
      PROVE  /\ (Works(e)' => Works(e)) /\ (LoneWork(e) => LoneWork(e)')
             /\ (Fails(e)' => Fails(e)) /\ (LoneFailure(e) => LoneFailure(e)')
  <2>1. Shape(batch[s])
    BY <1>1 DEF Shaped
  <2>2. \A j \in DOMAIN After(batch[s]).todo :
           Ahead(After(batch[s]), e, j) => j + 1 \in DOMAIN batch[s].todo /\ Ahead(batch[s], e, j + 1)
    BY <1>7, <2>1, AfterAhead
  <2>3. After(batch[s]).failed = batch[s].failed
    BY <1>7, <2>1, AfterFacts
  <2>4. (Works(e)' => Works(e)) /\ (LoneWork(e) => LoneWork(e)')
    BY <1>1, <1>7, <2>2, WorkShrinks
  <2> QED BY <1>4, <1>7, <2>3, <2>4
<1>8. CASE RetryLater(s) \/ Removed(s)
  <2>1. BatchGoesOn(s, After(batch[s])) /\ batch[s].at \in {"process", "remove", "drop"}
    BY <1>1, <1>8, NextEventFacts DEF RetryLater, Removed
  <2> QED BY <1>5, <1>7, <2>1
<1>9. CASE GiveUp(s)
  <2> DEFINE b == Failing(s)
  <2>1. BatchGoesOn(s, b) /\ b.todo = batch[s].todo /\ batch[s].at = "process" /\ Current(s) \in Objects
    BY <1>1, <1>9, GiveUpFacts, HeadFacts DEF GiveUp, Failing
  <2>2. CASE e # Current(s)[1]
    <3> DEFINE f == batch[s].failed
    <3>1. f \in Seq(Objects) /\ DOMAIN f = 1..Len(f) /\ Len(f) \in Nat
      BY <1>1, BatchTypes
    <3>2. b.failed = Append(f, Current(s))
      BY DEF Failing
    <3>3. /\ Len(b.failed) = Len(f) + 1 /\ b.failed[Len(f) + 1] = Current(s) /\ b.failed \in Seq(Objects)
          /\ \A i \in 1..Len(f) : b.failed[i] = f[i]
      BY <2>1, <3>1, <3>2, AppendProperties
    <3>4. DOMAIN b.failed = 1..(Len(f) + 1)
      BY <3>3, LenProperties
    <3> HIDE DEF f, b
    <3>5. \A j \in DOMAIN b.failed : b.failed[j][1] = e => j + 0 \in DOMAIN f /\ f[j + 0][1] = e
      <4> SUFFICES ASSUME NEW j \in 1..(Len(f) + 1), b.failed[j][1] = e PROVE j + 0 \in DOMAIN f /\ f[j + 0][1] = e
        BY <3>4
      <4>1. j # Len(f) + 1
        BY <2>2, <3>3
      <4>2. j \in 1..Len(f) /\ j + 0 = j
        BY <3>1, <4>1
      <4> QED BY <3>1, <3>3, <4>2
    <3>6. (Fails(e)' => Fails(e)) /\ (LoneFailure(e) => LoneFailure(e)')
      BY <1>1, <2>1, <3>5, FailuresShrink DEF f
    <3> QED BY <1>3, <1>5, <2>1, <3>6
  <2> HIDE DEF b
  <2>3. CASE e = Current(s)[1]
    BY <1>3, <1>5, <1>9, <2>1, <2>3
  <2> QED BY <2>2, <2>3
<1>10. CASE BatchParked(s)
  <2>1. batch[s].at = "park" /\ batch[s].todo = <<>> /\ batch[s].failed # <<>> /\ batch[s].failed \in Seq(Objects)
    BY <1>1, <1>10, BatchTypes DEF BatchParked, Shaped, Shape
  <2>2. PICK b : /\ BatchGoesOn(s, b) /\ b.todo = <<>>
                 /\ b.failed = <<>> \/ b.failed = Tail(batch[s].failed)
    <3>1. CASE batch' = [batch EXCEPT ![s] = NoBatch]
      BY <3>1, NoBatchShape DEF BatchGoesOn
    <3>2. CASE /\ Tail(batch[s].failed) # <<>>
               /\ batch' = [batch EXCEPT ![s] = [batch[s] EXCEPT !.failed = Tail(batch[s].failed)]]
      <4> DEFINE b == [batch[s] EXCEPT !.failed = Tail(batch[s].failed)]
      <4>1. b.todo = <<>> /\ b.failed = Tail(batch[s].failed)
        BY <1>1, <2>1 DEF Shaped, Shape, BatchStates
      <4>2. Shape(b)
        <5>1. PICK c : BatchGoesOn(s, c)
          BY <1>1, <1>10, BatchParkedFacts
        <5>2. Shape(c) /\ batch'[s] = c /\ batch'[s] = b
          BY <1>1, <3>2, <5>1 DEF BatchGoesOn, Shaped
        <5> QED BY <5>2
      <4> HIDE DEF b
      <4>3. BatchGoesOn(s, b)
        BY <3>2, <4>2 DEF BatchGoesOn, b
      <4> QED BY <4>1, <4>3
    <3> QED BY <1>10, <3>1, <3>2 DEF BatchParked
  <2>3. DOMAIN b.todo = {}
    BY <2>2
  <2>4. (Works(e)' => Works(e)) /\ (LoneWork(e) => LoneWork(e)')
    BY <1>1, <2>2, <2>3, WorkShrinks
  <2>5. \A j \in DOMAIN b.failed :
           b.failed[j][1] = e => j + 1 \in DOMAIN batch[s].failed /\ batch[s].failed[j + 1][1] = e
    <3>1. CASE b.failed = <<>>
      BY <3>1
    <3>2. CASE b.failed = Tail(batch[s].failed)
      BY <2>1, <3>2, TailPlaces
    <3> QED BY <2>2, <3>1, <3>2
  <2>6. (Fails(e)' => Fails(e)) /\ (LoneFailure(e) => LoneFailure(e)')
    BY <1>1, <2>2, <2>5, FailuresShrink
  <2> QED BY <1>5, <2>2, <2>4, <2>6
<1> QED BY <1>6, <1>8, <1>9, <1>10 DEF BatchAct

\* The event of a batch is at work until its listeners are done.
LEMMA HeadWorks ==
    ASSUME Shaped(batch), NEW s \in Slots, batch[s].at = "process"
    PROVE  /\ 1 \in DOMAIN batch[s].todo /\ Current(s) \in Objects /\ Current(s)[1] \in Events
           /\ Ahead(batch[s], Current(s)[1], 1) /\ Works(Current(s)[1])
<1>1. Shape(batch[s]) /\ Current(s) = Head(batch[s].todo) /\ Current(s) \in Objects /\ Current(s)[1] \in Events
  BY HeadFacts
<1>2. batch[s].todo \in Seq(Objects) /\ batch[s].todo # <<>>
  BY <1>1 DEF Shape, BatchStates
<1>3. Head(batch[s].todo) = batch[s].todo[1] /\ 1 \in DOMAIN batch[s].todo
  BY <1>2, TailPlaces
<1> QED BY <1>1, <1>3 DEF Ahead, Works

LEMMA HeadLeaves ==
    ASSUME Shaped(batch), NEW s \in Slots, Deliver(s) \/ RetryLater(s) \/ GiveUp(s),
           NEW c, c = Current(s)[1], LoneWork(c)
    PROVE  ~(Works(c)')
<1>1. batch[s].at = "process" /\ Shape(batch[s])
  BY DEF Deliver, RetryLater, GiveUp, Shaped
<1>2. 1 \in DOMAIN batch[s].todo /\ Ahead(batch[s], c, 1)
  BY <1>1, HeadWorks
<1>3. \A r \in Slots : \A k \in DOMAIN batch[r].todo : Ahead(batch[r], c, k) => r = s /\ k = 1
  BY <1>2 DEF LoneWork
<1>4. PICK b : /\ BatchGoesOn(s, b)
               /\ \/ b.todo = batch[s].todo /\ b.at \in {"remove", "drop"}
                  \/ b = After(batch[s])
  <2>1. CASE Deliver(s)
    <3>1. LET b == [batch[s] EXCEPT !.at = "remove"] IN BatchGoesOn(s, b) /\ b.todo = batch[s].todo /\ b.at = "remove"
      BY <1>1, <2>1, DeliverFacts DEF Shape, BatchStates
    <3> QED BY <3>1
  <2>2. CASE RetryLater(s)
    BY <1>1, <2>2, NextEventFacts DEF RetryLater
  <2>3. CASE GiveUp(s)
    <3>1. BatchGoesOn(s, Failing(s)) /\ Failing(s).todo = batch[s].todo /\ Failing(s).at = "drop"
      BY <2>3, GiveUpFacts DEF Failing
    <3> QED BY <3>1
  <2> QED BY <2>1, <2>2, <2>3
<1>5. \A r \in Slots : batch'[r] = IF r = s THEN b ELSE batch[r]
  BY <1>4, GoesOnFacts
<1>6. \A j \in DOMAIN b.todo : ~Ahead(b, c, j)
  <2>1. CASE b.todo = batch[s].todo /\ b.at \in {"remove", "drop"}
    BY <1>3, <2>1 DEF Ahead
  <2>2. CASE b = After(batch[s])
    BY <1>1, <1>3, <2>2, AfterAhead
  <2> QED BY <1>4, <2>1, <2>2
<1>7. ASSUME NEW r \in Slots, NEW k \in DOMAIN batch'[r].todo PROVE ~Ahead(batch'[r], c, k)
  <2>1. CASE r = s
    BY <1>5, <1>6, <1>7, <2>1
  <2>2. CASE r # s
    BY <1>3, <1>5, <1>7, <2>2
  <2> QED BY <2>1, <2>2
<1> QED BY <1>7 DEF Works

LEMMA BatchSteps ==
    ASSUME NEW s \in Slots, BatchAct(s)
    PROVE  /\ UNCHANGED <<waiting, persisting, parking, calls, arrived>> /\ doubled \subseteq doubled'
           /\ ~RetryLater(s) => retrying' = retrying
           /\ ~Deliver(s) => delivered' = delivered
           /\ disk' \subseteq disk
           /\ ~BatchParked(s) => overflow' = overflow
BY DEF BatchAct, Deliver, RetryLater, GiveUp, Removed, BatchParked, files, past, outcome

\* An event of a batch that does not fail for good, and has no new timer.
LEMMA BatchPlaces ==
    ASSUME Typed, NEW s \in Slots, BatchAct(s), NEW e, Lone(e), Apart(e),
           LoneTimer(e)', Timed(e)' => Timed(e), ~(GiveUp(s) /\ e = Current(s)[1])
    PROVE  Lone(e)' /\ Apart(e)' /\ (Held(e)' => Held(e)) /\ (Fails(e)' => Fails(e))
<1>1. UNCHANGED <<waiting, parking>>
  BY BatchSteps
<1>2. (Waits(e)' <=> Waits(e)) /\ (Parks(e)' <=> Parks(e))
  BY <1>1 DEF Waits, Parks
<1>3. /\ (Works(e)' => Works(e)) /\ (LoneWork(e) => LoneWork(e)')
      /\ (Fails(e)' => Fails(e)) /\ (LoneFailure(e) => LoneFailure(e)')
  BY BatchShrinks
<1>4. Lone(e)'
  BY <1>1, <1>3 DEF Lone
<1>5. Apart(e)'
  BY <1>2, <1>3 DEF Apart
<1> QED BY <1>2, <1>3, <1>4, <1>5 DEF Held

\* The event a step of a batch is about.
Subject(s) == IF batch[s].at = "park" THEN Head(batch[s].failed)[1] ELSE Current(s)[1]

\* The other events of the batch, and one whose file is removed, or could not be parked.
LEMMA CopyOther ==
    ASSUME Single, NEW s \in Slots, BatchAct(s), NEW e \in Events, e \notin doubled',
           \/ e # Subject(s)
           \/ Removed(s)
           \/ BatchParked(s) /\ overflow' = overflow
    PROVE  OneCopy(e)'
<1>1. /\ Typed /\ Shaped(batch) /\ UNCHANGED <<waiting, persisting, parking, calls, arrived>>
      /\ doubled \subseteq doubled' /\ disk' \subseteq disk /\ retryCall' = retryCall
      /\ \A n \in 1..Copies : <<e, n>> \in Objects
  BY BatchSteps DEF Single, Typed, EngineTyped, calls, Objects
<1>2. OneCopy(e) /\ Lone(e) /\ Apart(e)
  BY <1>1 DEF Single, OneCopy
<1>3. /\ Deliver(s) \/ RetryLater(s) \/ GiveUp(s) => batch[s].at = "process" /\ Subject(s) = Current(s)[1]
      /\ Removed(s) => batch[s].at \in {"remove", "drop"} /\ Subject(s) = Current(s)[1]
      /\ BatchParked(s) => batch[s].at = "park" /\ Subject(s) = Head(batch[s].failed)[1]
  BY DEF Deliver, RetryLater, GiveUp, Removed, BatchParked, Subject
<1>4. Deliver(s) \/ RetryLater(s) \/ GiveUp(s) => e # Current(s)[1]
  BY <1>3
<1>5. LoneTimer(e)' /\ (Timed(e)' => Timed(e))
  <2>1. \A n \in 1..Copies : retrying'[<<e, n>>] = retrying[<<e, n>>]
    <3>1. CASE RetryLater(s)
      <4>1. retrying' = [retrying EXCEPT ![Current(s)] = @ + 1] /\ Current(s) \in Objects
        BY <1>1, <1>3, <3>1, HeadFacts DEF RetryLater
      <4>2. \A n \in 1..Copies : <<e, n>> # Current(s)
        BY <1>4, <3>1
      <4> QED BY <1>1, <4>1, <4>2 DEF Typed, TimersTyped
    <3>2. CASE ~RetryLater(s)
      BY <3>2, BatchSteps
    <3> QED BY <3>1, <3>2
  <2> QED BY <1>2, <2>1 DEF Lone, LoneTimer, Timed
<1>6. Lone(e)' /\ Apart(e)' /\ (Held(e)' => Held(e)) /\ (Fails(e)' => Fails(e))
  BY <1>1, <1>2, <1>4, <1>5, BatchPlaces
<1>7. delivered'[e] = delivered[e]
  <2>1. CASE Deliver(s)
    BY <1>4, <2>1 DEF Deliver, Single, CountsTyped
  <2> QED BY <2>1, BatchSteps
<1>8. e \in overflow' => e \in overflow
  <2>1. CASE BatchParked(s)
    BY <1>3, <2>1 DEF BatchParked, Removed
  <2> QED BY <2>1, BatchSteps
<1>9. /\ e \in disk' /\ Removing(e) => Removing(e)'
      /\ e \in disk' /\ Dropping(e) => Dropping(e)'
  <2>1. \A r \in Slots \ {s} : batch'[r] = batch[r]
    BY <1>1, BatchShrinks
  <2>2. CASE Removed(s) /\ e = Current(s)[1]
    <3>1. e \notin disk'
      BY <2>2 DEF Removed
    <3> QED BY <3>1
  <2>3. CASE ~(Removed(s) /\ e = Current(s)[1])
    <3>1. batch[s].at \in {"remove", "drop"} => e # Current(s)[1]
      BY <1>3, <2>3 DEF BatchAct
    <3> QED BY <2>1, <3>1 DEF Removing, Dropping, Current
  <2> QED BY <2>2, <2>3
<1> QED BY <1>1, <1>2, <1>6, <1>7, <1>8, <1>9, CopyStays

\* The event at work is nowhere else, was never delivered and has no overflow file.
LEMMA AtWork ==
    ASSUME Single, NEW s \in Slots, Deliver(s) \/ RetryLater(s) \/ GiveUp(s),
           NEW e \in Events, e = Current(s)[1], OneCopy(e)
    PROVE  /\ Held(e) /\ ~Waits(e) /\ ~Timed(e) /\ ~Parks(e) /\ ~Fails(e) /\ ~(Works(e)')
           /\ delivered[e] = 0 /\ e \notin overflow
           /\ Ahead(batch[s], e, 1) /\ LoneWork(e) /\ LoneWork(e)'
           /\ \A r \in Slots \ {s} : batch'[r] = batch[r]
<1>1. Typed /\ Shaped(batch) /\ batch[s].at = "process" /\ TimersFire /\ BatchAct(s)
  BY DEF Deliver, RetryLater, GiveUp, BatchAct, Single, Typed, EngineTyped
<1>2. Works(e) /\ Ahead(batch[s], e, 1)
  BY <1>1, HeadWorks
<1>3. Held(e) /\ ~Waits(e) /\ ~Timed(e) /\ ~Parks(e) /\ ~Fails(e) /\ delivered[e] = 0
  BY <1>2 DEF OneCopy, Apart, Stored, Held
<1>4. retryCall.at # "unlink"
  BY <1>1 DEF TimersFire, Single, OneReader, NoCall
<1>5. e \notin overflow
  BY <1>3, <1>4 DEF OneCopy, Stored
<1>6. LoneWork(e) /\ LoneWork(e)' /\ \A r \in Slots \ {s} : batch'[r] = batch[r]
  BY <1>1, BatchShrinks DEF OneCopy, Lone
<1>7. ~(Works(e)')
  BY <1>1, <1>6, HeadLeaves
<1> QED BY <1>2, <1>3, <1>5, <1>6, <1>7

LEMMA CopyDeliver ==
    ASSUME Single, NEW s \in Slots, Deliver(s), NEW e \in Events, e = Current(s)[1], e \notin doubled'
    PROVE  OneCopy(e)'
<1>1. /\ Typed /\ Shaped(batch) /\ BatchAct(s) /\ UNCHANGED <<waiting, parking, retrying, disk, overflow, retryCall, doubled>>
      /\ delivered' = [delivered EXCEPT ![e] = @ + 1] /\ delivered \in [Events -> Nat]
  BY DEF Deliver, BatchAct, files, calls, outcome, Single, Typed, EngineTyped, CountsTyped
<1>2. OneCopy(e) /\ Lone(e) /\ Apart(e)
  BY <1>1 DEF Single, OneCopy
<1>3. /\ ~Waits(e) /\ ~Timed(e) /\ ~Parks(e) /\ ~Fails(e) /\ ~(Works(e)')
      /\ delivered[e] = 0 /\ e \notin overflow
  BY <1>2, AtWork
<1>4. LoneTimer(e)' /\ (Timed(e)' => Timed(e))
  BY <1>1, <1>2 DEF Lone, LoneTimer, Timed
<1>5. Lone(e)' /\ Apart(e)' /\ (Fails(e)' => Fails(e))
  <2>1. ~GiveUp(s)
    BY <1>1 DEF GiveUp, past
  <2> QED BY <1>1, <1>2, <1>4, <2>1, BatchPlaces
<1>6. ~(Waits(e)') /\ ~(Parks(e)')
  BY <1>1, <1>3 DEF Waits, Parks
<1>7. ~(Held(e)') /\ ~(Fails(e)') /\ delivered'[e] = 1
  BY <1>1, <1>3, <1>4, <1>5, <1>6 DEF Held
<1>8. Removing(e)'
  <2>1. batch' = [batch EXCEPT ![s].at = "remove"]
    BY DEF Deliver
  <2>2. batch'[s].at = "remove" /\ batch'[s].todo = batch[s].todo
    BY <1>1, <2>1 DEF Shaped, Shape, BatchStates
  <2> QED BY <2>2 DEF Removing, Current
<1>9. Stored(e)'
  BY <1>1, <1>3, <1>7, <1>8 DEF Stored
<1> QED BY <1>5, <1>9 DEF OneCopy

LEMMA CopyRetryLater ==
    ASSUME Single, NEW s \in Slots, RetryLater(s), NEW e \in Events, e = Current(s)[1], e \notin doubled'
    PROVE  OneCopy(e)'
<1>1. /\ Typed /\ Shaped(batch) /\ BatchAct(s) /\ UNCHANGED <<waiting, parking, disk, overflow, retryCall, delivered, doubled>>
      /\ retrying' = [retrying EXCEPT ![Current(s)] = @ + 1] /\ retrying \in [Objects -> Nat]
      /\ \A n \in 1..Copies : <<e, n>> \in Objects
      /\ batch[s].at = "process" /\ NextEvent(s, batch[s].failed)
  BY DEF RetryLater, BatchAct, files, calls, past, outcome, Single, Typed, EngineTyped, TimersTyped, Objects
<1>2. OneCopy(e) /\ Lone(e) /\ Apart(e)
  BY <1>1 DEF Single, OneCopy
<1>3. /\ Held(e) /\ ~Waits(e) /\ ~Timed(e) /\ ~Parks(e) /\ ~Fails(e) /\ ~(Works(e)')
      /\ delivered[e] = 0 /\ e \notin overflow /\ LoneWork(e)'
  BY <1>2, AtWork
<1>4. LoneTimer(e)'
  <2>1. \A n \in 1..Copies : retrying[<<e, n>>] = 0
    BY <1>1, <1>3 DEF Timed
  <2>2. \A n \in 1..Copies : retrying'[<<e, n>>] = IF <<e, n>> = Current(s) THEN 1 ELSE 0
    BY <1>1, <2>1
  <2> QED BY <2>2 DEF LoneTimer
<1>5. (Fails(e)' => Fails(e)) /\ (LoneFailure(e) => LoneFailure(e)')
  <2>1. retries[Current(s)] \in Nat
    BY <1>1, HeadFacts, SizesTyped DEF Typed, TimersTyped
  <2>2. ~(retries[Current(s)] < MaxRetries /\ retries[Current(s)] >= MaxRetries)
    BY <2>1, SizesTyped
  <2>3. ~GiveUp(s)
    BY <2>2 DEF RetryLater, GiveUp
  <2> QED BY <1>1, <2>3, BatchShrinks
<1>6. ~(Waits(e)') /\ ~(Parks(e)') /\ ~(Fails(e)')
  BY <1>1, <1>3, <1>5 DEF Waits, Parks
<1>7. Lone(e)' /\ Apart(e)'
  BY <1>1, <1>2, <1>3, <1>4, <1>5, <1>6 DEF Lone, Apart
<1>8. Stored(e)'
  BY <1>1, <1>3, <1>6 DEF Stored
<1> QED BY <1>7, <1>8 DEF OneCopy

LEMMA CopyGiveUp ==
    ASSUME Single, NEW s \in Slots, GiveUp(s), NEW e \in Events, e = Current(s)[1], e \notin doubled'
    PROVE  OneCopy(e)'
<1>1. /\ Typed /\ Shaped(batch) /\ BatchAct(s) /\ batch[s].at = "process" /\ Current(s) \in Objects
      /\ UNCHANGED <<waiting, parking, retrying, disk, overflow, retryCall, delivered, doubled>>
  BY HeadFacts DEF GiveUp, BatchAct, files, calls, past, outcome, Single, Typed, EngineTyped
<1>2. OneCopy(e) /\ Lone(e) /\ Apart(e)
  BY <1>1 DEF Single, OneCopy
<1>3. /\ ~Waits(e) /\ ~Timed(e) /\ ~Parks(e) /\ ~Fails(e) /\ ~(Works(e)')
      /\ delivered[e] = 0 /\ e \notin overflow /\ LoneWork(e)'
      /\ \A r \in Slots \ {s} : batch'[r] = batch[r]
  BY <1>2, AtWork
<1>4. LoneTimer(e)' /\ ~(Timed(e)') /\ ~(Waits(e)') /\ ~(Parks(e)')
  BY <1>1, <1>2, <1>3 DEF Lone, LoneTimer, Timed, Waits, Parks
<1>5. batch'[s].failed = Append(batch[s].failed, Current(s)) /\ batch'[s].at = "drop" /\ batch'[s].todo = batch[s].todo
  <2>1. BatchGoesOn(s, Failing(s))
    BY <1>1, GiveUpFacts
  <2>2. batch'[s] = Failing(s)
    BY <1>1, <2>1, GoesOnFacts
  <2> QED BY <2>2 DEF Failing
<1> DEFINE f == batch[s].failed
<1>6. \A j \in DOMAIN batch'[s].failed : batch'[s].failed[j][1] = e => j = Len(f) + 1
  <2>1. f \in Seq(Objects) /\ Len(f) \in Nat /\ DOMAIN f = 1..Len(f)
    BY <1>1, BatchTypes
  <2> DEFINE g == Append(f, Current(s))
  <2>2. g \in Seq(Objects) /\ Len(g) = Len(f) + 1 /\ \A i \in 1..Len(f) : g[i] = f[i]
    BY <1>1, <2>1, AppendProperties
  <2>3. DOMAIN g = 1..(Len(f) + 1)
    BY <2>2, LenProperties
  <2>4. \A i \in 1..Len(f) : f[i][1] # e
    BY <1>3, <2>1 DEF Fails
  <2> HIDE DEF f, g
  <2>5. \A j \in 1..(Len(f) + 1) : g[j][1] = e => j = Len(f) + 1
    <3> SUFFICES ASSUME NEW j \in 1..(Len(f) + 1), j # Len(f) + 1 PROVE g[j][1] # e
      OBVIOUS
    <3>1. j \in 1..Len(f)
      BY <2>1
    <3> QED BY <2>2, <2>4, <3>1
  <2> QED BY <1>5, <2>3, <2>5 DEF f, g
<1> HIDE DEF f
<1>7. \A r \in Slots \ {s} : \A j \in DOMAIN batch'[r].failed : batch'[r].failed[j][1] # e
  BY <1>3 DEF Fails
<1>8. LoneFailure(e)'
  <2> SUFFICES ASSUME NEW q \in Slots, NEW r \in Slots,
                      NEW j \in DOMAIN batch'[q].failed, NEW k \in DOMAIN batch'[r].failed,
                      batch'[q].failed[j][1] = e, batch'[r].failed[k][1] = e
               PROVE  q = r /\ j = k
    BY DEF LoneFailure
  <2>1. q = s /\ r = s
    BY <1>7
  <2> QED BY <1>6, <2>1
<1>9. Lone(e)'
  BY <1>1, <1>2, <1>3, <1>4, <1>8 DEF Lone
<1>10. Apart(e)'
  BY <1>3, <1>4 DEF Apart
<1>11. Dropping(e)'
  BY <1>5 DEF Dropping, Current
<1>12. Stored(e)'
  BY <1>1, <1>3, <1>11 DEF Stored
<1> QED BY <1>9, <1>10, <1>12 DEF OneCopy

LEMMA CopyBatchParked ==
    ASSUME Single, NEW s \in Slots, BatchParked(s), overflow' # overflow,
           NEW e \in Events, e = Head(batch[s].failed)[1], e \notin doubled'
    PROVE  OneCopy(e)'
<1>1. /\ Typed /\ Shaped(batch) /\ BatchAct(s) /\ batch[s].at = "park"
      /\ UNCHANGED <<waiting, parking, retrying, disk, retryCall, delivered>>
      /\ overflow' = overflow \cup {e} /\ (e \in disk => e \in doubled') /\ doubled \subseteq doubled'
      /\ batch' = [batch EXCEPT ![s] = IF Tail(batch[s].failed) = <<>> THEN NoBatch
                                       ELSE [batch[s] EXCEPT !.failed = Tail(batch[s].failed)]]
  BY DEF BatchParked, BatchAct, calls, Single, Typed, EngineTyped
<1>2. OneCopy(e) /\ Lone(e) /\ Apart(e)
  BY <1>1 DEF Single, OneCopy
<1>3. batch[s].failed \in Seq(Objects) /\ batch[s].failed # <<>>
  BY <1>1, BatchTypes DEF Shaped, Shape
<1>4. batch[s].failed[1][1] = e /\ 1 \in DOMAIN batch[s].failed
  BY <1>3, TailPlaces
<1>5. Fails(e) /\ ~Waits(e) /\ ~Works(e) /\ ~Timed(e) /\ ~Parks(e) /\ Held(e)
  BY <1>2, <1>4 DEF Fails, Apart, Held
<1>6. delivered[e] = 0
  BY <1>2, <1>5 DEF OneCopy, Stored
<1>7. ~(Fails(e)')
  <2>1. \A r \in Slots : \A k \in DOMAIN batch[r].failed : batch[r].failed[k][1] = e => r = s /\ k = 1
    BY <1>2, <1>4 DEF Lone, LoneFailure
  <2>2. \A r \in Slots \ {s} : batch'[r] = batch[r]
    BY <1>1, BatchShrinks
  <2>3. batch'[s].failed = <<>> \/ batch'[s].failed = Tail(batch[s].failed)
    BY <1>1 DEF NoBatch, Shaped, Shape, BatchStates
  <2>4. \A k \in DOMAIN batch'[s].failed : batch'[s].failed[k][1] # e
    <3>1. CASE batch'[s].failed = <<>>
      BY <3>1
    <3>2. CASE batch'[s].failed = Tail(batch[s].failed)
      BY <1>3, <2>1, <3>2, TailPlaces
    <3> QED BY <2>3, <3>1, <3>2
  <2> QED BY <2>1, <2>2, <2>4 DEF Fails
<1>8. LoneTimer(e)' /\ (Timed(e)' => Timed(e))
  BY <1>1, <1>2 DEF Lone, LoneTimer, Timed
<1>9. Lone(e)' /\ Apart(e)'
  <2>1. ~GiveUp(s)
    BY <1>1 DEF GiveUp
  <2> QED BY <1>1, <1>2, <1>8, <2>1, BatchPlaces
<1>10. ~(Held(e)')
  <2>1. ~(Waits(e)') /\ ~(Parks(e)')
    BY <1>1, <1>5 DEF Waits, Parks
  <2>2. ~(Works(e)')
    BY <1>1, <1>5, BatchShrinks
  <2> QED BY <1>5, <1>7, <1>8, <2>1, <2>2 DEF Held
<1>11. Stored(e)'
  BY <1>1, <1>6, <1>7, <1>10 DEF Stored
<1> QED BY <1>9, <1>11 DEF OneCopy

LEMMA CopyBatch ==
    ASSUME Single, NEW s \in Slots, BatchAct(s), NEW e \in Events, e \notin doubled' PROVE OneCopy(e)'
<1>1. CASE e # Subject(s) \/ Removed(s) \/ (BatchParked(s) /\ overflow' = overflow)
  BY <1>1, CopyOther
<1>2. CASE e = Subject(s) /\ (Deliver(s) \/ RetryLater(s) \/ GiveUp(s))
  <2>1. e = Current(s)[1]
    BY <1>2 DEF Subject, Deliver, RetryLater, GiveUp
  <2> QED BY <1>2, <2>1, CopyDeliver, CopyRetryLater, CopyGiveUp
<1>3. CASE e = Subject(s) /\ BatchParked(s) /\ overflow' # overflow
  <2>1. e = Head(batch[s].failed)[1]
    BY <1>3 DEF Subject, BatchParked
  <2> QED BY <1>3, <2>1, CopyBatchParked
<1> QED BY <1>1, <1>2, <1>3 DEF BatchAct

\* An event that is nowhere stays so when another one moves.
LEMMA MovedNotHeld ==
    ASSUME Typed, NEW q, NEW w, Moved(q, w), NEW e, ~Held(e), e \notin ToSet(w), ~(Timed(e)'), ~(Parks(e)')
    PROVE  ~(Held(e)')
<1>1. (Waits(e)' => e \in ToSet(w)) /\ (Works(e)' => Works(e) \/ e \in ToSet(w))
  BY MovedHeld
<1>2. Fails(e)' <=> Fails(e)
  BY MovedKeeps DEF Typed, EngineTyped, KeepsBatches
<1> QED BY <1>1, <1>2 DEF Held

LEMMA SameNotHeld ==
    ASSUME UNCHANGED <<waiting, batch, retrying>>, NEW e, ~Held(e), parking'[e] = parking[e] PROVE ~(Held(e)')
BY DEF Held, Waits, Works, Timed, Parks, Fails

LEMMA RequeueNotHeld ==
    ASSUME Typed, NEW o \in Objects, Requeue(o), NEW e \in Events, e # o[1], ~Held(e), ~(Timed(e)')
    PROVE  ~(Held(e)')
<1>1. EngineTyped /\ parking \in [Events -> Nat] /\ ~Waits(e) /\ ~Parks(e) /\ ~Works(e) /\ ~Fails(e)
  BY DEF Typed, TimersTyped, Held
<1>2. CASE Park(o[1]) /\ UNCHANGED <<queue, waiting, batch>>
  <2>1. parking'[e] = parking[e]
    BY <1>1, <1>2 DEF Park
  <2>2. ~(Parks(e)') /\ ~(Waits(e)') /\ ~(Works(e)') /\ ~(Fails(e)')
    BY <1>1, <1>2, <2>1 DEF Parks, Waits, Works, Fails
  <2> QED BY <2>2 DEF Held
<1>3. CASE /\ parking' = parking /\ Moved(queue', Push(waiting, o[1]))
           /\ ToSet(Push(waiting, o[1])) = ToSet(waiting) \cup {o[1]}
  <2> DEFINE w == Push(waiting, o[1])
  <2>1. e \notin ToSet(w) /\ Moved(queue', w)
    BY <1>1, <1>3 DEF Waits
  <2>2. ~(Parks(e)')
    BY <1>1, <1>3 DEF Parks
  <2> HIDE DEF w
  <2> QED BY <2>1, <2>2, MovedNotHeld
<1> QED BY <1>1, <1>2, <1>3, RequeueFacts

\* A batch concerns only events it holds.
LEMMA BatchNotHeld ==
    ASSUME Typed, CountsTyped, NEW s \in Slots, BatchAct(s), NEW e \in Events, ~Held(e)
    PROVE  ~(Held(e)') /\ delivered'[e] = delivered[e] /\ (e \in overflow' => e \in overflow)
<1>1. Shaped(batch) /\ \A n \in 1..Copies : <<e, n>> \in Objects
  BY DEF Typed, EngineTyped, Objects
<1>2. ~Waits(e) /\ ~Works(e) /\ ~Timed(e) /\ ~Parks(e) /\ ~Fails(e)
  BY DEF Held
<1>3. ASSUME Deliver(s) \/ RetryLater(s) \/ GiveUp(s) PROVE e # Current(s)[1] /\ Current(s) \in Objects
  <2>1. batch[s].at = "process"
    BY <1>3 DEF Deliver, RetryLater, GiveUp
  <2> QED BY <1>1, <1>2, <2>1, HeadWorks
<1>4. ~(Timed(e)')
  <2>1. CASE RetryLater(s)
    <3>1. retrying' = [retrying EXCEPT ![Current(s)] = @ + 1] /\ \A n \in 1..Copies : <<e, n>> # Current(s)
      BY <1>3, <2>1 DEF RetryLater
    <3>2. \A n \in 1..Copies : retrying'[<<e, n>>] = retrying[<<e, n>>]
      BY <1>1, <3>1 DEF Typed, TimersTyped
    <3> QED BY <1>2, <3>2 DEF Timed
  <2>2. CASE ~RetryLater(s)
    BY <1>2, <2>2, BatchSteps DEF Timed
  <2> QED BY <2>1, <2>2
<1>5. ~(Waits(e)') /\ ~(Parks(e)')
  BY <1>2, BatchSteps DEF Waits, Parks
<1>6. ~(Works(e)') /\ ~(Fails(e)')
  BY <1>2, <1>3, BatchShrinks
<1>7. delivered'[e] = delivered[e]
  <2>1. CASE Deliver(s)
    BY <1>3, <2>1 DEF Deliver, CountsTyped
  <2> QED BY <2>1, BatchSteps
<1>8. e \in overflow' => e \in overflow
  <2>1. CASE BatchParked(s)
    <3>1. batch[s].failed \in Seq(Objects) /\ batch[s].failed # <<>>
      BY <1>1, <2>1, BatchTypes DEF BatchParked, Shaped, Shape
    <3>2. Head(batch[s].failed)[1] # e
      BY <1>2, <3>1, TailPlaces DEF Fails
    <3> QED BY <2>1, <3>2 DEF BatchParked
  <2> QED BY <2>1, BatchSteps
<1> QED BY <1>4, <1>5, <1>6, <1>7, <1>8 DEF Held

\* A file that is read belongs to another event.
LEMMA ReadNotHeld ==
    ASSUME Typed, NEW c \in Events, NEW n \in 1..Copies, Requeue(<<c, n>>), UNCHANGED retrying,
           NEW e \in Events, e # c, ~Held(e)
    PROVE  ~(Held(e)')
<1>1. <<c, n>> \in Objects /\ <<c, n>>[1] = c
  BY DEF Objects
<1>2. ~(Timed(e)')
  BY DEF Held, Timed
<1> QED BY <1>1, <1>2, RequeueNotHeld

\* An event nobody has reported is nowhere, and stays so.
LEMMA AbsentStep ==
    ASSUME Single, [Next]_vars, NEW e \in Events, e \notin arrived' PROVE Absent(e)'
<1>1. Typed /\ OneReader /\ CountsTyped /\ EngineTyped /\ parking \in [Events -> Nat] /\ retrying \in [Objects -> Nat]
  BY DEF Single, Typed, TimersTyped
<1>2. ASSUME e \notin arrived
      PROVE  ~Held(e) /\ e \notin disk /\ e \notin overflow /\ e \notin persisting /\ delivered[e] = 0
  BY <1>2 DEF Single, Absent
<1>3. CASE UNCHANGED vars
  <2>1. UNCHANGED <<waiting, batch, retrying, parking, persisting, disk, overflow, delivered, arrived>>
    BY <1>3 DEF vars, memory, files, past
  <2>2. ~(Held(e)')
    BY <1>2, <2>1, SameNotHeld
  <2> QED BY <1>2, <2>1, <2>2 DEF Absent
<1>4. CASE Tick
  <2>1. UNCHANGED <<queue, retrying, persisting, parking, disk, overflow, delivered, arrived>>
    BY <1>4 DEF Tick, files, past
  <2>2. Moved(queue, waiting)
    BY <1>1, <1>4, <2>1, TakeFacts, StillFacts DEF Tick, EngineTyped
  <2>3. e \notin ToSet(waiting) /\ ~(Timed(e)') /\ ~(Parks(e)') /\ ~Held(e)
    BY <1>2, <2>1 DEF Held, Waits, Timed, Parks
  <2>4. ~(Held(e)')
    BY <1>1, <2>2, <2>3, MovedNotHeld
  <2> QED BY <1>2, <2>1, <2>4 DEF Absent
<1>5. ASSUME NEW c \in Events, Persisted(c) PROVE Absent(e)'
  <2>1. /\ StartProcessing(queue, waiting) /\ c \in persisting
        /\ UNCHANGED <<queue, retrying, parking, overflow, delivered, arrived>>
        /\ persisting' \subseteq persisting /\ disk' \subseteq disk \cup {c}
    BY <1>5 DEF Persisted
  <2>2. Moved(queue, waiting)
    BY <1>1, <2>1, ProcessingFacts DEF EngineTyped
  <2>3. e \notin ToSet(waiting) /\ ~(Timed(e)') /\ ~(Parks(e)') /\ ~Held(e)
    BY <1>2, <2>1 DEF Held, Waits, Timed, Parks
  <2>4. ~(Held(e)')
    BY <1>1, <2>2, <2>3, MovedNotHeld
  <2> QED BY <1>2, <2>1, <2>4 DEF Absent
<1>6. ASSUME NEW c \in Events, Enqueue(c) PROVE Absent(e)'
  <2>1. e # c /\ arrived \subseteq arrived' /\ UNCHANGED <<batch, retrying, disk, overflow, delivered>>
    BY <1>6 DEF Enqueue
  <2>2. ~Waits(e) /\ ~Works(e) /\ ~Timed(e) /\ ~Parks(e) /\ ~Fails(e)
    BY <1>2, <2>1 DEF Held
  <2>3. ~(Waits(e)') /\ ~(Parks(e)') /\ e \notin persisting'
    <3>1. CASE Park(c) /\ UNCHANGED <<queue, waiting, persisting>>
      <4>1. parking'[e] = parking[e]
        BY <1>1, <2>1, <3>1 DEF Park
      <4> QED BY <1>2, <2>1, <2>2, <3>1, <4>1 DEF Waits, Parks
    <3>2. CASE waiting' = Push(waiting, c) /\ persisting' = persisting \cup {c} /\ parking' = parking
      <4>1. ToSet(Push(waiting, c)) = ToSet(waiting) \cup {c}
        BY <1>1, PushFacts DEF EngineTyped
      <4> QED BY <1>2, <2>1, <2>2, <3>2, <4>1 DEF Waits, Parks
    <3> QED BY <1>6, <3>1, <3>2 DEF Enqueue
  <2>4. ~(Works(e)') /\ ~(Timed(e)') /\ ~(Fails(e)')
    BY <2>1, <2>2 DEF Works, Timed, Fails
  <2>5. ~(Held(e)')
    BY <2>3, <2>4 DEF Held
  <2> QED BY <1>2, <2>1, <2>3, <2>5 DEF Absent
<1>7. ASSUME NEW c \in Events, Parked(c) PROVE Absent(e)'
  <2>1. /\ UNCHANGED <<waiting, batch, retrying, persisting, disk, delivered, arrived>>
        /\ parking[c] > 0 /\ parking' = [parking EXCEPT ![c] = @ - 1] /\ overflow' \subseteq overflow \cup {c}
    BY <1>7 DEF Parked, memory
  <2>2. ~Held(e) /\ e # c
    BY <1>2, <2>1 DEF Held, Parks
  <2>3. parking'[e] = parking[e]
    BY <1>1, <2>1, <2>2
  <2>4. ~(Held(e)')
    BY <2>1, <2>2, <2>3, SameNotHeld
  <2> QED BY <1>2, <2>1, <2>2, <2>4 DEF Absent
<1>8. ASSUME NEW c \in Events, Load(c) \/ RetryRead(c) PROVE Absent(e)'
  <2>1. UNCHANGED <<delivered, arrived>>
    BY <1>8 DEF Load, RetryRead
  <2>2. CASE UNCHANGED <<memory, files, doubled>>
    <3>1. UNCHANGED <<waiting, batch, retrying, parking, persisting, disk, overflow>>
      BY <2>2 DEF memory, files
    <3>2. ~(Held(e)')
      BY <1>2, <2>1, <3>1, SameNotHeld
    <3> QED BY <1>2, <2>1, <3>1, <3>2 DEF Absent
  <2>3. ASSUME c \in disk \cup overflow, NEW n \in 1..Copies, Requeue(<<c, n>>),
               UNCHANGED <<retrying, persisting, disk, overflow>>
        PROVE  Absent(e)'
    <3>1. e # c
      BY <1>2, <2>1, <2>3
    <3>2. ~(Held(e)')
      BY <1>1, <1>2, <2>1, <2>3, <3>1, ReadNotHeld
    <3> QED BY <1>2, <2>1, <2>3, <3>2 DEF Absent
  <2> QED BY <1>8, <2>2, <2>3 DEF Load, RetryRead
<1>9. ASSUME NEW o \in Objects, RetryFires(o) PROVE Absent(e)'
  <2>1. /\ UNCHANGED <<persisting, disk, overflow, delivered, arrived>> /\ Requeue(o)
        /\ retrying[o] > 0 /\ retrying' = [retrying EXCEPT ![o] = @ - 1]
    BY <1>9 DEF RetryFires, past
  <2>2. PICK n \in 1..Copies : o = <<o[1], n>>
    BY ObjectFacts
  <2>3. ~Held(e) /\ ~Timed(e)
    BY <1>2, <2>1 DEF Held
  <2>4. e # o[1]
    BY <2>1, <2>2, <2>3 DEF Timed
  <2>5. \A m \in 1..Copies : <<e, m>> \in Objects /\ <<e, m>> # o
    BY <2>2, <2>4 DEF Objects
  <2>6. \A m \in 1..Copies : retrying'[<<e, m>>] = retrying[<<e, m>>]
    BY <1>1, <2>1, <2>5
  <2>7. ~(Timed(e)')
    BY <2>3, <2>6 DEF Timed
  <2>8. ~(Held(e)')
    BY <1>1, <2>1, <2>3, <2>4, <2>7, RequeueNotHeld
  <2> QED BY <1>2, <2>1, <2>8 DEF Absent
<1>10. ASSUME NEW s \in Slots, BatchAct(s) PROVE Absent(e)'
  <2>1. UNCHANGED <<persisting, arrived>> /\ disk' \subseteq disk
    BY <1>10, BatchSteps
  <2>2. ~(Held(e)') /\ delivered'[e] = delivered[e] /\ (e \in overflow' => e \in overflow)
    BY <1>1, <1>2, <1>10, <2>1, BatchNotHeld
  <2> QED BY <1>2, <2>1, <2>2 DEF Absent
<1>11. CASE CallAct
  <2>1. UNCHANGED <<memory, persisting, parking, past>> /\ disk' \subseteq disk /\ overflow' \subseteq overflow
    BY <1>1, <1>11, CallActFacts, CallFiles
  <2>2. UNCHANGED <<waiting, batch, retrying, parking, persisting, delivered, arrived>>
    BY <2>1 DEF memory, past
  <2>3. ~(Held(e)')
    BY <1>2, <2>2, SameNotHeld
  <2> QED BY <1>2, <2>1, <2>2, <2>3 DEF Absent
<1>12. CASE Shutdown
  <2>1. UNCHANGED <<waiting, batch, retrying, parking, persisting, disk, overflow, delivered, arrived>>
    BY <1>12 DEF Shutdown, files, past
  <2>2. ~(Held(e)')
    BY <1>2, <2>1, SameNotHeld
  <2> QED BY <1>2, <2>1, <2>2 DEF Absent
<1>13. CASE Clear
  <2>1. waiting' = <<>> /\ UNCHANGED <<batch, retrying, parking, persisting, disk, overflow, delivered, arrived>>
    BY <1>13 DEF Clear, files
  <2>2. ~(Held(e)')
    BY <1>2, <2>1 DEF Held, Waits, ToSet, Works, Timed, Parks, Fails
  <2> QED BY <1>2, <2>1, <2>2 DEF Absent
<1>14. CASE Crash
  <2>1. persisting' = {} /\ UNCHANGED <<disk, overflow, delivered, arrived>>
    BY <1>14 DEF Crash, Blank
  <2>2. ~(Held(e)')
    BY <1>14, CrashHolds DEF HoldsNothing
  <2> QED BY <1>2, <2>1, <2>2 DEF Absent
<1> QED
  BY <1>3, <1>4, <1>5, <1>6, <1>7, <1>8, <1>9, <1>10, <1>11, <1>12, <1>13, <1>14 DEF Next, CallAct, BatchAct

\* The budget of a call is spent once, and only retryFailedEvents parks a file again.
LEMMA ReaderStep ==
    ASSUME Typed, OneReader, [Next]_vars PROVE OneReader'
<1>1. CASE UNCHANGED <<budget, retryCall, clearCall>> /\ overflow \subseteq overflow'
  BY <1>1 DEF OneReader
<1>2. CASE UNCHANGED vars
  BY <1>1, <1>2 DEF vars, calls, files
<1>3. CASE CallAct
  BY <1>3, CallFiles
<1>4. CASE Tick
  BY <1>1, <1>4 DEF Tick, calls, files
<1>5. ASSUME NEW c \in Events, Enqueue(c) \/ Persisted(c) \/ Parked(c) \/ Load(c) PROVE OneReader'
  <2>1. UNCHANGED <<budget, retryCall, clearCall>> /\ overflow \subseteq overflow'
    BY <1>5 DEF Enqueue, Persisted, Parked, Load, calls, files
  <2> QED BY <1>1, <2>1
<1>6. ASSUME NEW c \in Events, RetryRead(c) PROVE OneReader'
  <2>1. retryCall # NoCall /\ UNCHANGED <<budget, clearCall, overflow>>
    BY <1>6 DEF RetryRead, NoCall, files
  <2>2. retryCall'.at = "park" => retryCall'.file \in overflow
    BY <1>6 DEF RetryRead, RetryGoesOn, RetryWaits, NoCall
  <2> QED BY <2>1, <2>2 DEF OneReader
<1>7. ASSUME NEW s \in Slots, BatchAct(s) PROVE OneReader'
  <2>1. UNCHANGED <<budget, retryCall, clearCall>>
    BY <1>7, BatchSteps DEF calls
  <2>2. overflow \subseteq overflow'
    BY <1>7 DEF BatchAct, Deliver, RetryLater, GiveUp, Removed, BatchParked, files
  <2> QED BY <1>1, <2>1, <2>2
<1>8. ASSUME NEW o \in Objects, RetryFires(o) PROVE OneReader'
  BY <1>1, <1>8 DEF RetryFires, calls
<1>9. CASE Shutdown
  <2>1. budget' = [budget EXCEPT !["shutdown"] = @ - 1] /\ budget["shutdown"] > 0
    BY <1>9 DEF Shutdown, Spend
  <2>2. budget' \in [{"crash", "shutdown", "clear", "retry"} -> Nat]
        /\ budget'["retry"] = budget["retry"] /\ budget'["clear"] = budget["clear"]
    BY <2>1 DEF OneReader
  <2>3. UNCHANGED <<retryCall, clearCall, overflow>>
    BY <1>9 DEF Shutdown, files
  <2> QED BY <2>2, <2>3 DEF OneReader
<1>10. CASE Clear
  <2>1. budget' = [budget EXCEPT !["clear"] = @ - 1] /\ budget["clear"] > 0
    BY <1>10 DEF Clear, Spend
  <2>2. budget["retry"] = 0 /\ retryCall = NoCall
    BY <2>1 DEF OneReader
  <2>3. budget' \in [{"crash", "shutdown", "clear", "retry"} -> Nat] /\ budget'["retry"] = 0
    BY <2>1, <2>2 DEF OneReader
  <2>4. UNCHANGED <<retryCall, overflow>>
    BY <1>10 DEF Clear, files
  <2> QED BY <2>2, <2>3, <2>4 DEF OneReader, NoCall
<1>11. CASE Crash
  <2>1. budget' = [budget EXCEPT !["crash"] = @ - 1] /\ budget["crash"] > 0
    BY <1>11 DEF Crash, Spend
  <2>2. budget' \in [{"crash", "shutdown", "clear", "retry"} -> Nat]
        /\ budget'["retry"] = budget["retry"] /\ budget'["clear"] = budget["clear"]
    BY <2>1 DEF OneReader
  <2>3. retryCall' = NoCall /\ clearCall' = NoCall
    BY <1>11 DEF Crash, Blank
  <2> QED BY <2>2, <2>3 DEF OneReader, NoCall
<1> QED BY <1>2, <1>3, <1>4, <1>5, <1>6, <1>7, <1>8, <1>9, <1>10, <1>11 DEF Next, CallAct, BatchAct

LEMMA CountsStep ==
    ASSUME Typed, CountsTyped, [Next]_vars PROVE CountsTyped'
<1>1. ASSUME NEW s \in Slots, Deliver(s) PROVE CountsTyped'
  <2> DEFINE c == Current(s)[1]
  <2>1. c \in Events
    BY <1>1, HeadFacts DEF Deliver, Typed, EngineTyped
  <2>2. delivered' = [delivered EXCEPT ![c] = @ + 1]
    BY <1>1 DEF Deliver
  <2> HIDE DEF c
  <2> QED BY <2>1, <2>2 DEF CountsTyped
<1>2. CASE UNCHANGED vars \/ Tick \/ Shutdown \/ Clear \/ Crash
  BY <1>2 DEF vars, past, Tick, Shutdown, Clear, Crash, CountsTyped
<1>3. CASE CallAct
  BY <1>3, CallActFacts DEF past, CountsTyped
<1>4. ASSUME NEW c \in Events, Enqueue(c) \/ Persisted(c) \/ Parked(c) \/ Load(c) \/ RetryRead(c) PROVE CountsTyped'
  BY <1>4 DEF Enqueue, Persisted, Parked, Load, RetryRead, CountsTyped
<1>5. ASSUME NEW s \in Slots, RetryLater(s) \/ GiveUp(s) \/ Removed(s) \/ BatchParked(s) PROVE CountsTyped'
  BY <1>5 DEF RetryLater, GiveUp, Removed, BatchParked, past, CountsTyped
<1>6. ASSUME NEW o \in Objects, RetryFires(o) PROVE CountsTyped'
  BY <1>6 DEF RetryFires, past, CountsTyped
<1> QED BY <1>1, <1>2, <1>3, <1>4, <1>5, <1>6 DEF Next, CallAct

LEMMA CopyStep ==
    ASSUME Single, [Next]_vars, NEW e \in Events, e \notin doubled' PROVE OneCopy(e)'
<1>1. CASE UNCHANGED vars
  <2>1. UNCHANGED <<waiting, batch, retrying, parking, disk, overflow, retryCall, delivered, doubled>>
    BY <1>1 DEF vars, memory, files, calls, past, outcome
  <2>2. OneCopy(e) /\ Lone(e) /\ Apart(e)
    BY <2>1 DEF Single, OneCopy
  <2>3. Lone(e)' /\ Apart(e)' /\ KeepsBatches(e) /\ (Held(e)' => Held(e))
    BY <2>1, <2>2, SamePlaces
  <2> QED BY <2>1, <2>2, <2>3, CopyStays DEF KeepsBatches
<1>2. CASE Tick
  BY <1>2, CopyTick
<1>3. CASE Clear \/ Shutdown \/ Crash
  BY <1>3, CopyEnds
<1>4. CASE CallAct
  BY <1>4, CopyCall
<1>5. ASSUME NEW c \in Events, Enqueue(c) \/ Persisted(c) \/ Parked(c) \/ Load(c) \/ RetryRead(c) PROVE OneCopy(e)'
  BY <1>5, CopyEnqueue, CopyPersisted, CopyParked, CopyLoad, CopyRetryRead
<1>6. ASSUME NEW s \in Slots, BatchAct(s) PROVE OneCopy(e)'
  BY <1>6, CopyBatch
<1>7. ASSUME NEW o \in Objects, RetryFires(o) PROVE OneCopy(e)'
  BY <1>7, CopyRetryFires
<1> QED BY <1>1, <1>2, <1>3, <1>4, <1>5, <1>6, <1>7 DEF Next, CallAct, BatchAct

LEMMA SingleStep == Single /\ [Next]_vars => Single'
<1> SUFFICES ASSUME Single, [Next]_vars PROVE Single'
  OBVIOUS
<1>1. Typed' /\ OneReader' /\ CountsTyped'
  BY TypesStep, ReaderStep, CountsStep DEF Single
<1>2. \A e \in Events \ arrived' : Absent(e)'
  BY AbsentStep
<1>3. \A e \in Events \ doubled' : OneCopy(e)'
  BY CopyStep
<1> QED BY <1>1, <1>2, <1>3 DEF Single

LEMMA SingleInit == Init /\ Orderly => Single
<1> SUFFICES ASSUME Init, Orderly PROVE Single
  OBVIOUS
<1>1. AtStart /\ Typed /\ JustStarted
  BY InitFacts DEF MainInv, Init, JustStarted
<1>2. HoldsNothing
  BY <1>1, BlankLone
<1>3. OneReader
  BY <1>1, BoundsAssumption DEF AtStart, Init, Orderly, BoundsAssumption, OneReader, NoCall
<1>4. CountsTyped /\ disk = {} /\ overflow = {} /\ persisting = {} /\ \A e \in Events : delivered[e] = 0
  BY <1>1 DEF Init, AtStart, CountsTyped
<1>5. ASSUME NEW e \in Events PROVE Absent(e) /\ OneCopy(e)
  <2>1. Lone(e) /\ Apart(e) /\ ~Held(e) /\ ~Fails(e)
    BY <1>2 DEF HoldsNothing, Held
  <2> QED BY <1>4, <2>1 DEF Absent, OneCopy, Stored
<1> QED BY <1>1, <1>3, <1>4, <1>5 DEF Single

\* When retryFailedEvents is called, clear is not, file operations do not fail and no
\* timer fires while it removes a file; or it is not called at all.  Then an event of
\* which no other copy was made is delivered at most once: whatever batches overlap,
\* however often it is retried, parked, read back after a crash or queued again.
THEOREM DeliveredOnce == Orderly => (Spec => []AtMostOnce)
<1>1. SUFFICES ASSUME Orderly PROVE Spec => []AtMostOnce
  OBVIOUS
<1>2. Init => Single
  BY <1>1, SingleInit
<1>3. Single => AtMostOnce
  BY DEF Single, OneCopy, Stored, AtMostOnce
<1> QED BY <1>2, <1>3, SingleStep, PTL DEF Spec
=============================================================================
