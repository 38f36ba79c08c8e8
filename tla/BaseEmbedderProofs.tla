------------------------- MODULE BaseEmbedderProofs -------------------------
(***************************************************************************)
(* Proofs about BaseEmbedder, for any finite set of calls, any texts and   *)
(* any limit on concurrent requests.                                       *)
(***************************************************************************)
EXTENDS BaseEmbedder, FiniteSetTheorems, TLAPS

Stages == {"new", "lookup", "queued", "shifted", "request", "store", "returned", "thrown"}

-----------------------------------------------------------------------------
(* Counting requests *)

LEMMA RequestingFinite == IsFiniteSet(Requesting) /\ IsFiniteSet(Requesting')
  BY CallsAssumption, FS_Subset DEF Requesting

LEMMA RequestingNumber == Cardinality(Requesting) \in Nat
  BY RequestingFinite, FS_CardinalityType

LEMMA CountsAreNumbers ==
    ASSUME surplus \subseteq Calls
    PROVE  /\ Cardinality(Requesting) \in Nat
           /\ IsFiniteSet(ReleasedTwice) /\ Cardinality(ReleasedTwice) \in Nat
<1>1. IsFiniteSet(ReleasedTwice)
  BY CallsAssumption, FS_Subset DEF ReleasedTwice
<1> QED
  BY <1>1, RequestingFinite, FS_CardinalityType

LEMMA OneMoreRequest ==
    ASSUME NEW c \in Calls, pc[c] # "request",
           \A d \in Calls : pc'[d] = "request" <=> d = c \/ pc[d] = "request"
    PROVE  Cardinality(Requesting') = Cardinality(Requesting) + 1
<1>1. Requesting' = Requesting \cup {c} /\ c \notin Requesting
  BY DEF Requesting
<1> QED
  BY <1>1, RequestingFinite, FS_AddElement

LEMMA OneRequestLess ==
    ASSUME NEW c \in Calls, pc[c] = "request",
           \A d \in Calls : pc'[d] = "request" <=> d # c /\ pc[d] = "request"
    PROVE  Cardinality(Requesting') = Cardinality(Requesting) - 1
<1>1. Requesting' = Requesting \ {c} /\ c \in Requesting
  BY DEF Requesting
<1> QED
  BY <1>1, RequestingFinite, FS_RemoveElement

LEMMA SameRequests ==
    ASSUME \A d \in Calls : pc'[d] = "request" <=> pc[d] = "request"
    PROVE  Requesting' = Requesting
  BY DEF Requesting

LEMMA SameReleases ==
    ASSUME surplus \subseteq Calls, surplus' \subseteq Calls,
           \A d \in Calls : d \in surplus' /\ pc'[d] = "thrown" <=> d \in surplus /\ pc[d] = "thrown"
    PROVE  ReleasedTwice' = ReleasedTwice
  BY DEF ReleasedTwice

\* How far activeRequests is from the requests under way; each operation on the
\* slots leaves it, except a release by a call that holds none.
Surcharge == activeRequests - Cardinality(Requesting)

LEMMA CountKept ==
    ASSUME activeRequests \in Int, activeRequests' \in Int, surplus \subseteq Calls,
           SlotsCounted, Surcharge' = Surcharge, ReleasedTwice' = ReleasedTwice
    PROVE  SlotsCounted'
<1>1. Cardinality(Requesting) \in Nat /\ Cardinality(ReleasedTwice) \in Nat
  BY CountsAreNumbers
<1>2. Cardinality(Requesting') \in Nat
  BY RequestingFinite, FS_CardinalityType
<1> QED
  BY <1>1, <1>2 DEF SlotsCounted, Surcharge

-----------------------------------------------------------------------------
(* The slots *)

\* What the operations on the slots establish, whatever the calls do.
SlotsInv ==
    /\ activeRequests \in Int
    /\ requestQueue \in Seq(Calls) /\ timers \in Seq(Calls)
    /\ pc \in [Calls -> Stages]
    /\ NoIdleSlot /\ WaitersInv

LEMMA SlotsFromInv == ASSUME IndInv PROVE SlotsInv
  BY DEF IndInv, TypeOK, SlotsInv, Stages

\* A call that neither waits nor requests moves on by itself.
LEMMA SlotsKept ==
    ASSUME SlotsInv, UNCHANGED slotVars, pc' \in [Calls -> Stages],
           \A d \in Calls : pc[d] \in {"queued", "shifted", "request"} => pc'[d] = pc[d],
           \A d \in Calls : pc'[d] = "request" => pc[d] = "request"
    PROVE  SlotsInv' /\ Surcharge' = Surcharge
<1>1. WaitersInv'
  BY DEF SlotsInv, WaitersInv, slotVars
<1>2. Requesting' = Requesting
  BY SameRequests
<1> QED
  BY <1>1, <1>2 DEF SlotsInv, slotVars, NoIdleSlot, Surcharge

LEMMA WaitSlots ==
    ASSUME SlotsInv, NEW c \in Calls, pc[c] = "lookup", WaitForAvailableSlot(c)
    PROVE  /\ SlotsInv' /\ Surcharge' = Surcharge
           /\ pc'[c] \in {"queued", "request"}
           /\ \A d \in Calls \ {c} : pc'[d] = pc[d]
<1>1. CASE activeRequests < MaxConcurrent
  <2>1. /\ activeRequests' = activeRequests + 1 /\ UNCHANGED <<requestQueue, timers>>
        /\ pc' = [pc EXCEPT ![c] = "request"]
    BY <1>1, LimitAssumption DEF WaitForAvailableSlot, SlotsInv
  <2>2. Cardinality(Requesting') = Cardinality(Requesting) + 1
    BY <2>1, OneMoreRequest DEF SlotsInv, Stages
  <2>3. WaitersInv'
    BY <2>1 DEF SlotsInv, WaitersInv, Stages
  <2>4. NoIdleSlot'
    BY <2>1, LimitAssumption DEF SlotsInv, NoIdleSlot
  <2> QED
    BY <2>1, <2>2, <2>3, <2>4, RequestingNumber DEF SlotsInv, Surcharge, Stages
<1>2. CASE activeRequests >= MaxConcurrent
  <2>1. /\ requestQueue' = Append(requestQueue, c) /\ UNCHANGED <<activeRequests, timers>>
        /\ pc' = [pc EXCEPT ![c] = "queued"]
    BY <1>2, LimitAssumption DEF WaitForAvailableSlot, SlotsInv
  <2>2. Requesting' = Requesting
    BY <2>1, SameRequests DEF SlotsInv, Stages
  <2>3. WaitersInv'
    BY <2>1 DEF SlotsInv, WaitersInv, Stages
  <2>4. NoIdleSlot'
    BY <1>2, <2>1, LimitAssumption DEF SlotsInv, NoIdleSlot
  <2> QED
    BY <2>1, <2>2, <2>3, <2>4, RequestingNumber DEF SlotsInv, Surcharge, Stages
<1> QED
  BY <1>1, <1>2, LimitAssumption DEF SlotsInv

LEMMA ReleaseSlots ==
    ASSUME SlotsInv, NEW c \in Calls, NEW next \in {"store", "returned", "thrown"},
           pc[c] \in {"request", "store"}, ReleaseSlot(c, next)
    PROVE  /\ SlotsInv'
           /\ pc[c] = "request" => Surcharge' = Surcharge
           /\ pc[c] = "store" => Surcharge' = Surcharge - 1
           /\ pc'[c] = next
           /\ \A d \in Calls \ {c} : pc'[d] = pc[d] \/ (pc[d] = "queued" /\ pc'[d] = "shifted")
<1>1. CASE requestQueue = <<>>
  <2>1. /\ activeRequests' = activeRequests - 1 /\ UNCHANGED <<requestQueue, timers>>
        /\ pc' = [pc EXCEPT ![c] = next]
    BY <1>1 DEF ReleaseSlot
  <2>2. /\ pc[c] = "request" => Cardinality(Requesting') = Cardinality(Requesting) - 1
        /\ pc[c] = "store" => Requesting' = Requesting
    BY <2>1, OneRequestLess, SameRequests DEF SlotsInv, Stages
  <2>3. WaitersInv'
    BY <2>1 DEF SlotsInv, WaitersInv, Stages
  <2> QED
    BY <1>1, <2>1, <2>2, <2>3, RequestingNumber DEF SlotsInv, Surcharge, NoIdleSlot, Stages
<1>2. CASE requestQueue # <<>>
  <2> DEFINE w == Head(requestQueue)
  <2>1. /\ activeRequests' = activeRequests - 1
        /\ requestQueue' = Tail(requestQueue) /\ timers' = Append(timers, w)
        /\ pc' = [pc EXCEPT ![c] = next, ![w] = "shifted"]
    BY <1>2 DEF ReleaseSlot
  <2>2. w \in Calls /\ pc[w] = "queued" /\ w # c
    BY <1>2 DEF SlotsInv, WaitersInv
  <2>3. pc' \in [Calls -> Stages] /\ pc'[c] = next /\ pc'[w] = "shifted"
        /\ \A d \in Calls \ {c, w} : pc'[d] = pc[d]
    BY <2>1, <2>2 DEF SlotsInv, Stages
  <2>4. /\ pc[c] = "request" => Cardinality(Requesting') = Cardinality(Requesting) - 1
        /\ pc[c] = "store" => Requesting' = Requesting
    BY <2>2, <2>3, OneRequestLess, SameRequests
  <2>5. requestQueue' \in Seq(Calls) /\ timers' \in Seq(Calls) /\ Len(timers') = Len(timers) + 1
    BY <1>2, <2>1, <2>2 DEF SlotsInv
  <2>6. WaitersInv'
    <3>1. \A k \in DOMAIN requestQueue' :
             k + 1 \in DOMAIN requestQueue /\ requestQueue'[k] = requestQueue[k + 1]
      BY <1>2, <2>1 DEF SlotsInv
    <3>2. \A k \in DOMAIN requestQueue' : requestQueue'[k] \in Calls \ {c, w}
      <4>1. 1 \in DOMAIN requestQueue /\ w = requestQueue[1] /\ DOMAIN requestQueue' \subseteq Nat \ {0}
        BY <1>2, <2>5 DEF SlotsInv
      <4> SUFFICES ASSUME NEW k \in DOMAIN requestQueue'
                   PROVE  requestQueue'[k] \in Calls \ {c, w}
        OBVIOUS
      <4>2. k + 1 # 1
        BY <4>1
      <4>3. requestQueue[k + 1] # w
        BY <3>1, <4>1, <4>2 DEF SlotsInv, WaitersInv
      <4>4. requestQueue[k + 1] \in Calls /\ pc[requestQueue[k + 1]] = "queued"
        BY <3>1 DEF SlotsInv, WaitersInv
      <4> QED
        BY <3>1, <4>3, <4>4
    <3>3. \A k \in DOMAIN timers' :
             \/ k \in DOMAIN timers /\ timers'[k] = timers[k]
             \/ k = Len(timers) + 1 /\ timers'[k] = w
      BY <2>1 DEF SlotsInv
    <3>4. \A k \in DOMAIN timers : timers[k] \in Calls \ {c, w}
      BY <2>2 DEF SlotsInv, WaitersInv
    <3>5. \A k \in DOMAIN requestQueue' : pc'[requestQueue'[k]] = "queued"
      BY <2>3, <3>1, <3>2 DEF SlotsInv, WaitersInv
    <3>6. \A j, k \in DOMAIN requestQueue' : requestQueue'[j] = requestQueue'[k] => j = k
      <4> SUFFICES ASSUME NEW j \in DOMAIN requestQueue', NEW k \in DOMAIN requestQueue',
                          requestQueue'[j] = requestQueue'[k]
                   PROVE  j = k
        OBVIOUS
      <4>1. j + 1 = k + 1
        BY <3>1 DEF SlotsInv, WaitersInv
      <4> QED
        BY <4>1, <2>5
    <3>7. \A k \in DOMAIN timers' : pc'[timers'[k]] = "shifted"
      BY <2>3, <3>3, <3>4 DEF SlotsInv, WaitersInv
    <3>8. \A j, k \in DOMAIN timers' : timers'[j] = timers'[k] => j = k
      BY <3>3, <3>4 DEF SlotsInv, WaitersInv
    <3> QED
      BY <3>5, <3>6, <3>7, <3>8 DEF WaitersInv
  <2>7. NoIdleSlot'
    <3>1. activeRequests + Len(timers) >= MaxConcurrent
      BY <1>2 DEF SlotsInv, NoIdleSlot
    <3> QED
      BY <3>1, <2>1, <2>5, LimitAssumption DEF SlotsInv, NoIdleSlot
  <2>8. SlotsInv'
    <3>1. activeRequests' \in Int /\ pc' \in [Calls -> Stages]
      BY <2>1, <2>3 DEF SlotsInv
    <3> HIDE DEF w
    <3> QED
      BY <3>1, <2>5, <2>6, <2>7 DEF SlotsInv
  <2>9. /\ pc[c] = "request" => Surcharge' = Surcharge
        /\ pc[c] = "store" => Surcharge' = Surcharge - 1
    BY <2>1, <2>4, RequestingNumber DEF SlotsInv, Surcharge
  <2> QED
    BY <2>2, <2>3, <2>8, <2>9
<1> QED
  BY <1>1, <1>2

LEMMA TimerSlots ==
    ASSUME SlotsInv, TimerFires
    PROVE  /\ SlotsInv' /\ Surcharge' = Surcharge
           /\ \A d \in Calls : pc'[d] = pc[d] \/ (pc[d] = "shifted" /\ pc'[d] = "request")
<1> DEFINE w == Head(timers)
<1>1. /\ timers # <<>> /\ timers' = Tail(timers)
      /\ activeRequests' = activeRequests + 1 /\ requestQueue' = requestQueue
      /\ pc' = [pc EXCEPT ![w] = "request"]
  BY DEF TimerFires
<1>2. w \in Calls /\ pc[w] = "shifted"
  BY <1>1 DEF SlotsInv, WaitersInv
<1>3. pc' \in [Calls -> Stages] /\ pc'[w] = "request" /\ \A d \in Calls \ {w} : pc'[d] = pc[d]
  BY <1>1, <1>2 DEF SlotsInv, Stages
<1>4. Cardinality(Requesting') = Cardinality(Requesting) + 1
  BY <1>2, <1>3, OneMoreRequest
<1>5. timers' \in Seq(Calls) /\ Len(timers') = Len(timers) - 1
  BY <1>1 DEF SlotsInv
<1>6. WaitersInv'
  <2>1. \A k \in DOMAIN timers' : k + 1 \in DOMAIN timers /\ timers'[k] = timers[k + 1]
    BY <1>1 DEF SlotsInv
  <2>2. \A k \in DOMAIN timers' : timers'[k] \in Calls \ {w}
    BY <1>1, <2>1, <1>2 DEF SlotsInv, WaitersInv
  <2>3. \A k \in DOMAIN timers' : pc'[timers'[k]] = "shifted"
    BY <1>3, <2>1, <2>2 DEF SlotsInv, WaitersInv
  <2>4. \A j, k \in DOMAIN timers' : timers'[j] = timers'[k] => j = k
    <3> SUFFICES ASSUME NEW j \in DOMAIN timers', NEW k \in DOMAIN timers',
                        timers'[j] = timers'[k]
                 PROVE  j = k
      OBVIOUS
    <3>1. j + 1 = k + 1
      BY <2>1 DEF SlotsInv, WaitersInv
    <3> QED
      BY <3>1, <1>5
  <2>5. \A k \in DOMAIN requestQueue : requestQueue[k] \in Calls \ {w}
    BY <1>2 DEF SlotsInv, WaitersInv
  <2> QED
    BY <1>1, <1>3, <2>3, <2>4, <2>5 DEF SlotsInv, WaitersInv
<1>7. NoIdleSlot'
  BY <1>1, <1>5, LimitAssumption DEF SlotsInv, NoIdleSlot
<1> QED
  <2>1. SlotsInv'
    BY <1>1, <1>3, <1>5, <1>6, <1>7 DEF SlotsInv
  <2>2. Surcharge' = Surcharge
    BY <1>1, <1>4, RequestingNumber DEF SlotsInv, Surcharge
  <2> QED
    BY <1>2, <1>3, <2>1, <2>2

-----------------------------------------------------------------------------
(* The calls *)

\* The types of what the calls hold.
DataTypeOK ==
    /\ inputs \in [Calls -> Seq(Texts)]
    /\ cachedResults \in [Calls -> Seq(Texts)] /\ uncachedInputs \in [Calls -> Seq(Texts)]
    /\ stored \in [Calls -> Nat]
    /\ surplus \subseteq Calls /\ short \subseteq Calls /\ cache \subseteq Texts

CallsInv == DataTypeOK /\ \A c \in Calls : CallInv(c)

LEMMA InvParts ==
    /\ IndInv <=> SlotsInv /\ SlotsCounted /\ CallsInv
    /\ IndInv' <=> SlotsInv' /\ SlotsCounted' /\ CallsInv'
  BY DEF IndInv, TypeOK, SlotsInv, CallsInv, DataTypeOK, Stages

\* The count stays right when nobody enters or leaves the twice released.
LEMMA CountCarried ==
    ASSUME IndInv, SlotsInv', Surcharge' = Surcharge, surplus' \subseteq Calls,
           \A d \in Calls : d \in surplus' /\ pc'[d] = "thrown" <=> d \in surplus /\ pc[d] = "thrown"
    PROVE  SlotsCounted'
<1>1. /\ activeRequests \in Int /\ activeRequests' \in Int /\ surplus \subseteq Calls
      /\ SlotsCounted
  BY InvParts DEF SlotsInv, CallsInv, DataTypeOK
<1>2. ReleasedTwice' = ReleasedTwice
  BY <1>1, SameReleases
<1> QED
  BY <1>1, <1>2, CountKept

\* A call that keeps its data may be shifted and may get its slot.
LEMMA CallFrame ==
    ASSUME NEW d \in Calls, CallInv(d),
           inputs'[d] = inputs[d], cachedResults'[d] = cachedResults[d],
           uncachedInputs'[d] = uncachedInputs[d], stored'[d] = stored[d],
           d \in surplus' <=> d \in surplus,
           \/ pc'[d] = pc[d]
           \/ pc[d] \in {"queued", "shifted"} /\ pc'[d] \in {"shifted", "request"}
    PROVE  CallInv(d)'
  BY DEF CallInv, Looked

LEMMA InitInv == Init => IndInv
<1> SUFFICES ASSUME Init PROVE IndInv
  OBVIOUS
<1>1. SlotsInv
  BY DEF Init, SlotsInv, NoIdleSlot, WaitersInv, Stages
<1>2. SlotsCounted
  <2>1. Requesting = {} /\ ReleasedTwice = {}
    BY DEF Init, Requesting, ReleasedTwice
  <2> QED
    BY <2>1, FS_EmptySet DEF Init, SlotsCounted
<1>3. CallsInv
  BY DEF Init, CallsInv, DataTypeOK, CallInv, Looked
<1> QED
  BY <1>1, <1>2, <1>3, InvParts

LEMMA EmbedInv ==
    ASSUME IndInv, NEW c \in Calls, NEW texts \in Inputs, Embed(c, texts)
    PROVE  IndInv'
<1> USE InvParts
<1>1. texts \in Seq(Texts)
  BY LimitAssumption DEF Inputs
<1>2. pc' \in [Calls -> Stages] /\ \A d \in Calls \ {c} : pc'[d] = pc[d]
  BY DEF Embed, SlotsInv, Stages
<1>3. pc[c] = "new" /\ pc'[c] \in {"returned", "lookup"} /\ UNCHANGED slotVars
  BY DEF Embed, SlotsInv, Stages
<1>4. SlotsInv' /\ Surcharge' = Surcharge
  BY <1>2, <1>3, SlotsKept
<1>5. DataTypeOK' /\ surplus' = surplus /\ c \notin surplus
  BY <1>1, <1>3 DEF Embed, CallsInv, DataTypeOK, CallInv
<1>6. CallInv(c)'
  BY <1>1, <1>3, <1>5 DEF Embed, CallsInv, DataTypeOK, CallInv, Looked, SlotsInv
<1>7. \A d \in Calls \ {c} : CallInv(d)'
  BY <1>2, CallFrame DEF Embed, CallsInv, DataTypeOK
<1>8. SlotsCounted'
  BY <1>2, <1>4, <1>5, CountCarried DEF DataTypeOK
<1> QED
  BY <1>4, <1>5, <1>6, <1>7, <1>8 DEF CallsInv

\* Sequences: lengths, elements, and one element more.
LEMMA SequenceFacts ==
    ASSUME NEW S, NEW s \in Seq(S)
    PROVE  /\ Len(s) \in Nat
           /\ \A i \in Nat : i < Len(s) => s[i + 1] \in S
           /\ \A e \in S : Append(s, e) # <<>>
<1>1. Len(s) \in Nat
  OBVIOUS
<1>2. \A i \in Nat : i < Len(s) => i + 1 \in 1 .. Len(s)
  BY <1>1
<1>3. \A i \in Nat : i < Len(s) => s[i + 1] \in S
  BY <1>2
<1>4. ASSUME NEW e \in S PROVE Append(s, e) # <<>>
  <2>1. Len(Append(s, e)) = Len(s) + 1
    OBVIOUS
  <2> QED
    BY <1>1, <2>1
<1> QED
  BY <1>1, <1>3, <1>4

\* A lookup leaves the slots alone or is the last one.
LEMMA LookupInv ==
    ASSUME IndInv, NEW c \in Calls, Hit(c) \/ Miss(c)
    PROVE  IndInv'
<1>0. SlotsInv /\ CallsInv /\ DataTypeOK /\ CallInv(c)
  BY InvParts DEF CallsInv
<1>1. /\ pc[c] = "lookup" /\ NextInput(c) \in Texts
      /\ inputs[c] \in Seq(Texts) /\ cachedResults[c] \in Seq(Texts)
      /\ uncachedInputs[c] \in Seq(Texts) /\ stored[c] = 0
      /\ Looked(c) \in Nat /\ Looked(c) < Len(inputs[c]) /\ c \notin surplus
  <2>1. pc[c] = "lookup"
    BY DEF Hit, Miss
  <2>2. /\ inputs[c] \in Seq(Texts) /\ cachedResults[c] \in Seq(Texts)
        /\ uncachedInputs[c] \in Seq(Texts)
    BY <1>0 DEF DataTypeOK
  <2>3. Looked(c) < Len(inputs[c]) /\ stored[c] = 0 /\ c \notin surplus
    BY <1>0, <2>1 DEF CallInv
  <2>4. Looked(c) \in Nat
    <3>1. Len(cachedResults[c]) \in Nat /\ Len(uncachedInputs[c]) \in Nat
      BY <2>2, SequenceFacts
    <3>2. \A m, n \in Nat : m + n \in Nat
      OBVIOUS
    <3>3. Len(cachedResults[c]) + Len(uncachedInputs[c]) \in Nat
      BY <3>1, <3>2, Zenon
    <3> QED
      BY <3>3 DEF Looked
  <2>5. NextInput(c) \in Texts
    BY <2>2, <2>3, <2>4, SequenceFacts DEF NextInput
  <2> QED
    BY <2>1, <2>2, <2>3, <2>4, <2>5
<1>2. /\ UNCHANGED <<inputs, stored, surplus, short, cache>>
      /\ DataTypeOK' /\ Looked(c)' = Looked(c) + 1
      /\ \A d \in Calls \ {c} : cachedResults'[d] = cachedResults[d]
                             /\ uncachedInputs'[d] = uncachedInputs[d]
  <2> DEFINE t == NextInput(c)
  <2>1. CASE Hit(c)
    <3>1. /\ cachedResults' = [cachedResults EXCEPT ![c] = Append(@, t)]
          /\ UNCHANGED <<inputs, uncachedInputs, stored, surplus, short, cache>>
      BY <2>1 DEF Hit
    <3>2. cachedResults' \in [Calls -> Seq(Texts)] /\ Len(cachedResults'[c]) = Len(cachedResults[c]) + 1
      BY <1>0, <1>1, <3>1 DEF DataTypeOK
    <3>3. \A d \in Calls \ {c} : cachedResults'[d] = cachedResults[d]
      BY <1>0, <3>1 DEF DataTypeOK
    <3> QED
      BY <1>0, <1>1, <3>1, <3>2, <3>3 DEF DataTypeOK, Looked
  <2>2. CASE Miss(c)
    <3>1. /\ uncachedInputs' = [uncachedInputs EXCEPT ![c] = Append(@, t)]
          /\ UNCHANGED <<inputs, cachedResults, stored, surplus, short, cache>>
      BY <2>2 DEF Miss
    <3>2. uncachedInputs' \in [Calls -> Seq(Texts)] /\ Len(uncachedInputs'[c]) = Len(uncachedInputs[c]) + 1
      BY <1>0, <1>1, <3>1 DEF DataTypeOK
    <3>3. \A d \in Calls \ {c} : uncachedInputs'[d] = uncachedInputs[d]
      BY <1>0, <3>1 DEF DataTypeOK
    <3> QED
      BY <1>0, <1>1, <3>1, <3>2, <3>3 DEF DataTypeOK, Looked
  <2> QED
    BY <2>1, <2>2
<1>3. CASE /\ ~LastInput(c) /\ UNCHANGED <<pc, slotVars>>
  <2>1. SlotsInv' /\ SlotsCounted'
    BY <1>0, <1>2, <1>3, SlotsKept, CountCarried DEF SlotsInv, DataTypeOK
  <2>2. CallInv(c)'
    <3>1. Looked(c) \in Nat /\ Len(inputs[c]) \in Nat
      BY <1>1, SequenceFacts
    <3>2. Looked(c)' < Len(inputs'[c])
      BY <1>1, <1>2, <1>3, <3>1 DEF LastInput
    <3> QED
      BY <1>1, <1>2, <1>3, <3>2 DEF CallInv
  <2>3. \A d \in Calls \ {c} : CallInv(d)'
    BY <1>0, <1>2, <1>3, CallFrame DEF CallsInv
  <2> QED
    BY <1>2, <2>1, <2>2, <2>3, InvParts DEF CallsInv
<1>4. CASE pc' = [pc EXCEPT ![c] = "returned"] /\ UNCHANGED slotVars
  <2>1. pc' \in [Calls -> Stages] /\ pc'[c] = "returned" /\ \A d \in Calls \ {c} : pc'[d] = pc[d]
    BY <1>0, <1>4 DEF SlotsInv, Stages
  <2>2. SlotsInv' /\ SlotsCounted'
    <3>1. SlotsInv' /\ Surcharge' = Surcharge
      BY <1>0, <1>1, <1>4, <2>1, SlotsKept
    <3>2. surplus' \subseteq Calls
      BY <1>2 DEF DataTypeOK
    <3> QED
      BY <1>1, <1>2, <2>1, <3>1, <3>2, CountCarried
  <2>3. CallInv(c)'
    BY <1>1, <1>2, <2>1 DEF CallInv
  <2>4. \A d \in Calls \ {c} : CallInv(d)'
    BY <1>0, <1>2, <2>1, CallFrame DEF CallsInv
  <2> QED
    BY <1>2, <2>2, <2>3, <2>4, InvParts DEF CallsInv
<1>5. CASE uncachedInputs'[c] # <<>> /\ WaitForAvailableSlot(c)
  <2>1. /\ SlotsInv' /\ SlotsCounted' /\ pc'[c] \in {"queued", "request"}
        /\ \A d \in Calls \ {c} : pc'[d] = pc[d]
    BY <1>0, <1>1, <1>2, <1>5, WaitSlots, CountCarried DEF DataTypeOK
  <2>2. CallInv(c)'
    BY <1>1, <1>2, <1>5, <2>1 DEF CallInv, DataTypeOK
  <2>3. \A d \in Calls \ {c} : CallInv(d)'
    BY <1>0, <1>2, <2>1, CallFrame DEF CallsInv
  <2> QED
    BY <1>2, <2>1, <2>2, <2>3, InvParts DEF CallsInv
<1>6. ASSUME Hit(c) PROVE IndInv'
  <2>1. uncachedInputs' = uncachedInputs
    BY <1>6 DEF Hit
  <2> QED
    BY <1>3, <1>4, <1>5, <1>6, <2>1 DEF Hit
<1>7. ASSUME Miss(c) PROVE IndInv'
  <2>1. uncachedInputs' = [uncachedInputs EXCEPT ![c] = Append(@, NextInput(c))]
    BY <1>7 DEF Miss
  <2>2. uncachedInputs'[c] = Append(uncachedInputs[c], NextInput(c))
    BY <1>0, <2>1 DEF DataTypeOK
  <2>3. uncachedInputs'[c] # <<>>
    BY <1>1, <2>2, SequenceFacts
  <2> QED
    BY <1>3, <1>5, <1>7, <2>3 DEF Miss
<1> QED
  BY <1>6, <1>7

\* The request of c ends and its slot goes back.
LEMMA ReleaseInv ==
    ASSUME IndInv, NEW c \in Calls, Answer(c) \/ AnswerNothing(c) \/ Fail(c)
    PROVE  IndInv'
<1> USE InvParts
<1>1. PICK next \in {"store", "returned", "thrown"} :
         /\ ReleaseSlot(c, next)
         /\ next # "store" => surplus' = surplus
  BY DEF Answer, AnswerNothing, Fail, dataVars
<1>2. /\ pc[c] = "request" /\ UNCHANGED <<inputs, cachedResults, uncachedInputs, stored, cache>>
      /\ surplus' \subseteq Calls /\ short' \subseteq Calls
      /\ \A d \in Calls \ {c} : d \in surplus' <=> d \in surplus
      /\ c \in surplus' => next = "store"
  BY <1>1 DEF Answer, AnswerNothing, Fail, dataVars, CallsInv, DataTypeOK, CallInv, ReleaseSlot
<1>3. /\ SlotsInv' /\ Surcharge' = Surcharge /\ pc'[c] = next
      /\ \A d \in Calls \ {c} : pc'[d] = pc[d] \/ (pc[d] = "queued" /\ pc'[d] = "shifted")
  BY <1>1, <1>2, ReleaseSlots
<1>4. DataTypeOK'
  BY <1>2 DEF CallsInv, DataTypeOK
<1>5. CallInv(c)'
  BY <1>2, <1>3 DEF CallInv, CallsInv
<1>6. \A d \in Calls \ {c} : CallInv(d)'
  BY <1>2, <1>3, CallFrame DEF CallsInv
<1>7. SlotsCounted'
  BY <1>2, <1>3, CountCarried
<1> QED
  BY <1>2, <1>3, <1>4, <1>5, <1>6, <1>7 DEF CallsInv

\* One more answer is in the cache.
LEMMA StoredFacts ==
    ASSUME IndInv, NEW c \in Calls, pc[c] = "store", Stored(c), short' \subseteq Calls
    PROVE  /\ DataTypeOK' /\ surplus' = surplus
           /\ stored'[c] = stored[c] + 1 /\ stored[c] \in Nat
           /\ UNCHANGED <<inputs, cachedResults, uncachedInputs>>
           /\ \A d \in Calls \ {c} : stored'[d] = stored[d]
<1> USE InvParts
<1>1. stored[c] \in Nat /\ uncachedInputs[c] \in Seq(Texts) /\ stored[c] < Len(uncachedInputs[c])
  BY DEF CallsInv, DataTypeOK, CallInv
<1>2. uncachedInputs[c][stored[c] + 1] \in Texts
  BY <1>1
<1> QED
  BY <1>1, <1>2 DEF Stored, CallsInv, DataTypeOK

LEMMA StoreInv ==
    ASSUME IndInv, NEW c \in Calls, Store(c)
    PROVE  IndInv'
<1> USE InvParts
<1>1. pc[c] = "store" /\ Stored(c) /\ UNCHANGED slotVars /\ short' \subseteq Calls
  BY DEF Store, CallsInv, DataTypeOK
<1>2. /\ pc' \in [Calls -> Stages] /\ \A d \in Calls \ {c} : pc'[d] = pc[d]
      /\ \/ pc'[c] = "store" /\ stored[c] + 1 < Len(uncachedInputs[c])
         \/ pc'[c] = "returned" /\ c \notin surplus
  BY <1>1 DEF Store, SlotsInv, Stages
<1>3. SlotsInv' /\ SlotsCounted'
  BY <1>1, <1>2, SlotsKept, StoredFacts, CountCarried DEF DataTypeOK
<1>4. CallInv(c)'
  BY <1>1, <1>2, StoredFacts DEF CallInv
<1>5. \A d \in Calls \ {c} : CallInv(d)'
  BY <1>1, <1>2, StoredFacts, CallFrame DEF CallsInv
<1> QED
  BY <1>1, <1>3, <1>4, <1>5, StoredFacts DEF CallsInv

\* The second release: only when the provider's answer was too long.
LEMMA StoreThrowsInv ==
    ASSUME IndInv, NEW c \in Calls, StoreThrows(c)
    PROVE  IndInv'
<1> USE InvParts
<1>1. /\ pc[c] = "store" /\ Stored(c) /\ c \in surplus /\ ReleaseSlot(c, "thrown")
      /\ short' \subseteq Calls
  BY DEF StoreThrows, CallsInv, DataTypeOK
<1>2. /\ SlotsInv' /\ Surcharge' = Surcharge - 1 /\ pc'[c] = "thrown"
      /\ \A d \in Calls \ {c} : pc'[d] = pc[d] \/ (pc[d] = "queued" /\ pc'[d] = "shifted")
  BY <1>1, ReleaseSlots
<1>3. SlotsCounted'
  <2>1. /\ activeRequests \in Int /\ activeRequests' \in Int
        /\ surplus \subseteq Calls /\ surplus' = surplus /\ SlotsCounted
    BY <1>1, <1>2, StoredFacts DEF SlotsInv, CallsInv, DataTypeOK
  <2>2. ReleasedTwice' = ReleasedTwice \cup {c} /\ c \notin ReleasedTwice
    BY <1>1, <1>2, <2>1 DEF ReleasedTwice
  <2>3. Cardinality(ReleasedTwice') = Cardinality(ReleasedTwice) + 1
    BY <2>1, <2>2, CountsAreNumbers, FS_AddElement
  <2>4. Cardinality(Requesting') \in Nat
    BY RequestingFinite, FS_CardinalityType
  <2> QED
    BY <1>2, <2>1, <2>3, <2>4, CountsAreNumbers DEF SlotsCounted, Surcharge
<1>4. CallInv(c)'
  BY <1>2 DEF CallInv
<1>5. \A d \in Calls \ {c} : CallInv(d)'
  BY <1>1, <1>2, StoredFacts, CallFrame DEF CallsInv
<1> QED
  BY <1>1, <1>2, <1>3, <1>4, <1>5, StoredFacts DEF CallsInv

LEMMA TimerInv == ASSUME IndInv, TimerFires PROVE IndInv'
<1> USE InvParts
<1>1. /\ SlotsInv' /\ Surcharge' = Surcharge /\ UNCHANGED dataVars
      /\ \A d \in Calls : pc'[d] = pc[d] \/ (pc[d] = "shifted" /\ pc'[d] = "request")
  BY TimerSlots DEF TimerFires
<1>2. \A d \in Calls : CallInv(d)'
  BY <1>1, CallFrame DEF CallsInv, dataVars
<1>3. SlotsCounted'
  BY <1>1, CountCarried DEF dataVars, CallsInv, DataTypeOK
<1> QED
  BY <1>1, <1>2, <1>3 DEF CallsInv, DataTypeOK, dataVars

LEMMA StutterInv == ASSUME IndInv, UNCHANGED vars PROVE IndInv'
  BY DEF IndInv, TypeOK, SlotsCounted, Requesting, ReleasedTwice, NoIdleSlot, WaitersInv, CallInv, Looked,
         vars, dataVars, slotVars

LEMMA NextInv == IndInv /\ [Next]_vars => IndInv'
<1> SUFFICES ASSUME IndInv, [Next]_vars PROVE IndInv'
  OBVIOUS
<1>1. CASE TimerFires
  BY <1>1, TimerInv
<1>2. ASSUME NEW c \in Calls, Hit(c) \/ Miss(c) PROVE IndInv'
  BY <1>2, LookupInv
<1>3. ASSUME NEW c \in Calls, Answer(c) \/ AnswerNothing(c) \/ Fail(c) PROVE IndInv'
  BY <1>3, ReleaseInv
<1>4. ASSUME NEW c \in Calls, Store(c) PROVE IndInv'
  BY <1>4, StoreInv
<1>5. ASSUME NEW c \in Calls, StoreThrows(c) PROVE IndInv'
  BY <1>5, StoreThrowsInv
<1>6. ASSUME NEW c \in Calls, NEW texts \in Inputs, Embed(c, texts) PROVE IndInv'
  BY <1>6, EmbedInv
<1>7. CASE UNCHANGED vars
  BY <1>7, StutterInv
<1> QED
  BY <1>1, <1>2, <1>3, <1>4, <1>5, <1>6, <1>7 DEF Next

-----------------------------------------------------------------------------
(* Counting occurrences *)

LEMMA PlacesFinite ==
    ASSUME NEW S, NEW s \in Seq(S), NEW t
    PROVE  /\ IsFiniteSet({k \in DOMAIN s : s[k] = t})
           /\ Occurrences(t, s) \in Nat
<1>1. DOMAIN s = 1..Len(s) /\ Len(s) \in Nat
  OBVIOUS
<1>2. IsFiniteSet(DOMAIN s)
  BY <1>1, FS_Interval
<1>3. IsFiniteSet({k \in DOMAIN s : s[k] = t})
  BY <1>2, FS_Subset
<1> QED
  BY <1>3, FS_CardinalityType DEF Occurrences

LEMMA AppendOccurrences ==
    ASSUME NEW S, NEW s \in Seq(S), NEW e \in S, NEW t
    PROVE  Occurrences(t, Append(s, e)) = Occurrences(t, s) + (IF e = t THEN 1 ELSE 0)
<1> DEFINE before == {k \in DOMAIN s : s[k] = t}
           after == {k \in DOMAIN Append(s, e) : Append(s, e)[k] = t}
<1>1. /\ DOMAIN s = 1..Len(s) /\ Len(s) \in Nat
      /\ DOMAIN Append(s, e) = 1..(Len(s) + 1)
      /\ \A k \in DOMAIN s : Append(s, e)[k] = s[k]
      /\ Append(s, e)[Len(s) + 1] = e
  OBVIOUS
<1>2. IsFiniteSet(before) /\ Cardinality(before) \in Nat
  BY PlacesFinite DEF Occurrences
<1>3. CASE e = t
  <2>1. after = before \cup {Len(s) + 1} /\ Len(s) + 1 \notin before
    BY <1>1, <1>3
  <2> HIDE DEF before, after
  <2>2. Cardinality(after) = Cardinality(before) + 1
    BY <1>2, <2>1, FS_AddElement
  <2> QED
    BY <1>3, <2>2 DEF before, after, Occurrences
<1>4. CASE e # t
  <2>1. after = before
    BY <1>1, <1>4
  <2> HIDE DEF before, after
  <2>2. Cardinality(after) = Cardinality(before) + 0
    BY <1>2, <2>1
  <2> QED
    BY <1>4, <2>2 DEF before, after, Occurrences
<1> QED
  BY <1>3, <1>4

LEMMA ConcatOccurrences ==
    ASSUME NEW S, NEW a \in Seq(S), NEW b \in Seq(S), NEW t
    PROVE  Occurrences(t, a \o b) = Occurrences(t, a) + Occurrences(t, b)
<1> DEFINE n == Len(a)
           inA == {k \in DOMAIN a : a[k] = t}
           inB == {k \in DOMAIN b : b[k] = t}
           moved == {k \in (n + 1)..(n + Len(b)) : b[k - n] = t}
           both == {k \in DOMAIN (a \o b) : (a \o b)[k] = t}
           shift == [k \in inB |-> k + n]
<1>1. /\ n \in Nat /\ Len(b) \in Nat /\ DOMAIN a = 1..n /\ DOMAIN b = 1..Len(b)
      /\ DOMAIN (a \o b) = 1..(n + Len(b))
      /\ \A k \in 1..n : (a \o b)[k] = a[k]
      /\ \A k \in (n + 1)..(n + Len(b)) : (a \o b)[k] = b[k - n]
  OBVIOUS
<1> HIDE DEF n
<1>2. both = inA \cup moved /\ inA \cap moved = {}
  BY <1>1
<1>3. /\ IsFiniteSet(inA) /\ Cardinality(inA) \in Nat
      /\ IsFiniteSet(inB) /\ Cardinality(inB) \in Nat
  BY PlacesFinite DEF Occurrences
<1>4. IsFiniteSet(moved) /\ Cardinality(moved) = Cardinality(inB)
  <2>1. shift \in [inB -> moved]
    BY <1>1
  <2>2. \A j, k \in inB : shift[j] = shift[k] => j = k
    BY <1>1
  <2>3. \A k \in moved : k - n \in inB /\ shift[k - n] = k
    BY <1>1
  <2>4. shift \in Bijection(inB, moved)
    <3>1. \A k \in moved : \E j \in inB : shift[j] = k
      BY <2>3
    <3> HIDE DEF shift, moved, inB
    <3> QED
      BY <2>1, <2>2, <3>1 DEF Bijection, Injection, Surjection, IsInjective
  <2>5. ExistsBijection(inB, moved)
    BY <2>4 DEF ExistsBijection
  <2> HIDE DEF inB, moved
  <2> QED
    BY <1>3, <2>5, FS_Bijection
<1> HIDE DEF inA, inB, moved, both
<1>5. Cardinality(both) = Cardinality(inA) + Cardinality(moved) - Cardinality({})
  BY <1>2, <1>3, <1>4, FS_Union
<1>6. Cardinality(both) = Cardinality(inA) + Cardinality(inB)
  BY <1>3, <1>4, <1>5, FS_EmptySet
<1> QED
  BY <1>6 DEF inA, inB, both, Occurrences

LEMMA PrefixGrows ==
    ASSUME NEW S, NEW s \in Seq(S), NEW i \in Nat, i < Len(s)
    PROVE  /\ SubSeq(s, 1, i) \in Seq(S)
           /\ SubSeq(s, 1, i + 1) = Append(SubSeq(s, 1, i), s[i + 1])
<1>1. /\ Len(s) \in Nat /\ DOMAIN s = 1..Len(s) /\ i + 1 \in 1..Len(s)
      /\ \A k \in 1..Len(s) : s[k] \in S
  OBVIOUS
<1>2. /\ SubSeq(s, 1, i) \in Seq(S) /\ Len(SubSeq(s, 1, i)) = i
      /\ \A k \in 1..i : SubSeq(s, 1, i)[k] = s[k]
  BY <1>1
<1>3. /\ SubSeq(s, 1, i + 1) \in Seq(S) /\ Len(SubSeq(s, 1, i + 1)) = i + 1
      /\ \A k \in 1..(i + 1) : SubSeq(s, 1, i + 1)[k] = s[k]
  BY <1>1
<1> DEFINE p == SubSeq(s, 1, i)
           q == SubSeq(s, 1, i + 1)
<1> HIDE DEF p, q
<1>4. /\ p \in Seq(S) /\ Len(p) = i /\ q \in Seq(S) /\ Len(q) = i + 1
      /\ \A k \in 1..i : p[k] = s[k] /\ q[k] = s[k]
      /\ q[i + 1] = s[i + 1] /\ s[i + 1] \in S
  BY <1>1, <1>2, <1>3 DEF p, q
<1>5. q = Append(p, s[i + 1])
  BY <1>4
<1> QED
  BY <1>4, <1>5 DEF p, q

LEMMA WholePrefix ==
    ASSUME NEW S, NEW s \in Seq(S)
    PROVE  SubSeq(s, 1, Len(s)) = s
  OBVIOUS

-----------------------------------------------------------------------------
(* What a call has looked up, asked and stored *)

\* A call that keeps its data and does not return.
LEMMA ResultFrame ==
    ASSUME NEW d \in Calls, ResultInv(d),
           inputs'[d] = inputs[d], cachedResults'[d] = cachedResults[d],
           uncachedInputs'[d] = uncachedInputs[d], stored'[d] = stored[d],
           pc'[d] \notin {"new", "lookup"} => pc[d] \notin {"new", "lookup"},
           pc'[d] = "returned" /\ d \notin short' => pc[d] = "returned" /\ d \notin short
    PROVE  ResultInv(d)'
<1>1. Looked(d)' = Looked(d)
  BY DEF Looked
<1>2. SubSeq(inputs[d], 1, Looked(d))' = SubSeq(inputs[d], 1, Looked(d))
  BY <1>1
<1>3. \A t \in Texts :
         Occurrences(t, SubSeq(inputs[d], 1, Looked(d)))' =
         Occurrences(t, cachedResults[d])' + Occurrences(t, uncachedInputs[d])'
  BY <1>2 DEF ResultInv, Occurrences
<1> QED
  BY <1>1, <1>3 DEF ResultInv

LEMMA EmptyOccurrences == ASSUME NEW t PROVE Occurrences(t, <<>>) = 0
<1>1. {k \in DOMAIN <<>> : <<>>[k] = t} = {}
  OBVIOUS
<1> QED
  BY <1>1, FS_EmptySet DEF Occurrences

LEMMA Sums ==
    /\ \A m, n \in Nat : m + n \in Nat
    /\ \A m, n \in Nat : (m + 1) + n = (m + n) + 1 /\ m + (n + 1) = (m + n) + 1
  OBVIOUS

LEMMA AppendLength ==
    ASSUME NEW S, NEW s \in Seq(S), NEW e \in S
    PROVE  Len(Append(s, e)) = Len(s) + 1
  OBVIOUS

LEMMA NothingLookedUp ==
    ASSUME NEW S, NEW s \in Seq(S), NEW r \in Seq(S), Len(s) + Len(r) = 0
    PROVE  s = <<>> /\ r = <<>> /\ Len(s) = 0 /\ Len(r) = 0
  OBVIOUS

LEMMA InitAnswers == Init => AnswersInv
<1> SUFFICES ASSUME Init, NEW c \in Calls PROVE ResultInv(c)
  BY DEF AnswersInv
<1>1. /\ inputs[c] = <<>> /\ cachedResults[c] = <<>> /\ uncachedInputs[c] = <<>>
      /\ pc[c] = "new"
  BY DEF Init
<1>2. Looked(c) = 0 /\ SubSeq(inputs[c], 1, Looked(c)) = <<>> /\ Len(inputs[c]) = 0
  BY <1>1 DEF Looked
<1>3. Looked(c) <= Len(inputs[c])
  BY <1>2
<1>4. \A t \in Texts : Occurrences(t, SubSeq(inputs[c], 1, Looked(c))) =
                      Occurrences(t, cachedResults[c]) + Occurrences(t, uncachedInputs[c])
  <2>1. \A t : Occurrences(t, <<>>) = 0 + 0
    BY EmptyOccurrences
  <2>2. 0 + 0 = 0
    OBVIOUS
  <2> QED
    BY <1>1, <1>2, <2>1, <2>2, Zenon
<1> QED
  BY <1>1, <1>3, <1>4 DEF ResultInv

LEMMA EmbedAnswers ==
    ASSUME IndInv, AnswersInv, NEW c \in Calls, NEW texts \in Inputs, Embed(c, texts)
    PROVE  AnswersInv'
<1>1. texts \in Seq(Texts) /\ pc[c] = "new" /\ DataTypeOK /\ CallInv(c)
      /\ pc \in [Calls -> Stages]
  BY LimitAssumption, InvParts DEF Embed, Inputs, CallsInv, SlotsInv
<1>2. /\ inputs'[c] = texts /\ pc'[c] = IF texts = <<>> THEN "returned" ELSE "lookup"
      /\ UNCHANGED <<cachedResults, uncachedInputs, stored, short>>
      /\ \A d \in Calls \ {c} : inputs'[d] = inputs[d] /\ pc'[d] = pc[d]
  BY <1>1 DEF Embed, DataTypeOK, Stages
<1>3. cachedResults[c] = <<>> /\ uncachedInputs[c] = <<>> /\ stored[c] = 0
  <2>1. Len(cachedResults[c]) + Len(uncachedInputs[c]) = 0
    BY <1>1 DEF CallInv, Looked
  <2> QED
    BY <1>1, <2>1, NothingLookedUp DEF DataTypeOK, CallInv
<1>4. ResultInv(c)'
  <2>1. Looked(c)' = 0
    BY <1>2, <1>3 DEF Looked
  <2>2. SubSeq(inputs'[c], 1, 0) = <<>> /\ 0 <= Len(texts) /\ (texts = <<>> => Len(texts) = 0)
    BY <1>1, <1>2
  <2>3. \A t \in Texts : /\ Occurrences(t, SubSeq(inputs[c], 1, Looked(c)))' = 0
                         /\ Occurrences(t, cachedResults[c])' = 0
                         /\ Occurrences(t, uncachedInputs[c])' = 0
    BY <1>2, <1>3, <2>1, <2>2, EmptyOccurrences
  <2>4. Len(uncachedInputs'[c]) = 0 /\ stored'[c] = 0
    BY <1>2, <1>3
  <2> QED
    BY <1>2, <2>1, <2>2, <2>3, <2>4 DEF ResultInv
<1>5. \A d \in Calls \ {c} : ResultInv(d)'
  BY <1>2, ResultFrame DEF AnswersInv
<1> QED
  BY <1>4, <1>5 DEF AnswersInv

\* The next input is found or is to be asked for: one occurrence more on each
\* side of the equation.
LEMMA LookupAnswers ==
    ASSUME IndInv, AnswersInv, NEW c \in Calls, Hit(c) \/ Miss(c)
    PROVE  AnswersInv'
<1> DEFINE e == NextInput(c)
           n == Looked(c)
<1>1. /\ DataTypeOK /\ CallInv(c) /\ SlotsInv /\ ResultInv(c) /\ pc[c] = "lookup"
      /\ inputs[c] \in Seq(Texts) /\ cachedResults[c] \in Seq(Texts)
      /\ uncachedInputs[c] \in Seq(Texts)
  BY InvParts DEF Hit, Miss, CallsInv, AnswersInv, DataTypeOK
<1>2. /\ n \in Nat /\ n < Len(inputs[c]) /\ Len(inputs[c]) \in Nat /\ stored[c] = 0
      /\ e = inputs[c][n + 1] /\ e \in Texts
      /\ n = Len(cachedResults[c]) + Len(uncachedInputs[c])
      /\ Len(cachedResults[c]) \in Nat /\ Len(uncachedInputs[c]) \in Nat
  <2>1. Len(inputs[c]) \in Nat /\ Len(cachedResults[c]) \in Nat /\ Len(uncachedInputs[c]) \in Nat
    BY <1>1, SequenceFacts
  <2>2. n = Len(cachedResults[c]) + Len(uncachedInputs[c]) /\ n \in Nat
    BY <2>1, Sums, Zenon DEF Looked
  <2>3. n < Len(inputs[c]) /\ stored[c] = 0
    BY <1>1 DEF CallInv
  <2> HIDE DEF n
  <2>4. e = inputs[c][n + 1]
    BY DEF NextInput, n
  <2>5. inputs[c][n + 1] \in Texts
    BY <1>1, <2>2, <2>3, SequenceFacts
  <2> QED
    BY <2>1, <2>2, <2>3, <2>4, <2>5
<1>3. /\ UNCHANGED <<inputs, stored, short>>
      /\ \A d \in Calls \ {c} : cachedResults'[d] = cachedResults[d]
                             /\ uncachedInputs'[d] = uncachedInputs[d]
      /\ \/ cachedResults'[c] = Append(cachedResults[c], e) /\ UNCHANGED uncachedInputs
         \/ uncachedInputs'[c] = Append(uncachedInputs[c], e) /\ UNCHANGED cachedResults
  BY <1>1 DEF Hit, Miss, DataTypeOK
<1>4. \/ pc' = pc /\ n + 1 # Len(inputs[c])
      \/ /\ n + 1 = Len(inputs[c]) /\ pc' = [pc EXCEPT ![c] = "returned"]
         /\ uncachedInputs' = uncachedInputs /\ uncachedInputs[c] = <<>>
      \/ n + 1 = Len(inputs[c]) /\ WaitForAvailableSlot(c)
  BY DEF Hit, Miss, LastInput
<1>5. /\ \/ pc'[c] = "lookup" /\ n + 1 # Len(inputs[c])
         \/ n + 1 = Len(inputs[c]) /\ pc'[c] \in {"queued", "request"}
         \/ n + 1 = Len(inputs[c]) /\ pc'[c] = "returned" /\ Len(uncachedInputs'[c]) = 0
      /\ \A d \in Calls \ {c} : pc'[d] = pc[d]
  <2> HIDE DEF n, e
  <2>1. CASE pc' = pc /\ n + 1 # Len(inputs[c])
    BY <1>1, <2>1
  <2>2. CASE n + 1 = Len(inputs[c]) /\ WaitForAvailableSlot(c)
    BY <1>1, <2>2, WaitSlots
  <2>3. CASE /\ n + 1 = Len(inputs[c]) /\ pc' = [pc EXCEPT ![c] = "returned"]
             /\ uncachedInputs' = uncachedInputs /\ uncachedInputs[c] = <<>>
    <3>1. Len(uncachedInputs'[c]) = 0
      BY <2>3
    <3> QED
      BY <1>1, <2>3, <3>1 DEF SlotsInv, Stages
  <2> QED
    BY <1>4, <2>1, <2>2, <2>3
<1>6. Looked(c)' = n + 1
  <2> HIDE DEF n, e
  <2>1. /\ Len(Append(cachedResults[c], e)) = Len(cachedResults[c]) + 1
        /\ Len(Append(uncachedInputs[c], e)) = Len(uncachedInputs[c]) + 1
    BY <1>1, <1>2, AppendLength
  <2>2. Looked(c)' = Len(cachedResults'[c]) + Len(uncachedInputs'[c])
    BY DEF Looked
  <2> DEFINE a == Len(cachedResults[c])
             b == Len(uncachedInputs[c])
  <2>3. /\ a \in Nat /\ b \in Nat /\ n = a + b
        /\ \/ Looked(c)' = (a + 1) + b
           \/ Looked(c)' = a + (b + 1)
    BY <1>2, <1>3, <2>1, <2>2, Zenon
  <2> HIDE DEF a, b
  <2> QED
    BY <2>3
<1>7. ASSUME NEW t \in Texts
      PROVE  Occurrences(t, SubSeq(inputs[c], 1, Looked(c)))' =
             Occurrences(t, cachedResults[c])' + Occurrences(t, uncachedInputs[c])'
  <2> DEFINE more == IF e = t THEN 1 ELSE 0
             found == Occurrences(t, cachedResults[c])
             asked == Occurrences(t, uncachedInputs[c])
             seen == Occurrences(t, SubSeq(inputs[c], 1, n))
  <2>1. found \in Nat /\ asked \in Nat /\ more \in Nat /\ seen = found + asked
    BY <1>1, PlacesFinite DEF ResultInv
  <2> HIDE DEF n, e
  <2>2. /\ SubSeq(inputs[c], 1, n) \in Seq(Texts)
        /\ SubSeq(inputs[c], 1, n + 1) = Append(SubSeq(inputs[c], 1, n), e)
    BY <1>1, <1>2, PrefixGrows
  <2>3. ASSUME NEW q \in Seq(Texts)
        PROVE  Occurrences(t, Append(q, e)) = Occurrences(t, q) + more
    <3>1. e \in Texts
      BY <1>2
    <3>2. Occurrences(t, Append(q, e)) = Occurrences(t, q) + (IF e = t THEN 1 ELSE 0)
      BY <3>1, AppendOccurrences
    <3> QED
      BY <3>2
  <2>4. \/ /\ Occurrences(t, cachedResults'[c]) = found + more
           /\ Occurrences(t, uncachedInputs'[c]) = asked
        \/ /\ Occurrences(t, cachedResults'[c]) = found
           /\ Occurrences(t, uncachedInputs'[c]) = asked + more
    BY <1>1, <1>3, <2>3, Zenon
  <2>5. Occurrences(t, SubSeq(inputs[c], 1, Looked(c)))' = seen + more
    BY <1>3, <1>6, <2>2, <2>3, Zenon
  <2> HIDE DEF more, found, asked, seen
  <2> QED
    BY <2>1, <2>4, <2>5
<1>8. ResultInv(c)'
  <2> HIDE DEF n, e
  <2>1. Looked(c)' <= Len(inputs'[c])
    <3>1. \A i, j \in Nat : i < j => i + 1 <= j
      OBVIOUS
    <3>2. n + 1 <= Len(inputs[c])
      BY <1>2, <3>1, Zenon
    <3> QED
      BY <1>3, <1>6, <3>2, Zenon
  <2>2. pc'[c] \notin {"new", "lookup"} => Looked(c)' = Len(inputs'[c])
    BY <1>3, <1>5, <1>6
  <2>3. pc'[c] = "returned" => stored'[c] = Len(uncachedInputs'[c])
    BY <1>2, <1>3, <1>5
  <2> QED
    BY <1>7, <2>1, <2>2, <2>3 DEF ResultInv
<1>9. \A d \in Calls \ {c} : ResultInv(d)'
  BY <1>3, <1>5, ResultFrame DEF AnswersInv
<1> QED
  BY <1>8, <1>9 DEF AnswersInv

\* The request is over, or more answers are stored.
LEMMA AskedAnswers ==
    ASSUME IndInv, AnswersInv, NEW c \in Calls,
           \/ Answer(c) \/ AnswerNothing(c) \/ Fail(c)
           \/ StoreThrows(c)
    PROVE  AnswersInv'
<1>1. DataTypeOK /\ SlotsInv /\ pc[c] \in {"request", "store"}
  BY InvParts DEF Answer, AnswerNothing, Fail, StoreThrows, CallsInv
<1>2. PICK next \in {"store", "returned", "thrown"} :
        /\ ReleaseSlot(c, next) /\ short \subseteq short'
        /\ \A d \in short' : d \in short \/ d = c
        /\ next = "returned" => c \in short'
  BY <1>1 DEF Answer, AnswerNothing, Fail, StoreThrows, dataVars
<1>3. /\ pc'[c] = next
      /\ \A d \in Calls \ {c} : pc'[d] = pc[d] \/ (pc[d] = "queued" /\ pc'[d] = "shifted")
  BY <1>1, <1>2, ReleaseSlots
<1>4. UNCHANGED <<inputs, cachedResults, uncachedInputs>>
  BY DEF Answer, AnswerNothing, Fail, StoreThrows, Stored, dataVars
<1>5. \A d \in Calls \ {c} : stored'[d] = stored[d]
  BY <1>1 DEF Answer, AnswerNothing, Fail, StoreThrows, Stored, dataVars, DataTypeOK
<1>6. \A d \in Calls \ {c} : ResultInv(d)'
  BY <1>2, <1>3, <1>4, <1>5, ResultFrame DEF AnswersInv
<1>7. ResultInv(c)'
  <2>1. /\ ResultInv(c) /\ pc[c] \notin {"new", "lookup"} /\ pc'[c] \notin {"new", "lookup"}
        /\ ~(pc'[c] = "returned" /\ c \notin short')
    BY <1>1, <1>2, <1>3 DEF AnswersInv
  <2>2. Looked(c)' = Looked(c) /\ inputs'[c] = inputs[c]
    BY <1>4 DEF Looked
  <2>3. \A t \in Texts : Occurrences(t, SubSeq(inputs[c], 1, Looked(c)))' =
                         Occurrences(t, cachedResults[c])' + Occurrences(t, uncachedInputs[c])'
    BY <1>4, <2>1, <2>2 DEF ResultInv, Occurrences
  <2> QED
    BY <2>1, <2>2, <2>3 DEF ResultInv
<1> QED
  BY <1>6, <1>7 DEF AnswersInv

LEMMA StoreAnswers ==
    ASSUME IndInv, AnswersInv, NEW c \in Calls, Store(c)
    PROVE  AnswersInv'
<1>1. /\ DataTypeOK /\ SlotsInv /\ pc[c] = "store" /\ Stored(c) /\ short' \subseteq Calls
      /\ short \subseteq short'
  BY InvParts DEF Store, CallsInv, DataTypeOK
<1>2. /\ UNCHANGED <<inputs, cachedResults, uncachedInputs>> /\ stored'[c] = stored[c] + 1
      /\ \A d \in Calls \ {c} : stored'[d] = stored[d]
  BY <1>1, StoredFacts
<1>3. /\ \A d \in Calls \ {c} : pc'[d] = pc[d]
      /\ \A d \in short' : d \in short \/ d = c
      /\ pc'[c] \in {"store", "returned"}
      /\ pc'[c] = "returned" /\ c \notin short' => stored[c] + 1 = Len(uncachedInputs[c])
  BY <1>1 DEF Store, SlotsInv
<1>4. \A d \in Calls \ {c} : ResultInv(d)'
  BY <1>1, <1>2, <1>3, ResultFrame DEF AnswersInv
<1>5. ResultInv(c)'
  <2>1. ResultInv(c) /\ Looked(c)' = Looked(c) /\ inputs'[c] = inputs[c]
    BY <1>2 DEF AnswersInv, Looked
  <2>2. \A t \in Texts : Occurrences(t, SubSeq(inputs[c], 1, Looked(c)))' =
                         Occurrences(t, cachedResults[c])' + Occurrences(t, uncachedInputs[c])'
    BY <1>2, <2>1 DEF ResultInv, Occurrences
  <2> QED
    BY <1>1, <1>2, <1>3, <2>1, <2>2 DEF ResultInv
<1> QED
  BY <1>4, <1>5 DEF AnswersInv

LEMMA NextAnswers == IndInv /\ AnswersInv /\ [Next]_vars => AnswersInv'
<1> SUFFICES ASSUME IndInv, AnswersInv, [Next]_vars PROVE AnswersInv'
  OBVIOUS
<1>1. CASE TimerFires \/ UNCHANGED vars
  <2>1. /\ UNCHANGED dataVars
        /\ \A d \in Calls : pc'[d] = pc[d] \/ (pc[d] = "shifted" /\ pc'[d] = "request")
    BY <1>1, TimerSlots, InvParts DEF TimerFires, vars
  <2> QED
    BY <2>1, ResultFrame DEF AnswersInv, dataVars
<1>2. ASSUME NEW c \in Calls, Hit(c) \/ Miss(c) PROVE AnswersInv'
  BY <1>2, LookupAnswers
<1>3. ASSUME NEW c \in Calls, Answer(c) \/ AnswerNothing(c) \/ Fail(c) \/ StoreThrows(c)
      PROVE  AnswersInv'
  BY <1>3, AskedAnswers
<1>4. ASSUME NEW c \in Calls, Store(c) PROVE AnswersInv'
  BY <1>4, StoreAnswers
<1>5. ASSUME NEW c \in Calls, NEW texts \in Inputs, Embed(c, texts) PROVE AnswersInv'
  BY <1>5, EmbedAnswers
<1> QED
  BY <1>1, <1>2, <1>3, <1>4, <1>5 DEF Next

\* All looked up and all stored: the two parts together are the inputs.
LEMMA Complete == IndInv /\ AnswersInv => ResultIsComplete
<1> SUFFICES ASSUME IndInv, AnswersInv, NEW c \in Calls \ short, pc[c] = "returned", NEW t \in Texts
             PROVE  Occurrences(t, inputs[c]) =
                    Occurrences(t, cachedResults[c] \o SubSeq(uncachedInputs[c], 1, stored[c]))
  BY DEF ResultIsComplete
<1>1. /\ inputs[c] \in Seq(Texts) /\ cachedResults[c] \in Seq(Texts)
      /\ uncachedInputs[c] \in Seq(Texts)
  BY InvParts DEF CallsInv, DataTypeOK
<1>2. /\ Looked(c) = Len(inputs[c]) /\ stored[c] = Len(uncachedInputs[c])
      /\ Occurrences(t, SubSeq(inputs[c], 1, Looked(c))) =
           Occurrences(t, cachedResults[c]) + Occurrences(t, uncachedInputs[c])
  BY DEF AnswersInv, ResultInv
<1>3. /\ SubSeq(inputs[c], 1, Looked(c)) = inputs[c]
      /\ SubSeq(uncachedInputs[c], 1, stored[c]) = uncachedInputs[c]
  BY <1>1, <1>2, WholePrefix
<1>4. Occurrences(t, cachedResults[c] \o uncachedInputs[c]) =
        Occurrences(t, cachedResults[c]) + Occurrences(t, uncachedInputs[c])
  BY <1>1, ConcatOccurrences
<1> QED
  BY <1>2, <1>3, <1>4

-----------------------------------------------------------------------------
(* The theorems *)

\* The inductive invariant holds in every state, for any finite set of calls.
THEOREM Invariance == Spec => []IndInv
  BY InitInv, NextInv, PTL DEF Spec

\* The fields of the embedder and the progress of its calls keep their types.
THEOREM TypeCorrect == Spec => []TypeOK
<1>1. IndInv => TypeOK
  BY DEF IndInv
<1> QED
  BY <1>1, Invariance, PTL

\* activeRequests counts the requests under way, less the second releases: no
\* path through embedWithCache leaks a slot, and only a surplus answer makes it
\* give one back twice.
THEOREM SlotsNeverLeak == Spec => []SlotsCounted
<1>1. IndInv => SlotsCounted
  BY DEF IndInv
<1> QED
  BY <1>1, Invariance, PTL

\* While a call waits, every slot is taken or promised to a waiter.
THEOREM SlotsNeverIdle == Spec => []NoIdleSlot
<1>1. IndInv => NoIdleSlot
  BY DEF IndInv
<1> QED
  BY <1>1, Invariance, PTL

\* A call that returned, unless the provider left questions open, has each of
\* its inputs exactly as often among what it found and what it stored.
THEOREM ResultsAreComplete == Spec => []ResultIsComplete
<1>1. Init => IndInv /\ AnswersInv
  BY InitInv, InitAnswers
<1>2. (IndInv /\ AnswersInv) /\ [Next]_vars => (IndInv /\ AnswersInv)'
  BY NextInv, NextAnswers
<1>3. IndInv /\ AnswersInv => ResultIsComplete
  BY Complete
<1> QED
  BY <1>1, <1>2, <1>3, PTL DEF Spec
=============================================================================
