---------------------------- MODULE BaseEmbedder ----------------------------
(***************************************************************************)
(* embedWithCache of src/embedders/BaseEmbedder.ts: a call looks its       *)
(* inputs up in the cache, waits for one of maxConcurrent request slots,   *)
(* asks the provider for what is missing, gives its slot back and caches   *)
(* the answers.  releaseSlot shifts one waiter and lets a timer give it    *)
(* the slot.                                                               *)
(*                                                                         *)
(* One action is the code between two awaits.                              *)
(***************************************************************************)
EXTENDS Integers, Sequences, FiniteSets

CONSTANTS
    Calls,          \* the calls of embedWithCache
    Texts,          \* the texts one may ask about
    MaxInputs,      \* bound on the inputs of one call
    MaxConcurrent   \* maxConcurrent, from batchProcessing.maxConcurrentOperations

ASSUME CallsAssumption == IsFiniteSet(Calls)
ASSUME LimitAssumption == MaxConcurrent \in Nat \ {0} /\ MaxInputs \in Nat

VARIABLES
    inputs,         \* the inputs of each call
    cachedResults,  \* the inputs a call found in the cache
    uncachedInputs, \* the others
    stored,         \* how many of the answers a call has written to the cache
    surplus,        \* the calls whose answer is longer than their question
    short,          \* the calls whose answer was shorter
    cache,          \* the texts in the embedding cache
    activeRequests, requestQueue,
    timers,         \* the waiters that releaseSlot shifted, as their timers fire
    pc              \* where each call stands

slotVars == <<activeRequests, requestQueue, timers>>
dataVars == <<inputs, cachedResults, uncachedInputs, stored, surplus, short, cache>>
vars == <<dataVars, slotVars, pc>>

Inputs == UNION {[1..n -> Texts] : n \in 0..MaxInputs}

TypeOK ==
    /\ inputs \in [Calls -> Seq(Texts)]
    /\ cachedResults \in [Calls -> Seq(Texts)] /\ uncachedInputs \in [Calls -> Seq(Texts)]
    /\ stored \in [Calls -> Nat]
    /\ surplus \subseteq Calls /\ short \subseteq Calls /\ cache \subseteq Texts
    /\ activeRequests \in Int
    /\ requestQueue \in Seq(Calls) /\ timers \in Seq(Calls)
    /\ pc \in [Calls -> {"new", "lookup", "queued", "shifted", "request", "store",
                         "returned", "thrown"}]

Init ==
    /\ inputs = [c \in Calls |-> <<>>]
    /\ cachedResults = [c \in Calls |-> <<>>] /\ uncachedInputs = [c \in Calls |-> <<>>]
    /\ stored = [c \in Calls |-> 0]
    /\ surplus = {} /\ short = {} /\ cache = {}
    /\ activeRequests = 0
    /\ requestQueue = <<>> /\ timers = <<>>
    /\ pc = [c \in Calls |-> "new"]

-----------------------------------------------------------------------------
(* The slots *)

\* Fault: a waiter is queued although a slot is free.
WaitOneEarly(c) ==
    /\ UNCHANGED timers
    /\ \/ /\ activeRequests < MaxConcurrent - 1
          /\ activeRequests' = activeRequests + 1
          /\ pc' = [pc EXCEPT ![c] = "request"]
          /\ UNCHANGED requestQueue
       \/ /\ activeRequests >= MaxConcurrent - 1
          /\ requestQueue' = Append(requestQueue, c)
          /\ pc' = [pc EXCEPT ![c] = "queued"]
          /\ UNCHANGED activeRequests

\* Take a free slot and send the request at once, or wait for one.
WaitForAvailableSlot(c) ==
    /\ UNCHANGED timers
    /\ \/ /\ activeRequests < MaxConcurrent
          /\ activeRequests' = activeRequests + 1
          /\ pc' = [pc EXCEPT ![c] = "request"]
          /\ UNCHANGED requestQueue
       \/ /\ activeRequests >= MaxConcurrent
          /\ requestQueue' = Append(requestQueue, c)
          /\ pc' = [pc EXCEPT ![c] = "queued"]
          /\ UNCHANGED activeRequests

\* Fault: the slot is given back only when nobody waits.
ReleaseKeepsCount(c, next) ==
    \/ /\ requestQueue = <<>>
       /\ activeRequests' = activeRequests - 1
       /\ pc' = [pc EXCEPT ![c] = next]
       /\ UNCHANGED <<requestQueue, timers>>
    \/ /\ requestQueue # <<>>
       /\ requestQueue' = Tail(requestQueue)
       /\ timers' = Append(timers, Head(requestQueue))
       /\ pc' = [pc EXCEPT ![c] = next, ![Head(requestQueue)] = "shifted"]
       /\ UNCHANGED activeRequests

\* releaseSlot, called by c, which goes on to `next`.
ReleaseSlot(c, next) ==
    /\ activeRequests' = activeRequests - 1
    /\ \/ /\ requestQueue = <<>>
          /\ pc' = [pc EXCEPT ![c] = next]
          /\ UNCHANGED <<requestQueue, timers>>
       \/ /\ requestQueue # <<>>
          /\ requestQueue' = Tail(requestQueue)
          /\ timers' = Append(timers, Head(requestQueue))
          /\ pc' = [pc EXCEPT ![c] = next, ![Head(requestQueue)] = "shifted"]

\* The timer of a shifted waiter: the slot is its own, whoever came meanwhile.
TimerFires ==
    /\ timers # <<>>
    /\ timers' = Tail(timers)
    /\ activeRequests' = activeRequests + 1
    /\ pc' = [pc EXCEPT ![Head(timers)] = "request"]
    /\ UNCHANGED <<dataVars, requestQueue>>

-----------------------------------------------------------------------------
(* embedWithCache *)

Embed(c, texts) ==
    /\ pc[c] = "new"
    /\ inputs' = [inputs EXCEPT ![c] = texts]
    /\ pc' = [pc EXCEPT ![c] = IF texts = <<>> THEN "returned" ELSE "lookup"]
    /\ UNCHANGED <<cachedResults, uncachedInputs, stored, surplus, short, cache, slotVars>>

\* What the loop over the inputs looks up next.
Looked(c) == Len(cachedResults[c]) + Len(uncachedInputs[c])
NextInput(c) == inputs[c][Looked(c) + 1]
LastInput(c) == Looked(c) + 1 = Len(inputs[c])

Hit(c) ==
    /\ pc[c] = "lookup" /\ NextInput(c) \in cache
    /\ cachedResults' = [cachedResults EXCEPT ![c] = Append(@, NextInput(c))]
    /\ \/ ~LastInput(c) /\ UNCHANGED <<pc, slotVars>>
       \/ /\ LastInput(c) /\ uncachedInputs[c] = <<>>
          /\ pc' = [pc EXCEPT ![c] = "returned"]
          /\ UNCHANGED slotVars
       \/ LastInput(c) /\ uncachedInputs[c] # <<>> /\ WaitForAvailableSlot(c)
    /\ UNCHANGED <<inputs, uncachedInputs, stored, surplus, short, cache>>

\* Not in the cache, or expired, or the cache failed, which counts as a miss.
Miss(c) ==
    /\ pc[c] = "lookup"
    /\ uncachedInputs' = [uncachedInputs EXCEPT ![c] = Append(@, NextInput(c))]
    /\ \/ ~LastInput(c) /\ UNCHANGED <<pc, slotVars>>
       \/ LastInput(c) /\ WaitForAvailableSlot(c)
    /\ UNCHANGED <<inputs, cachedResults, stored, surplus, short, cache>>

\* The provider answered in time, perhaps more than it was asked (nothing
\* compares the lengths): the slot is free while the answers are cached.
Answer(c) ==
    /\ pc[c] = "request"
    /\ surplus' \in {surplus, surplus \cup {c}}
    /\ ReleaseSlot(c, "store")
    /\ UNCHANGED <<inputs, cachedResults, uncachedInputs, stored, short, cache>>

\* It answered in time with an empty list: there is nothing to cache.
AnswerNothing(c) ==
    /\ pc[c] = "request"
    /\ short' = short \cup {c}
    /\ ReleaseSlot(c, "returned")
    /\ UNCHANGED <<inputs, cachedResults, uncachedInputs, stored, surplus, cache>>

\* Fault: a call that fails keeps its slot.
FailKeepsSlot(c) ==
    /\ pc[c] = "request"
    /\ pc' = [pc EXCEPT ![c] = "thrown"]
    /\ UNCHANGED <<dataVars, slotVars>>

\* The provider failed or the timeout fired first; a late answer is dropped.
Fail(c) ==
    /\ pc[c] = "request"
    /\ ReleaseSlot(c, "thrown")
    /\ UNCHANGED dataVars

\* cacheService.set settled; an error in it is swallowed and seen as a miss later.
Stored(c) ==
    /\ cache' = cache \cup {uncachedInputs[c][stored[c] + 1]}
    /\ stored' = [stored EXCEPT ![c] = @ + 1]
    /\ UNCHANGED <<inputs, cachedResults, uncachedInputs, surplus>>

\* Fault: the loop stops before the last answer.
StoreEndsEarly(c) ==
    /\ pc[c] = "store" /\ Stored(c)
    /\ pc' = [pc EXCEPT ![c] = "returned"]
    /\ UNCHANGED <<short, slotVars>>

\* The loop over the answers goes on, or is over: with the last question
\* answered, or before it when the answer was short.
Store(c) ==
    /\ pc[c] = "store" /\ Stored(c) /\ UNCHANGED slotVars
    /\ \/ stored[c] + 1 < Len(uncachedInputs[c]) /\ UNCHANGED <<short, pc>>
       \/ /\ stored[c] + 1 = Len(uncachedInputs[c]) /\ c \notin surplus
          /\ pc' = [pc EXCEPT ![c] = "returned"]
          /\ UNCHANGED short
       \/ /\ stored[c] + 1 < Len(uncachedInputs[c]) /\ c \notin surplus
          /\ pc' = [pc EXCEPT ![c] = "returned"]
          /\ short' = short \cup {c}

\* A surplus answer has no input to be cached under: the TypeError is caught
\* where the slot is released once more.
StoreThrows(c) ==
    /\ pc[c] = "store" /\ Stored(c)
    /\ stored[c] + 1 = Len(uncachedInputs[c]) /\ c \in surplus
    /\ ReleaseSlot(c, "thrown")
    /\ UNCHANGED short

-----------------------------------------------------------------------------
Progress(c) ==
    \/ Hit(c) \/ Miss(c)
    \/ Answer(c) \/ AnswerNothing(c) \/ Fail(c)
    \/ Store(c) \/ StoreThrows(c)

Next ==
    \/ TimerFires
    \/ \E c \in Calls :
          \/ Hit(c) \/ Miss(c)
          \/ Answer(c) \/ AnswerNothing(c) \/ Fail(c)
          \/ Store(c) \/ StoreThrows(c)
          \/ \E texts \in Inputs : Embed(c, texts)

Spec == Init /\ [][Next]_vars

\* The cache and the provider settle (or the timeout fires), timers fire.
Fairness == WF_vars(TimerFires) /\ \A c \in Calls : WF_vars(Progress(c))

FairSpec == Spec /\ Fairness
-----------------------------------------------------------------------------
(* What must be true. *)

\* No path through success, failure and timeout leaks a slot, and only an
\* answer that was too long gives one back twice: activeRequests is the number
\* of requests under way, less the second releases.
Requesting == {c \in Calls : pc[c] = "request"}
ReleasedTwice == {c \in surplus : pc[c] = "thrown"}
SlotsCounted == activeRequests = Cardinality(Requesting) - Cardinality(ReleasedTwice)

\* No slot stays idle while a call waits: each free slot has been promised to
\* a waiter whose timer is about to fire.  Nobody waits forever.
NoIdleSlot ==
    requestQueue # <<>> => activeRequests + Len(timers) >= MaxConcurrent

\* A call that returned has one result for each of its inputs, none twice and
\* none forgotten, found in the cache or answered, unless the provider left
\* questions open.
Occurrences(t, s) == Cardinality({k \in DOMAIN s : s[k] = t})
ResultIsComplete ==
    \A c \in Calls \ short : pc[c] = "returned" =>
        \A t \in Texts : Occurrences(t, inputs[c]) =
            Occurrences(t, cachedResults[c] \o SubSeq(uncachedInputs[c], 1, stored[c]))

\* Every call returns or throws, whatever the provider does.
EveryCallReturns ==
    \A c \in Calls : pc[c] # "new" ~> pc[c] \in {"returned", "thrown"}
-----------------------------------------------------------------------------
(* The inductive invariant behind SlotsCounted and NoIdleSlot. *)

\* The queue and the timers hold each waiter once.
WaitersInv ==
    /\ \A k \in DOMAIN requestQueue : pc[requestQueue[k]] = "queued"
    /\ \A j, k \in DOMAIN requestQueue : requestQueue[j] = requestQueue[k] => j = k
    /\ \A k \in DOMAIN timers : pc[timers[k]] = "shifted"
    /\ \A j, k \in DOMAIN timers : timers[j] = timers[k] => j = k

\* How far each call is in its inputs and in its answers.
CallInv(c) ==
    /\ pc[c] = "new" => Looked(c) = 0
    /\ pc[c] = "lookup" => Looked(c) < Len(inputs[c])
    /\ pc[c] \in {"new", "lookup", "queued", "shifted", "request"} => stored[c] = 0
    /\ pc[c] \in {"queued", "shifted", "request", "store"} => stored[c] < Len(uncachedInputs[c])
    /\ c \in surplus => pc[c] \in {"store", "thrown"}

IndInv ==
    /\ TypeOK /\ SlotsCounted /\ NoIdleSlot /\ WaitersInv
    /\ \A c \in Calls : CallInv(c)

\* Behind ResultIsComplete: what a call has looked up, it has once, found or
\* to be asked for; it asks when it has looked everything up.
ResultInv(c) ==
    /\ Looked(c) <= Len(inputs[c])
    /\ \A t \in Texts : Occurrences(t, SubSeq(inputs[c], 1, Looked(c))) =
                          Occurrences(t, cachedResults[c]) + Occurrences(t, uncachedInputs[c])
    /\ pc[c] \notin {"new", "lookup"} => Looked(c) = Len(inputs[c])
    /\ pc[c] = "returned" /\ c \notin short => stored[c] = Len(uncachedInputs[c])

AnswersInv == \A c \in Calls : ResultInv(c)
=============================================================================
