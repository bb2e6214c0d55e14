--------------------------- MODULE DiscoveryProofs ---------------------------
(***************************************************************************)
(* Proofs about the discovery core: type correctness, and the dedup        *)
(* invariant OutstandingAtMostOnce for every number of keys, workers and   *)
(* health-tick goroutines and every queue capacity.                        *)
(***************************************************************************)
EXTENDS Discovery, SequenceTheorems, TLAPS

USE ConstantsAssumption

-----------------------------------------------------------------------------
(* Type correctness.                                                       *)

(* Every step preserves TypeOK.                                            *)
LEMMA TypeStep == TypeOK /\ [Next]_vars => TypeOK'
<1> SUFFICES ASSUME TypeOK, [Next]_vars PROVE TypeOK'
  OBVIOUS
<1>1. ASSUME NEW w \in Workers, WorkerConsume(w) PROVE TypeOK'
  <2>1. queue # <<>> /\ queue \in Seq(Keys)
    BY <1>1 DEF WorkerConsume, TypeOK
  <2>2. Head(queue) \in Keys /\ Tail(queue) \in Seq(Keys)
        /\ Len(Tail(queue)) = Len(queue) - 1
    BY <2>1, HeadTailProperties
  <2>3. QED
    BY <1>1, <2>2 DEF WorkerConsume, TypeOK, WorkerStates, healthVars
<1>2. ASSUME NEW w \in Workers,
             \/ WorkerSkipDemoted(w) \/ WorkerDiscover(w) \/ DiscoverSkip(w)
             \/ DiscoverThrottled(w) \/ DiscoverCacheAdd(w)
             \/ DiscoverProbeDone(w) \/ WorkerRelease(w)
      PROVE TypeOK'
  BY <1>2 DEF WorkerSkipDemoted, WorkerDiscover, DiscoverSkip,
              DiscoverThrottled, DiscoverCacheAdd, DiscoverProbeDone,
              WorkerRelease, TypeOK, WorkerStates, queueVars, healthVars
<1>3. ASSUME NEW k \in Keys, CacheExpire(k) PROVE TypeOK'
  BY <1>3 DEF CacheExpire, TypeOK, queueVars, healthVars
<1>4. ASSUME NEW t \in HealthTicks, HealthFire(t) PROVE TypeOK'
  BY <1>4 DEF HealthFire, IsLeader, TypeOK, HealthStates, queueVars, workerVars
<1>5. ASSUME NEW t \in HealthTicks, HealthElect(t) PROVE TypeOK'
  BY <1>5 DEF HealthElect, TypeOK, HealthStates, queueVars, workerVars
<1>6. ASSUME NEW t \in HealthTicks, HealthDone(t) PROVE TypeOK'
  BY <1>6 DEF HealthDone, TypeOK, HealthStates, queueVars, workerVars
<1>10. ASSUME NEW t \in HealthTicks, HealthGate(t) PROVE TypeOK'
  <2>1. {snapshot[i] : i \in 1..Len(snapshot)} \subseteq Keys
    BY ElementOfSeq DEF TypeOK
  <2>2. <<>> \in Seq(Keys) /\ Len(<<>>) = 0
    BY EmptySeq
  <2>3. CASE ~IsLeaderOrActive
    BY <1>10, <2>3 DEF HealthGate, TypeOK, HealthStates, queueVars, workerVars
  <2>4. CASE IsLeaderOrActive
    <3>1. PICK outdated \in SUBSET Keys :
            toPush' = [toPush EXCEPT ![t] =
                         outdated \cup {snapshot[i] : i \in 1..Len(snapshot)}]
      BY <1>10, <2>4 DEF HealthGate
    <3>2. QED
      BY <1>10, <2>4, <3>1, <2>1, <2>2 DEF HealthGate, TypeOK, HealthStates,
                                         queueVars, workerVars
  <2>5. QED
    BY <2>3, <2>4
<1>11. ASSUME NEW t \in HealthTicks, HealthPush(t) PROVE TypeOK'
  <2>1. PICK k \in toPush[t] : Push(k) /\ toPush' = [toPush EXCEPT ![t] = @ \ {k}]
    BY <1>11 DEF HealthPush
  <2>2. k \in Keys
    BY <2>1 DEF TypeOK
  <2>3. toPush' \in [HealthTicks -> SUBSET Keys]
    BY <2>1 DEF TypeOK
  <2>4. CASE k \in queuedKeys \cup consumedKeys
    BY <1>11, <2>1, <2>3, <2>4 DEF HealthPush, Push, TypeOK, workerVars
  <2>5. CASE k \notin queuedKeys \cup consumedKeys
    <3>1. Len(queue) < QueueCapacity /\ queue' = Append(queue, k)
          /\ queuedKeys' = queuedKeys \cup {k} /\ consumedKeys' = consumedKeys
      BY <2>1, <2>5 DEF Push
    <3>2. Append(queue, k) \in Seq(Keys) /\ Len(Append(queue, k)) = Len(queue) + 1
      BY <2>2, AppendProperties DEF TypeOK
    <3>3. QED
      BY <1>11, <2>2, <2>3, <3>1, <3>2 DEF HealthPush, TypeOK, workerVars
  <2>6. QED
    BY <2>4, <2>5
<1>7. ASSUME NEW k \in Keys, RequestSnapshotDiscovery(k) PROVE TypeOK'
  <2>1. Append(snapshot, k) \in Seq(Keys)
        /\ Len(Append(snapshot, k)) = Len(snapshot) + 1
    BY AppendProperties DEF TypeOK
  <2>2. QED
    BY <1>7, <2>1 DEF RequestSnapshotDiscovery, TypeOK, queueVars, workerVars
<1>8. CASE UNCHANGED vars
  BY <1>8 DEF vars, TypeOK, queueVars, workerVars, healthVars
<1>9. QED
  BY <1>1, <1>2, <1>3, <1>4, <1>5, <1>6, <1>7, <1>8, <1>10, <1>11
     DEF Next, Worker, HealthTick

(* The discovery core is well typed: TypeOK holds in every reachable       *)
(* state, whatever the number of keys, workers and ticks.                  *)
THEOREM TypeCorrect == Spec => []TypeOK
<1>1. Init => TypeOK
  BY EmptySeq DEF Init, TypeOK, WorkerStates, HealthStates
<1>2. QED
  BY <1>1, TypeStep, PTL DEF Spec

-----------------------------------------------------------------------------
(* The dedup invariant.  OutstandingAtMostOnce is not inductive: a Push    *)
(* is safe only because queuedKeys and consumedKeys are exactly the keys   *)
(* in the channel and the keys the workers hold, and a Release is safe     *)
(* only because no other worker holds the released key.                    *)

QueueInjective ==
    \A i, j \in 1..Len(queue) : i # j => queue[i] # queue[j]

QueuedIsChannel ==
    queuedKeys = {queue[i] : i \in 1..Len(queue)}

ConsumedIsHeld ==
    consumedKeys = {wkey[w] : w \in {v \in Workers : Holds(v)}}

HeldDistinct ==
    \A v, w \in Workers : v # w /\ Holds(v) /\ Holds(w) => wkey[v] # wkey[w]

HeldNotQueued ==
    \A w \in Workers : Holds(w) => wkey[w] \notin queuedKeys

IInv ==
    /\ TypeOK
    /\ QueueInjective
    /\ QueuedIsChannel
    /\ ConsumedIsHeld
    /\ HeldDistinct
    /\ HeldNotQueued

(* IInv implies the dedup invariant.                                       *)
LEMMA IInvImpliesDedup == IInv => OutstandingAtMostOnce
BY DEF IInv, OutstandingAtMostOnce, QueueInjective, QueuedIsChannel,
       HeldDistinct, HeldNotQueued

(* The initial states satisfy IInv.                                        *)
LEMMA IInvInit == Init => IInv
BY EmptySeq DEF Init, IInv, TypeOK, WorkerStates, HealthStates, QueueInjective,
                QueuedIsChannel, ConsumedIsHeld, HeldDistinct, HeldNotQueued, Holds

(* Steps that leave the queue, the held keys and the holders alone keep   *)
(* IInv; this covers the steps inside DiscoverInstance, the cache, the     *)
(* snapshot channel and the health tick outside its pushes.                *)
LEMMA IInvFrame ==
    ASSUME IInv, TypeOK',
           UNCHANGED <<queue, queuedKeys, consumedKeys, wkey>>,
           \A w \in Workers : Holds(w)' = Holds(w)
    PROVE  IInv'
BY DEF IInv, QueueInjective, QueuedIsChannel, ConsumedIsHeld, HeldDistinct,
       HeldNotQueued

(* Every step preserves IInv.                                              *)
LEMMA IInvStep == IInv /\ [Next]_vars => IInv'
<1> SUFFICES ASSUME IInv, [Next]_vars PROVE IInv'
  OBVIOUS
<1>0. TypeOK'
  BY TypeStep DEF IInv
<1>1. ASSUME NEW w \in Workers, WorkerConsume(w) PROVE IInv'
  <2> DEFINE k == Head(queue)
  <2>1. queue # <<>> /\ queue \in Seq(Keys)
    BY <1>1 DEF WorkerConsume, IInv, TypeOK
  <2>2. /\ k = queue[1]
        /\ Len(queue') = Len(queue) - 1
        /\ \A i \in 1..Len(queue') : queue'[i] = queue[i + 1]
        /\ Len(queue) \in Nat \ {0}
    BY <1>1, <2>1, HeadTailProperties, EmptySeq DEF WorkerConsume
  <2>3. ~Holds(w) /\ Holds(w)' /\ wkey'[w] = k
    BY <1>1 DEF WorkerConsume, Holds, IInv, TypeOK
  <2>4. \A v \in Workers \ {w} : Holds(v)' = Holds(v) /\ wkey'[v] = wkey[v]
    BY <1>1 DEF WorkerConsume, Holds, IInv, TypeOK
  <2>5. QueueInjective'
    BY <2>2 DEF IInv, QueueInjective
  <2>6. QueuedIsChannel'
    BY <1>1, <2>2 DEF WorkerConsume, IInv, QueueInjective, QueuedIsChannel
  <2>7. ConsumedIsHeld'
    BY <1>1, <2>3, <2>4 DEF WorkerConsume, IInv, ConsumedIsHeld
  <2>8. k \in queuedKeys
    BY <2>2 DEF IInv, QueuedIsChannel
  <2>9. HeldDistinct'
    BY <2>3, <2>4, <2>8 DEF IInv, HeldDistinct, HeldNotQueued
  <2>10. HeldNotQueued'
    BY <1>1, <2>3, <2>4 DEF WorkerConsume, IInv, HeldNotQueued
  <2>11. QED
    BY <1>0, <2>5, <2>6, <2>7, <2>9, <2>10 DEF IInv
<1>2. ASSUME NEW w \in Workers, WorkerSkipDemoted(w) \/ WorkerRelease(w)
      PROVE IInv'
  <2>1. /\ Holds(w) /\ ~Holds(w)'
        /\ consumedKeys' = consumedKeys \ {wkey[w]}
        /\ UNCHANGED <<queue, queuedKeys, wkey>>
        /\ \A v \in Workers \ {w} : Holds(v)' = Holds(v)
    BY <1>2 DEF WorkerSkipDemoted, WorkerRelease, Holds, IInv, TypeOK
  <2>2. ConsumedIsHeld'
    BY <2>1 DEF IInv, ConsumedIsHeld, HeldDistinct
  <2>3. QED
    BY <1>0, <2>1, <2>2 DEF IInv, QueueInjective, QueuedIsChannel,
                              HeldDistinct, HeldNotQueued
<1>3. ASSUME NEW w \in Workers,
             \/ WorkerDiscover(w) \/ DiscoverSkip(w) \/ DiscoverThrottled(w)
             \/ DiscoverCacheAdd(w) \/ DiscoverProbeDone(w)
      PROVE IInv'
  <2>1. UNCHANGED <<queue, queuedKeys, consumedKeys, wkey>>
    BY <1>3 DEF WorkerDiscover, DiscoverSkip, DiscoverThrottled,
                DiscoverCacheAdd, DiscoverProbeDone, queueVars
  <2>2. \A v \in Workers : Holds(v)' = Holds(v)
    BY <1>3 DEF WorkerDiscover, DiscoverSkip, DiscoverThrottled,
                DiscoverCacheAdd, DiscoverProbeDone, Holds, IInv, TypeOK
  <2>3. QED
    BY <1>0, <2>1, <2>2, IInvFrame
<1>4. ASSUME NEW t \in HealthTicks,
             \/ HealthFire(t) \/ HealthElect(t) \/ HealthGate(t) \/ HealthDone(t)
      PROVE IInv'
  <2>1. UNCHANGED <<queue, queuedKeys, consumedKeys, wpc, wkey>>
    BY <1>4 DEF HealthFire, HealthElect, HealthGate, HealthDone, queueVars,
                workerVars
  <2>2. QED
    BY <1>0, <2>1, IInvFrame DEF Holds
<1>5. ASSUME NEW k \in Keys, CacheExpire(k) \/ RequestSnapshotDiscovery(k)
      PROVE IInv'
  <2>1. UNCHANGED <<queue, queuedKeys, consumedKeys, wpc, wkey>>
    BY <1>5 DEF CacheExpire, RequestSnapshotDiscovery, queueVars, workerVars
  <2>2. QED
    BY <1>0, <2>1, IInvFrame DEF Holds
<1>6. ASSUME NEW t \in HealthTicks, HealthPush(t) PROVE IInv'
  <2>1. PICK k \in toPush[t] : Push(k)
    BY <1>6 DEF HealthPush
  <2>2. UNCHANGED <<wpc, wkey>>
    BY <1>6 DEF HealthPush, workerVars
  <2>3. CASE k \in queuedKeys \cup consumedKeys
    BY <1>0, <2>1, <2>2, <2>3, IInvFrame DEF Push, Holds
  <2>4. CASE k \notin queuedKeys \cup consumedKeys
    <3>0. k \in Keys
      BY DEF IInv, TypeOK
    <3>1. /\ queue' = Append(queue, k)
          /\ queuedKeys' = queuedKeys \cup {k}
          /\ consumedKeys' = consumedKeys
      BY <2>1, <2>4 DEF Push
    <3>2. /\ Len(queue') = Len(queue) + 1
          /\ \A i \in 1..Len(queue) : queue'[i] = queue[i]
          /\ queue'[Len(queue) + 1] = k
          /\ Len(queue) \in Nat
      BY <3>0, <3>1, AppendProperties, LenProperties DEF IInv, TypeOK
    <3>3. \A i \in 1..Len(queue) : queue[i] # k
      BY <2>4 DEF IInv, QueuedIsChannel
    <3>4. QueueInjective'
      BY <3>2, <3>3 DEF IInv, QueueInjective
    <3>5. QueuedIsChannel'
      BY <3>1, <3>2 DEF IInv, QueuedIsChannel
    <3>6. \A w \in Workers : Holds(w) => wkey[w] # k
      BY <2>4 DEF IInv, ConsumedIsHeld
    <3>7. QED
      BY <1>0, <2>2, <3>1, <3>4, <3>5, <3>6
         DEF IInv, ConsumedIsHeld, HeldDistinct, HeldNotQueued, Holds
  <2>5. QED
    BY <2>3, <2>4
<1>7. CASE UNCHANGED vars
  BY <1>0, <1>7, IInvFrame DEF vars, queueVars, workerVars, Holds
<1>8. QED
  BY <1>1, <1>2, <1>3, <1>4, <1>5, <1>6, <1>7 DEF Next, Worker, HealthTick

(* No instance key is outstanding twice: the discovery queue's dedup and   *)
(* the workers' Release-after-DiscoverInstance discipline mean no two      *)
(* goroutines ever work on the same key, for every number of keys and      *)
(* workers, every queue capacity and any overlap of health ticks.          *)
THEOREM DedupCorrect == Spec => []OutstandingAtMostOnce
<1>1. IInv /\ [Next]_vars => IInv'
  BY IInvStep
<1>2. QED
  BY <1>1, IInvInit, IInvImpliesDedup, PTL DEF Spec

=============================================================================
