------------------------------ MODULE Discovery ------------------------------
(***************************************************************************)
(* The continuous-discovery core of the orchestrator logic package         *)
(* (orchestrator.go, carried in src/go/vt/vttablet/endtoend/call_test.go   *)
(* from line 73 on):                                                       *)
(*   - the deduplicating discovery queue (discovery.Queue, not under src/: *)
(*     modelled from the spec, section 4.1);                               *)
(*   - the pool of discovery workers of handleDiscoveryRequests;           *)
(*   - DiscoverInstance, with its early returns and the recent-discovery   *)
(*     cache recentDiscoveryOperationKeys;                                 *)
(*   - onHealthTick goroutines: leader election, the snapshot channel      *)
(*     snapshotDiscoveryKeys and the pushes onto the queue.                *)
(* Every onHealthTick runs in a goroutine of its own (line 501), so ticks  *)
(* may overlap; each slot of HealthTicks is one such goroutine.            *)
(***************************************************************************)
EXTENDS Naturals, Sequences, FiniteSets

CONSTANTS
    Keys,              \* instance keys (model values)
    Workers,           \* discovery workers, DiscoveryMaxConcurrency of them
    HealthTicks,       \* onHealthTick goroutines that may be alive at once
    QueueCapacity,     \* capacity of the discovery queue's channel
    SnapshotCapacity   \* capacity of snapshotDiscoveryKeys (10 in the code)

ASSUME ConstantsAssumption ==
    /\ Keys # {}
    /\ Workers # {}
    /\ QueueCapacity \in Nat \ {0}
    /\ SnapshotCapacity \in Nat \ {0}

VARIABLES
    isElectedNode,     \* the int64 flag read by IsLeader / IsLeaderOrActive
    queue,             \* the queue's channel of pending keys
    queuedKeys,        \* keys pushed and not yet consumed
    consumedKeys,      \* keys consumed and not yet released
    wpc,               \* worker program counter
    wkey,              \* the key a worker last consumed
    recent,            \* keys with an unexpired entry in recentDiscoveryOperationKeys
    hpc,               \* health-tick goroutine program counter
    wasElected,        \* wasAlreadyElected of each health-tick goroutine
    toPush,            \* instanceKeys still to be pushed by a health tick
    snapshot,          \* the snapshotDiscoveryKeys channel
    onboarded          \* history: the just-became-leader tasks were spawned
                       \* since isElectedNode last went from 0 to 1

queueVars == <<queue, queuedKeys, consumedKeys>>
workerVars == <<wpc, wkey, recent>>
healthVars == <<hpc, wasElected, toPush, snapshot, onboarded>>
vars == <<isElectedNode, queueVars, workerVars, healthVars>>

WorkerStates == {"consume", "gate", "discover", "probe", "release"}
HealthStates == {"idle", "elect", "gate", "push"}

-----------------------------------------------------------------------------
(* IsLeader and IsLeaderOrActive both compare isElectedNode with 1.        *)
IsLeader == isElectedNode = 1
IsLeaderOrActive == isElectedNode = 1

(* A worker holds its key from Consume until Release.                      *)
Holds(w) == wpc[w] # "consume"

(* Queue.Push (spec 4.1): a no-op for a key queued or being processed;     *)
(* otherwise the key goes into the channel, blocking while it is full.     *)
Push(k) ==
    \/ /\ k \in queuedKeys \cup consumedKeys
       /\ UNCHANGED <<queue, queuedKeys, consumedKeys>>
    \/ /\ k \notin queuedKeys \cup consumedKeys
       /\ Len(queue) < QueueCapacity
       /\ queue' = Append(queue, k)
       /\ queuedKeys' = queuedKeys \cup {k}
       /\ UNCHANGED consumedKeys

-----------------------------------------------------------------------------
Init ==
    /\ isElectedNode = 0
    /\ queue = <<>>
    /\ queuedKeys = {}
    /\ consumedKeys = {}
    /\ wpc = [w \in Workers |-> "consume"]
    /\ wkey \in [Workers -> Keys]
    /\ recent = {}
    /\ hpc = [t \in HealthTicks |-> "idle"]
    /\ wasElected = [t \in HealthTicks |-> FALSE]
    /\ toPush = [t \in HealthTicks |-> {}]
    /\ snapshot = <<>>
    /\ onboarded = TRUE

(* Worker: discoveryQueue.Consume() blocks until a key is pending, then    *)
(* moves it from the queued to the consumed keys.                          *)
WorkerConsume(w) ==
    /\ wpc[w] = "consume"
    /\ queue # <<>>
    /\ wkey' = [wkey EXCEPT ![w] = Head(queue)]
    /\ queue' = Tail(queue)
    /\ queuedKeys' = queuedKeys \ {Head(queue)}
    /\ consumedKeys' = consumedKeys \cup {Head(queue)}
    /\ wpc' = [wpc EXCEPT ![w] = "gate"]
    /\ UNCHANGED <<isElectedNode, recent, healthVars>>

(* Mutant of WorkerSkipDemoted: the demoted path forgets the Release.     *)
WorkerSkipDemotedNoRelease(w) ==
    /\ wpc[w] = "gate"
    /\ ~IsLeaderOrActive
    /\ wpc' = [wpc EXCEPT ![w] = "consume"]
    /\ UNCHANGED <<isElectedNode, queueVars, wkey, recent, healthVars>>

(* Worker: the node was demoted; skip the key and release it at once.      *)
WorkerSkipDemoted(w) ==
    /\ wpc[w] = "gate"
    /\ ~IsLeaderOrActive
    /\ consumedKeys' = consumedKeys \ {wkey[w]}
    /\ wpc' = [wpc EXCEPT ![w] = "consume"]
    /\ UNCHANGED <<isElectedNode, queue, queuedKeys, wkey, recent, healthVars>>

(* Mutant of WorkerDiscover: Release is called before DiscoverInstance.    *)
WorkerDiscoverReleaseFirst(w) ==
    /\ wpc[w] = "gate"
    /\ IsLeaderOrActive
    /\ consumedKeys' = consumedKeys \ {wkey[w]}
    /\ wpc' = [wpc EXCEPT ![w] = "discover"]
    /\ UNCHANGED <<isElectedNode, queue, queuedKeys, wkey, recent, healthVars>>

(* Worker: still elected, call DiscoverInstance(instanceKey, false).       *)
WorkerDiscover(w) ==
    /\ wpc[w] = "gate"
    /\ IsLeaderOrActive
    /\ wpc' = [wpc EXCEPT ![w] = "discover"]
    /\ UNCHANGED <<isElectedNode, queueVars, wkey, recent, healthVars>>

(* DiscoverInstance returns early: the key is forgotten, matches           *)
(* DiscoveryIgnoreHostnameFilters, or is invalid once resolved.            *)
DiscoverSkip(w) ==
    /\ wpc[w] = "discover"
    /\ wpc' = [wpc EXCEPT ![w] = "release"]
    /\ UNCHANGED <<isElectedNode, queueVars, wkey, recent, healthVars>>

(* DiscoverInstance: recentDiscoveryOperationKeys.Add fails for a key      *)
(* with an unexpired entry, and a non-forced discovery returns.            *)
DiscoverThrottled(w) ==
    /\ wpc[w] = "discover"
    /\ wkey[w] \in recent
    /\ wpc' = [wpc EXCEPT ![w] = "release"]
    /\ UNCHANGED <<isElectedNode, queueVars, wkey, recent, healthVars>>

(* DiscoverInstance: the Add succeeds and the backend is read; an          *)
(* up-to-date instance with a valid last check returns, anything else      *)
(* goes on to the probe.                                                   *)
DiscoverCacheAdd(w) ==
    /\ wpc[w] = "discover"
    /\ wkey[w] \notin recent
    /\ recent' = recent \cup {wkey[w]}
    /\ \E next \in {"release", "probe"} : wpc' = [wpc EXCEPT ![w] = next]
    /\ UNCHANGED <<isElectedNode, queueVars, wkey, healthVars>>

(* DiscoverInstance: ReadTopologyInstanceBufferable returns, with an       *)
(* instance or nil; either way a metric is appended and the call returns.  *)
DiscoverProbeDone(w) ==
    /\ wpc[w] = "probe"
    /\ wpc' = [wpc EXCEPT ![w] = "release"]
    /\ UNCHANGED <<isElectedNode, queueVars, wkey, recent, healthVars>>

(* Worker: discoveryQueue.Release(instanceKey) after DiscoverInstance.     *)
WorkerRelease(w) ==
    /\ wpc[w] = "release"
    /\ consumedKeys' = consumedKeys \ {wkey[w]}
    /\ wpc' = [wpc EXCEPT ![w] = "consume"]
    /\ UNCHANGED <<isElectedNode, queue, queuedKeys, wkey, recent, healthVars>>

(* The cache's entry for k expires, InstancePollSeconds after its Add.     *)
CacheExpire(k) ==
    /\ k \in recent
    /\ recent' = recent \ {k}
    /\ UNCHANGED <<isElectedNode, queueVars, wpc, wkey, healthVars>>

-----------------------------------------------------------------------------
(* The health ticker fires: a goroutine runs onHealthTick, which first     *)
(* reads wasAlreadyElected := IsLeader().                                  *)
HealthFire(t) ==
    /\ hpc[t] = "idle"
    /\ wasElected' = [wasElected EXCEPT ![t] = IsLeader]
    /\ hpc' = [hpc EXCEPT ![t] = "elect"]
    /\ UNCHANGED <<isElectedNode, queueVars, workerVars, toPush, snapshot,
                   onboarded>>

(* Mutant of HealthElect: atomic.AddInt64 in place of atomic.StoreInt64   *)
(* when the election is won.                                               *)
HealthElectAdd(t) ==
    /\ hpc[t] = "elect"
    /\ \E won \in BOOLEAN :
          /\ isElectedNode' = IF won THEN isElectedNode + 1 ELSE 0
          /\ onboarded' = IF won /\ isElectedNode = 0 THEN FALSE ELSE onboarded
    /\ hpc' = [hpc EXCEPT ![t] = "gate"]
    /\ UNCHANGED <<queueVars, workerVars, wasElected, toPush, snapshot>>

(* process.AttemptElection: the outcome (an error counts as not elected)   *)
(* is stored in isElectedNode.                                             *)
HealthElect(t) ==
    /\ hpc[t] = "elect"
    /\ \E won \in BOOLEAN :
          /\ isElectedNode' = IF won THEN 1 ELSE 0
          /\ onboarded' = IF won /\ isElectedNode = 0 THEN FALSE ELSE onboarded
    /\ hpc' = [hpc EXCEPT ![t] = "gate"]
    /\ UNCHANGED <<queueVars, workerVars, wasElected, toPush, snapshot>>

(* onHealthTick after the election: return unless IsLeaderOrActive; else   *)
(* read the outdated keys, spawn the just-became-leader tasks unless it    *)
(* was already elected, and drain the snapshot channel into the keys.      *)
HealthGate(t) ==
    /\ hpc[t] = "gate"
    /\ \/ /\ ~IsLeaderOrActive
          /\ hpc' = [hpc EXCEPT ![t] = "idle"]
          /\ UNCHANGED <<toPush, snapshot, onboarded>>
       \/ /\ IsLeaderOrActive
          /\ \E outdated \in SUBSET Keys :
                toPush' = [toPush EXCEPT ![t] =
                             outdated \cup {snapshot[i] : i \in 1..Len(snapshot)}]
          /\ snapshot' = <<>>
          /\ onboarded' = (onboarded \/ ~wasElected[t])
          /\ hpc' = [hpc EXCEPT ![t] = "push"]
    /\ UNCHANGED <<isElectedNode, queueVars, workerVars, wasElected>>

(* onHealthTick: discoveryQueue.Push of one of the remaining keys.         *)
HealthPush(t) ==
    /\ hpc[t] = "push"
    /\ \E k \in toPush[t] :
          /\ Push(k)
          /\ toPush' = [toPush EXCEPT ![t] = @ \ {k}]
    /\ UNCHANGED <<isElectedNode, workerVars, hpc, wasElected, snapshot,
                   onboarded>>

(* onHealthTick returns once every key was pushed.                         *)
HealthDone(t) ==
    /\ hpc[t] = "push"
    /\ toPush[t] = {}
    /\ hpc' = [hpc EXCEPT ![t] = "idle"]
    /\ UNCHANGED <<isElectedNode, queueVars, workerVars, wasElected, toPush,
                   snapshot, onboarded>>

(* An out-of-band caller asks for an immediate discovery of k by sending   *)
(* it on snapshotDiscoveryKeys; the send blocks while the channel is full. *)
RequestSnapshotDiscovery(k) ==
    /\ Len(snapshot) < SnapshotCapacity
    /\ snapshot' = Append(snapshot, k)
    /\ UNCHANGED <<isElectedNode, queueVars, workerVars, hpc, wasElected,
                   toPush, onboarded>>

-----------------------------------------------------------------------------
Worker(w) ==
    \/ WorkerConsume(w)
    \/ WorkerSkipDemoted(w)
    \/ WorkerDiscover(w)
    \/ DiscoverSkip(w)
    \/ DiscoverThrottled(w)
    \/ DiscoverCacheAdd(w)
    \/ DiscoverProbeDone(w)
    \/ WorkerRelease(w)

HealthTick(t) ==
    \/ HealthFire(t)
    \/ HealthElect(t)
    \/ HealthGate(t)
    \/ HealthPush(t)
    \/ HealthDone(t)

Next ==
    \/ \E w \in Workers : Worker(w)
    \/ \E t \in HealthTicks : HealthTick(t)
    \/ \E k \in Keys : CacheExpire(k)
    \/ \E k \in Keys : RequestSnapshotDiscovery(k)

(* Workers are goroutines scheduled by the Go runtime; a worker blocks     *)
(* only in Consume, and a probe returns (the probe collaborator has its    *)
(* own timeouts).  Nothing is assumed of the timers or of the callers.     *)
Fairness == \A w \in Workers : WF_vars(Worker(w))

Spec == Init /\ [][Next]_vars
FairSpec == Spec /\ Fairness

-----------------------------------------------------------------------------
(* Type invariant.                                                         *)
TypeOK ==
    /\ isElectedNode \in {0, 1}
    /\ queue \in Seq(Keys)
    /\ Len(queue) <= QueueCapacity
    /\ queuedKeys \subseteq Keys
    /\ consumedKeys \subseteq Keys
    /\ wpc \in [Workers -> WorkerStates]
    /\ wkey \in [Workers -> Keys]
    /\ recent \subseteq Keys
    /\ hpc \in [HealthTicks -> HealthStates]
    /\ wasElected \in [HealthTicks -> BOOLEAN]
    /\ toPush \in [HealthTicks -> SUBSET Keys]
    /\ snapshot \in Seq(Keys)
    /\ Len(snapshot) <= SnapshotCapacity
    /\ onboarded \in BOOLEAN

(* Dedup of the discovery queue together with the worker pool: a key is   *)
(* outstanding at most once -- it is in the channel at most once, never    *)
(* both in the channel and held by a worker, and never held by two         *)
(* workers, so no two goroutines run DiscoverInstance on the same key.     *)
(* It rests on Push checking the consumed keys and on each worker calling  *)
(* Release only after DiscoverInstance returned.                           *)
OutstandingAtMostOnce ==
    /\ \A i, j \in 1..Len(queue) : i # j => queue[i] # queue[j]
    /\ \A w \in Workers : Holds(w) => \A i \in 1..Len(queue) : queue[i] # wkey[w]
    /\ \A v, w \in Workers : v # w /\ Holds(v) /\ Holds(w) => wkey[v] # wkey[w]

(* Every key that is pushed is eventually consumed and released, so it can *)
(* be pushed again: no path of the worker loop (the demoted skip          *)
(* included) leaves a key queued or in flight for ever.                    *)
QueueDrains ==
    \A k \in Keys : k \in queuedKeys ~> k \notin queuedKeys \cup consumedKeys

(* Leadership gating (spec 8): no worker probes an instance while the      *)
(* node is not elected.  The worker checks IsLeaderOrActive only before    *)
(* calling DiscoverInstance, which does not check it again.                *)
NoProbeWhileDemoted ==
    \A w \in Workers : wpc[w] = "probe" => IsLeaderOrActive

(* Just-became-leader tasks (spec 4.5 (2)): whenever the node is elected   *)
(* and no onHealthTick is running, RegisterNode and ExpireMaintenance were *)
(* spawned since the node last went from not elected to elected.           *)
OnboardedWhenElected ==
    (IsLeader /\ \A t \in HealthTicks : hpc[t] = "idle") => onboarded

=============================================================================
