------------------------------ MODULE Recovery ------------------------------
(***************************************************************************)
(* The recovery tick of ContinuousDiscovery (orchestrator.go, carried in   *)
(* src/go/vt/vttablet/endtoend/call_test.go): each firing of recoveryTick  *)
(* spawns a goroutine that checks IsLeaderOrActive and spawns the          *)
(* non-reentrant recovery goroutine, guarded by a CompareAndSwap on        *)
(* recoveryEntrance and by the wall-clock wait checkAndRecoverWaitPeriod   *)
(* measured from continuousDiscoveryStartTime.  The election is the        *)
(* environment here: any onHealthTick may store a new isElectedNode.       *)
(***************************************************************************)
EXTENDS Naturals

CONSTANTS
    RecoveryTicks,     \* recovery goroutines that may be alive at once
    WaitPeriod,        \* checkAndRecoverWaitPeriod, in clock ticks
    MaxTime            \* bound of the clock

ASSUME RecoveryAssumption ==
    /\ RecoveryTicks # {}
    /\ WaitPeriod \in Nat
    /\ MaxTime \in Nat
    /\ WaitPeriod <= MaxTime

VARIABLES
    now,               \* time since continuousDiscoveryStartTime
    isElectedNode,     \* the flag stored by onHealthTick
    recoveryEntrance,  \* the int64 CompareAndSwap'ed by the recovery goroutine
    rpc                \* program counter of each recovery-tick goroutine

vars == <<now, isElectedNode, recoveryEntrance, rpc>>

RecoveryStates == {"idle", "leader", "cas", "ripe", "recover"}

IsLeaderOrActive == isElectedNode = 1

(* runCheckAndRecoverOperationsTimeRipe                                    *)
TimeRipe == now >= WaitPeriod

(* The goroutine is inside the non-reentrant section.                      *)
InSection(r) == rpc[r] \in {"ripe", "recover"}

-----------------------------------------------------------------------------
Init ==
    /\ now = 0
    /\ isElectedNode = 0
    /\ recoveryEntrance = 0
    /\ rpc = [r \in RecoveryTicks |-> "idle"]

(* Time passes.                                                            *)
Tick ==
    /\ now < MaxTime
    /\ now' = now + 1
    /\ UNCHANGED <<isElectedNode, recoveryEntrance, rpc>>

(* An onHealthTick stores the outcome of process.AttemptElection.          *)
Elect ==
    /\ \E won \in {0, 1} : isElectedNode' = won
    /\ UNCHANGED <<now, recoveryEntrance, rpc>>

(* recoveryTick fires: the main loop spawns the tick's goroutine.          *)
RecoveryFire(r) ==
    /\ rpc[r] = "idle"
    /\ rpc' = [rpc EXCEPT ![r] = "leader"]
    /\ UNCHANGED <<now, isElectedNode, recoveryEntrance>>

(* The tick's goroutine: unless IsLeaderOrActive it does nothing; else it  *)
(* spawns the clean-up goroutines and the recovery goroutine.              *)
RecoveryGateLeader(r) ==
    /\ rpc[r] = "leader"
    /\ \/ IsLeaderOrActive /\ rpc' = [rpc EXCEPT ![r] = "cas"]
       \/ ~IsLeaderOrActive /\ rpc' = [rpc EXCEPT ![r] = "idle"]
    /\ UNCHANGED <<now, isElectedNode, recoveryEntrance>>

(* Mutant of RecoveryCAS: AddInt64(&recoveryEntrance, 1) in place of the   *)
(* CompareAndSwap, entering when the old value was 0.                      *)
RecoveryCASIncrement(r) ==
    /\ rpc[r] = "cas"
    /\ recoveryEntrance' = recoveryEntrance + 1
    /\ rpc' = [rpc EXCEPT ![r] = IF recoveryEntrance = 0 THEN "ripe" ELSE "idle"]
    /\ UNCHANGED <<now, isElectedNode>>

(* Mutant of RecoveryCAS: a failed CompareAndSwap does not return.         *)
RecoveryCASNoReturn(r) ==
    /\ rpc[r] = "cas"
    /\ recoveryEntrance' = 1
    /\ rpc' = [rpc EXCEPT ![r] = "ripe"]
    /\ UNCHANGED <<now, isElectedNode>>

(* The recovery goroutine: CompareAndSwapInt64(&recoveryEntrance, 0, 1);   *)
(* on failure it returns at once, another pass is running.                 *)
RecoveryCAS(r) ==
    /\ rpc[r] = "cas"
    /\ \/ /\ recoveryEntrance = 0
          /\ recoveryEntrance' = 1
          /\ rpc' = [rpc EXCEPT ![r] = "ripe"]
       \/ /\ recoveryEntrance # 0
          /\ rpc' = [rpc EXCEPT ![r] = "idle"]
          /\ UNCHANGED recoveryEntrance
    /\ UNCHANGED <<now, isElectedNode>>

(* Mutant of RecoveryCheckRipe: the release is not deferred, it follows    *)
(* CheckAndRecover only, so an early return leaves the guard taken.        *)
RecoveryCheckRipeNoRelease(r) ==
    /\ rpc[r] = "ripe"
    /\ rpc' = [rpc EXCEPT ![r] = IF TimeRipe THEN "recover" ELSE "idle"]
    /\ UNCHANGED <<now, isElectedNode, recoveryEntrance>>

(* The recovery goroutine: CheckAndRecover runs if the wait period has     *)
(* passed; otherwise the goroutine returns and the deferred store resets   *)
(* recoveryEntrance to 0.                                                  *)
RecoveryCheckRipe(r) ==
    /\ rpc[r] = "ripe"
    /\ \/ /\ TimeRipe
          /\ rpc' = [rpc EXCEPT ![r] = "recover"]
          /\ UNCHANGED recoveryEntrance
       \/ /\ ~TimeRipe
          /\ rpc' = [rpc EXCEPT ![r] = "idle"]
          /\ recoveryEntrance' = 0
    /\ UNCHANGED <<now, isElectedNode>>

(* Mutant of RecoveryDone: the path through CheckAndRecover returns        *)
(* without resetting recoveryEntrance (the reset done on the early-return  *)
(* path only).                                                              *)
RecoveryDoneNoReset(r) ==
    /\ rpc[r] = "recover"
    /\ rpc' = [rpc EXCEPT ![r] = "idle"]
    /\ UNCHANGED <<now, isElectedNode, recoveryEntrance>>

(* CheckAndRecover returns (or panics); the deferred store resets          *)
(* recoveryEntrance to 0.                                                  *)
RecoveryDone(r) ==
    /\ rpc[r] = "recover"
    /\ rpc' = [rpc EXCEPT ![r] = "idle"]
    /\ recoveryEntrance' = 0
    /\ UNCHANGED <<now, isElectedNode>>

-----------------------------------------------------------------------------
RecoveryTick(r) ==
    \/ RecoveryFire(r)
    \/ RecoveryGateLeader(r)
    \/ RecoveryCAS(r)
    \/ RecoveryCheckRipe(r)
    \/ RecoveryDone(r)

Next ==
    \/ Tick
    \/ Elect
    \/ \E r \in RecoveryTicks : RecoveryTick(r)

(* The clock advances and recoveryTick keeps firing (time.Tick); the       *)
(* goroutines it spawns are scheduled by the Go runtime.  The election is  *)
(* not assumed fair.                                                       *)
Fairness ==
    /\ WF_vars(Tick)
    /\ \A r \in RecoveryTicks : WF_vars(RecoveryTick(r))

Spec == Init /\ [][Next]_vars
FairSpec == Spec /\ Fairness

-----------------------------------------------------------------------------
(* Type invariant.                                                         *)
TypeOK ==
    /\ now \in 0..MaxTime
    /\ isElectedNode \in {0, 1}
    /\ recoveryEntrance \in {0, 1}
    /\ rpc \in [RecoveryTicks -> RecoveryStates]

(* Recovery mutual exclusion (spec 4.6): at most one goroutine is inside   *)
(* the non-reentrant section, so no two CheckAndRecover passes overlap,    *)
(* however many recovery ticks overlap.                                    *)
RecoveryMutualExclusion ==
    \A r, s \in RecoveryTicks : r # s /\ InSection(r) => ~InSection(s)

(* The guard is never left taken: as long as the node stays elected from  *)
(* some point on, CheckAndRecover keeps being run -- a pass that returned  *)
(* early, before the wait period, released recoveryEntrance.               *)
RecoveryKeepsRunning ==
    (<>[]IsLeaderOrActive) => []<>(\E r \in RecoveryTicks : rpc[r] = "recover")

(* Leadership gating (spec 8): a CheckAndRecover pass never starts while   *)
(* the node is not elected.  The leadership check is made by the tick's    *)
(* goroutine before the recovery goroutine is spawned, and not again.      *)
NoRecoveryStartWhileDemoted ==
    [][\A r \in RecoveryTicks :
         (rpc[r] # "recover" /\ rpc'[r] = "recover") => IsLeaderOrActive]_vars

-----------------------------------------------------------------------------
(* Refinement of the abstract non-reentrant section.  The flag is          *)
(* recoveryEntrance; the owner is the goroutine between a successful       *)
(* CompareAndSwap and the deferred reset; a pass runs while it is in       *)
(* CheckAndRecover.                                                        *)
SectionOwner == {r \in RecoveryTicks : InSection(r)}

PassRunning == \E r \in RecoveryTicks : rpc[r] = "recover"

Guard == INSTANCE NonReentrantSection
            WITH Procs <- RecoveryTicks, taken <- recoveryEntrance # 0,
                 owner <- SectionOwner,
                 running <- PassRunning

(* The CompareAndSwap on recoveryEntrance and its deferred reset implement *)
(* the abstract non-reentrant section: a goroutine enters only when no     *)
(* other is inside, CheckAndRecover starts only in the goroutine inside    *)
(* and only once per entry, and the deferred reset of recoveryEntrance    *)
(* runs on either exit (too early, or after CheckAndRecover), so the flag  *)
(* is clear exactly when no goroutine is inside.  Every other step, the    *)
(* failed CompareAndSwap included, is a stutter.                           *)
GuardRefined == Guard!SecSpec

=============================================================================
