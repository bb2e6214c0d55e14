--------------------------- MODULE RecoveryProofs ---------------------------
(***************************************************************************)
(* Proofs about the recovery guard: type correctness and mutual exclusion  *)
(* of CheckAndRecover passes, for any number of overlapping recovery ticks *)
(* and any wait period.                                                    *)
(***************************************************************************)
EXTENDS Recovery, TLAPS

USE RecoveryAssumption

(* The guard is taken exactly when some goroutine is in the section, and  *)
(* then by one goroutine only.                                             *)
GuardHeld ==
    \A r \in RecoveryTicks : InSection(r) => recoveryEntrance = 1

IInv ==
    /\ TypeOK
    /\ GuardHeld
    /\ RecoveryMutualExclusion

(* The initial states satisfy IInv.                                        *)
LEMMA IInvInit == Init => IInv
BY DEF Init, IInv, TypeOK, RecoveryStates, GuardHeld, RecoveryMutualExclusion,
       InSection

(* Every step preserves IInv.                                              *)
LEMMA IInvStep == IInv /\ [Next]_vars => IInv'
<1> SUFFICES ASSUME IInv, [Next]_vars PROVE IInv'
  OBVIOUS
<1> USE DEF IInv, TypeOK, RecoveryStates, GuardHeld, RecoveryMutualExclusion,
            InSection
<1>1. CASE Tick
  BY <1>1 DEF Tick
<1>2. CASE Elect
  BY <1>2 DEF Elect
<1>3. ASSUME NEW r \in RecoveryTicks, RecoveryFire(r) PROVE IInv'
  BY <1>3 DEF RecoveryFire
<1>4. ASSUME NEW r \in RecoveryTicks, RecoveryGateLeader(r) PROVE IInv'
  BY <1>4 DEF RecoveryGateLeader
<1>5. ASSUME NEW r \in RecoveryTicks, RecoveryCAS(r) PROVE IInv'
  <2>1. CASE recoveryEntrance = 0
    <3>1. \A s \in RecoveryTicks : ~InSection(s)
      BY <2>1
    <3>2. QED
      BY <1>5, <2>1, <3>1 DEF RecoveryCAS
  <2>4. CASE recoveryEntrance # 0
    BY <1>5, <2>4 DEF RecoveryCAS
  <2>5. QED
    BY <2>1, <2>4
<1>6. ASSUME NEW r \in RecoveryTicks, RecoveryCheckRipe(r) PROVE IInv'
  BY <1>6 DEF RecoveryCheckRipe
<1>7. ASSUME NEW r \in RecoveryTicks, RecoveryDone(r) PROVE IInv'
  BY <1>7 DEF RecoveryDone
<1>8. CASE UNCHANGED vars
  BY <1>8 DEF vars
<1>9. QED
  BY <1>1, <1>2, <1>3, <1>4, <1>5, <1>6, <1>7, <1>8 DEF Next, RecoveryTick

(* Recovery mutual exclusion: no two CheckAndRecover passes (nor their     *)
(* wait-period checks) ever run at the same time, for every number of      *)
(* recovery goroutines.                                                    *)
THEOREM MutualExclusion == Spec => []RecoveryMutualExclusion
<1>1. IInv => RecoveryMutualExclusion
  BY DEF IInv
<1>2. QED
  BY <1>1, IInvInit, IInvStep, PTL DEF Spec

(* The recovery guard is well typed.                                       *)
THEOREM RecoveryTypeCorrect == Spec => []TypeOK
<1>1. IInv => TypeOK
  BY DEF IInv
<1>2. QED
  BY <1>1, IInvInit, IInvStep, PTL DEF Spec

-----------------------------------------------------------------------------
(* Refinement of the abstract non-reentrant section.                       *)

(* While a goroutine is inside the section it is the section's only owner, *)
(* and a pass runs only if it is that goroutine's.                         *)
LEMMA OwnerIsSection ==
    ASSUME IInv, NEW r \in RecoveryTicks, InSection(r)
    PROVE  /\ SectionOwner = {r}
           /\ PassRunning <=> rpc[r] = "recover"
BY DEF IInv, RecoveryMutualExclusion, SectionOwner, PassRunning, InSection

(* Every step of the recovery ticks is a step of the abstract section or   *)
(* leaves its flag, its owner and its pass alone.                          *)
LEMMA GuardStep == IInv /\ [Next]_vars => [Guard!SecNext]_Guard!secVars
<1> SUFFICES ASSUME IInv, [Next]_vars PROVE [Guard!SecNext]_Guard!secVars
  OBVIOUS
<1>0. rpc \in [RecoveryTicks -> RecoveryStates]
  BY DEF IInv, TypeOK
(* A step that keeps recoveryEntrance and moves no goroutine into, out of *)
(* or inside the section.                                                  *)
<1>1. ASSUME recoveryEntrance' = recoveryEntrance,
             \A s \in RecoveryTicks :
               /\ InSection(s)' = InSection(s)
               /\ (rpc'[s] = "recover") = (rpc[s] = "recover")
      PROVE  [Guard!SecNext]_Guard!secVars
  <2>1. SectionOwner' = SectionOwner
    BY <1>1 DEF SectionOwner
  <2>2. PassRunning' = PassRunning
    BY <1>1 DEF PassRunning
  <2>. QED  BY <1>1, <2>1, <2>2 DEF Guard!secVars
<1>2. CASE Tick \/ Elect \/ UNCHANGED vars
  <2>1. rpc' = rpc /\ recoveryEntrance' = recoveryEntrance
    BY <1>2 DEF Tick, Elect, vars
  <2>2. \A s \in RecoveryTicks :
          /\ InSection(s)' = InSection(s)
          /\ (rpc'[s] = "recover") = (rpc[s] = "recover")
    BY <2>1 DEF InSection
  <2>. QED  BY <1>1, <2>1, <2>2
<1>3. ASSUME NEW r \in RecoveryTicks, RecoveryFire(r) \/ RecoveryGateLeader(r)
      PROVE  [Guard!SecNext]_Guard!secVars
  <2>1. /\ rpc[r] \in {"idle", "leader"}
        /\ rpc'[r] \in {"idle", "leader", "cas"}
        /\ recoveryEntrance' = recoveryEntrance
        /\ \A s \in RecoveryTicks \ {r} : rpc'[s] = rpc[s]
    BY <1>0, <1>3 DEF RecoveryFire, RecoveryGateLeader
  <2>2. \A s \in RecoveryTicks :
          /\ InSection(s)' = InSection(s)
          /\ (rpc'[s] = "recover") = (rpc[s] = "recover")
    BY <2>1 DEF InSection
  <2>3. recoveryEntrance' = recoveryEntrance
    BY <2>1
  <2>. QED  BY <1>1, <2>2, <2>3
<1>4. ASSUME NEW r \in RecoveryTicks, RecoveryCAS(r)
      PROVE  [Guard!SecNext]_Guard!secVars
  <2>1. CASE recoveryEntrance = 0
    <3>1. \A s \in RecoveryTicks : ~InSection(s)
      BY <2>1 DEF IInv, GuardHeld
    <3>2. rpc' = [rpc EXCEPT ![r] = "ripe"] /\ recoveryEntrance' = 1
      BY <1>4, <2>1 DEF RecoveryCAS
    <3>3. SectionOwner = {} /\ SectionOwner' = {r} /\ PassRunning' = PassRunning
      BY <1>0, <3>1, <3>2 DEF SectionOwner, PassRunning, InSection
    <3>4. Guard!Enter(r)
      BY <2>1, <3>2, <3>3 DEF Guard!Enter
    <3>. QED  BY <3>4 DEF Guard!SecNext
  <2>2. CASE recoveryEntrance # 0
    <3>1. rpc' = [rpc EXCEPT ![r] = "idle"] /\ rpc[r] = "cas"
          /\ recoveryEntrance' = recoveryEntrance
      BY <1>4, <2>2 DEF RecoveryCAS
    <3>2. \A s \in RecoveryTicks :
            /\ InSection(s)' = InSection(s)
            /\ (rpc'[s] = "recover") = (rpc[s] = "recover")
      BY <1>0, <3>1 DEF InSection
    <3>. QED  BY <1>1, <3>1, <3>2
  <2>. QED  BY <2>1, <2>2
<1>5. ASSUME NEW r \in RecoveryTicks, RecoveryCheckRipe(r)
      PROVE  [Guard!SecNext]_Guard!secVars
  <2>0. rpc[r] = "ripe" /\ InSection(r)
    BY <1>5 DEF RecoveryCheckRipe, InSection
  <2>1. SectionOwner = {r} /\ ~PassRunning
    BY <2>0, OwnerIsSection
  <2>2. CASE TimeRipe
    <3>1. rpc' = [rpc EXCEPT ![r] = "recover"]
          /\ recoveryEntrance' = recoveryEntrance
      BY <1>5, <2>2 DEF RecoveryCheckRipe
    <3>2. SectionOwner' = {r} /\ PassRunning'
      BY <1>0, <2>1, <3>1 DEF SectionOwner, PassRunning, InSection
    <3>3. Guard!RunPass(r)
      BY <2>1, <3>1, <3>2 DEF Guard!RunPass
    <3>. QED  BY <3>3 DEF Guard!SecNext
  <2>3. CASE ~TimeRipe
    <3>1. rpc' = [rpc EXCEPT ![r] = "idle"] /\ recoveryEntrance' = 0
      BY <1>5, <2>3 DEF RecoveryCheckRipe
    <3>2. SectionOwner' = {} /\ ~PassRunning'
      BY <1>0, <2>1, <3>1 DEF SectionOwner, PassRunning, InSection
    <3>3. Guard!Leave(r)
      BY <2>1, <3>1, <3>2 DEF Guard!Leave
    <3>. QED  BY <3>3 DEF Guard!SecNext
  <2>. QED  BY <2>2, <2>3
<1>6. ASSUME NEW r \in RecoveryTicks, RecoveryDone(r)
      PROVE  [Guard!SecNext]_Guard!secVars
  <2>1. rpc[r] = "recover" /\ InSection(r) /\ rpc' = [rpc EXCEPT ![r] = "idle"]
        /\ recoveryEntrance' = 0
    BY <1>6 DEF RecoveryDone, InSection
  <2>2. SectionOwner = {r}
    BY <2>1, OwnerIsSection
  <2>3. SectionOwner' = {} /\ ~PassRunning'
    BY <1>0, <2>1, <2>2 DEF SectionOwner, PassRunning, InSection
  <2>4. Guard!Leave(r)
    BY <2>1, <2>2, <2>3 DEF Guard!Leave
  <2>. QED  BY <2>4 DEF Guard!SecNext
<1>7. QED
  BY <1>2, <1>3, <1>4, <1>5, <1>6 DEF Next, RecoveryTick

(* The initial state is an initial state of the abstract section: no       *)
(* goroutine has been spawned and recoveryEntrance is 0.                   *)
LEMMA GuardInit == Init => Guard!SecInit
BY DEF Init, Guard!SecInit, SectionOwner, PassRunning, InSection

(* The CompareAndSwap guard of the recovery goroutine implements the       *)
(* abstract non-reentrant section (GuardRefined), for every number of      *)
(* overlapping recovery ticks and every wait period: recoveryEntrance is   *)
(* the section's flag, set only by the goroutine that enters, and cleared  *)
(* by the deferred reset on both exits of the section.                     *)
THEOREM GuardCorrect == Spec => GuardRefined
<1>1. IInv /\ [Next]_vars => IInv' /\ [Guard!SecNext]_Guard!secVars
  BY IInvStep, GuardStep
<1>2. QED
  BY <1>1, IInvInit, GuardInit, PTL DEF Spec, GuardRefined, Guard!SecSpec

=============================================================================
