------------------------------ MODULE Shutdown ------------------------------
(***************************************************************************)
(* acceptSignals (orchestrator.go, carried in                              *)
(* src/go/vt/vttablet/endtoend/call_test.go): SIGHUP and SIGTERM are       *)
(* delivered on a channel of capacity 1 that one goroutine reads.  SIGHUP  *)
(* reloads the configuration; SIGTERM sets hasReceivedSIGTERM, stops the   *)
(* discovery metrics' auto-expiration, then polls shardsLockCounter until  *)
(* it is zero or shutdownWaitTime has elapsed, and exits.                  *)
(* The Go runtime delivers a signal to the channel without blocking: when  *)
(* the channel is full the signal is dropped.  Shard locks are taken and   *)
(* released by recovery code outside src/ (modelled from the spec, 3).     *)
(***************************************************************************)
EXTENDS Naturals, Sequences

CONSTANTS
    SignalCapacity,    \* capacity of the channel c (1 in the code)
    MaxSignals,        \* bound on the signals the OS sends
    MaxLocks           \* bound on shard locks held at once

ASSUME ShutdownAssumption ==
    /\ SignalCapacity \in Nat \ {0}
    /\ MaxSignals \in Nat
    /\ MaxLocks \in Nat

VARIABLES
    sigChan,             \* the channel c
    sent,                \* signals sent by the OS so far
    termSent,            \* history: the OS has sent a SIGTERM
    spc,                 \* program counter of the signal goroutine
    hasReceivedSIGTERM,  \* the int32 flag
    autoExpire,          \* discoveryMetrics still expires entries on its own
    timedOut,            \* the time.After(*shutdownWaitTime) channel fired
    shardsLockCounter    \* shard locks currently held

vars == <<sigChan, sent, termSent, spc, hasReceivedSIGTERM, autoExpire,
          timedOut, shardsLockCounter>>

Signals == {"SIGHUP", "SIGTERM"}
SignalStates == {"recv", "reload", "drain", "exit", "exited"}

Running == spc # "exited"

-----------------------------------------------------------------------------
Init ==
    /\ sigChan = <<>>
    /\ sent = 0
    /\ termSent = FALSE
    /\ spc = "recv"
    /\ hasReceivedSIGTERM = 0
    /\ autoExpire = TRUE
    /\ timedOut = FALSE
    /\ shardsLockCounter = 0

(* The OS sends sig; the runtime's non-blocking send drops it when the     *)
(* channel is full.                                                        *)
SendSignal(sig) ==
    /\ Running
    /\ sent < MaxSignals
    /\ sent' = sent + 1
    /\ termSent' = (termSent \/ sig = "SIGTERM")
    /\ \/ Len(sigChan) < SignalCapacity /\ sigChan' = Append(sigChan, sig)
       \/ Len(sigChan) = SignalCapacity /\ UNCHANGED sigChan
    /\ UNCHANGED <<spc, hasReceivedSIGTERM, autoExpire, timedOut,
                   shardsLockCounter>>

(* The goroutine receives SIGHUP and starts config.Reload.                 *)
ReceiveSIGHUP ==
    /\ spc = "recv"
    /\ sigChan # <<>>
    /\ Head(sigChan) = "SIGHUP"
    /\ sigChan' = Tail(sigChan)
    /\ spc' = "reload"
    /\ UNCHANGED <<sent, termSent, hasReceivedSIGTERM, autoExpire, timedOut,
                   shardsLockCounter>>

(* config.Reload and SetExpirePeriod return; back to the range loop.       *)
ReloadDone ==
    /\ spc = "reload"
    /\ spc' = "recv"
    /\ UNCHANGED <<sigChan, sent, termSent, hasReceivedSIGTERM, autoExpire,
                   timedOut, shardsLockCounter>>

(* The goroutine receives SIGTERM: it stores hasReceivedSIGTERM, stops the *)
(* auto-expiration, audits, and starts the shutdownWaitTime timer.         *)
ReceiveSIGTERM ==
    /\ spc = "recv"
    /\ sigChan # <<>>
    /\ Head(sigChan) = "SIGTERM"
    /\ sigChan' = Tail(sigChan)
    /\ hasReceivedSIGTERM' = 1
    /\ autoExpire' = FALSE
    /\ spc' = "drain"
    /\ UNCHANGED <<sent, termSent, timedOut, shardsLockCounter>>

(* The shutdownWaitTime timer fires.                                       *)
TimerFires ==
    /\ spc = "drain"
    /\ ~timedOut
    /\ timedOut' = TRUE
    /\ UNCHANGED <<sigChan, sent, termSent, spc, hasReceivedSIGTERM,
                   autoExpire, shardsLockCounter>>

(* Mutant of DrainPoll: the wait has no timeout and ends only when the   *)
(* counter reaches zero.                                                   *)
DrainPollNoTimeout ==
    /\ spc = "drain"
    /\ shardsLockCounter = 0
    /\ spc' = "exit"
    /\ UNCHANGED <<sigChan, sent, termSent, hasReceivedSIGTERM, autoExpire,
                   timedOut, shardsLockCounter>>

(* Mutant of DrainPoll: the wait loop is left out and the goroutine goes   *)
(* on to os.Exit(0) right after the audit.                                 *)
DrainPollNoWait ==
    /\ spc = "drain"
    /\ spc' = "exit"
    /\ UNCHANGED <<sigChan, sent, termSent, hasReceivedSIGTERM, autoExpire,
                   timedOut, shardsLockCounter>>

(* One round of the wait loop that leaves it: LoadInt32 reads the counter  *)
(* as zero, or, the counter not being zero, the timeout channel is ready.  *)
(* A round that only sleeps 100ms changes nothing in the model.            *)
DrainPoll ==
    /\ spc = "drain"
    /\ shardsLockCounter = 0 \/ timedOut
    /\ spc' = "exit"
    /\ UNCHANGED <<sigChan, sent, termSent, hasReceivedSIGTERM, autoExpire,
                   timedOut, shardsLockCounter>>

(* After the wait loop returned: the log line and os.Exit(0).  Lock        *)
(* holders keep running until the exit, so a lock may be taken between    *)
(* the read of the counter and this step.                                  *)
ShutdownExit ==
    /\ spc = "exit"
    /\ spc' = "exited"
    /\ UNCHANGED <<sigChan, sent, termSent, hasReceivedSIGTERM, autoExpire,
                   timedOut, shardsLockCounter>>

(* Recovery code takes a shard lock (spec 3).                              *)
LockShard ==
    /\ Running
    /\ shardsLockCounter < MaxLocks
    /\ shardsLockCounter' = shardsLockCounter + 1
    /\ UNCHANGED <<sigChan, sent, termSent, spc, hasReceivedSIGTERM,
                   autoExpire, timedOut>>

(* Mutant of UnlockShard: a second unlock of the same lock decrements the  *)
(* counter again.                                                          *)
UnlockShardTwice ==
    /\ Running
    /\ shardsLockCounter' = shardsLockCounter - 1
    /\ UNCHANGED <<sigChan, sent, termSent, spc, hasReceivedSIGTERM,
                   autoExpire, timedOut>>

(* Recovery code releases a shard lock.                                    *)
UnlockShard ==
    /\ Running
    /\ shardsLockCounter > 0
    /\ shardsLockCounter' = shardsLockCounter - 1
    /\ UNCHANGED <<sigChan, sent, termSent, spc, hasReceivedSIGTERM,
                   autoExpire, timedOut>>

-----------------------------------------------------------------------------
SignalGoroutine ==
    \/ ReceiveSIGHUP
    \/ ReloadDone
    \/ ReceiveSIGTERM
    \/ DrainPoll
    \/ ShutdownExit

Next ==
    \/ \E sig \in Signals : SendSignal(sig)
    \/ SignalGoroutine
    \/ TimerFires
    \/ LockShard
    \/ UnlockShard

(* The signal goroutine is scheduled by the Go runtime and the timer of    *)
(* time.After fires; the OS and the lock holders are not assumed fair.     *)
Fairness ==
    /\ WF_vars(SignalGoroutine)
    /\ WF_vars(TimerFires)

Spec == Init /\ [][Next]_vars
FairSpec == Spec /\ Fairness

-----------------------------------------------------------------------------
(* Type invariant.                                                         *)
TypeOK ==
    /\ sigChan \in Seq(Signals)
    /\ Len(sigChan) <= SignalCapacity
    /\ sent \in 0..MaxSignals
    /\ termSent \in BOOLEAN
    /\ spc \in SignalStates
    /\ hasReceivedSIGTERM \in {0, 1}
    /\ autoExpire \in BOOLEAN
    /\ timedOut \in BOOLEAN
    /\ shardsLockCounter \in 0..MaxLocks

(* Shutdown drain (spec 3 and 4.7): the process exits with a shard lock    *)
(* still held only once shutdownWaitTime has elapsed since SIGTERM was     *)
(* handled.  The code reads the counter and exits in two steps, and lock   *)
(* holders are not stopped in between.                                     *)
DrainBeforeExit ==
    (spc = "exited" /\ shardsLockCounter > 0) => timedOut

(* A SIGTERM that reaches the goroutine ends the process, even when lock   *)
(* holders never release their shard locks.                                *)
ShutdownTerminates ==
    hasReceivedSIGTERM = 1 ~> spc = "exited"

(* Every SIGTERM the OS sends ends the process (spec 4.7).  The channel    *)
(* has room for one signal and the goroutine handles one at a time.        *)
SigtermLeadsToExit ==
    termSent ~> spc = "exited"

=============================================================================
