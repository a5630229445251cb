--------------------------- MODULE DelegationIndexer ---------------------------
(***************************************************************************)
(* The life of the indexer as far as BTC delegations are concerned: the    *)
(* two chains, the store, and the goroutines of one process after another  *)
(* (internal/services/service.go, subscription.go).  The process may be    *)
(* killed at any time and exits when the event processor gives up; it is   *)
(* then started again, on the same store.                                  *)
(***************************************************************************)
EXTENDS EventProcessor, ExpiryChecker

CONSTANTS
    MaxCrashes,     \* bound: how often the process is killed
    MaxFaults       \* bound: how many database, queue or RPC calls fail

ASSUME FaultsAssumption == MaxCrashes \in Nat /\ MaxFaults \in Nat

VARIABLES
    resubscribed,   \* whether this process has looked for missed notifications
    missed,         \* delegations whose notification it has still to register
    crashes,        \* how often the process was killed
    faults          \* how many calls failed

serviceVars == <<resubscribed, missed, crashes, faults>>
vars == <<chainVars, storeVars, watcher, procVars, checkerVars, serviceVars>>

TypeOK ==
    /\ ChainsTypeOK
    /\ StoreTypeOK
    /\ WatcherTypeOK
    /\ ProcessorTypeOK
    /\ CheckerTypeOK
    /\ resubscribed \in BOOLEAN
    /\ missed \subseteq Delegations
    /\ crashes \in 0 .. MaxCrashes
    /\ faults \in 0 .. MaxFaults

Init ==
    /\ ChainsInit
    /\ StoreInit
    /\ WatcherInit
    /\ ProcessorInit
    /\ CheckerInit
    /\ resubscribed = FALSE
    /\ missed = {}
    /\ crashes = 0
    /\ faults = 0

--------------------------------------------------------------------------------
(***************************************************************************)
(* ResubscribeToMissedBtcNotifications: a goroutine started before the     *)
(* event processor and running beside it.                                  *)
(***************************************************************************)

\* Seeded fault: unbonding delegations are not registered again.
FaultyResubscribedStates == {StateActive, StateWithdrawable, StateSlashed}

ResubscribedStates == {StateActive, StateUnbonding, StateWithdrawable, StateSlashed}

FindMissed ==
    /\ ~resubscribed
    /\ resubscribed' = TRUE
    /\ missed' = {d \in Delegations : /\ InQualifiedState(d, ResubscribedStates)
                                      /\ docs[d].inclusionProof}
    /\ UNCHANGED <<chainVars, storeVars, watcher, procVars, checkerVars, crashes, faults>>

RegisterMissed(d) ==
    /\ d \in missed
    /\ missed' = missed \ {d}
    /\ registerStakingSpendNotification(d)
    /\ UNCHANGED <<chainVars, storeVars, procVars, checkerVars,
                   resubscribed, crashes, faults>>

--------------------------------------------------------------------------------
(***************************************************************************)
(* The process ends and starts again.  The goroutines are gone, and with   *)
(* them what they had not written; the notifier keeps no hints, so it will *)
(* deliver every spend again to whoever registers.                         *)
(***************************************************************************)

\* Seeded fault: processing resumes after the block that was being processed.
FaultyResumePosition == next' = next + 1

\* Seeded fault: the block of the stored height is processed once more.
RepeatedResumePosition == next' = IF lastProcessed = 0 THEN 1 ELSE lastProcessed

ResumePosition == next' = lastProcessed + 1

StartProcess ==
    /\ watcher' = [w \in Watchers |-> "none"]
    /\ ResumePosition
    /\ step' = "validate"
    /\ attempt' = 0
    /\ checker' = "idle"
    /\ found' = <<>>
    /\ resubscribed' = FALSE
    /\ missed' = {}
    /\ UNCHANGED <<chainVars, storeVars, faults>>

Crash ==
    /\ crashes < MaxCrashes
    /\ crashes' = crashes + 1
    /\ StartProcess

\* The error of the event processor ends StartIndexerSync and main with it.
GiveUp ==
    /\ step = "failed"
    /\ StartProcess
    /\ UNCHANGED crashes

--------------------------------------------------------------------------------

CallFails ==
    /\ faults < MaxFaults
    /\ faults' = faults + 1
    /\ \/ /\ \E d \in Delegations, o \in Outputs, i \in WatcherIds : WatcherFails(d, o, i)
          /\ UNCHANGED <<procVars, checkerVars>>
       \/ ProcessorFails /\ UNCHANGED checkerVars
       \/ CheckerFails /\ UNCHANGED <<watcher, procVars>>
    /\ UNCHANGED <<chainVars, resubscribed, missed, crashes>>

ChainsStep == ChainsNext /\ UNCHANGED <<storeVars, watcher, procVars, checkerVars, serviceVars>>

WatcherAction(d, o, i) ==
    WatcherStep(d, o, i) /\ UNCHANGED <<chainVars, procVars, checkerVars, serviceVars>>

ProcessorAction == ProcessorStep /\ UNCHANGED <<chainVars, checkerVars, serviceVars>>

CheckerAction == CheckerStep /\ UNCHANGED <<chainVars, watcher, procVars, serviceVars>>

Next ==
    \/ ChainsStep
    \/ \E d \in Delegations, o \in Outputs, i \in WatcherIds : WatcherAction(d, o, i)
    \/ ProcessorAction
    \/ CheckerAction
    \/ FindMissed
    \/ \E d \in Delegations : RegisterMissed(d)
    \/ CallFails
    \/ Crash
    \/ GiveUp

Spec == Init /\ [][Next]_vars

(***************************************************************************)
(* Fairness: the Go scheduler runs every goroutine that is ready, and the  *)
(* environment restarts the process.  Bitcoin grows; nothing else that the *)
(* chains, the faults or the crashes do is due to happen.                  *)
(***************************************************************************)
Fairness ==
    /\ WF_vars(ProcessorAction)
    /\ WF_vars(CheckerAction)
    /\ WF_vars(FindMissed)
    /\ WF_vars(GiveUp)
    /\ WF_vars(MineBlock /\ UNCHANGED <<storeVars, watcher, procVars, checkerVars, serviceVars>>)
    /\ \A d \in Delegations : WF_vars(RegisterMissed(d))
    /\ \A d \in Delegations, o \in Outputs, i \in WatcherIds : WF_vars(WatcherAction(d, o, i))

FairSpec == Spec /\ Fairness

================================================================================
