------------------------------ MODULE SpendWatcher ------------------------------
(***************************************************************************)
(* The goroutines that wait for the spend of an output and handle it       *)
(* (internal/services/watch_btc_events.go, delegation_helpers.go).         *)
(*                                                                         *)
(* A watcher first registers with the BTC notifier, which delivers the     *)
(* spend once, whether it happens later or happened before.  Its handler   *)
(* then runs to the end, one database or queue call at a time, beside the  *)
(* event processor, the expiry checker and the other watchers.  Nothing    *)
(* prevents two watchers of one output: the notifier delivers to both.     *)
(***************************************************************************)
EXTENDS DelegationStore

CONSTANT WatcherIds     \* bound: concurrent watchers of one output

ASSUME WatcherIdsAssumption == WatcherIds # {}

VARIABLE watcher        \* where each watcher is, or "none"

Watchers == Delegations \X Outputs \X WatcherIds

WatcherSteps ==
    {"none", "register", "waiting",
     "setUnbonding", "emitUnbonding", "saveUnbonding",
     "checkWithdrawal", "setWithdrawn",
     "emitSlashing", "setSlashed", "saveSlashing"}

WatcherTypeOK == watcher \in [Watchers -> WatcherSteps]

WatcherInit == watcher = [w \in Watchers |-> "none"]

\* The watchers after a new one is started for an output.  When WatcherIds
\* are exhausted the new goroutine is not modelled.
Started(watchers, d, output) ==
    LET free == {i \in WatcherIds : watchers[<<d, output, i>>] = "none"}
    IN  IF free = {} THEN {watchers}
        ELSE {[watchers EXCEPT ![<<d, output, i>>] = "register"] : i \in free}

registerStakingSpendNotification(d) == watcher' \in Started(watcher, d, "staking")

Goto(w, step) == watcher' = [watcher EXCEPT ![w] = step]

\* Seeded fault: the slashing of an unbonding output is not told apart.
FaultySubStateOfSlashing(output) == SubStateTimelockSlashing

SubStateOfSlashing(output) ==
    IF output = "staking" THEN SubStateTimelockSlashing ELSE SubStateEarlyUnbondingSlashing

\* Seeded fault: a change output is withdrawn with the sub-state of its spend.
FaultySubStateOfWithdrawal(d, output) ==
    IF output = "unbonding" THEN SubStateEarlyUnbonding ELSE SubStateTimelock

SubStateOfWithdrawal(d, output) ==
    CASE output = "staking"   -> SubStateTimelock
      [] output = "unbonding" -> SubStateEarlyUnbonding
      [] output = "change"    -> SubStateOfSlashing(SlashedOutput(d))

--------------------------------------------------------------------------------
(***************************************************************************)
(* The steps of watcher w of an output of delegation d.                    *)
(***************************************************************************)

RegisterSpend(d, output, i) ==
    /\ watcher[<<d, output, i>>] = "register"
    /\ Goto(<<d, output, i>>, "waiting")
    /\ UNCHANGED storeVars

\* The spending transaction is classified by the script that it unlocks, and as
\* an unbonding only if it is a transfer: one input and one output.
isSpendingUnbondingPath(path) == path \in {"unbonding", "unexpected"}
isSpendingTimeLockPath(path) == path = "timelock"
isSpendingSlashingPath(path) == path = "slashing"

\* An unbonding transaction is the registered one or an unexpected one.
validateUnbondingTxOutput(d) == SpendPath(d, "staking") = "unbonding"

\* Where handling starts.  An expansion leaves nothing to do; a transaction that
\* is none of these is an error, after which the goroutine has ended as well.
FirstStep(output, path) ==
    CASE isSpendingUnbondingPath(path)                       -> "setUnbonding"
      [] isSpendingTimeLockPath(path)                        -> "checkWithdrawal"
      [] isSpendingSlashingPath(path) /\ output = "staking"  -> "emitSlashing"
      [] isSpendingSlashingPath(path) /\ output # "staking"  -> "setSlashed"
      [] OTHER                                               -> "none"

ReceiveSpend(d, output, i) ==
    /\ watcher[<<d, output, i>>] = "waiting"
    /\ SpendPath(d, output) # "unspent"
    /\ Goto(<<d, output, i>>, FirstStep(output, SpendPath(d, output)))
    /\ UNCHANGED storeVars

\* The state is set before the transaction is compared with the registered
\* one, and a delegation in another state does not end the handler.
SetUnbonding(d, output, i) ==
    /\ watcher[<<d, output, i>>] = "setUnbonding"
    /\ UpdateBTCDelegationState(d, QualifiedStatesForUnbondedEarly, StateUnbonding,
                                SubStateEarlyUnbonding, FALSE)
    /\ Goto(<<d, output, i>>,
            IF validateUnbondingTxOutput(d) THEN "emitUnbonding" ELSE "none")
    /\ UNCHANGED <<timelocks, lastProcessed, pushed>>

EmitUnbonding(d, output, i) ==
    /\ watcher[<<d, output, i>>] = "emitUnbonding"
    /\ emitUnbondingDelegationEvent(d)
    /\ Goto(<<d, output, i>>, "saveUnbonding")
    /\ UNCHANGED <<docs, timelocks, lastProcessed>>

SaveUnbonding(d, output, i) ==
    /\ watcher[<<d, output, i>>] = "saveUnbonding"
    /\ SaveNewTimeLockExpire(d, SpendHeight(d, output) + UnbondingTime,
                             SubStateEarlyUnbonding)
    /\ watcher' \in Started([watcher EXCEPT ![<<d, output, i>>] = "none"], d, "unbonding")
    /\ UNCHANGED <<docs, lastProcessed, pushed>>

CheckWithdrawal(d, output, i) ==
    /\ watcher[<<d, output, i>>] = "checkWithdrawal"
    /\ Goto(<<d, output, i>>,
            IF InQualifiedState(d, QualifiedStatesForWithdrawn) THEN "setWithdrawn" ELSE "none")
    /\ UNCHANGED storeVars

SetWithdrawn(d, output, i) ==
    /\ watcher[<<d, output, i>>] = "setWithdrawn"
    /\ UpdateBTCDelegationState(d, QualifiedStatesForWithdrawn, StateWithdrawn,
                                SubStateOfWithdrawal(d, output), FALSE)
    /\ Goto(<<d, output, i>>, "none")
    /\ UNCHANGED <<timelocks, lastProcessed, pushed>>

\* Only the slashing of a staking output is announced to the consumers.
EmitSlashing(d, output, i) ==
    /\ watcher[<<d, output, i>>] = "emitSlashing"
    /\ emitUnbondingDelegationEvent(d)
    /\ Goto(<<d, output, i>>, "setSlashed")
    /\ UNCHANGED <<docs, timelocks, lastProcessed>>

\* Here a delegation in another state does end the handler.
SetSlashed(d, output, i) ==
    /\ watcher[<<d, output, i>>] = "setSlashed"
    /\ UpdateBTCDelegationState(d, QualifiedStatesForSlashed, StateSlashed,
                                SubStateOfSlashing(output), FALSE)
    /\ Goto(<<d, output, i>>,
            IF InQualifiedState(d, QualifiedStatesForSlashed) THEN "saveSlashing" ELSE "none")
    /\ UNCHANGED <<timelocks, lastProcessed, pushed>>

\* startWatchingSlashingChange
SaveSlashing(d, output, i) ==
    /\ watcher[<<d, output, i>>] = "saveSlashing"
    /\ SaveNewTimeLockExpire(d, SpendHeight(d, output) + UnbondingTime,
                             SubStateOfSlashing(output))
    /\ watcher' \in Started([watcher EXCEPT ![<<d, output, i>>] = "none"], d, "change")
    /\ UNCHANGED <<docs, lastProcessed, pushed>>

WatcherStep(d, output, i) ==
    \/ RegisterSpend(d, output, i)
    \/ ReceiveSpend(d, output, i)
    \/ SetUnbonding(d, output, i)
    \/ EmitUnbonding(d, output, i)
    \/ SaveUnbonding(d, output, i)
    \/ CheckWithdrawal(d, output, i)
    \/ SetWithdrawn(d, output, i)
    \/ EmitSlashing(d, output, i)
    \/ SetSlashed(d, output, i)
    \/ SaveSlashing(d, output, i)

\* A call fails: the error is logged, the goroutine ends, and the spend is not
\* delivered again to this process.
WatcherFails(d, output, i) ==
    /\ watcher[<<d, output, i>>] # "none"
    /\ watcher[<<d, output, i>>] = "waiting" => SpendPath(d, output) # "unspent"
    /\ Goto(<<d, output, i>>, "none")
    /\ UNCHANGED storeVars

================================================================================
