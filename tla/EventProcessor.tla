----------------------------- MODULE EventProcessor -----------------------------
(***************************************************************************)
(* The goroutine that applies the events of Babylon's blocks to the        *)
(* delegations, one event at a time (internal/services/events.go,          *)
(* delegation.go, and the consumer of bootstrap.go).                       *)
(*                                                                         *)
(* A handler validates the event against the stored state and then works   *)
(* through its calls; each call is a step here.  A handler that returns an *)
(* error is run again from its validation, MaxAttempts times in all, after *)
(* which the process gives up and exits.  The height of a block is stored  *)
(* when all its events are processed, so a restart replays whole blocks.   *)
(***************************************************************************)
EXTENDS SpendWatcher

CONSTANT MaxAttempts    \* processEventMaxRetries

ASSUME MaxAttemptsAssumption == MaxAttempts \in Nat \ {0}

VARIABLES
    next,       \* position in bbnChain of the event being processed
    step,       \* the call its handler makes next
    attempt     \* failed attempts at this event

procVars == <<next, step, attempt>>

ProcessorSteps ==
    {"validate", "emitActive", "register", "emitUnbonding", "saveTimeLock",
     "update", "saveHeight", "failed"}

ProcessorTypeOK ==
    /\ next \in Nat \ {0}
    /\ step \in ProcessorSteps
    /\ attempt \in 0 .. MaxAttempts
    /\ step # "failed" => attempt < MaxAttempts

ProcessorInit ==
    /\ next = 1
    /\ step = "validate"
    /\ attempt = 0

\* A block is fetched once Babylon has it, so up to its last event.
BlockAvailable == \E i \in DOMAIN bbnChain : i >= next /\ bbnChain[i].lastInBlock

Event == bbnChain[next]

Processing(type) ==
    /\ BlockAvailable
    /\ Event.type = type

\* An event of a delegation without a document is an error of the lookup.
Known(d) == docs[d].state # NoDocument

--------------------------------------------------------------------------------
(***************************************************************************)
(* Control of the handlers.                                                *)
(***************************************************************************)

Continue(nextStep) ==
    /\ step' = nextStep
    /\ UNCHANGED <<next, attempt>>

\* The handler returns nil: on to the next event, or to the block's height.
Done ==
    /\ next' = next + 1
    /\ step' = IF Event.lastInBlock THEN "saveHeight" ELSE "validate"
    /\ attempt' = 0

\* The handler returns an error.
Retry ==
    /\ attempt' = attempt + 1
    /\ step' = IF attempt + 1 < MaxAttempts THEN "validate" ELSE "failed"
    /\ UNCHANGED next

SavedHeight == lastProcessed' = next - 1

SaveHeight ==
    /\ step = "saveHeight"
    /\ SavedHeight
    /\ Continue("validate")
    /\ UNCHANGED <<docs, timelocks, pushed, watcher>>

--------------------------------------------------------------------------------
(***************************************************************************)
(* Validation.  shouldProcess is FALSE for an event that is ignored.       *)
(***************************************************************************)

\* Seeded fault: the answer of the validation is not used.
UncheckedEvent(type, shouldProcess, firstStep) ==
    /\ step = "validate"
    /\ Processing(type)
    /\ IF Known(Event.delegation) THEN Continue(firstStep) ELSE Retry
    /\ UNCHANGED <<storeVars, watcher>>

ValidateEvent(type, shouldProcess, firstStep) ==
    /\ step = "validate"
    /\ Processing(type)
    /\ IF ~Known(Event.delegation) THEN Retry
       ELSE IF shouldProcess THEN Continue(firstStep)
       ELSE Done
    /\ UNCHANGED <<storeVars, watcher>>

ActivatesOr(otherStep) ==
    IF Event.newState = StateActive THEN "emitActive" ELSE otherStep

processNewBTCDelegationEvent ==
    /\ step = "validate"
    /\ Processing("Created")
    /\ SaveNewBTCDelegation(Event.delegation)
    /\ Done
    /\ UNCHANGED <<timelocks, lastProcessed, pushed, watcher>>

validateCovenantQuorumReachedEvent ==
    LET d == Event.delegation IN
    ValidateEvent("CovenantQuorum",
        /\ InQualifiedState(d, QualifiedStatesForCovenantQuorumReached(Event.newState))
        /\ docs[d].inclusionProof = (Event.newState = StateActive),
        ActivatesOr("update"))

validateBTCDelegationInclusionProofReceivedEvent ==
    LET d == Event.delegation IN
    ValidateEvent("InclusionProof",
        /\ InQualifiedState(d, QualifiedStatesForInclusionProofReceived(Event.newState))
        /\ ~docs[d].inclusionProof,
        ActivatesOr("update"))

validateBTCDelegationUnbondedEarlyEvent ==
    ValidateEvent("UnbondedEarly",
        InQualifiedState(Event.delegation, QualifiedStatesForUnbondedEarly),
        "emitUnbonding")

validateBTCDelegationExpiredEvent ==
    ValidateEvent("Expired",
        InQualifiedState(Event.delegation, QualifiedStatesForExpired),
        "emitUnbonding")

--------------------------------------------------------------------------------
(***************************************************************************)
(* The calls of the handlers.                                              *)
(***************************************************************************)

EmitActive ==
    /\ step = "emitActive"
    /\ emitActiveDelegationEvent(Event.delegation)
    /\ Continue("register")
    /\ UNCHANGED <<docs, timelocks, lastProcessed, watcher>>

\* Seeded fault: the watcher is not started.
DroppedRegistration ==
    /\ step = "register"
    /\ Continue("update")
    /\ UNCHANGED <<storeVars, watcher>>

\* The watcher is started before the state is stored.
RegisterWatcher ==
    /\ step = "register"
    /\ registerStakingSpendNotification(Event.delegation)
    /\ Continue("update")
    /\ UNCHANGED storeVars

\* The event carries the hash of the expansion transaction if there is one.
StakeExpansion == SpendPath(Event.delegation, "staking") = "expansion"

EmitUnbondingMessage ==
    /\ step = "emitUnbonding"
    /\ emitUnbondingDelegationEvent(Event.delegation)
    /\ Continue(IF Event.type = "UnbondedEarly" /\ StakeExpansion
                THEN "update" ELSE "saveTimeLock")
    /\ UNCHANGED <<docs, timelocks, lastProcessed, watcher>>

\* Seeded fault: an expired delegation is unlocked when it starts unbonding.
FaultyTimeLockHeight(d) ==
    IF Event.type = "Expired" THEN EndHeight(d) - UnbondingTime
    ELSE SpendHeight(d, "staking") + UnbondingTime

TimeLockHeight(d) ==
    IF Event.type = "Expired" THEN EndHeight(d)
    ELSE SpendHeight(d, "staking") + UnbondingTime

UnbondingSubState ==
    IF Event.type = "Expired" THEN SubStateTimelock ELSE SubStateEarlyUnbonding

SaveTimeLock ==
    /\ step = "saveTimeLock"
    /\ SaveNewTimeLockExpire(Event.delegation, TimeLockHeight(Event.delegation),
                             UnbondingSubState)
    /\ Continue("update")
    /\ UNCHANGED <<docs, lastProcessed, pushed, watcher>>

\* FindOneAndUpdate and what its handler makes of the result.  A document that
\* has left the qualified states is an error, except for an early unbonding.
UpdateState(type, qualified, newState, subState, proof) ==
    /\ step = "update"
    /\ Event.type = type
    /\ UpdateBTCDelegationState(Event.delegation, qualified, newState, subState, proof)
    /\ IF type = "UnbondedEarly" \/ InQualifiedState(Event.delegation, qualified)
       THEN Done
       ELSE Retry
    /\ UNCHANGED <<timelocks, lastProcessed, pushed, watcher>>

processCovenantQuorumReachedEvent ==
    UpdateState("CovenantQuorum", QualifiedStatesForCovenantQuorumReached(Event.newState),
                Event.newState, NoSubState, FALSE)

processBTCDelegationInclusionProofReceivedEvent ==
    UpdateState("InclusionProof", QualifiedStatesForInclusionProofReceived(Event.newState),
                Event.newState, NoSubState, TRUE)

processBTCDelegationUnbondedEarlyEvent ==
    UpdateState("UnbondedEarly", QualifiedStatesForUnbondedEarly,
                IF StakeExpansion THEN StateExpanded ELSE StateUnbonding,
                SubStateEarlyUnbonding, FALSE)

\* Seeded fault: expiry is stored like an early unbonding.
FaultyExpiredEvent ==
    UpdateState("Expired", QualifiedStatesForExpired, StateUnbonding,
                SubStateEarlyUnbonding, FALSE)

processBTCDelegationExpiredEvent ==
    UpdateState("Expired", QualifiedStatesForExpired, StateUnbonding,
                SubStateTimelock, FALSE)

ProcessorStep ==
    \/ processNewBTCDelegationEvent
    \/ validateCovenantQuorumReachedEvent
    \/ validateBTCDelegationInclusionProofReceivedEvent
    \/ validateBTCDelegationUnbondedEarlyEvent
    \/ validateBTCDelegationExpiredEvent
    \/ EmitActive
    \/ RegisterWatcher
    \/ EmitUnbondingMessage
    \/ SaveTimeLock
    \/ processCovenantQuorumReachedEvent
    \/ processBTCDelegationInclusionProofReceivedEvent
    \/ processBTCDelegationUnbondedEarlyEvent
    \/ processBTCDelegationExpiredEvent
    \/ SaveHeight

\* Seeded fault: a message that could not be pushed is forgotten.
IgnoreFailedPush ==
    /\ step \in {"emitActive", "emitUnbonding"}
    /\ Continue("update")
    /\ UNCHANGED <<storeVars, watcher>>

\* A call fails.  Storing the height is the one call that is not retried.
ProcessorFails ==
    /\ \/ step = "validate" /\ BlockAvailable /\ Retry
       \/ step \notin {"validate", "saveHeight", "failed"} /\ Retry
       \/ step = "saveHeight" /\ Continue("failed")
    /\ UNCHANGED <<storeVars, watcher>>

================================================================================
