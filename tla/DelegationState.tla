---------------------------- MODULE DelegationState ----------------------------
(***************************************************************************)
(* The states and sub-states of a BTC delegation and, for every kind of    *)
(* transition, the states it may start from (internal/types/state.go).     *)
(* Every write of a state goes through one of these sets: it is the        *)
(* "state" filter of the FindOneAndUpdate that performs the transition.    *)
(***************************************************************************)

StatePending      == "PENDING"
StateVerified     == "VERIFIED"
StateActive       == "ACTIVE"
StateUnbonding    == "UNBONDING"
StateWithdrawable == "WITHDRAWABLE"
StateSlashed      == "SLASHED"
StateWithdrawn    == "WITHDRAWN"
StateExpanded     == "EXPANDED"

DelegationStates ==
    {StatePending, StateVerified, StateActive, StateUnbonding,
     StateWithdrawable, StateSlashed, StateWithdrawn, StateExpanded}

SubStateTimelock               == "TIMELOCK"
SubStateEarlyUnbonding         == "EARLY_UNBONDING"
SubStateTimelockSlashing       == "TIMELOCK_SLASHING"
SubStateEarlyUnbondingSlashing == "EARLY_UNBONDING_SLASHING"

SlashingSubStates == {SubStateTimelockSlashing, SubStateEarlyUnbondingSlashing}
UnbondingSubStates == {SubStateTimelock, SubStateEarlyUnbonding}
DelegationSubStates == UnbondingSubStates \cup SlashingSubStates

\* The value of an absent sub_state field, and of an absent document.
NoSubState == "NO_SUB_STATE"
NoDocument == "NO_DOCUMENT"

(***************************************************************************)
(* The qualified previous states.  A set that the code returns as nil      *)
(* ("no transition is defined for this Babylon state") is the empty set.   *)
(***************************************************************************)

QualifiedStatesForCovenantQuorumReached(babylonState) ==
    IF babylonState \in {"VERIFIED", "ACTIVE"} THEN {StatePending} ELSE {}

QualifiedStatesForInclusionProofReceived(babylonState) ==
    CASE babylonState = "ACTIVE"  -> {StateVerified}
      [] babylonState = "PENDING" -> {StatePending}
      [] OTHER                    -> {}

QualifiedStatesForUnbondedEarly == {StateActive, StateUnbonding}

QualifiedStatesForExpired == {StateActive}

\* Seeded fault: a withdrawal is expected to follow an unbonding.
FaultyStatesForWithdrawn == {StateUnbonding, StateWithdrawable, StateSlashed}

QualifiedStatesForWithdrawn ==
    {StateActive, StateUnbonding, StateWithdrawable, StateSlashed}

\* Seeded fault: a timelock document may also reopen a withdrawn delegation.
FaultyStatesForWithdrawable(subState) ==
    IF subState \in UnbondingSubStates THEN {StateUnbonding}
    ELSE {StateSlashed, StateWithdrawn}

QualifiedStatesForWithdrawable(subState) ==
    IF subState \in UnbondingSubStates THEN {StateUnbonding} ELSE {StateSlashed}

\* Seeded fault: slashing after the timelock is not expected.
FaultyStatesForSlashed == {StateActive, StateUnbonding}

QualifiedStatesForSlashed == {StateActive, StateUnbonding, StateWithdrawable}

================================================================================
