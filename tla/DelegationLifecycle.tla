-------------------------- MODULE DelegationLifecycle --------------------------
(***************************************************************************)
(* The abstract life of a delegation: the transitions that the qualified   *)
(* states of internal/types/state.go and the handlers that use them leave  *)
(* possible, whatever the order in which Babylon, Bitcoin and the expiry   *)
(* checker are heard.  Nothing here knows of events, watchers, timelock    *)
(* documents, retries or restarts.                                         *)
(***************************************************************************)
EXTENDS DelegationState

CONSTANT Delegations

VARIABLES
    state,      \* the state of each delegation
    subState    \* and its sub-state

vars == <<state, subState>>

TypeOK ==
    /\ state \in [Delegations -> DelegationStates \cup {NoDocument}]
    /\ subState \in [Delegations -> DelegationSubStates \cup {NoSubState}]

Init ==
    /\ state = [d \in Delegations |-> NoDocument]
    /\ subState = [d \in Delegations |-> NoSubState]

Become(d, newState, newSubState) ==
    /\ state' = [state EXCEPT ![d] = newState]
    /\ subState' = [subState EXCEPT ![d] = newSubState]

IsSlashed(d) == subState[d] \in SlashingSubStates

Create(d) ==
    /\ state[d] = NoDocument
    /\ Become(d, StatePending, subState[d])

Verify(d) ==
    /\ state[d] = StatePending
    /\ Become(d, StateVerified, subState[d])

Activate(d) ==
    /\ state[d] \in {StatePending, StateVerified}
    /\ Become(d, StateActive, subState[d])

\* By expiry, or by an early unbonding, which may still follow an expiry.
Unbond(d) ==
    \/ /\ state[d] = StateActive
       /\ Become(d, StateUnbonding, SubStateTimelock)
    \/ /\ state[d] \in {StateActive, StateUnbonding}
       /\ Become(d, StateUnbonding, SubStateEarlyUnbonding)

Expand(d) ==
    /\ state[d] \in {StateActive, StateUnbonding}
    /\ Become(d, StateExpanded, SubStateEarlyUnbonding)

\* A delegation that was slashed once stays slashed in the same way.
Slash(d) ==
    /\ state[d] \in {StateActive, StateUnbonding, StateWithdrawable}
    /\ \E s \in SlashingSubStates :
          /\ IsSlashed(d) => s = subState[d]
          /\ Become(d, StateSlashed, s)

Unlock(d) ==
    \/ /\ state[d] = StateUnbonding
       /\ \E s \in UnbondingSubStates : Become(d, StateWithdrawable, s)
    \/ /\ state[d] = StateSlashed
       /\ Become(d, StateWithdrawable, subState[d])

\* What remains after a slashing is withdrawn as such, and nothing else is.
Withdraw(d) ==
    /\ state[d] \in {StateActive, StateUnbonding, StateWithdrawable, StateSlashed}
    /\ \E s \in DelegationSubStates :
          /\ IF IsSlashed(d) THEN s = subState[d] ELSE s \in UnbondingSubStates
          /\ Become(d, StateWithdrawn, s)

Next ==
    \E d \in Delegations :
        \/ Create(d)
        \/ Verify(d)
        \/ Activate(d)
        \/ Unbond(d)
        \/ Expand(d)
        \/ Slash(d)
        \/ Unlock(d)
        \/ Withdraw(d)

Spec == Init /\ [][Next]_vars

================================================================================
