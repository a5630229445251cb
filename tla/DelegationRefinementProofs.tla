----------------------- MODULE DelegationRefinementProofs -----------------------
(***************************************************************************)
(* The indexer implements DelegationLifecycle: each step of it, taken from *)
(* a state of the inductive invariant, is a lifecycle step or a stutter.   *)
(* It also implements DelegationActivity and SequentialBlocks, which is    *)
(* how Statistics and BlockPipeline compose with it.                       *)
(***************************************************************************)
EXTENDS DelegationSafetyProofs, FiniteSetTheorems

\* The transitions of DelegationLifecycle, as a relation between the stored
\* values of a delegation and those that are about to replace them.
Transition(d, state, subState) ==
    \/ /\ State(d) = StatePending
       /\ state \in {StatePending, StateVerified, StateActive}
       /\ subState = SubState(d)
    \/ /\ State(d) = StateVerified
       /\ state = StateActive
       /\ subState = SubState(d)
    \/ /\ State(d) = StateActive
       /\ state = StateUnbonding
       /\ subState = SubStateTimelock
    \/ /\ State(d) \in {StateActive, StateUnbonding}
       /\ state \in {StateUnbonding, StateExpanded}
       /\ subState = SubStateEarlyUnbonding
    \/ /\ State(d) \in {StateActive, StateUnbonding, StateWithdrawable}
       /\ state = StateSlashed
       /\ subState \in SlashingSubStates
       /\ SubState(d) \in SlashingSubStates => subState = SubState(d)
    \/ /\ State(d) = StateUnbonding
       /\ state = StateWithdrawable
       /\ subState \in UnbondingSubStates
    \/ /\ State(d) = StateSlashed
       /\ state = StateWithdrawable
       /\ subState = SubState(d)
    \/ /\ State(d) \in {StateActive, StateUnbonding, StateWithdrawable, StateSlashed}
       /\ state = StateWithdrawn
       /\ subState \in DelegationSubStates
       /\ IF SubState(d) \in SlashingSubStates THEN subState = SubState(d)
          ELSE subState \in UnbondingSubStates

Mapped == /\ [Lifecycle!Next]_(Lifecycle!vars)
          /\ \A d \in Delegations :
                State(d) \in {StateWithdrawn, StateExpanded} => docs'[d] = docs[d]

\* The abstract specification names the same values.
LEMMA SameNames ==
      /\ Lifecycle!StatePending = StatePending
      /\ Lifecycle!StateVerified = StateVerified
      /\ Lifecycle!StateActive = StateActive
      /\ Lifecycle!StateUnbonding = StateUnbonding
      /\ Lifecycle!StateWithdrawable = StateWithdrawable
      /\ Lifecycle!StateSlashed = StateSlashed
      /\ Lifecycle!StateWithdrawn = StateWithdrawn
      /\ Lifecycle!StateExpanded = StateExpanded
      /\ Lifecycle!SubStateTimelock = SubStateTimelock
      /\ Lifecycle!SubStateEarlyUnbonding = SubStateEarlyUnbonding
      /\ Lifecycle!SubStateTimelockSlashing = SubStateTimelockSlashing
      /\ Lifecycle!SubStateEarlyUnbondingSlashing = SubStateEarlyUnbondingSlashing
      /\ Lifecycle!SlashingSubStates = SlashingSubStates
      /\ Lifecycle!UnbondingSubStates = UnbondingSubStates
      /\ Lifecycle!DelegationSubStates = DelegationSubStates
      /\ Lifecycle!NoDocument = NoDocument
      /\ Lifecycle!NoSubState = NoSubState
BY DEF StatePending, StateVerified, StateActive, StateUnbonding, StateWithdrawable,
       StateSlashed, StateWithdrawn, StateExpanded, SubStateTimelock,
       SubStateEarlyUnbonding, SubStateTimelockSlashing,
       SubStateEarlyUnbondingSlashing, SlashingSubStates, UnbondingSubStates,
       DelegationSubStates, NoDocument, NoSubState, Lifecycle!StatePending,
       Lifecycle!StateVerified, Lifecycle!StateActive, Lifecycle!StateUnbonding,
       Lifecycle!StateWithdrawable, Lifecycle!StateSlashed,
       Lifecycle!StateWithdrawn, Lifecycle!StateExpanded,
       Lifecycle!SubStateTimelock, Lifecycle!SubStateEarlyUnbonding,
       Lifecycle!SubStateTimelockSlashing, Lifecycle!SubStateEarlyUnbondingSlashing,
       Lifecycle!SlashingSubStates, Lifecycle!UnbondingSubStates,
       Lifecycle!DelegationSubStates, Lifecycle!NoDocument, Lifecycle!NoSubState

\* A state and a sub-state that a write may store are a step of the abstract lifecycle.
LEMMA TransitionMapped ==
    ASSUME NEW d \in Delegations, NEW state, NEW s, Transition(d, state, s),
           Lifecycle!Become(d, state, s)
    PROVE  Lifecycle!Next \/ (state = State(d) /\ s = SubState(d))
<1>0. /\ [e \in Delegations |-> docs[e].state][d] = State(d)
      /\ [e \in Delegations |-> docs[e].subState][d] = SubState(d)
  BY DEF State, SubState
<1>1. CASE State(d) = StatePending /\ state \in {StatePending, StateVerified, StateActive}
           /\ s = SubState(d)
  BY <1>0, <1>1, SameNames DEF Lifecycle!Next, Lifecycle!Verify, Lifecycle!Activate,
     Lifecycle!Become
<1>2. CASE State(d) = StateVerified /\ state = StateActive /\ s = SubState(d)
  BY <1>0, <1>2, SameNames DEF Lifecycle!Next, Lifecycle!Activate, Lifecycle!Become
<1>3. CASE State(d) = StateActive /\ state = StateUnbonding /\ s = SubStateTimelock
  BY <1>0, <1>3, SameNames DEF Lifecycle!Next, Lifecycle!Unbond
<1>4. CASE /\ State(d) \in {StateActive, StateUnbonding}
           /\ state \in {StateUnbonding, StateExpanded}
           /\ s = SubStateEarlyUnbonding
  BY <1>0, <1>4, SameNames DEF Lifecycle!Next, Lifecycle!Unbond, Lifecycle!Expand
<1>5. CASE state = StateSlashed /\ State(d) \in {StateActive, StateUnbonding, StateWithdrawable}
           /\ s \in SlashingSubStates /\ (SubState(d) \in SlashingSubStates => s = SubState(d))
  BY <1>0, <1>5, SameNames DEF Lifecycle!Next, Lifecycle!Slash, Lifecycle!IsSlashed
<1>6. CASE state = StateWithdrawable
           /\ \/ State(d) = StateUnbonding /\ s \in UnbondingSubStates
              \/ State(d) = StateSlashed /\ s = SubState(d)
  <2>1. CASE State(d) = StateUnbonding /\ s \in UnbondingSubStates
    BY <1>0, <1>6, <2>1, SameNames DEF Lifecycle!Next, Lifecycle!Unlock
  <2>2. CASE State(d) = StateSlashed /\ s = SubState(d)
    BY <1>0, <1>6, <2>2, SameNames DEF Lifecycle!Next, Lifecycle!Unlock, Lifecycle!Become
  <2> QED
    BY <1>6, <2>1, <2>2
<1>7. CASE /\ state = StateWithdrawn
           /\ State(d) \in {StateActive, StateUnbonding, StateWithdrawable, StateSlashed}
           /\ s \in DelegationSubStates
           /\ IF SubState(d) \in SlashingSubStates THEN s = SubState(d)
              ELSE s \in UnbondingSubStates
  BY <1>0, <1>7, SameNames DEF Lifecycle!Next, Lifecycle!Withdraw, Lifecycle!IsSlashed
<1> QED
  BY <1>1, <1>2, <1>3, <1>4, <1>5, <1>6, <1>7 DEF Transition

\* A conditional update of the store maps to a transition of the lifecycle or, when the
\* qualified states do not match, to a stutter (UpdateBTCDelegationState).
LEMMA UpdateMapped ==
    ASSUME TypeInv, NEW d \in Delegations, NEW qualified, NEW newState, NEW s, NEW proof,
           UpdateBTCDelegationState(d, qualified, newState, s, proof),
           InQualifiedState(d, qualified) =>
              Transition(d, newState, IF s = NoSubState THEN SubState(d) ELSE s)
    PROVE  Mapped
<1> PICK t : t = IF s = NoSubState THEN SubState(d) ELSE s
  OBVIOUS
<1>0. docs \in [Delegations -> Documents]
  BY DEF TypeInv, TypeOK, StoreTypeOK
<1>1. CASE ~InQualifiedState(d, qualified)
  BY <1>1 DEF UpdateBTCDelegationState, Mapped, Lifecycle!vars
<1>2. CASE InQualifiedState(d, qualified)
  <2>1. PICK b : docs' = [docs EXCEPT ![d] = [state |-> newState, subState |-> t,
                                              inclusionProof |-> b]]
    BY <1>2 DEF UpdateBTCDelegationState, SubState
  <2>2. Lifecycle!Become(d, newState, t)
    BY <1>0, <2>1 DEF Lifecycle!Become
  <2>3. Transition(d, newState, t)
    BY <1>2
  <2>4. Lifecycle!Next \/ (newState = State(d) /\ t = SubState(d))
    BY <2>2, <2>3, TransitionMapped
  <2>5. newState = State(d) /\ t = SubState(d) => UNCHANGED Lifecycle!vars
    BY <1>0, <2>1 DEF Lifecycle!vars, State, SubState
  <2>6. State(d) \notin {StateWithdrawn, StateExpanded}
    BY <2>3 DEF Transition, StatePending, StateVerified, StateActive, StateUnbonding,
       StateSlashed, StateWithdrawable, StateWithdrawn, StateExpanded
  <2> QED
    BY <1>0, <2>1, <2>4, <2>5, <2>6 DEF Mapped
<1> QED
  BY <1>1, <1>2

\* A step without a write maps to a stutter.
LEMMA QuietMapped == UNCHANGED docs => Mapped
BY DEF Mapped, Lifecycle!vars

\* A new document maps to the creation of the delegation.
LEMMA CreateMapped ==
    ASSUME TypeInv, NEW d \in Delegations, SaveNewBTCDelegation(d)
    PROVE  Mapped
<1>0. docs \in [Delegations -> Documents]
  BY DEF TypeInv, TypeOK, StoreTypeOK
<1>1. CASE docs[d].state = NoDocument
  <2>1. docs[d] \in Documents
    BY <1>0
  <2>2. /\ [docs[d] EXCEPT !.state = StatePending].subState = docs[d].subState
        /\ [docs[d] EXCEPT !.state = StatePending].state = StatePending
    BY <2>1 DEF Documents
  <2>3. docs' = [docs EXCEPT ![d] = [docs[d] EXCEPT !.state = StatePending]]
    BY <1>1 DEF SaveNewBTCDelegation
  <2>4. Lifecycle!Create(d)
    BY <1>0, <1>1, <2>2, <2>3, SameNames DEF Lifecycle!Create, Lifecycle!Become
  <2>5. \A e \in Delegations :
           State(e) \in {StateWithdrawn, StateExpanded} => docs'[e] = docs[e]
    BY <1>0, <1>1, <2>3 DEF State, StateWithdrawn, StateExpanded, NoDocument
  <2> QED
    BY <2>4, <2>5 DEF Mapped, Lifecycle!Next
<1>2. CASE docs[d].state # NoDocument
  BY <1>2, QuietMapped DEF SaveNewBTCDelegation
<1> QED
  BY <1>1, <1>2

\* The steps of the spend watchers map to lifecycle steps.
LEMMA WatcherMapped ==
    ASSUME IInv, NEW d \in Delegations, NEW o \in Outputs, NEW i \in WatcherIds,
           WatcherAction(d, o, i)
    PROVE  Mapped
<1>0. TypeInv /\ WatcherStep(d, o, i)
  BY DEF IInv, WatcherAction
<1>1. /\ StepJustified(d, o, watcher[<<d, o, i>>])
      /\ Consistent(d, State(d), SubState(d))
      /\ o = "change" /\ watcher[<<d, o, i>>] # "none" => SubState(d) \in SlashingSubStates
  BY DEF IInv, OnBitcoin, WatchersOnBitcoin, DocumentsOnBitcoin, ChangeWatchedAfterSlashing
<1>2. /\ SpendPath(d, "unbonding") # "unspent" => SpendPath(d, "staking") = "unbonding"
      /\ SpendPath(d, "change") # "unspent" => SpendPath(d, SlashedOutput(d)) = "slashing"
  BY DEF IInv, OnBitcoin, SpendsFollowOutputs
<1> USE DEF StateActive, StateUnbonding, StateSlashed, StateWithdrawn, StateWithdrawable,
       NoSubState, SubStateTimelock, SubStateEarlyUnbonding, SubStateTimelockSlashing,
       SubStateEarlyUnbondingSlashing
<1>3. CASE SetUnbonding(d, o, i)
  <2>1. InQualifiedState(d, QualifiedStatesForUnbondedEarly) =>
           Transition(d, StateUnbonding, SubStateEarlyUnbonding)
    BY DEF InQualifiedState, QualifiedStatesForUnbondedEarly, Transition, State
  <2> QED
    BY <1>0, <1>3, <2>1, UpdateMapped DEF SetUnbonding
<1>4. CASE SetWithdrawn(d, o, i)
  <2> DEFINE s == SubStateOfWithdrawal(d, o)
  <2>1. SpendPath(d, o) = "timelock"
    BY <1>1, <1>4 DEF SetWithdrawn, StepJustified
  <2>2. /\ s \in DelegationSubStates /\ s # NoSubState
        /\ IF SubState(d) \in SlashingSubStates THEN s = SubState(d)
           ELSE s \in UnbondingSubStates
    BY <1>1, <1>2, <1>4, <2>1 DEF SetWithdrawn, Consistent, Witnessed, SubStateOfWithdrawal,
       SubStateOfSlashing, SlashedOutput, SlashingSubStates, UnbondingSubStates,
       DelegationSubStates, Outputs
  <2>3. InQualifiedState(d, QualifiedStatesForWithdrawn) => Transition(d, StateWithdrawn, s)
    BY <2>2 DEF InQualifiedState, QualifiedStatesForWithdrawn, Transition, State
  <2> QED
    BY <1>0, <1>4, <2>2, <2>3, UpdateMapped DEF SetWithdrawn
<1>5. CASE SetSlashed(d, o, i)
  <2> DEFINE s == SubStateOfSlashing(o)
  <2>1. o \in {"staking", "unbonding"} /\ SpendPath(d, o) = "slashing"
    BY <1>1, <1>5 DEF SetSlashed, StepJustified
  <2>2. /\ s \in SlashingSubStates /\ s # NoSubState
        /\ SubState(d) \in SlashingSubStates => s = SubState(d)
    BY <1>1, <1>2, <2>1 DEF Consistent, Witnessed, SubStateOfSlashing, SlashingSubStates
  <2>3. InQualifiedState(d, QualifiedStatesForSlashed) => Transition(d, StateSlashed, s)
    BY <2>2 DEF InQualifiedState, QualifiedStatesForSlashed, Transition, State
  <2> QED
    BY <1>0, <1>5, <2>2, <2>3, UpdateMapped DEF SetSlashed
<1> QED
  BY <1>0, <1>3, <1>4, <1>5, QuietMapped DEF WatcherStep, RegisterSpend, ReceiveSpend,
     EmitUnbonding, SaveUnbonding, CheckWithdrawal, EmitSlashing, SaveSlashing, storeVars

\* The steps of the block processor map to lifecycle steps.
LEMMA ProcessorMapped == IInv /\ ProcessorAction => Mapped
<1> SUFFICES ASSUME IInv, ProcessorAction PROVE Mapped
  OBVIOUS
<1> DEFINE d == Event.delegation
<1>0. TypeInv /\ ProcessorStep
  BY DEF IInv, ProcessorAction
<1>1. step = "update" \/ (step = "validate" /\ BlockAvailable) => d \in Delegations
  BY <1>0, EventTyped DEF ProcessorBusy, Events
<1> USE DEF StatePending, StateVerified, StateActive, StateUnbonding, StateExpanded,
       NoSubState, SubStateTimelock, SubStateEarlyUnbonding
<1>2. CASE processNewBTCDelegationEvent
  BY <1>0, <1>1, <1>2, CreateMapped DEF processNewBTCDelegationEvent, Processing
<1>3. ASSUME NEW type, NEW qualified, NEW newState, NEW s, NEW proof,
             UpdateState(type, qualified, newState, s, proof),
             InQualifiedState(d, qualified) =>
                Transition(d, newState, IF s = NoSubState THEN SubState(d) ELSE s)
      PROVE  Mapped
  BY <1>0, <1>1, <1>3, UpdateMapped DEF UpdateState
<1>4. CASE processCovenantQuorumReachedEvent
  <2>1. InQualifiedState(d, QualifiedStatesForCovenantQuorumReached(Event.newState)) =>
           Transition(d, Event.newState, SubState(d))
    BY DEF InQualifiedState, QualifiedStatesForCovenantQuorumReached, Transition, State
  <2> QED
    BY <1>3, <1>4, <2>1 DEF processCovenantQuorumReachedEvent
<1>5. CASE processBTCDelegationInclusionProofReceivedEvent
  <2>1. InQualifiedState(d, QualifiedStatesForInclusionProofReceived(Event.newState)) =>
           Transition(d, Event.newState, SubState(d))
    BY DEF InQualifiedState, QualifiedStatesForInclusionProofReceived, Transition, State
  <2> QED
    BY <1>3, <1>5, <2>1 DEF processBTCDelegationInclusionProofReceivedEvent
<1>6. CASE processBTCDelegationUnbondedEarlyEvent
  <2>1. InQualifiedState(d, QualifiedStatesForUnbondedEarly) =>
           \A state \in {StateUnbonding, StateExpanded} :
              Transition(d, state, SubStateEarlyUnbonding)
    BY DEF InQualifiedState, QualifiedStatesForUnbondedEarly, Transition, State
  <2> QED
    BY <1>3, <1>6, <2>1 DEF processBTCDelegationUnbondedEarlyEvent
<1>7. CASE processBTCDelegationExpiredEvent
  <2>1. InQualifiedState(d, QualifiedStatesForExpired) =>
           Transition(d, StateUnbonding, SubStateTimelock)
    BY DEF InQualifiedState, QualifiedStatesForExpired, Transition, State
  <2> QED
    BY <1>3, <1>7, <2>1 DEF processBTCDelegationExpiredEvent
<1> QED
  BY <1>0, <1>2, <1>4, <1>5, <1>6, <1>7, QuietMapped DEF ProcessorStep, ValidateEvent,
     validateCovenantQuorumReachedEvent, validateBTCDelegationInclusionProofReceivedEvent,
     validateBTCDelegationUnbondedEarlyEvent, validateBTCDelegationExpiredEvent,
     EmitActive, RegisterWatcher, EmitUnbondingMessage, SaveTimeLock, SaveHeight, storeVars

\* The steps of the expiry checker map to lifecycle steps.
LEMMA CheckerMapped == IInv /\ CheckerAction => Mapped
<1> SUFFICES ASSUME IInv, CheckerAction PROVE Mapped
  OBVIOUS
<1>1. CASE SetWithdrawable
  <2> DEFINE doc == Head(found)
             d == doc.delegation
             s == doc.subState
  <2>1. doc \in TimeLockDocuments /\ Justified(doc)
    <3>1. 1 \in DOMAIN found /\ doc = found[1]
      BY <1>1 DEF SetWithdrawable, IInv, TypeInv, TypeOK, CheckerTypeOK
    <3> QED
      BY <3>1 DEF IInv, TypeInv, TypeOK, CheckerTypeOK, OnBitcoin, FoundOnBitcoin
  <2>2. d \in Delegations /\ s \in DelegationSubStates /\ Witnessed(d, s)
    BY <2>1 DEF TimeLockDocuments, Justified
  <2>3. Consistent(d, State(d), SubState(d))
    BY <2>2 DEF IInv, OnBitcoin, DocumentsOnBitcoin
  <2> USE DEF StateUnbonding, StateSlashed, StateWithdrawn, StateWithdrawable,
         NoSubState, SubStateTimelock, SubStateEarlyUnbonding, SubStateTimelockSlashing,
         SubStateEarlyUnbondingSlashing
  <2>4. s # NoSubState
    BY <2>2 DEF DelegationSubStates, UnbondingSubStates, SlashingSubStates
  <2>5. s \in SlashingSubStates /\ State(d) = StateSlashed => s = SubState(d)
    <3>1. SpendPath(d, "unbonding") # "unspent" => SpendPath(d, "staking") = "unbonding"
      BY <2>2 DEF IInv, OnBitcoin, SpendsFollowOutputs
    <3> QED
      BY <2>2, <2>3, <3>1 DEF Consistent, Witnessed, SlashingSubStates
  <2>6. InQualifiedState(d, QualifiedStatesForWithdrawable(s)) =>
           Transition(d, StateWithdrawable, s)
    BY <2>2, <2>5 DEF InQualifiedState, QualifiedStatesForWithdrawable, Transition, State,
       DelegationSubStates
  <2> QED
    BY <1>1, <2>2, <2>4, <2>6, UpdateMapped DEF SetWithdrawable, IInv
<1> QED
  BY <1>1, QuietMapped DEF CheckerAction, CheckerStep, Poll, DeleteTimeLock, storeVars

\* Every step of the service maps to a lifecycle step or a stutter.
LEMMA NextMapped == IInv /\ [Next]_vars => Mapped
<1> SUFFICES ASSUME IInv, [Next]_vars PROVE Mapped
  OBVIOUS
<1>1. CASE \/ ChainsStep
           \/ FindMissed
           \/ \E d \in Delegations : RegisterMissed(d)
           \/ CallFails
           \/ Crash
           \/ GiveUp
           \/ UNCHANGED vars
  BY <1>1, QuietMapped DEF ChainsStep, FindMissed, RegisterMissed, CallFails, WatcherFails,
     ProcessorFails, CheckerFails, Crash, GiveUp, StartProcess, vars, storeVars
<1> QED
  BY <1>1, WatcherMapped, ProcessorMapped, CheckerMapped DEF Next

\* The service implements the lifecycle of types/state.go: its writes to the store,
\* interleaved in any way, only ever take the transitions listed there.
THEOREM Implements == Spec => ImplementsLifecycle
<1>1. Init => Lifecycle!Init
  BY SameNames DEF Init, StoreInit, Lifecycle!Init
<1>2. IInv /\ [Next]_vars => [Lifecycle!Next]_(Lifecycle!vars)
  BY NextMapped DEF Mapped
<1> QED
  BY <1>1, <1>2, Inductive, PTL DEF Spec, Lifecycle!Spec, ImplementsLifecycle

\* No event, spend, timelock, replay or restart changes a WITHDRAWN or EXPANDED
\* document (types/state.go calls these states terminal).
THEOREM TerminalStates == Spec => TerminalStatesFinal
<1>1. IInv /\ [Next]_vars =>
         [\A d \in Delegations :
             State(d) \in {StateWithdrawn, StateExpanded} => docs'[d] = docs[d]]_vars
  BY NextMapped DEF Mapped
<1> QED
  BY <1>1, Inductive, PTL DEF Spec, TerminalStatesFinal

\* In a state of the invariant, a step of the lifecycle keeps a slashing sub-state: only
\* transitions out of states without one replace it.
LEMMA SlashingMapped ==
    ASSUME IInv, [Lifecycle!Next]_(Lifecycle!vars),
           NEW e \in Delegations, SubState(e) \in SlashingSubStates
    PROVE  SubState(e)' = SubState(e)
<1> DEFINE stored == [d \in Delegations |-> docs[d].state]
           storedSub == [d \in Delegations |-> docs[d].subState]
<1>0. /\ SubState(e) = storedSub[e] /\ SubState(e)' = storedSub'[e]
      /\ State(e) = stored[e]
  BY DEF State, SubState
<1>1. State(e) \in {StateSlashed, StateWithdrawable, StateWithdrawn}
  BY DEF IInv, OnBitcoin, DocumentsOnBitcoin, Consistent, StateSlashed, StateWithdrawable,
     StateWithdrawn
<1>2. CASE UNCHANGED Lifecycle!vars
  BY <1>0, <1>2 DEF Lifecycle!vars
<1>3. CASE Lifecycle!Next
  <2> DEFINE Slashed(d) == /\ storedSub[d] \in SlashingSubStates
                           /\ stored[d] \in {StateSlashed, StateWithdrawable, StateWithdrawn}
             Moves(d, s) == /\ storedSub' = [storedSub EXCEPT ![d] = s]
                            /\ Slashed(d) => s = storedSub[d]
  <2>1. PICK d \in Delegations : \E s : Moves(d, s)
    <3>1. PICK d \in Delegations :
              \/ Lifecycle!Create(d) \/ Lifecycle!Verify(d) \/ Lifecycle!Activate(d)
              \/ Lifecycle!Unbond(d) \/ Lifecycle!Expand(d) \/ Lifecycle!Slash(d)
              \/ Lifecycle!Unlock(d) \/ Lifecycle!Withdraw(d)
      BY <1>3 DEF Lifecycle!Next
    <3>2. CASE Lifecycle!Create(d) \/ Lifecycle!Verify(d) \/ Lifecycle!Activate(d)
      BY <3>2, SameNames DEF Lifecycle!Create, Lifecycle!Verify, Lifecycle!Activate,
         Lifecycle!Become
    <3> USE DEF StateActive, StateUnbonding, StateSlashed, StateWithdrawable, StateWithdrawn
    <3>3. CASE Lifecycle!Unbond(d) \/ Lifecycle!Expand(d)
      BY <3>3, SameNames DEF Lifecycle!Unbond, Lifecycle!Expand, Lifecycle!Become
    <3>4. CASE Lifecycle!Slash(d)
      BY <3>4, SameNames DEF Lifecycle!Slash, Lifecycle!Become, Lifecycle!IsSlashed
    <3>5. CASE Lifecycle!Unlock(d)
      BY <3>5, SameNames DEF Lifecycle!Unlock, Lifecycle!Become
    <3>6. CASE Lifecycle!Withdraw(d)
      BY <3>6, SameNames DEF Lifecycle!Withdraw, Lifecycle!Become, Lifecycle!IsSlashed
    <3> QED
      BY <3>1, <3>2, <3>3, <3>4, <3>5, <3>6
  <2>2. PICK s : Moves(d, s)
    BY <2>1
  <2>3. Slashed(e)
    BY <1>0, <1>1
  <2>4. storedSub'[e] = storedSub[e]
    <3>1. d = e => s = storedSub[e]
      BY <2>2, <2>3
    <3> HIDE DEF Slashed
    <3> QED
      BY <2>2, <3>1
  <2> QED
    BY <1>0, <2>4
<1> QED
  BY <1>2, <1>3

\* A slashing is never forgotten: no unbonding, unlock, withdrawal or replay replaces the
\* sub-state that tells which output was slashed (state.go, the qualified states).
THEOREM SlashingsStay == Spec => SlashingFinal
<1>1. IInv /\ [Next]_vars =>
         [\A d \in Delegations :
             SubState(d) \in SlashingSubStates => SubState(d)' = SubState(d)]_vars
  BY NextMapped, SlashingMapped DEF Mapped
<1> QED
  BY <1>1, Inductive, PTL DEF Spec, SlashingFinal

\* What Statistics takes of a delegation: whether it is, or was, ACTIVE.
PhaseOf(state) ==
    IF state = StateActive THEN "active"
    ELSE IF state \in {NoDocument, StatePending, StateVerified} THEN "before" ELSE "after"

Phase == [d \in Delegations |-> PhaseOf(docs[d].state)]

Activity == INSTANCE DelegationActivity WITH phase <- Phase

\* A lifecycle step takes at most one delegation to another phase, and never back.
LEMMA ActivityMapped == [Lifecycle!Next]_(Lifecycle!vars) => [Activity!Next]_Phase
<1> SUFFICES ASSUME [Lifecycle!Next]_(Lifecycle!vars) PROVE [Activity!Next]_Phase
  OBVIOUS
<1>1. CASE UNCHANGED Lifecycle!vars
  <2>1. \A d \in Delegations : docs'[d].state = docs[d].state
    <3>1. [d \in Delegations |-> docs'[d].state] = [d \in Delegations |-> docs[d].state]
      BY <1>1 DEF Lifecycle!vars
    <3> QED
      BY <3>1
  <2> QED
    BY <2>1 DEF Phase
<1>2. CASE Lifecycle!Next
  <2> DEFINE stored == [e \in Delegations |-> docs[e].state]
             Before == {NoDocument, StatePending, StateVerified}
             UpToActive == {StatePending, StateVerified, StateActive}
             Moves(d, state) ==
                 /\ stored' = [stored EXCEPT ![d] = state]
                 /\ \/ stored[d] \in Before /\ state \in UpToActive
                    \/ /\ stored[d] \notin Before
                       /\ state \in {StateUnbonding, StateExpanded, StateSlashed,
                                    StateWithdrawable, StateWithdrawn}
  <2>0. PICK d \in Delegations : \E state : Moves(d, state)
    <3>1. PICK d \in Delegations :
              \/ Lifecycle!Create(d) \/ Lifecycle!Verify(d) \/ Lifecycle!Activate(d)
              \/ Lifecycle!Unbond(d) \/ Lifecycle!Expand(d) \/ Lifecycle!Slash(d)
              \/ Lifecycle!Unlock(d) \/ Lifecycle!Withdraw(d)
      BY <1>2 DEF Lifecycle!Next
    <3>2. CASE Lifecycle!Create(d) \/ Lifecycle!Verify(d) \/ Lifecycle!Activate(d)
      BY <3>2, SameNames DEF Lifecycle!Create, Lifecycle!Verify, Lifecycle!Activate, Lifecycle!Become
    <3> USE DEF StatePending, StateVerified, StateActive, StateUnbonding, StateExpanded,
           StateSlashed, StateWithdrawable, StateWithdrawn, NoDocument
    <3>3. CASE Lifecycle!Unbond(d) \/ Lifecycle!Expand(d)
      BY <3>3, SameNames DEF Lifecycle!Unbond, Lifecycle!Expand, Lifecycle!Become
    <3>4. CASE Lifecycle!Slash(d)
      BY <3>4, SameNames DEF Lifecycle!Slash, Lifecycle!Become
    <3>5. CASE Lifecycle!Unlock(d) \/ Lifecycle!Withdraw(d)
      BY <3>5, SameNames DEF Lifecycle!Unlock, Lifecycle!Withdraw, Lifecycle!Become
    <3> QED
      BY <3>1, <3>2, <3>3, <3>4, <3>5
  <2>1. PICK state : Moves(d, state)
    BY <2>0
  <2>2. docs'[d].state = state /\ \A e \in Delegations : e # d => docs'[e].state = docs[e].state
    <3>1. stored'[d] = state /\ \A e \in Delegations : e # d => stored'[e] = stored[e]
      BY <2>1
    <3> QED
      BY <3>1
  <2>3. Phase' = [Phase EXCEPT ![d] = PhaseOf(state)]
    BY <2>2 DEF Phase
  <2>4. Phase[d] = PhaseOf(docs[d].state)
    BY DEF Phase
  <2>5. \/ PhaseOf(state) = PhaseOf(docs[d].state)
        \/ PhaseOf(docs[d].state) = "before" /\ PhaseOf(state) = "active"
        \/ PhaseOf(docs[d].state) = "active" /\ PhaseOf(state) = "after"
    BY <2>1 DEF PhaseOf, StatePending, StateVerified, StateActive, StateUnbonding, StateExpanded,
       StateSlashed, StateWithdrawable, StateWithdrawn, NoDocument
  <2> QED
    BY <2>3, <2>4, <2>5 DEF Activity!Next, Activity!Enter, Activity!Leave, Phase
<1> QED
  BY <1>1, <1>2

\* The delegations of the indexer behave as Statistics supposes: each is ACTIVE
\* during one interval, in spite of replays, races and restarts, or never.
THEOREM ActiveOnce == Spec => Activity!Spec
<1>1. Init => Activity!Init
  BY DEF Init, StoreInit, Activity!Init, Phase, PhaseOf, NoDocument, StateActive
<1>2. IInv /\ [Next]_vars => [Activity!Next]_Phase
  BY NextMapped, ActivityMapped DEF Mapped
<1> QED
  BY <1>1, <1>2, Inductive, PTL DEF Spec, Activity!Spec

--------------------------------------------------------------------------------
(***************************************************************************)
(* The processor, event by event, implements SequentialBlocks, which       *)
(* counts blocks: the ends of blocks among the first events of a chain.    *)
(***************************************************************************)

BlockEnds(chain, n) == {i \in DOMAIN chain : i <= n /\ chain[i].lastInBlock}

Blocks(chain, n) == Cardinality(BlockEnds(chain, n))

\* The blocks among some events of a chain can be counted, and are blocks of the chain.
LEMMA BlocksCounted ==
    ASSUME NEW chain \in Seq(Events), NEW n \in Nat
    PROVE  /\ IsFiniteSet(BlockEnds(chain, n))
           /\ Blocks(chain, n) \in Nat
           /\ Blocks(chain, n) <= Blocks(chain, Len(chain))
<1>1. ASSUME NEW m PROVE IsFiniteSet(BlockEnds(chain, m))
  <2>1. IsFiniteSet(1 .. Len(chain))
    BY FS_Interval
  <2>2. BlockEnds(chain, m) \in SUBSET (1 .. Len(chain))
    BY DEF BlockEnds
  <2> QED
    BY <2>1, <2>2, FS_Subset
<1>2. BlockEnds(chain, n) \in SUBSET BlockEnds(chain, Len(chain))
  BY DEF BlockEnds
<1> QED
  BY <1>1, <1>2, FS_Subset, FS_CardinalityType DEF Blocks

\* The next event of a chain adds a block if it is the last of one.
LEMMA NextBlock ==
    ASSUME NEW chain \in Seq(Events), NEW n \in Nat, n + 1 \in DOMAIN chain
    PROVE  \/ Blocks(chain, n + 1) = Blocks(chain, n)
           \/ /\ Blocks(chain, n + 1) = Blocks(chain, n) + 1
              /\ Blocks(chain, n) < Blocks(chain, Len(chain))
<1>1. CASE chain[n + 1].lastInBlock
  <2>1. BlockEnds(chain, n + 1) = BlockEnds(chain, n) \cup {n + 1}
    BY <1>1 DEF BlockEnds
  <2>2. n + 1 \notin BlockEnds(chain, n)
    BY DEF BlockEnds
  <2>3. Blocks(chain, n + 1) = Blocks(chain, n) + 1
    BY <2>1, <2>2, BlocksCounted, FS_AddElement DEF Blocks
  <2>4. /\ Blocks(chain, n) \in Nat /\ Blocks(chain, Len(chain)) \in Nat
        /\ Blocks(chain, n + 1) <= Blocks(chain, Len(chain))
    BY BlocksCounted
  <2> QED
    BY <2>3, <2>4
<1>2. CASE ~chain[n + 1].lastInBlock
  <2>1. BlockEnds(chain, n + 1) = BlockEnds(chain, n)
    BY <1>2 DEF BlockEnds
  <2> QED
    BY <2>1 DEF Blocks
<1> QED
  BY <1>1, <1>2

\* A new event adds at most one block, and none to the events that were there before.
LEMMA NewEvent ==
    ASSUME NEW chain \in Seq(Events), NEW event \in Events, NEW longer,
           longer = Append(chain, event)
    PROVE  /\ \A n \in 0 .. Len(chain) : Blocks(longer, n) = Blocks(chain, n)
           /\ \/ Blocks(longer, Len(longer)) = Blocks(chain, Len(chain))
              \/ Blocks(longer, Len(longer)) = Blocks(chain, Len(chain)) + 1
<1>1. /\ longer \in Seq(Events) /\ Len(longer) = Len(chain) + 1 /\ Len(chain) \in Nat
      /\ DOMAIN longer = 1 .. Len(chain) + 1 /\ DOMAIN chain = 1 .. Len(chain)
      /\ \A i \in DOMAIN chain : longer[i] = chain[i]
  OBVIOUS
<1>2. ASSUME NEW n \in 0 .. Len(chain)
      PROVE  BlockEnds(longer, n) = BlockEnds(chain, n)
  BY <1>1 DEF BlockEnds
<1>3. /\ Len(chain) + 1 \in DOMAIN longer
      /\ Blocks(longer, Len(chain)) = Blocks(chain, Len(chain))
  BY <1>1, <1>2 DEF Blocks
<1>4. \/ Blocks(longer, Len(longer)) = Blocks(chain, Len(chain))
      \/ Blocks(longer, Len(longer)) = Blocks(chain, Len(chain)) + 1
  BY <1>1, <1>3, NextBlock
<1> QED
  BY <1>2, <1>4 DEF Blocks

\* Babylon's chain changes by one event at a time, and only in steps that leave the processor
\* and the stored height alone.
LEMMA ChainMoves ==
    ASSUME TypeInv, [Next]_vars
    PROVE  \/ UNCHANGED bbnChain
           \/ /\ \E event \in Events : bbnChain' = Append(bbnChain, event)
              /\ UNCHANGED <<next, lastProcessed>>
<1>1. CASE ChainsStep
  <2>1. \/ UNCHANGED bbnChain
        \/ \E event : bbnChain' = Append(bbnChain, event)
    BY <1>1 DEF ChainsStep, ChainsNext, MineBlock, SpendOutput, EmitEvent, EmitCreated,
       EmitInclusionProofPending, EmitCovenantQuorum, EmitInclusionProofActive,
       EmitUnbondedEarly, EmitExpired
  <2>2. ASSUME NEW event, bbnChain' = Append(bbnChain, event)
        PROVE  event \in Events
    <3>1. bbnChain' \in Seq(Events) /\ bbnChain \in Seq(Events)
      BY NextTyped DEF TypeInv, TypeOK, ChainsTypeOK
    <3>2. Len(bbnChain) + 1 \in DOMAIN bbnChain' /\ bbnChain'[Len(bbnChain) + 1] = event
      BY <2>2, <3>1
    <3> QED
      BY <3>1, <3>2
  <2> QED
    BY <1>1, <2>1, <2>2 DEF ChainsStep, storeVars, procVars
<1>2. CASE ~ChainsStep
  BY <1>2 DEF Next, WatcherAction, ProcessorAction, CheckerAction, FindMissed, RegisterMissed,
     CallFails, Crash, GiveUp, StartProcess, vars, chainVars
<1> QED
  BY <1>1, <1>2

\* Every step of the indexer is a step of the sequential processing of blocks, or a stutter.
LEMMA NextSequential ==
    ASSUME EventInv, [Next]_vars
    PROVE  [Sequential!Next]_(Sequential!vars)
<1>1. /\ TypeInv /\ bbnChain \in Seq(Events) /\ Len(bbnChain) \in Nat
      /\ lastProcessed \in Nat /\ next \in Nat \ {0}
      /\ lastProcessed < next /\ next <= Len(bbnChain) + 1
  BY DEF EventInv, ProcessedInOrder, TypeInv, TypeOK, ChainsTypeOK, StoreTypeOK,
     ProcessorTypeOK
<1>2. /\ BlocksUpTo(Len(bbnChain)) = Blocks(bbnChain, Len(bbnChain))
      /\ BlocksUpTo(next - 1) = Blocks(bbnChain, next - 1)
      /\ BlocksUpTo(lastProcessed) = Blocks(bbnChain, lastProcessed)
      /\ BlocksUpTo(Len(bbnChain))' = Blocks(bbnChain', Len(bbnChain'))
      /\ BlocksUpTo(next - 1)' = Blocks(bbnChain', next' - 1)
      /\ BlocksUpTo(lastProcessed)' = Blocks(bbnChain', lastProcessed')
  BY DEF BlocksUpTo, Blocks, BlockEnds
<1>3. ASSUME NEW event \in Events, bbnChain' = Append(bbnChain, event),
             UNCHANGED <<next, lastProcessed>>
      PROVE  [Sequential!NewBlock]_(Sequential!vars)
  <2>1. /\ \A n \in 0 .. Len(bbnChain) : Blocks(bbnChain', n) = Blocks(bbnChain, n)
        /\ \/ Blocks(bbnChain', Len(bbnChain')) = Blocks(bbnChain, Len(bbnChain))
           \/ Blocks(bbnChain', Len(bbnChain')) = Blocks(bbnChain, Len(bbnChain)) + 1
    BY <1>1, <1>3, NewEvent
  <2>2. next - 1 \in 0 .. Len(bbnChain) /\ lastProcessed \in 0 .. Len(bbnChain)
    BY <1>1
  <2>3. /\ Blocks(bbnChain', next' - 1) = Blocks(bbnChain, next - 1)
        /\ Blocks(bbnChain', lastProcessed') = Blocks(bbnChain, lastProcessed)
    BY <1>3, <2>1, <2>2
  <2> QED
    BY <1>2, <2>1, <2>3 DEF Sequential!NewBlock, Sequential!vars
<1>4. CASE UNCHANGED bbnChain
  <2>1. CASE UNCHANGED <<next, lastProcessed>>
    BY <1>2, <1>4, <2>1 DEF Sequential!vars
  <2>2. CASE next \in DOMAIN bbnChain /\ next' = next + 1 /\ UNCHANGED lastProcessed
    <3>1. next - 1 \in Nat /\ (next - 1) + 1 = next /\ next' - 1 = next
      BY <1>1, <2>2
    <3>2. \/ Blocks(bbnChain, next) = Blocks(bbnChain, next - 1)
          \/ /\ Blocks(bbnChain, next) = Blocks(bbnChain, next - 1) + 1
             /\ Blocks(bbnChain, next - 1) < Blocks(bbnChain, Len(bbnChain))
      BY <1>1, <2>2, <3>1, NextBlock
    <3>3. [Sequential!ProcessBlock]_(Sequential!vars)
      BY <1>2, <1>4, <2>2, <3>1, <3>2 DEF Sequential!ProcessBlock, Sequential!vars
    <3> QED
      BY <3>3 DEF Sequential!Next
  <2>3. CASE lastProcessed' = next - 1 /\ UNCHANGED next
    <3>1. Sequential!StoreHeight
      BY <1>2, <1>4, <2>3 DEF Sequential!StoreHeight
    <3> QED
      BY <3>1 DEF Sequential!Next
  <2>4. CASE next' = lastProcessed + 1 /\ UNCHANGED lastProcessed
    <3>1. next' - 1 = lastProcessed
      BY <1>1, <2>4
    <3>2. Sequential!Restart
      BY <1>2, <1>4, <2>4, <3>1 DEF Sequential!Restart
    <3> QED
      BY <3>2 DEF Sequential!Next
  <2> QED
    BY <1>1, <2>1, <2>2, <2>3, <2>4, PositionMoves DEF Done
<1> QED
  BY <1>1, <1>3, <1>4, ChainMoves DEF Sequential!Next

\* Through retries, crashes, replays and a processor that gives up, blocks are processed one
\* by one in the order of their heights, after a restart from the one that follows the stored
\* height (processBlocksSequentially, bootstrap.go): DelegationIndexer and BlockPipeline
\* implement the same specification of it.
THEOREM BlockByBlock == Spec => ProcessesSequentially
<1>1. Init => Sequential!Init
  <2> SUFFICES ASSUME Init PROVE Sequential!Init
    OBVIOUS
  <2>1. \A n : {i \in DOMAIN bbnChain : i <= n /\ bbnChain[i].lastInBlock} = {}
    BY DEF Init, ChainsInit
  <2>2. \A n : BlocksUpTo(n) = 0
    BY <2>1, FS_EmptySet DEF BlocksUpTo
  <2> QED
    BY <2>2 DEF Sequential!Init
<1> QED
  BY <1>1, NextSequential, EventsApplied, PTL DEF Spec, Sequential!Spec, ProcessesSequentially
================================================================================
