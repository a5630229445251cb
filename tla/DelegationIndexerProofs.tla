------------------------ MODULE DelegationIndexerProofs ------------------------
(***************************************************************************)
(* Type correctness of the indexer for every value of the constants: one   *)
(* lemma for each helper that builds a value, one for each goroutine, and  *)
(* the step of the whole system from them.  Then the order of the events,  *)
(* the position of the processor and what its handlers leave behind: no    *)
(* event is skipped.                                                       *)
(***************************************************************************)
EXTENDS DelegationInvariants, TLAPS

\* A conditional update of a delegation document keeps the documents in their type:
\* UpdateBTCDelegationState stores a known state and a known or old sub-state.
LEMMA UpdateKeepsType ==
    ASSUME docs \in [Delegations -> Documents],
           NEW d \in Delegations, NEW qualified, NEW newState, NEW subState,
           NEW proof \in BOOLEAN,
           subState \in DelegationSubStates \cup {NoSubState},
           InQualifiedState(d, qualified) => newState \in DelegationStates,
           UpdateBTCDelegationState(d, qualified, newState, subState, proof)
    PROVE  docs' \in [Delegations -> Documents]
<1>1. CASE InQualifiedState(d, qualified)
  <2> DEFINE new == [state |-> newState,
                     subState |-> IF subState = NoSubState THEN docs[d].subState ELSE subState,
                     inclusionProof |-> docs[d].inclusionProof \/ proof]
  <2>1. new \in Documents
    BY <1>1 DEF Documents
  <2>2. docs' = [docs EXCEPT ![d] = new]
    BY <1>1 DEF UpdateBTCDelegationState
  <2> QED
    BY <2>1, <2>2
<1>2. CASE ~InQualifiedState(d, qualified)
  BY <1>2 DEF UpdateBTCDelegationState
<1> QED
  BY <1>1, <1>2

\* DeleteExpiredDelegation removes one document, so the rest is still a sequence of
\* timelock documents.
LEMMA DeleteKeepsType ==
    ASSUME timelocks \in Seq(TimeLockDocuments), NEW d, DeleteExpiredDelegation(d)
    PROVE  timelocks' \in Seq(TimeLockDocuments)
<1>1. CASE TimeLocksOf(d) = {}
  BY <1>1 DEF DeleteExpiredDelegation
<1>2. CASE TimeLocksOf(d) # {}
  <2>1. PICK i \in TimeLocksOf(d) :
           timelocks' = [j \in 1 .. Len(timelocks) - 1 |->
                            IF j < i THEN timelocks[j] ELSE timelocks[j + 1]]
    BY <1>2 DEF DeleteExpiredDelegation
  <2>2. Len(timelocks) \in Nat /\ Len(timelocks) - 1 \in Nat
    BY <1>2 DEF TimeLocksOf
  <2>3. \A j \in 1 .. Len(timelocks) - 1 :
           timelocks[j] \in TimeLockDocuments /\ timelocks[j + 1] \in TimeLockDocuments
    BY <2>2
  <2>4. timelocks' \in [1 .. Len(timelocks) - 1 -> TimeLockDocuments]
    BY <2>1, <2>3
  <2> QED
    BY <2>2, <2>4
<1> QED
  BY <1>1, <1>2

\* SaveNewTimeLockExpire appends a document of the right type.
LEMMA SaveTimeLockKeepsType ==
    ASSUME timelocks \in Seq(TimeLockDocuments),
           NEW d \in Delegations, NEW height \in Nat, NEW subState \in DelegationSubStates,
           SaveNewTimeLockExpire(d, height, subState)
    PROVE  timelocks' \in Seq(TimeLockDocuments)
BY DEF SaveNewTimeLockExpire, TimeLockDocuments

\* A push to a consumer queue keeps the capped counters of messages in their range.
LEMMA PushKeepsType ==
    ASSUME pushed \in [Delegations -> [MessageKinds -> 0 .. MaxMessages]],
           NEW d \in Delegations, NEW kind \in MessageKinds, Push(kind, d)
    PROVE  pushed' \in [Delegations -> [MessageKinds -> 0 .. MaxMessages]]
BY MaxMessagesAssumption DEF Push

\* Registering a spend notification, successfully or not, leaves every watcher
\* goroutine at a step it knows.
LEMMA StartedKeepsType ==
    ASSUME NEW watchers \in [Watchers -> WatcherSteps], NEW d, NEW output,
           NEW new \in Started(watchers, d, output)
    PROVE  new \in [Watchers -> WatcherSteps]
BY DEF Started, WatcherSteps

\* The heights at which outputs unlock are natural numbers, which is what the
\* timelock documents store as expire_height.
LEMMA HeightsTyped ==
    ASSUME ChainsTypeOK, NEW d \in Delegations, NEW o \in Outputs
    PROVE  /\ SpendPath(d, o) \in AllPaths \cup {"unspent"}
           /\ SpendHeight(d, o) \in Nat
           /\ EndHeight(d) \in Nat
<1>1. \A e \in Delegations, p \in Outputs :
         /\ SpendPath(e, p) \in AllPaths \cup {"unspent"}
         /\ SpendHeight(e, p) \in Nat
  BY DEF ChainsTypeOK, Spends, SpendPath, SpendHeight
<1>2. IsExpansion(d) => Previous[d] \in Delegations
  BY DelegationsAssumption DEF IsExpansion
<1>3. StartHeight(d) \in Nat
  BY <1>1, <1>2 DEF StartHeight, Outputs
<1> QED
  BY <1>1, <1>3, HeightsAssumption DEF EndHeight

\* A new Bitcoin block, spend or Babylon event keeps the chains in their types.
LEMMA ChainsTyped == ChainsTypeOK /\ ChainsNext => ChainsTypeOK'
<1> SUFFICES ASSUME ChainsTypeOK, ChainsNext PROVE ChainsTypeOK'
  OBVIOUS
<1>1. CASE MineBlock
  BY <1>1 DEF MineBlock, ChainsTypeOK
<1>2. ASSUME NEW d \in Delegations, NEW o \in Outputs, NEW p \in SpendPaths,
             SpendOutput(d, o, p)
      PROVE  ChainsTypeOK'
  <2>1. [path |-> p, height |-> btcTip] \in Spends
    BY DelegationsAssumption DEF Spends, ChainsTypeOK
  <2> QED
    BY <1>2, <2>1 DEF SpendOutput, ChainsTypeOK
<1>3. ASSUME NEW d \in Delegations, NEW type \in EventTypes,
             NEW newState \in {"PENDING", "VERIFIED", "ACTIVE", "UNBONDED", "EXPIRED"},
             EmitEvent(type, d, newState)
      PROVE  ChainsTypeOK'
  BY <1>3, DelegationsAssumption DEF EmitEvent, ChainsTypeOK, Events
<1>4. ASSUME NEW d \in Delegations,
             \/ EmitCreated(d)
             \/ EmitInclusionProofPending(d)
             \/ EmitCovenantQuorum(d)
             \/ EmitInclusionProofActive(d)
             \/ EmitUnbondedEarly(d)
             \/ EmitExpired(d)
      PROVE  ChainsTypeOK'
  BY <1>3, <1>4 DEF EmitCreated, EmitInclusionProofPending, EmitCovenantQuorum,
        EmitInclusionProofActive, EmitUnbondedEarly, EmitExpired, EventTypes
<1> QED
  BY <1>1, <1>2, <1>4 DEF ChainsNext

\* Babylon only appends events: those the processor has not reached stay where they are.
LEMMA ChainGrows ==
    ASSUME ChainsTypeOK, ChainsNext
    PROVE  \A n \in DOMAIN bbnChain : n \in DOMAIN bbnChain' /\ bbnChain'[n] = bbnChain[n]
<1>1. \/ UNCHANGED bbnChain
      \/ \E e : bbnChain' = Append(bbnChain, e)
  BY DEF ChainsNext, MineBlock, SpendOutput, EmitEvent, EmitCreated,
         EmitInclusionProofPending, EmitCovenantQuorum, EmitInclusionProofActive,
         EmitUnbondedEarly, EmitExpired
<1>2. ASSUME NEW e, bbnChain' = Append(bbnChain, e)
      PROVE  \A n \in DOMAIN bbnChain : n \in DOMAIN bbnChain' /\ bbnChain'[n] = bbnChain[n]
  BY <1>2 DEF ChainsTypeOK
<1> QED
  BY <1>1, <1>2

\* A step of the chains keeps the type invariant, as the indexer does not move.
LEMMA ChainsStepTyped == TypeInv /\ ChainsStep => TypeInv'
BY ChainsTyped, ChainGrows
   DEF TypeInv, TypeOK, PositionInv, ProcessorBusy, ChainsStep, storeVars, procVars,
       checkerVars, serviceVars, StoreTypeOK, WatcherTypeOK, ProcessorTypeOK, CheckerTypeOK

\* Every step of a spend watcher (watch_btc_events.go) keeps the type invariant.
LEMMA WatcherTyped ==
    ASSUME ChainsTypeOK, StoreTypeOK, WatcherTypeOK,
           NEW d \in Delegations, NEW o \in Outputs, NEW i \in WatcherIds,
           WatcherStep(d, o, i)
    PROVE  StoreTypeOK' /\ WatcherTypeOK'
<1> DEFINE w == <<d, o, i>>
<1>0. w \in Watchers
  BY DEF Watchers
<1>1. ASSUME NEW s \in WatcherSteps, Goto(w, s)
      PROVE  WatcherTypeOK'
  BY <1>1 DEF Goto, WatcherTypeOK
<1>2. [watcher EXCEPT ![w] = "none"] \in [Watchers -> WatcherSteps]
  BY DEF WatcherTypeOK, WatcherSteps
<1>3. SpendHeight(d, o) + UnbondingTime \in Nat
  BY HeightsTyped, HeightsAssumption
<1>4. CASE RegisterSpend(d, o, i)
  BY <1>1, <1>4 DEF RegisterSpend, storeVars, StoreTypeOK, WatcherSteps
<1>5. CASE ReceiveSpend(d, o, i)
  BY <1>1, <1>5 DEF ReceiveSpend, FirstStep, storeVars, StoreTypeOK, WatcherSteps
<1>6. CASE SetUnbonding(d, o, i)
  <2>1. docs' \in [Delegations -> Documents]
    BY <1>6, UpdateKeepsType DEF SetUnbonding, StoreTypeOK, DelegationSubStates,
          UnbondingSubStates, DelegationStates
  <2> QED
    BY <1>1, <1>6, <2>1 DEF SetUnbonding, StoreTypeOK, WatcherSteps
<1>7. CASE EmitUnbonding(d, o, i)
  BY <1>1, <1>7, PushKeepsType DEF EmitUnbonding, emitUnbondingDelegationEvent,
        MessageKinds, StoreTypeOK, WatcherSteps
<1>8. CASE SaveUnbonding(d, o, i)
  <2>1. timelocks' \in Seq(TimeLockDocuments)
    BY <1>3, <1>8, SaveTimeLockKeepsType DEF SaveUnbonding, StoreTypeOK,
          DelegationSubStates, UnbondingSubStates
  <2> QED
    BY <1>2, <1>8, <2>1, StartedKeepsType DEF SaveUnbonding, StoreTypeOK, WatcherTypeOK
<1>9. CASE CheckWithdrawal(d, o, i)
  BY <1>1, <1>9 DEF CheckWithdrawal, storeVars, StoreTypeOK, WatcherSteps
<1>10. CASE SetWithdrawn(d, o, i)
  <2>1. docs' \in [Delegations -> Documents]
    BY <1>10, UpdateKeepsType DEF SetWithdrawn, SubStateOfWithdrawal, SubStateOfSlashing,
          Outputs, StoreTypeOK, DelegationSubStates, UnbondingSubStates, SlashingSubStates,
          DelegationStates
  <2> QED
    BY <1>1, <1>10, <2>1 DEF SetWithdrawn, StoreTypeOK, WatcherSteps
<1>11. CASE EmitSlashing(d, o, i)
  BY <1>1, <1>11, PushKeepsType DEF EmitSlashing, emitUnbondingDelegationEvent,
        MessageKinds, StoreTypeOK, WatcherSteps
<1>12. CASE SetSlashed(d, o, i)
  <2>1. docs' \in [Delegations -> Documents]
    BY <1>12, UpdateKeepsType DEF SetSlashed, SubStateOfSlashing, StoreTypeOK,
          DelegationSubStates, SlashingSubStates, DelegationStates
  <2> QED
    BY <1>1, <1>12, <2>1 DEF SetSlashed, StoreTypeOK, WatcherSteps
<1>13. CASE SaveSlashing(d, o, i)
  <2>1. timelocks' \in Seq(TimeLockDocuments)
    BY <1>3, <1>13, SaveTimeLockKeepsType DEF SaveSlashing, SubStateOfSlashing, StoreTypeOK,
          DelegationSubStates, SlashingSubStates
  <2> QED
    BY <1>2, <1>13, <2>1, StartedKeepsType DEF SaveSlashing, StoreTypeOK, WatcherTypeOK
<1> QED
  BY <1>4, <1>5, <1>6, <1>7, <1>8, <1>9, <1>10, <1>11, <1>12, <1>13 DEF WatcherStep

\* Events of a busy processor are events of the chain.
LEMMA EventTyped ==
    ASSUME TypeInv, step # "saveHeight", step # "failed",
           BlockAvailable \/ ProcessorBusy
    PROVE  /\ next \in DOMAIN bbnChain
           /\ Event \in Events
<1>1. next \in DOMAIN bbnChain
  <2>1. CASE ProcessorBusy
    BY <2>1 DEF TypeInv, PositionInv
  <2>2. CASE BlockAvailable
    BY <2>2 DEF BlockAvailable, TypeInv, TypeOK, ChainsTypeOK, ProcessorTypeOK
  <2> QED
    BY <2>1, <2>2
<1> QED
  BY <1>1 DEF Event, TypeInv, TypeOK, ChainsTypeOK

\* Continuing a handler, finishing it or retrying it keeps the processor at a known
\* step and its position inside the chain (events.go, processEvent).
LEMMA ControlTyped ==
    ASSUME TypeInv, UNCHANGED bbnChain, step # "failed"
    PROVE  /\ Done => ProcessorTypeOK' /\ PositionInv'
           /\ Retry => ProcessorTypeOK' /\ PositionInv'
           /\ next \in DOMAIN bbnChain =>
                 \A s \in ProcessorSteps \ {"failed"} :
                    Continue(s) => ProcessorTypeOK' /\ PositionInv'
<1> USE DEF TypeInv, TypeOK, ProcessorTypeOK, PositionInv, ProcessorBusy, ProcessorSteps
<1>1. Done => ProcessorTypeOK' /\ PositionInv'
  BY MaxAttemptsAssumption DEF Done
<1>2. Retry => ProcessorTypeOK' /\ PositionInv'
  BY MaxAttemptsAssumption DEF Retry
<1>3. ASSUME NEW s \in ProcessorSteps \ {"failed"}, Continue(s), next \in DOMAIN bbnChain
      PROVE  ProcessorTypeOK' /\ PositionInv'
  BY <1>3 DEF Continue
<1> QED
  BY <1>1, <1>2, <1>3

\* The validation of an event (events.go, validate...) keeps the processor typed.
LEMMA ValidationTyped ==
    ASSUME TypeInv, UNCHANGED bbnChain, NEW type, NEW shouldProcess,
           NEW firstStep \in ProcessorSteps \ {"failed"},
           ValidateEvent(type, shouldProcess, firstStep)
    PROVE  StoreTypeOK' /\ WatcherTypeOK' /\ ProcessorTypeOK' /\ PositionInv'
<1>1. StoreTypeOK' /\ WatcherTypeOK'
  BY DEF TypeInv, TypeOK, StoreTypeOK, WatcherTypeOK, ValidateEvent, storeVars
<1>2. step = "validate" /\ next \in DOMAIN bbnChain
  BY EventTyped DEF ValidateEvent, Processing
<1>3. Done \/ Retry \/ Continue(firstStep)
  BY DEF ValidateEvent
<1> QED
  BY <1>1, <1>2, <1>3, ControlTyped

\* The last call of each handler of delegation.go, the update of the document, keeps
\* the type of the documents and of the processor.
LEMMA UpdateStateTyped ==
    ASSUME TypeInv, UNCHANGED bbnChain, NEW type, NEW qualified, NEW newState,
           NEW subState \in DelegationSubStates \cup {NoSubState}, NEW proof \in BOOLEAN,
           qualified # {} => newState \in DelegationStates,
           UpdateState(type, qualified, newState, subState, proof)
    PROVE  StoreTypeOK' /\ WatcherTypeOK' /\ ProcessorTypeOK' /\ PositionInv'
<1>1. step = "update" /\ Event.delegation \in Delegations
  BY EventTyped DEF UpdateState, ProcessorBusy, Events
<1>2. docs' \in [Delegations -> Documents]
  BY <1>1, UpdateKeepsType DEF UpdateState, InQualifiedState, TypeInv, TypeOK, StoreTypeOK
<1>3. StoreTypeOK' /\ WatcherTypeOK'
  BY <1>2 DEF UpdateState, TypeInv, TypeOK, StoreTypeOK, WatcherTypeOK
<1> QED
  BY <1>1, <1>3, ControlTyped DEF UpdateState

\* Every step of the block processor keeps the type invariant.
LEMMA ProcessorTyped ==
    ASSUME TypeInv, UNCHANGED chainVars, ProcessorStep
    PROVE  StoreTypeOK' /\ WatcherTypeOK' /\ ProcessorTypeOK' /\ PositionInv'
<1> DEFINE Goal == StoreTypeOK' /\ WatcherTypeOK' /\ ProcessorTypeOK' /\ PositionInv'
           d == Event.delegation
<1> USE DEF chainVars
<1>0. /\ ActivatesOr("update") \in ProcessorSteps \ {"failed"}
      /\ "emitUnbonding" \in ProcessorSteps \ {"failed"}
  BY DEF ActivatesOr, ProcessorSteps
<1>1. CASE processNewBTCDelegationEvent
  <2>1. step = "validate" /\ d \in Delegations
    BY <1>1, EventTyped DEF processNewBTCDelegationEvent, Processing, Events
  <2>2. docs' \in [Delegations -> Documents]
    <3>1. [docs[d] EXCEPT !.state = StatePending] \in Documents
      BY <2>1 DEF TypeInv, TypeOK, StoreTypeOK, Documents, DelegationStates
    <3> QED
      BY <1>1, <2>1, <3>1 DEF processNewBTCDelegationEvent, SaveNewBTCDelegation, TypeInv,
            TypeOK, StoreTypeOK
  <2> QED
    BY <1>1, <2>1, <2>2, ControlTyped DEF processNewBTCDelegationEvent, TypeInv, TypeOK,
          StoreTypeOK, WatcherTypeOK
<1>2. CASE validateCovenantQuorumReachedEvent
  BY <1>0, <1>2, ValidationTyped DEF validateCovenantQuorumReachedEvent
<1>3. CASE validateBTCDelegationInclusionProofReceivedEvent
  BY <1>0, <1>3, ValidationTyped DEF validateBTCDelegationInclusionProofReceivedEvent
<1>4. CASE validateBTCDelegationUnbondedEarlyEvent
  BY <1>0, <1>4, ValidationTyped DEF validateBTCDelegationUnbondedEarlyEvent
<1>5. CASE validateBTCDelegationExpiredEvent
  BY <1>0, <1>5, ValidationTyped DEF validateBTCDelegationExpiredEvent
<1>6. step = "emitActive" \/ step = "register" \/ step = "emitUnbonding" \/ step = "saveTimeLock"
      => /\ next \in DOMAIN bbnChain
         /\ d \in Delegations
         /\ \A s \in {"register", "update", "saveTimeLock"} :
               Continue(s) => ProcessorTypeOK' /\ PositionInv'
  BY EventTyped, ControlTyped DEF ProcessorBusy, Events, ProcessorSteps
<1>7. CASE EmitActive
  BY <1>6, <1>7, PushKeepsType DEF EmitActive, emitActiveDelegationEvent, MessageKinds,
        TypeInv, TypeOK, StoreTypeOK, WatcherTypeOK
<1>8. CASE RegisterWatcher
  BY <1>6, <1>8, StartedKeepsType DEF RegisterWatcher, registerStakingSpendNotification,
        storeVars, TypeInv, TypeOK, StoreTypeOK, WatcherTypeOK
<1>9. CASE EmitUnbondingMessage
  BY <1>6, <1>9, PushKeepsType DEF EmitUnbondingMessage, emitUnbondingDelegationEvent,
        MessageKinds, TypeInv, TypeOK, StoreTypeOK, WatcherTypeOK
<1>10. CASE SaveTimeLock
  <2>1. TimeLockHeight(d) \in Nat /\ UnbondingSubState \in DelegationSubStates
    BY <1>6, <1>10, HeightsTyped, HeightsAssumption
       DEF SaveTimeLock, TimeLockHeight, UnbondingSubState, Outputs, DelegationSubStates,
           UnbondingSubStates, TypeInv, TypeOK
  <2> QED
    BY <1>6, <1>10, <2>1, SaveTimeLockKeepsType
       DEF SaveTimeLock, TypeInv, TypeOK, StoreTypeOK, WatcherTypeOK
<1>11. /\ QualifiedStatesForCovenantQuorumReached(Event.newState) # {}
             => Event.newState \in DelegationStates
       /\ QualifiedStatesForInclusionProofReceived(Event.newState) # {}
             => Event.newState \in DelegationStates
  BY DEF QualifiedStatesForCovenantQuorumReached, QualifiedStatesForInclusionProofReceived,
         DelegationStates, StateVerified, StateActive, StatePending
<1>12. CASE processCovenantQuorumReachedEvent
  BY <1>11, <1>12, UpdateStateTyped DEF processCovenantQuorumReachedEvent
<1>13. CASE processBTCDelegationInclusionProofReceivedEvent
  BY <1>11, <1>13, UpdateStateTyped DEF processBTCDelegationInclusionProofReceivedEvent
<1>14. CASE processBTCDelegationUnbondedEarlyEvent
  BY <1>14, UpdateStateTyped DEF processBTCDelegationUnbondedEarlyEvent, DelegationStates,
        DelegationSubStates, UnbondingSubStates
<1>15. CASE processBTCDelegationExpiredEvent
  BY <1>15, UpdateStateTyped DEF processBTCDelegationExpiredEvent, DelegationStates,
        DelegationSubStates, UnbondingSubStates
<1>16. CASE SaveHeight
  BY <1>16 DEF SaveHeight, SavedHeight, Continue, TypeInv, TypeOK, StoreTypeOK, WatcherTypeOK,
        ProcessorTypeOK, ProcessorSteps, PositionInv, ProcessorBusy
<1> QED
  BY <1>1, <1>2, <1>3, <1>4, <1>5, <1>7, <1>8, <1>9, <1>10, <1>12, <1>13, <1>14, <1>15, <1>16
     DEF ProcessorStep

\* Every step of the expiry checker (expiry_checker.go) keeps the type invariant.
LEMMA CheckerTyped ==
    ASSUME ChainsTypeOK, StoreTypeOK, CheckerTypeOK, CheckerStep
    PROVE  StoreTypeOK' /\ CheckerTypeOK'
<1>1. CASE Poll
  <2>1. PICK n \in 1 .. ExpiredDelegationsLimit :
          \E pick \in [1 .. n -> ExpiredTimeLocks(btcTip)] :
             found' = [k \in 1 .. n |-> timelocks[pick[k]]]
    BY <1>1 DEF Poll
  <2>2. PICK pick \in [1 .. n -> ExpiredTimeLocks(btcTip)] :
          found' = [k \in 1 .. n |-> timelocks[pick[k]]]
    BY <2>1
  <2>3. \A k \in 1 .. n : timelocks[pick[k]] \in TimeLockDocuments
    BY DEF ExpiredTimeLocks, StoreTypeOK
  <2>4. n \in Nat \ {0}
    BY LimitAssumption
  <2>5. found' \in [1 .. n -> TimeLockDocuments] /\ found' # <<>>
    BY <2>2, <2>3, <2>4
  <2>6. found' \in Seq(TimeLockDocuments)
    BY <2>4, <2>5
  <2> QED
    BY <1>1, <2>5, <2>6 DEF Poll, storeVars, StoreTypeOK, CheckerTypeOK
<1>2. CASE SetWithdrawable
  <2>1. Head(found) \in TimeLockDocuments
    BY <1>2 DEF SetWithdrawable, CheckerTypeOK
  <2>2. docs' \in [Delegations -> Documents]
    BY <1>2, <2>1, UpdateKeepsType DEF SetWithdrawable, TimeLockDocuments, DelegationStates,
          StoreTypeOK
  <2> QED
    BY <1>2, <2>2 DEF SetWithdrawable, StoreTypeOK, CheckerTypeOK
<1>3. CASE DeleteTimeLock
  <2>1. timelocks' \in Seq(TimeLockDocuments)
    BY <1>3, DeleteKeepsType DEF DeleteTimeLock, StoreTypeOK
  <2>2. found # <<>> /\ Tail(found) \in Seq(TimeLockDocuments)
    BY <1>3 DEF DeleteTimeLock, CheckerTypeOK
  <2>3. ASSUME NEW rest \in Seq(TimeLockDocuments), NextDocument(rest)
        PROVE  CheckerTypeOK'
    BY <2>3 DEF NextDocument, CheckerTypeOK
  <2>4. PICK rest \in Seq(TimeLockDocuments) : NextDocument(rest)
    <3>1. <<>> \in Seq(TimeLockDocuments)
      OBVIOUS
    <3> QED
      BY <1>3, <2>2, <3>1 DEF DeleteTimeLock
  <2>5. CheckerTypeOK'
    BY <2>3, <2>4
  <2> QED
    BY <1>3, <2>1, <2>5 DEF DeleteTimeLock, StoreTypeOK
<1> QED
  BY <1>1, <1>2, <1>3 DEF CheckerStep

\* A new process starts with typed goroutines and resumes at the stored height
\* (service.go, StartIndexerSync).
LEMMA StartProcessTyped == TypeInv /\ StartProcess => /\ ChainsTypeOK'
                                                     /\ StoreTypeOK'
                                                     /\ WatcherTypeOK'
                                                     /\ ProcessorTypeOK'
                                                     /\ CheckerTypeOK'
                                                     /\ PositionInv'
                                                     /\ resubscribed' = FALSE
                                                     /\ missed' = {}
BY MaxAttemptsAssumption
   DEF TypeInv, TypeOK, StartProcess, ResumePosition, chainVars, storeVars, ChainsTypeOK,
       StoreTypeOK, WatcherTypeOK, WatcherSteps, ProcessorTypeOK, ProcessorSteps,
       CheckerTypeOK, PositionInv, ProcessorBusy

\* A failing database, queue or RPC call keeps the type invariant.
LEMMA FailureTyped == TypeInv /\ CallFails => TypeInv'
<1> SUFFICES ASSUME TypeInv, CallFails PROVE TypeInv'
  OBVIOUS
<1>1. UNCHANGED <<chainVars, resubscribed, missed, crashes>> /\ faults' \in 0 .. MaxFaults
  BY FaultsAssumption DEF CallFails, TypeInv, TypeOK
<1>2. StoreTypeOK'
  BY DEF CallFails, WatcherFails, ProcessorFails, CheckerFails, storeVars, TypeInv, TypeOK,
         StoreTypeOK
<1>3. WatcherTypeOK'
  BY DEF CallFails, WatcherFails, Goto, ProcessorFails, CheckerFails, TypeInv, TypeOK,
         WatcherTypeOK, WatcherSteps, Watchers
<1>4. ProcessorTypeOK' /\ PositionInv'
  <2>1. CASE ProcessorFails
    <3>1. Continue("failed") => ProcessorTypeOK' /\ PositionInv'
      BY <1>1 DEF Continue, TypeInv, TypeOK, ProcessorTypeOK, ProcessorSteps, PositionInv,
             ProcessorBusy
    <3> QED
      BY <1>1, <2>1, <3>1, ControlTyped DEF ProcessorFails, chainVars
  <2>2. CASE UNCHANGED procVars
    BY <1>1, <2>2 DEF procVars, chainVars, TypeInv, TypeOK, ProcessorTypeOK, PositionInv,
          ProcessorBusy
  <2> QED
    BY <2>1, <2>2 DEF CallFails
<1>5. CheckerTypeOK'
  <2>1. CASE CheckerFails
    BY <2>1 DEF CheckerFails, NextDocument, CheckerTypeOK
  <2>2. CASE UNCHANGED checkerVars
    BY <2>2 DEF checkerVars, TypeInv, TypeOK, CheckerTypeOK
  <2> QED
    BY <2>1, <2>2 DEF CallFails
<1> QED
  BY <1>1, <1>2, <1>3, <1>4, <1>5 DEF TypeInv, TypeOK, chainVars, ChainsTypeOK

\* Every action keeps the type invariant: the values of the documents, of the
\* timelock documents and of the goroutines' positions stay in their sets.
LEMMA NextTyped == TypeInv /\ [Next]_vars => TypeInv'
<1> SUFFICES ASSUME TypeInv, [Next]_vars PROVE TypeInv'
  OBVIOUS
<1>1. CASE ChainsStep
  BY <1>1, ChainsStepTyped
<1>2. ASSUME NEW d \in Delegations, NEW o \in Outputs, NEW i \in WatcherIds,
             WatcherAction(d, o, i)
      PROVE  TypeInv'
  BY <1>2, WatcherTyped DEF WatcherAction, TypeInv, TypeOK, chainVars, procVars, checkerVars,
        serviceVars, ChainsTypeOK, ProcessorTypeOK, CheckerTypeOK, PositionInv, ProcessorBusy
<1>3. CASE ProcessorAction
  BY <1>3, ProcessorTyped DEF ProcessorAction, TypeInv, TypeOK, chainVars, checkerVars,
        serviceVars, ChainsTypeOK, CheckerTypeOK
<1>4. CASE CheckerAction
  BY <1>4, CheckerTyped DEF CheckerAction, TypeInv, TypeOK, chainVars, procVars, serviceVars,
        ChainsTypeOK, WatcherTypeOK, ProcessorTypeOK, PositionInv, ProcessorBusy
<1>5. CASE FindMissed
  BY <1>5 DEF FindMissed, TypeInv, TypeOK, chainVars, storeVars, procVars, checkerVars,
        ChainsTypeOK, StoreTypeOK, WatcherTypeOK, ProcessorTypeOK, CheckerTypeOK,
        PositionInv, ProcessorBusy
<1>6. ASSUME NEW d \in Delegations, RegisterMissed(d)
      PROVE  TypeInv'
  <2>1. WatcherTypeOK'
    BY <1>6, StartedKeepsType DEF RegisterMissed, registerStakingSpendNotification, TypeInv,
          TypeOK, WatcherTypeOK
  <2> QED
    BY <1>6, <2>1 DEF RegisterMissed, TypeInv, TypeOK, chainVars, storeVars, procVars,
          checkerVars, ChainsTypeOK, StoreTypeOK, ProcessorTypeOK, CheckerTypeOK,
          PositionInv, ProcessorBusy
<1>7. CASE CallFails
  BY <1>7, FailureTyped
<1>8. CASE Crash
  <2>1. StartProcess /\ crashes' \in 0 .. MaxCrashes
    BY <1>8, FaultsAssumption DEF Crash, TypeInv, TypeOK
  <2> QED
    BY <2>1, StartProcessTyped DEF StartProcess, TypeInv, TypeOK
<1>9. CASE GiveUp
  BY <1>9, StartProcessTyped DEF GiveUp, StartProcess, TypeInv, TypeOK
<1>10. CASE UNCHANGED vars
  BY <1>10 DEF vars, TypeInv, TypeOK, chainVars, storeVars, procVars, checkerVars, serviceVars,
        ChainsTypeOK, StoreTypeOK, WatcherTypeOK, ProcessorTypeOK, CheckerTypeOK,
        PositionInv, ProcessorBusy
<1> QED
  BY <1>1, <1>2, <1>3, <1>4, <1>5, <1>6, <1>7, <1>8, <1>9, <1>10 DEF Next

\* The type invariant holds when the indexer starts for the first time.
LEMMA InitTyped == Init => TypeInv
<1> SUFFICES ASSUME Init PROVE TypeInv
  OBVIOUS
<1>1. ChainsTypeOK
  BY DEF Init, ChainsInit, ChainsTypeOK, Spends, Unspent
<1>2. StoreTypeOK
  BY MaxMessagesAssumption DEF Init, StoreInit, StoreTypeOK, Documents
<1>3. WatcherTypeOK /\ ProcessorTypeOK /\ CheckerTypeOK /\ PositionInv
  BY MaxAttemptsAssumption DEF Init, WatcherInit, ProcessorInit, CheckerInit, WatcherTypeOK,
     WatcherSteps, ProcessorTypeOK, ProcessorSteps, CheckerTypeOK, PositionInv, ProcessorBusy
<1>4. crashes \in 0 .. MaxCrashes /\ faults \in 0 .. MaxFaults
  BY FaultsAssumption DEF Init
<1> QED
  BY <1>1, <1>2, <1>3, <1>4 DEF Init, TypeInv, TypeOK

\* The strengthened type invariant, with the position of a processor that is inside a
\* handler: it never looks beyond the events that Babylon has emitted.
THEOREM TypeCorrect == Spec => []TypeInv
BY InitTyped, NextTyped, PTL DEF Spec

\* The stored documents, the timelock documents and the positions of all goroutines
\* keep their types in every behaviour of the service.
THEOREM Typed == Spec => []TypeOK
BY TypeCorrect, PTL DEF TypeInv

--------------------------------------------------------------------------------
(***************************************************************************)
(* Events and documents.  First what a step may do to one document, to the *)
(* positions, and to the chain; then that an event, once processed, keeps  *)
(* its effect, and that the processor does not pass an event before.       *)
(***************************************************************************)

\* The states that a delegation which became active may leave, and those it may then reach.
Changeable == {StateActive, StateUnbonding, StateWithdrawable, StateSlashed}
Later == {StateUnbonding, StateWithdrawable, StateSlashed, StateWithdrawn, StateExpanded}

\* The handler of an event of d writes its document.
Writes(type, d) == step = "update" /\ Event.type = type /\ Event.delegation = d

\* What a step may do to the state and the inclusion proof of a delegation.
Changed(d) ==
    \/ docs'[d] = docs[d]
    \/ /\ State(d) = NoDocument
       /\ State(d)' = StatePending
       /\ docs'[d].inclusionProof = docs[d].inclusionProof
    \/ /\ Writes("CovenantQuorum", d)
       /\ State(d) = StatePending
       /\ State(d)' = Event.newState
       /\ Event.newState \in {StateVerified, StateActive}
       /\ docs'[d].inclusionProof = docs[d].inclusionProof
    \/ /\ Writes("InclusionProof", d)
       /\ \/ State(d) = StateVerified /\ Event.newState = StateActive
          \/ State(d) = StatePending /\ Event.newState = StatePending
       /\ State(d)' = Event.newState
       /\ docs'[d].inclusionProof
    \/ /\ State(d) \in Changeable
       /\ State(d)' \in Later
       /\ docs'[d].inclusionProof = docs[d].inclusionProof

\* UpdateBTCDelegationState writes one document, and only from a qualified state.
LEMMA UpdateWrites ==
    ASSUME TypeInv, NEW e \in Delegations, NEW qualified, NEW newState, NEW subState,
           UpdateBTCDelegationState(e, qualified, newState, subState, FALSE),
           NEW d \in Delegations
    PROVE  \/ docs'[d] = docs[d]
           \/ /\ d = e
              /\ State(d) \in qualified
              /\ State(d)' = newState
              /\ SubState(d)' = IF subState = NoSubState THEN SubState(d) ELSE subState
              /\ docs'[d].inclusionProof = docs[d].inclusionProof
<1>1. docs \in [Delegations -> Documents] /\ docs[e].inclusionProof \in BOOLEAN
  BY DEF TypeInv, TypeOK, StoreTypeOK, Documents
<1>2. (docs[e].inclusionProof \/ FALSE) = docs[e].inclusionProof
  BY <1>1
<1>3. CASE InQualifiedState(e, qualified)
  <2> DEFINE new == [state |-> newState,
                     subState |-> IF subState = NoSubState THEN docs[e].subState ELSE subState,
                     inclusionProof |-> docs[e].inclusionProof]
  <2>1. docs' = [docs EXCEPT ![e] = new]
    BY <1>2, <1>3 DEF UpdateBTCDelegationState
  <2>2. d = e => docs'[d] = new
    BY <1>1, <2>1
  <2>3. d # e => docs'[d] = docs[d]
    BY <1>1, <2>1
  <2> QED
    BY <1>3, <2>2, <2>3 DEF InQualifiedState, State, SubState
<1>4. CASE ~InQualifiedState(e, qualified)
  BY <1>4 DEF UpdateBTCDelegationState
<1> QED
  BY <1>3, <1>4

\* The one update that sets the inclusion proof is that of its event.
LEMMA ProofWrites ==
    ASSUME TypeInv, NEW e \in Delegations, NEW qualified, NEW newState,
           UpdateBTCDelegationState(e, qualified, newState, NoSubState, TRUE),
           NEW d \in Delegations
    PROVE  \/ docs'[d] = docs[d]
           \/ /\ d = e
              /\ State(d) \in qualified
              /\ State(d)' = newState
              /\ docs'[d].inclusionProof
<1>1. docs \in [Delegations -> Documents]
  BY DEF TypeInv, TypeOK, StoreTypeOK
<1>2. (docs[e].inclusionProof \/ TRUE) = TRUE
  OBVIOUS
<1> QED
  BY <1>1, <1>2 DEF UpdateBTCDelegationState, InQualifiedState, State

\* Once a delegation may be ACTIVE, a write without a proof only takes it to later states.
LEMMA LaterWrites ==
    ASSUME TypeInv, NEW e \in Delegations, NEW qualified, NEW newState \in Later, NEW subState,
           UpdateBTCDelegationState(e, qualified, newState, subState, FALSE),
           qualified \subseteq Changeable,
           NEW d \in Delegations
    PROVE  Changed(d)
<1>1. \/ docs'[d] = docs[d]
      \/ /\ d = e
         /\ State(d) \in qualified
         /\ State(d)' = newState
         /\ SubState(d)' = IF subState = NoSubState THEN SubState(d) ELSE subState
         /\ docs'[d].inclusionProof = docs[d].inclusionProof
  BY UpdateWrites
<1> QED
  BY <1>1 DEF Changed

\* Watchers only write to delegations that became active.
LEMMA WatcherChanges ==
    ASSUME TypeInv, NEW e \in Delegations, NEW o \in Outputs, NEW i \in WatcherIds,
           WatcherAction(e, o, i), NEW d \in Delegations
    PROVE  Changed(d)
<1> USE DEF Later, Changeable
<1>1. CASE SetUnbonding(e, o, i)
  BY <1>1, LaterWrites DEF SetUnbonding, QualifiedStatesForUnbondedEarly
<1>2. CASE SetWithdrawn(e, o, i)
  BY <1>2, LaterWrites DEF SetWithdrawn, QualifiedStatesForWithdrawn
<1>3. CASE SetSlashed(e, o, i)
  BY <1>3, LaterWrites DEF SetSlashed, QualifiedStatesForSlashed
<1>4. CASE UNCHANGED docs
  BY <1>4 DEF Changed
<1> QED
  BY <1>1, <1>2, <1>3, <1>4 DEF WatcherAction, WatcherStep, RegisterSpend, ReceiveSpend,
     EmitUnbonding, SaveUnbonding, CheckWithdrawal, EmitSlashing, SaveSlashing, storeVars

\* The expiry checker only writes to delegations that unbond or were slashed.
LEMMA CheckerChanges ==
    ASSUME TypeInv, CheckerAction, NEW d \in Delegations
    PROVE  Changed(d)
<1>1. CASE SetWithdrawable
  <2> DEFINE doc == Head(found)
  <2>1. doc \in TimeLockDocuments
    BY <1>1 DEF SetWithdrawable, TypeInv, TypeOK, CheckerTypeOK
  <2>2. doc.delegation \in Delegations
    BY <2>1 DEF TimeLockDocuments
  <2>3. UpdateBTCDelegationState(doc.delegation, QualifiedStatesForWithdrawable(doc.subState),
                                 StateWithdrawable, doc.subState, FALSE)
    BY <1>1 DEF SetWithdrawable
  <2>4. /\ StateWithdrawable \in Later
        /\ QualifiedStatesForWithdrawable(doc.subState) \subseteq Changeable
    BY DEF QualifiedStatesForWithdrawable, Later, Changeable
  <2> QED
    BY <2>2, <2>3, <2>4, LaterWrites
<1>2. CASE UNCHANGED docs
  BY <1>2 DEF Changed
<1> QED
  BY <1>1, <1>2 DEF CheckerAction, CheckerStep, Poll, DeleteTimeLock, storeVars

\* What each handler of the processor writes.
LEMMA ProcessorChanges ==
    ASSUME TypeInv, ProcessorAction, NEW d \in Delegations
    PROVE  Changed(d)
<1> USE DEF StateActive, StateUnbonding, StateExpanded, StatePending, StateVerified, NoDocument,
       Later, Changeable
<1>1. step = "update" => Event.delegation \in Delegations
  BY EventTyped DEF ProcessorBusy, Events
<1>2. CASE processNewBTCDelegationEvent
  <2>1. Event.delegation \in Delegations
    BY <1>2, EventTyped DEF processNewBTCDelegationEvent, Processing, Events
  <2>2. docs \in [Delegations -> Documents]
    BY DEF TypeInv, TypeOK, StoreTypeOK
  <2>3. \/ docs'[d] = docs[d]
        \/ docs[d].state = NoDocument /\ docs'[d] = [docs[d] EXCEPT !.state = StatePending]
    BY <1>2, <2>1, <2>2 DEF processNewBTCDelegationEvent, SaveNewBTCDelegation
  <2>4. docs[d] \in Documents
    BY <2>2
  <2> QED
    BY <2>3, <2>4 DEF Changed, State, Documents
<1>3. CASE processCovenantQuorumReachedEvent
  <2> DEFINE qualified == QualifiedStatesForCovenantQuorumReached(Event.newState)
  <2>0. UpdateBTCDelegationState(Event.delegation, qualified, Event.newState, NoSubState, FALSE)
    BY <1>3 DEF processCovenantQuorumReachedEvent, UpdateState
  <2>1. \/ docs'[d] = docs[d]
        \/ /\ d = Event.delegation
           /\ State(d) \in qualified
           /\ State(d)' = Event.newState
           /\ SubState(d)' = IF NoSubState = NoSubState THEN SubState(d) ELSE NoSubState
           /\ docs'[d].inclusionProof = docs[d].inclusionProof
    <3> HIDE DEF qualified
    <3>1. step = "update"
      BY <1>3 DEF processCovenantQuorumReachedEvent, UpdateState
    <3>2. Event.delegation \in Delegations
      BY <3>1, <1>1
    <3> QED
      BY <2>0, <3>2, UpdateWrites
  <2>2. State(d) \in QualifiedStatesForCovenantQuorumReached(Event.newState)
        => State(d) = StatePending /\ Event.newState \in {StateVerified, StateActive}
    BY DEF QualifiedStatesForCovenantQuorumReached
  <2>3. d = Event.delegation => Writes("CovenantQuorum", d)
    BY <1>3 DEF processCovenantQuorumReachedEvent, UpdateState, Writes
  <2> QED
    BY <2>1, <2>2, <2>3 DEF Changed
<1>4. CASE processBTCDelegationInclusionProofReceivedEvent
  <2>1. \/ docs'[d] = docs[d]
        \/ /\ d = Event.delegation
           /\ State(d) \in QualifiedStatesForInclusionProofReceived(Event.newState)
           /\ State(d)' = Event.newState
           /\ docs'[d].inclusionProof
    BY <1>1, <1>4, ProofWrites DEF processBTCDelegationInclusionProofReceivedEvent, UpdateState
  <2> QED
    BY <1>4, <2>1 DEF processBTCDelegationInclusionProofReceivedEvent, UpdateState, Changed,
       Writes, QualifiedStatesForInclusionProofReceived
<1>5. CASE processBTCDelegationUnbondedEarlyEvent
  BY <1>1, <1>5, LaterWrites DEF processBTCDelegationUnbondedEarlyEvent, UpdateState,
     QualifiedStatesForUnbondedEarly
<1>6. CASE processBTCDelegationExpiredEvent
  BY <1>1, <1>6, LaterWrites DEF processBTCDelegationExpiredEvent, UpdateState,
     QualifiedStatesForExpired
<1>7. CASE UNCHANGED docs
  BY <1>7 DEF Changed
<1> QED
  BY <1>2, <1>3, <1>4, <1>5, <1>6, <1>7 DEF ProcessorAction, ProcessorStep,
     validateCovenantQuorumReachedEvent, validateBTCDelegationInclusionProofReceivedEvent,
     validateBTCDelegationUnbondedEarlyEvent, validateBTCDelegationExpiredEvent, ValidateEvent,
     EmitActive, RegisterWatcher, EmitUnbondingMessage, SaveTimeLock, SaveHeight, storeVars

\* What any step may do to a document.
LEMMA DocumentChanges ==
    ASSUME TypeInv, [Next]_vars, NEW d \in Delegations
    PROVE  Changed(d)
<1>1. CASE UNCHANGED docs
  BY <1>1 DEF Changed
<1> QED
  BY <1>1, WatcherChanges, ProcessorChanges, CheckerChanges
     DEF Next, ChainsStep, FindMissed, RegisterMissed, CallFails, WatcherFails, ProcessorFails,
         CheckerFails, Crash, GiveUp, StartProcess, vars, storeVars


\* Babylon's events stay where they are, whoever moves.
LEMMA EventsStay ==
    ASSUME TypeInv, [Next]_vars
    PROVE  /\ Len(bbnChain) \in Nat /\ DOMAIN bbnChain = 1 .. Len(bbnChain)
           /\ Len(bbnChain)' \in Nat /\ DOMAIN bbnChain' = 1 .. Len(bbnChain)'
           /\ Len(bbnChain) <= Len(bbnChain)'
           /\ \A n \in DOMAIN bbnChain : n \in DOMAIN bbnChain' /\ bbnChain'[n] = bbnChain[n]
<1>1. ChainsTypeOK /\ ChainsTypeOK'
  BY NextTyped DEF TypeInv, TypeOK
<1>2. /\ Len(bbnChain) \in Nat /\ DOMAIN bbnChain = 1 .. Len(bbnChain)
      /\ Len(bbnChain)' \in Nat /\ DOMAIN bbnChain' = 1 .. Len(bbnChain)'
  BY <1>1 DEF ChainsTypeOK
<1>3. UNCHANGED bbnChain \/ ChainsNext
  BY DEF Next, ChainsStep, WatcherAction, ProcessorAction, CheckerAction, FindMissed,
     RegisterMissed, CallFails, Crash, GiveUp, StartProcess, vars, chainVars
<1>4. \A n \in DOMAIN bbnChain : n \in DOMAIN bbnChain' /\ bbnChain'[n] = bbnChain[n]
  BY <1>1, <1>3, ChainGrows
<1>5. Len(bbnChain) <= Len(bbnChain)'
  <2>1. CASE Len(bbnChain) = 0
    BY <1>2, <2>1
  <2>2. CASE Len(bbnChain) # 0
    <3>1. Len(bbnChain) \in DOMAIN bbnChain
      BY <1>2, <2>2
    <3> QED
      BY <1>2, <1>4, <3>1
  <2> QED
    BY <2>1, <2>2
<1> QED
  BY <1>2, <1>4, <1>5

\* How the position of the processor and the stored height move: a handler returns nil, the
\* height is stored, or a new process resumes after the stored height.
LEMMA PositionMoves ==
    ASSUME TypeInv, [Next]_vars
    PROVE  \/ UNCHANGED <<next, lastProcessed>>
           \/ /\ ProcessorAction /\ Done
              /\ next \in DOMAIN bbnChain
              /\ UNCHANGED <<lastProcessed, chainVars>>
           \/ lastProcessed' = next - 1 /\ UNCHANGED <<next, chainVars>>
           \/ next' = lastProcessed + 1 /\ UNCHANGED <<lastProcessed, chainVars>>
<1>1. ASSUME ProcessorAction
      PROVE  \/ UNCHANGED <<next, lastProcessed>>
             \/ /\ Done /\ next \in DOMAIN bbnChain
                /\ UNCHANGED <<lastProcessed, chainVars>>
             \/ lastProcessed' = next - 1 /\ UNCHANGED <<next, chainVars>>
  <2>1. UNCHANGED chainVars
    BY <1>1 DEF ProcessorAction
  <2>2. CASE SaveHeight
    BY <2>1, <2>2 DEF SaveHeight, SavedHeight, Continue
  <2>3. CASE ~SaveHeight
    <3>1. UNCHANGED lastProcessed /\ (Done \/ UNCHANGED next)
      BY <1>1, <2>3 DEF ProcessorAction, ProcessorStep, processNewBTCDelegationEvent,
         validateCovenantQuorumReachedEvent, validateBTCDelegationInclusionProofReceivedEvent,
         validateBTCDelegationUnbondedEarlyEvent, validateBTCDelegationExpiredEvent,
         ValidateEvent, EmitActive, RegisterWatcher, EmitUnbondingMessage, SaveTimeLock,
         processCovenantQuorumReachedEvent, processBTCDelegationInclusionProofReceivedEvent,
         processBTCDelegationUnbondedEarlyEvent, processBTCDelegationExpiredEvent, UpdateState,
         Continue, Retry, storeVars
    <3>2. step # "saveHeight" /\ step # "failed" /\ (BlockAvailable \/ ProcessorBusy)
      BY <1>1, <2>3 DEF ProcessorAction, ProcessorStep, processNewBTCDelegationEvent,
         validateCovenantQuorumReachedEvent, validateBTCDelegationInclusionProofReceivedEvent,
         validateBTCDelegationUnbondedEarlyEvent, validateBTCDelegationExpiredEvent,
         ValidateEvent, EmitActive, RegisterWatcher, EmitUnbondingMessage, SaveTimeLock,
         processCovenantQuorumReachedEvent, processBTCDelegationInclusionProofReceivedEvent,
         processBTCDelegationUnbondedEarlyEvent, processBTCDelegationExpiredEvent, UpdateState,
         Processing, ProcessorBusy
    <3> QED
      BY <2>1, <3>1, <3>2, EventTyped
  <2> QED
    BY <2>2, <2>3
<1>2. CASE StartProcess
  BY <1>2 DEF StartProcess, ResumePosition, storeVars
<1>3. ASSUME CallFails PROVE UNCHANGED <<next, lastProcessed>>
  BY <1>3 DEF CallFails, WatcherFails, ProcessorFails, CheckerFails, Continue, Retry, procVars,
     storeVars
<1>4. ASSUME NEW d \in Delegations, NEW o \in Outputs, NEW i \in WatcherIds,
             WatcherAction(d, o, i)
      PROVE  UNCHANGED <<next, lastProcessed>>
  BY <1>4 DEF WatcherAction, WatcherStep, RegisterSpend, ReceiveSpend, SetUnbonding,
     EmitUnbonding, SaveUnbonding, CheckWithdrawal, SetWithdrawn, EmitSlashing, SetSlashed,
     SaveSlashing, storeVars, procVars
<1>5. ASSUME CheckerAction PROVE UNCHANGED <<next, lastProcessed>>
  BY <1>5 DEF CheckerAction, CheckerStep, Poll, SetWithdrawable, DeleteTimeLock, storeVars,
     procVars
<1>6. ASSUME \/ ChainsStep \/ FindMissed \/ UNCHANGED vars
             \/ \E d \in Delegations : RegisterMissed(d)
      PROVE  UNCHANGED <<next, lastProcessed>>
  BY <1>6 DEF ChainsStep, FindMissed, RegisterMissed, vars, storeVars, procVars
<1> QED
  BY <1>1, <1>2, <1>3, <1>4, <1>5, <1>6 DEF Next, Crash, GiveUp

\* A processor inside a handler has entered it with this step, through its validation, or
\* was there before, with the same event.
LEMMA BusyStep ==
    ASSUME TypeInv, [Next]_vars, ProcessorBusy'
    PROVE  /\ next' = next
           /\ next \in DOMAIN bbnChain
           /\ Event' = Event
           /\ \/ ProcessorBusy
              \/ ProcessorAction /\ step = "validate"
<1>1. CASE ProcessorAction
  <2>1. step # "failed" /\ step # "saveHeight" /\ next' = next
    BY <1>1 DEF ProcessorBusy, ProcessorAction, ProcessorStep, processNewBTCDelegationEvent,
       validateCovenantQuorumReachedEvent, validateBTCDelegationInclusionProofReceivedEvent,
       validateBTCDelegationUnbondedEarlyEvent, validateBTCDelegationExpiredEvent,
       ValidateEvent, EmitActive, RegisterWatcher, EmitUnbondingMessage, SaveTimeLock,
       processCovenantQuorumReachedEvent, processBTCDelegationInclusionProofReceivedEvent,
       processBTCDelegationUnbondedEarlyEvent, processBTCDelegationExpiredEvent, UpdateState,
       SaveHeight, Done, Retry, Continue
  <2>2. step = "validate" \/ ProcessorBusy
    BY <2>1 DEF ProcessorBusy
  <2>3. next \in DOMAIN bbnChain'
    BY <2>1, NextTyped DEF TypeInv, PositionInv
  <2>4. UNCHANGED bbnChain
    BY <1>1 DEF ProcessorAction, chainVars
  <2> QED
    BY <1>1, <2>1, <2>2, <2>3, <2>4 DEF Event
<1>2. CASE StartProcess
  BY <1>2 DEF StartProcess, ProcessorBusy
<1>3. CASE CallFails
  <2>1. CASE ProcessorFails
    BY <2>1 DEF ProcessorFails, Retry, Continue, ProcessorBusy
  <2>2. CASE UNCHANGED procVars
    <3>1. ProcessorBusy /\ next' = next
      BY <2>2 DEF procVars, ProcessorBusy
    <3>2. UNCHANGED bbnChain
      BY <1>3 DEF CallFails, chainVars
    <3> QED
      BY <3>1, <3>2 DEF Event, TypeInv, PositionInv
  <2> QED
    BY <1>3, <2>1, <2>2 DEF CallFails
<1>4. CASE UNCHANGED procVars
  <2>1. ProcessorBusy /\ next' = next
    BY <1>4 DEF procVars, ProcessorBusy
  <2>2. next \in DOMAIN bbnChain
    BY <2>1 DEF TypeInv, PositionInv
  <2> QED
    BY <2>1, <2>2, EventsStay DEF Event
<1> QED
  BY <1>1, <1>2, <1>3, <1>4 DEF Next, ChainsStep, WatcherAction, CheckerAction, FindMissed,
     RegisterMissed, Crash, GiveUp, vars

\* What was earlier than an event stays so when Babylon emits another, and everything that
\* was emitted is earlier than the new event.
LEMMA EarlierStable ==
    ASSUME ChainsTypeOK, NEW new \in Events, bbnChain' = Append(bbnChain, new),
           NEW n \in 1 .. Len(bbnChain) + 1, NEW type, NEW d
    PROVE  /\ Earlier(type, d, n)' <=> Earlier(type, d, n)
           /\ n = Len(bbnChain) + 1 => (Earlier(type, d, n) <=> Emitted(type, d))
<1>1. Len(bbnChain) \in Nat /\ DOMAIN bbnChain = 1 .. Len(bbnChain)
  BY DEF ChainsTypeOK
<1>2. \A m \in 1 .. n - 1 : bbnChain'[m] = bbnChain[m]
  BY <1>1 DEF ChainsTypeOK
<1>3. Earlier(type, d, n)' <=> Earlier(type, d, n)
  BY <1>2 DEF Earlier
<1>4. n = Len(bbnChain) + 1 => 1 .. n - 1 = DOMAIN bbnChain
  BY <1>1
<1> QED
  BY <1>3, <1>4 DEF Earlier, Emitted

\* An event whose predecessors are on the chain can be appended.
LEMMA OrderedAppend ==
    ASSUME ChainsTypeOK, EventsInOrder, NEW new \in Events,
           bbnChain' = Append(bbnChain, new),
           LET Seen(type) == Emitted(type, new.delegation)
           IN  /\ ~Seen(new.type)
               /\ new.type # "Created" => Seen("Created")
               /\ new.type \in {"UnbondedEarly", "Expired"} =>
                     Seen("CovenantQuorum") /\ new.newState # "ACTIVE"
               /\ new.type = "Expired" => Seen("InclusionProof")
               /\ new.type = "CovenantQuorum" =>
                     new.newState = IF Seen("InclusionProof") THEN "ACTIVE" ELSE "VERIFIED"
               /\ new.type = "InclusionProof" =>
                     IF Seen("CovenantQuorum")
                     THEN new.newState = "ACTIVE" /\ ~Seen("UnbondedEarly")
                     ELSE new.newState = "PENDING"
    PROVE  EventsInOrder'
<1>1. /\ Len(bbnChain) \in Nat /\ DOMAIN bbnChain = 1 .. Len(bbnChain)
      /\ DOMAIN bbnChain' = 1 .. Len(bbnChain) + 1
  BY DEF ChainsTypeOK
<1> SUFFICES ASSUME NEW n \in 1 .. Len(bbnChain) + 1 PROVE EventInOrder(n)'
  BY <1>1 DEF EventsInOrder
<1>2. \A type, d : Earlier(type, d, n)' <=> Earlier(type, d, n)
  BY EarlierStable
<1>3. CASE n = Len(bbnChain) + 1
  <2>1. bbnChain'[n] = new
    BY <1>1, <1>3 DEF ChainsTypeOK
  <2>2. \A type, d : Earlier(type, d, n)' <=> Emitted(type, d)
    BY <1>2, <1>3, EarlierStable
  <2> QED
    BY <2>1, <2>2 DEF EventInOrder
<1>4. CASE n # Len(bbnChain) + 1
  <2>1. n \in DOMAIN bbnChain /\ bbnChain'[n] = bbnChain[n]
    BY <1>1, <1>4 DEF ChainsTypeOK
  <2>2. EventInOrder(n)
    BY <2>1 DEF EventsInOrder
  <2> QED
    BY <1>2, <2>1, <2>2 DEF EventInOrder
<1> QED
  BY <1>3, <1>4

\* An event that was emitted had its predecessors before it.
LEMMA EmittedInOrder ==
    ASSUME ChainsTypeOK, EventsInOrder, NEW d, NEW n \in DOMAIN bbnChain,
           bbnChain[n].delegation = d
    PROVE  /\ bbnChain[n].type # "Created" =>
                 \E m \in 1 .. n - 1 : m \in DOMAIN bbnChain /\ bbnChain[m].type = "Created"
                                       /\ bbnChain[m].delegation = d
           /\ \A m \in DOMAIN bbnChain :
                 bbnChain[m].type = bbnChain[n].type /\ bbnChain[m].delegation = d => m = n
<1>1. /\ Len(bbnChain) \in Nat /\ DOMAIN bbnChain = 1 .. Len(bbnChain)
      /\ n \in Nat
  BY DEF ChainsTypeOK
<1>2. EventInOrder(n)
  BY DEF EventsInOrder
<1>3. ASSUME bbnChain[n].type # "Created"
      PROVE  \E m \in 1 .. n - 1 : m \in DOMAIN bbnChain /\ bbnChain[m].type = "Created"
                                   /\ bbnChain[m].delegation = d
  BY <1>1, <1>2, <1>3 DEF EventInOrder, Earlier
<1>4. ASSUME NEW m \in DOMAIN bbnChain, bbnChain[m].type = bbnChain[n].type,
             bbnChain[m].delegation = d
      PROVE  m = n
  <2>1. EventInOrder(m) /\ m \in Nat
    BY <1>1 DEF EventsInOrder
  <2>2. ~(m < n)
    BY <1>1, <1>2, <1>4, <2>1 DEF EventInOrder, Earlier
  <2>3. ~(n < m)
    BY <1>1, <1>4, <2>1 DEF EventInOrder, Earlier
  <2> QED
    BY <1>1, <2>1, <2>2, <2>3
<1> QED
  BY <1>3, <1>4

\* Babylon keeps its events in order.
LEMMA ChainsInOrder == ChainsTypeOK /\ EventsInOrder /\ ChainsNext => EventsInOrder'
<1> SUFFICES ASSUME ChainsTypeOK, EventsInOrder, ChainsNext PROVE EventsInOrder'
  OBVIOUS
<1>1. CASE UNCHANGED bbnChain
  BY <1>1 DEF EventsInOrder, EventInOrder, Earlier
<1>2. ASSUME NEW d \in Delegations, NEW type \in EventTypes,
             NEW newState \in {"PENDING", "VERIFIED", "ACTIVE", "UNBONDED", "EXPIRED"},
             EmitEvent(type, d, newState),
             type # "Created" => Emitted("Created", d),
             type \in {"UnbondedEarly", "Expired"} =>
                Emitted("CovenantQuorum", d) /\ newState # "ACTIVE",
             type = "Expired" => Emitted("InclusionProof", d),
             type = "CovenantQuorum" =>
                newState = IF Emitted("InclusionProof", d) THEN "ACTIVE" ELSE "VERIFIED",
             type = "InclusionProof" =>
                IF Emitted("CovenantQuorum", d)
                THEN newState = "ACTIVE" /\ ~Emitted("UnbondedEarly", d)
                ELSE newState = "PENDING"
      PROVE  EventsInOrder'
  <2>1. PICK last \in BlockCuts[type] :
           bbnChain' = Append(bbnChain, [type |-> type, delegation |-> d,
                                         newState |-> newState, lastInBlock |-> last])
    BY <1>2 DEF EmitEvent
  <2> DEFINE new == [type |-> type, delegation |-> d, newState |-> newState,
                     lastInBlock |-> last]
  <2>2. new \in Events
    BY DelegationsAssumption DEF Events
  <2>3. new.type = type /\ new.delegation = d /\ new.newState = newState
    OBVIOUS
  <2>4. ~Emitted(type, d)
    BY <1>2 DEF EmitEvent
  <2>5. bbnChain' = Append(bbnChain, new)
    BY <2>1
  <2> HIDE DEF new
  <2> QED
    BY <1>2, <2>2, <2>3, <2>4, <2>5, OrderedAppend
<1>3. ASSUME NEW d, NEW type, type # "Created", Emitted(type, d)
      PROVE  Emitted("Created", d)
  <2>1. PICK n \in DOMAIN bbnChain : bbnChain[n].type = type /\ bbnChain[n].delegation = d
    BY <1>3 DEF Emitted
  <2> QED
    BY <1>3, <2>1, EmittedInOrder DEF Emitted
<1>4. ASSUME NEW d \in Delegations, EmitCreated(d) PROVE EventsInOrder'
  BY <1>2, <1>4 DEF EmitCreated, EventTypes
<1>5. ASSUME NEW d \in Delegations, EmitInclusionProofPending(d) PROVE EventsInOrder'
  <2> DEFINE last == Len(bbnChain)
  <2>1. /\ last \in DOMAIN bbnChain /\ DOMAIN bbnChain = 1 .. last
        /\ bbnChain[last].type = "Created" /\ bbnChain[last].delegation = d
    BY <1>5 DEF EmitInclusionProofPending, ChainsTypeOK
  <2>2. ~Emitted("CovenantQuorum", d)
    <3> SUFFICES ASSUME NEW n \in DOMAIN bbnChain, bbnChain[n].type = "CovenantQuorum",
                        bbnChain[n].delegation = d
                 PROVE  FALSE
      BY DEF Emitted
    <3>1. PICK m \in 1 .. n - 1 : /\ m \in DOMAIN bbnChain
                                  /\ bbnChain[m].type = "Created"
                                  /\ bbnChain[m].delegation = d
      BY EmittedInOrder
    <3>2. m = last
      BY <2>1, <3>1, EmittedInOrder
    <3> QED
      BY <2>1, <3>1, <3>2 DEF ChainsTypeOK
  <2>3. Emitted("Created", d)
    BY <2>1 DEF Emitted
  <2> QED
    BY <1>2, <1>5, <2>2, <2>3 DEF EmitInclusionProofPending, EventTypes
<1>6. ASSUME NEW d \in Delegations, EmitCovenantQuorum(d) PROVE EventsInOrder'
  BY <1>2, <1>6 DEF EmitCovenantQuorum, EventTypes
<1>7. ASSUME NEW d \in Delegations, EmitInclusionProofActive(d) PROVE EventsInOrder'
  BY <1>2, <1>3, <1>7 DEF EmitInclusionProofActive, EventTypes
<1>8. ASSUME NEW d \in Delegations, EmitUnbondedEarly(d) PROVE EventsInOrder'
  BY <1>2, <1>3, <1>8 DEF EmitUnbondedEarly, EventTypes
<1>9. ASSUME NEW d \in Delegations, EmitExpired(d) PROVE EventsInOrder'
  BY <1>2, <1>3, <1>9 DEF EmitExpired, Activated, EventTypes
<1> QED
  BY <1>1, <1>4, <1>5, <1>6, <1>7, <1>8, <1>9 DEF ChainsNext, MineBlock, SpendOutput

\* The event that the processor has reached is the only one of its type and delegation, and
\* what precedes it on Babylon is applied.
LEMMA ReachedEvent ==
    ASSUME EventInv, next \in DOMAIN bbnChain
    PROVE  /\ EventInOrder(next)
           /\ \A type : Earlier(type, Event.delegation, next) =>
                 \E m \in DOMAIN bbnChain : /\ m < next
                                            /\ bbnChain[m].type = type
                                            /\ bbnChain[m].delegation = Event.delegation
                                            /\ Applied(bbnChain[m])
<1>1. DOMAIN bbnChain = 1 .. Len(bbnChain) /\ Len(bbnChain) \in Nat /\ next \in Nat
  BY DEF EventInv, TypeInv, TypeOK, ChainsTypeOK, ProcessorTypeOK
<1>2. EventInOrder(next)
  BY DEF EventInv, EventsInOrder
<1>3. ASSUME NEW type, Earlier(type, Event.delegation, next)
      PROVE  \E m \in DOMAIN bbnChain : /\ m < next
                                        /\ bbnChain[m].type = type
                                        /\ bbnChain[m].delegation = Event.delegation
                                        /\ Applied(bbnChain[m])
  <2>1. PICK m \in 1 .. next - 1 : /\ bbnChain[m].type = type
                                   /\ bbnChain[m].delegation = Event.delegation
    BY <1>3 DEF Earlier
  <2>2. m \in DOMAIN bbnChain /\ m < next
    BY <1>1, <2>1
  <2>3. Applied(bbnChain[m])
    BY <2>2 DEF EventInv, PassedApplied
  <2> QED
    BY <2>1, <2>2, <2>3
<1> QED
  BY <1>2, <1>3

\* An event that was passed keeps its effect: what would take it back is the handler of an
\* event that precedes it on Babylon, and that one was passed too.
LEMMA AppliedStable ==
    ASSUME EventInv, [Next]_vars, NEW n \in DOMAIN bbnChain, n < next,
           NEW event, event = bbnChain[n], NEW d, d = event.delegation
    PROVE  Applied(bbnChain[n])'
<1>1. TypeInv /\ DOMAIN bbnChain = 1 .. Len(bbnChain) /\ Len(bbnChain) \in Nat
      /\ next \in Nat /\ n \in Nat
  BY DEF EventInv, TypeInv, TypeOK, ChainsTypeOK, ProcessorTypeOK
<1>2. event \in Events /\ d \in Delegations
  <2>1. event \in Events
    BY <1>1 DEF TypeInv, TypeOK, ChainsTypeOK
  <2> QED
    BY <2>1 DEF Events
<1>3. bbnChain'[n] = event
  BY <1>1, EventsStay
<1>4. Changed(d)
  BY <1>1, <1>2, DocumentChanges
<1>5. Applied(event)
  BY DEF EventInv, PassedApplied
<1>6. EventInOrder(n)
  BY DEF EventInv, EventsInOrder
<1> USE DEF Later, Changeable, StatePending, StateVerified, StateActive, StateUnbonding,
       StateWithdrawable, StateSlashed, StateWithdrawn, StateExpanded, NoDocument
<1>7. CASE event.type = "Created"
  <2>1. State(d) # NoDocument
    BY <1>5, <1>7 DEF Applied
  <2>2. State(d)' # NoDocument
    BY <1>4, <2>1 DEF Changed, State
  <2> QED
    BY <1>3, <1>7, <2>2 DEF Applied, State
<1>8. CASE event.type = "CovenantQuorum"
  <2>1. State(d) \notin {NoDocument, StatePending}
    BY <1>5, <1>8 DEF Applied
  <2>2. State(d)' \notin {NoDocument, StatePending}
    BY <1>4, <2>1 DEF Changed, State
  <2> QED
    BY <1>3, <1>8, <2>2 DEF Applied, State
<1>9. CASE event.type = "InclusionProof"
  <2>1. docs[d].inclusionProof
    BY <1>5, <1>9 DEF Applied
  <2>2. docs'[d].inclusionProof
    BY <1>4, <2>1 DEF Changed
  <2> QED
    BY <1>3, <1>9, <2>2 DEF Applied
<1>10. CASE event.type \in {"UnbondedEarly", "Expired"}
  <2>1. State(d) # StateActive
    BY <1>5, <1>10 DEF Applied
  <2>2. Earlier("CovenantQuorum", d, n)
    BY <1>6, <1>10 DEF EventInOrder
  <2>3. PICK k \in 1 .. n - 1 : bbnChain[k].type = "CovenantQuorum" /\ bbnChain[k].delegation = d
    BY <2>2 DEF Earlier
  <2>4. ASSUME State(d)' = StateActive PROVE FALSE
    <3>1. /\ step = "update" /\ Event.delegation = d /\ Event.newState = StateActive
          /\ Event.type \in {"CovenantQuorum", "InclusionProof"}
      BY <1>4, <2>1, <2>4 DEF Changed, Writes, State
    <3>2. next \in DOMAIN bbnChain
      BY <1>1, <3>1 DEF TypeInv, PositionInv, ProcessorBusy
    <3>3. EventInOrder(next)
      BY <3>2 DEF EventInv, EventsInOrder
    <3>4. k \in 1 .. next - 1 /\ n \in 1 .. next - 1
      BY <1>1, <2>3
    <3>5. Earlier("CovenantQuorum", d, next) /\ Earlier(event.type, d, next)
      BY <2>3, <3>4 DEF Earlier
    <3>6. CASE Event.type = "CovenantQuorum"
      BY <3>1, <3>3, <3>5, <3>6 DEF EventInOrder, Event
    <3>7. CASE Event.type = "InclusionProof"
      <4>1. CASE event.type = "UnbondedEarly"
        BY <3>1, <3>3, <3>5, <3>7, <4>1 DEF EventInOrder, Event
      <4>2. CASE event.type = "Expired"
        <5>1. PICK m \in 1 .. n - 1 : bbnChain[m].type = "InclusionProof"
                                      /\ bbnChain[m].delegation = d
          BY <1>6, <4>2 DEF EventInOrder, Earlier
        <5>2. m \in 1 .. next - 1
          BY <1>1, <5>1
        <5>3. Earlier("InclusionProof", d, next)
          BY <5>1, <5>2 DEF Earlier
        <5> QED
          BY <3>1, <3>3, <3>7, <5>3 DEF EventInOrder, Event
      <4> QED
        BY <1>10, <4>1, <4>2
    <3> QED
      BY <3>1, <3>6, <3>7
  <2> QED
    BY <1>3, <1>10, <2>4 DEF Applied, State
<1> QED
  BY <1>2, <1>7, <1>8, <1>9, <1>10 DEF Events, EventTypes

\* An event that the chain names was emitted in its order.
LEMMA NamedEvent ==
    ASSUME EventInv, NEW type, NEW d, NEW newState, EventOf(type, d, newState)
    PROVE  \E m \in DOMAIN bbnChain : /\ bbnChain[m].type = type
                                      /\ bbnChain[m].delegation = d
                                      /\ bbnChain[m].newState = newState
                                      /\ EventInOrder(m)
                                      /\ m \in Nat
BY DEF EventInv, EventOf, EventsInOrder, TypeInv, TypeOK, ChainsTypeOK

\* Ignoring a covenant quorum is right: the delegation has moved on from PENDING, for the
\* stored inclusion proof cannot be at odds with what Babylon says
\* (validateCovenantQuorumReachedEvent, which compares the two).
LEMMA QuorumIgnored ==
    ASSUME EventInv, next \in DOMAIN bbnChain, Event.type = "CovenantQuorum",
           NEW d \in Delegations, d = Event.delegation,
           State(d) = StatePending
    PROVE  /\ Event.newState \in {StateVerified, StateActive}
           /\ docs[d].inclusionProof = (Event.newState = StateActive)
<1> USE DEF StatePending, StateVerified, StateActive, NoDocument
<1>1. EventInOrder(next)
  BY ReachedEvent
<1>2. docs[d].inclusionProof \in BOOLEAN
  BY DEF EventInv, TypeInv, TypeOK, StoreTypeOK, Documents
<1>3. Event.newState = IF Earlier("InclusionProof", d, next) THEN "ACTIVE" ELSE "VERIFIED"
  BY <1>1 DEF EventInOrder, Event
<1>4. CASE Earlier("InclusionProof", d, next)
  <2>1. PICK m \in DOMAIN bbnChain : /\ bbnChain[m].type = "InclusionProof"
                                     /\ bbnChain[m].delegation = d
                                     /\ Applied(bbnChain[m])
    BY <1>4, ReachedEvent
  <2>2. docs[d].inclusionProof
    BY <2>1 DEF Applied
  <2> QED
    BY <1>2, <1>3, <1>4, <2>2
<1>5. CASE ~Earlier("InclusionProof", d, next)
  <2>1. ASSUME docs[d].inclusionProof PROVE FALSE
    <3>1. EventOf("InclusionProof", d, "PENDING")
      BY <2>1 DEF EventInv, DocumentsFromEvents
    <3>2. PICK m \in DOMAIN bbnChain : /\ bbnChain[m].type = "InclusionProof"
                                       /\ bbnChain[m].delegation = d
                                       /\ bbnChain[m].newState = "PENDING"
                                       /\ EventInOrder(m)
                                       /\ m \in Nat
      BY <3>1, NamedEvent
    <3>3. ~Earlier("CovenantQuorum", d, m)
      BY <3>2 DEF EventInOrder
    <3>4. next \in Nat \ {0}
      BY DEF EventInv, TypeInv, TypeOK, ProcessorTypeOK
    <3>5. ~(next < m)
      BY <3>2, <3>3, <3>4 DEF Earlier, Event
    <3>6. m # next
      BY <3>2 DEF Event
    <3>7. m \in 1 .. next - 1
      BY <3>2, <3>4, <3>5, <3>6 DEF EventInv, TypeInv, TypeOK, ChainsTypeOK
    <3> QED
      BY <1>5, <3>2, <3>7 DEF Earlier
  <2> QED
    BY <1>2, <1>3, <1>5, <2>1
<1> QED
  BY <1>4, <1>5

\* So is ignoring an inclusion proof: it is stored already, by this event before a restart.
LEMMA InclusionProofIgnored ==
    ASSUME EventInv, next \in DOMAIN bbnChain, Event.type = "InclusionProof",
           NEW d \in Delegations, d = Event.delegation,
           State(d) # NoDocument, ~docs[d].inclusionProof
    PROVE  State(d) \in QualifiedStatesForInclusionProofReceived(Event.newState)
<1> USE DEF StatePending, StateVerified, StateActive, NoDocument
<1>1. EventInOrder(next)
  BY ReachedEvent
<1>2. State(d) \in {StatePending, StateVerified}
  BY DEF EventInv, DocumentsFromEvents
<1>3. CASE Earlier("CovenantQuorum", d, next)
  <2>1. Event.newState = "ACTIVE"
    BY <1>1, <1>3 DEF EventInOrder, Event
  <2>2. PICK m \in DOMAIN bbnChain : /\ bbnChain[m].type = "CovenantQuorum"
                                     /\ bbnChain[m].delegation = d
                                     /\ Applied(bbnChain[m])
    BY <1>3, ReachedEvent
  <2>3. State(d) # StatePending
    BY <2>2 DEF Applied
  <2> QED
    BY <1>2, <2>1, <2>3 DEF QualifiedStatesForInclusionProofReceived
<1>4. CASE ~Earlier("CovenantQuorum", d, next)
  <2>1. Event.newState = "PENDING"
    BY <1>1, <1>4 DEF EventInOrder, Event
  <2>2. ASSUME State(d) = StateVerified PROVE FALSE
    <3>1. EventOf("CovenantQuorum", d, "VERIFIED")
      BY <2>2 DEF EventInv, DocumentsFromEvents
    <3>2. PICK m \in DOMAIN bbnChain : /\ bbnChain[m].type = "CovenantQuorum"
                                       /\ bbnChain[m].delegation = d
                                       /\ bbnChain[m].newState = "VERIFIED"
                                       /\ EventInOrder(m)
                                       /\ m \in Nat
      BY <3>1, NamedEvent
    <3>3. ~Earlier("InclusionProof", d, m)
      BY <3>2 DEF EventInOrder
    <3>4. next \in Nat \ {0}
      BY DEF EventInv, TypeInv, TypeOK, ProcessorTypeOK
    <3>5. ~(next < m)
      BY <3>2, <3>3, <3>4 DEF Earlier, Event
    <3>6. m # next
      BY <3>2 DEF Event
    <3>7. m \in 1 .. next - 1
      BY <3>2, <3>4, <3>5, <3>6 DEF EventInv, TypeInv, TypeOK, ChainsTypeOK
    <3> QED
      BY <1>4, <3>2, <3>7 DEF Earlier
  <2> QED
    BY <1>2, <2>1, <2>2 DEF QualifiedStatesForInclusionProofReceived
<1> QED
  BY <1>3, <1>4

\* A conditional update leaves a delegation in the new state, if it was in a qualified one.
LEMMA QualifiedUpdate ==
    ASSUME TypeInv, NEW d \in Delegations, NEW qualified, NEW newState, NEW subState, NEW proof,
           UpdateBTCDelegationState(d, qualified, newState, subState, proof)
    PROVE  /\ InQualifiedState(d, qualified) => /\ State(d)' = newState
                                                /\ proof => docs'[d].inclusionProof
           /\ ~InQualifiedState(d, qualified) => State(d)' = State(d)
<1>1. docs \in [Delegations -> Documents]
  BY DEF TypeInv, TypeOK, StoreTypeOK
<1> DEFINE new == [state |-> newState,
                   subState |-> IF subState = NoSubState THEN docs[d].subState ELSE subState,
                   inclusionProof |-> docs[d].inclusionProof \/ proof]
<1>2. CASE InQualifiedState(d, qualified)
  <2>1. docs' = [docs EXCEPT ![d] = new]
    BY <1>2 DEF UpdateBTCDelegationState
  <2>2. docs'[d] = new
    BY <1>1, <2>1
  <2>3. docs'[d].inclusionProof = (docs[d].inclusionProof \/ proof)
    BY <2>2
  <2>4. proof => docs'[d].inclusionProof
    <3>1. proof => (docs[d].inclusionProof \/ proof) = TRUE
      OBVIOUS
    <3> HIDE DEF new
    <3> QED
      BY <2>3, <3>1
  <2> QED
    BY <1>2, <2>2, <2>4 DEF State
<1>3. CASE ~InQualifiedState(d, qualified)
  BY <1>3 DEF UpdateBTCDelegationState, State
<1> QED
  BY <1>2, <1>3

\* A handler that returns nil leaves the effect of its event, whether it stored it now or
\* ignored the event.
LEMMA DoneApplied ==
    ASSUME EventInv, ProcessorAction, Done, next \in DOMAIN bbnChain,
           NEW n, n = next
    PROVE  Applied(bbnChain[n])'
<1>1. PICK event : event = Event
  OBVIOUS
<1>2. PICK d : d = event.delegation
  OBVIOUS
<1>3. TypeInv /\ next \in Nat /\ event \in Events
  BY <1>1 DEF Event, EventInv, TypeInv, TypeOK, ChainsTypeOK, ProcessorTypeOK
<1>4. d \in Delegations
  BY <1>2, <1>3 DEF Events
<1>5. bbnChain'[n] = event
  BY <1>1 DEF ProcessorAction, chainVars, Event
<1>6. ~Retry
  BY <1>3 DEF Done, Retry
<1> USE DEF StatePending, StateVerified, StateActive, StateUnbonding, StateExpanded, NoDocument
<1>7. CASE event.type = "Created"
  <2>1. processNewBTCDelegationEvent
    BY <1>1, <1>3, <1>7 DEF ProcessorAction, ProcessorStep, Done, Processing, ValidateEvent,
       validateCovenantQuorumReachedEvent, validateBTCDelegationInclusionProofReceivedEvent,
       validateBTCDelegationUnbondedEarlyEvent, validateBTCDelegationExpiredEvent,
       EmitActive, RegisterWatcher, EmitUnbondingMessage, SaveTimeLock, SaveHeight, Continue,
       processCovenantQuorumReachedEvent, processBTCDelegationInclusionProofReceivedEvent,
       processBTCDelegationUnbondedEarlyEvent, processBTCDelegationExpiredEvent, UpdateState
  <2>2. State(d)' # NoDocument
    BY <1>1, <1>2, <1>3, <1>4, <2>1 DEF processNewBTCDelegationEvent, SaveNewBTCDelegation,
       TypeInv, TypeOK, StoreTypeOK, Documents, State
  <2> QED
    BY <1>2, <1>5, <1>7, <2>2 DEF Applied
<1>8. CASE event.type = "CovenantQuorum"
  <2>1. validateCovenantQuorumReachedEvent \/ processCovenantQuorumReachedEvent
    BY <1>1, <1>3, <1>8 DEF ProcessorAction, ProcessorStep, Done, Processing, ValidateEvent,
       processNewBTCDelegationEvent, validateBTCDelegationInclusionProofReceivedEvent,
       validateBTCDelegationUnbondedEarlyEvent, validateBTCDelegationExpiredEvent,
       EmitActive, RegisterWatcher, EmitUnbondingMessage, SaveTimeLock, SaveHeight, Continue,
       processBTCDelegationInclusionProofReceivedEvent,
       processBTCDelegationUnbondedEarlyEvent, processBTCDelegationExpiredEvent, UpdateState
  <2>2. CASE validateCovenantQuorumReachedEvent
    <3> DEFINE quorum == /\ InQualifiedState(d,
                               QualifiedStatesForCovenantQuorumReached(Event.newState))
                         /\ docs[d].inclusionProof = (Event.newState = StateActive)
    <3>1. UNCHANGED docs /\ Known(d) /\ ~quorum
      BY <1>1, <1>2, <1>3, <2>2 DEF validateCovenantQuorumReachedEvent, ValidateEvent, Retry,
         Continue, Done, storeVars
    <3>2. State(d) # StatePending
      <4> SUFFICES ASSUME State(d) = StatePending PROVE FALSE
        OBVIOUS
      <4>1. /\ Event.newState \in {StateVerified, StateActive}
            /\ docs[d].inclusionProof = (Event.newState = StateActive)
        BY <1>1, <1>2, <1>4, <1>8, QuorumIgnored
      <4>2. InQualifiedState(d, QualifiedStatesForCovenantQuorumReached(Event.newState))
        BY <4>1 DEF State, InQualifiedState, QualifiedStatesForCovenantQuorumReached
      <4> QED
        BY <3>1, <4>1, <4>2
    <3>3. State(d)' \notin {NoDocument, StatePending}
      BY <3>1, <3>2 DEF State, Known
    <3> QED
      BY <1>2, <1>5, <1>8, <3>3 DEF Applied
  <2>3. CASE processCovenantQuorumReachedEvent
    <3> DEFINE qualified == QualifiedStatesForCovenantQuorumReached(Event.newState)
    <3>1. /\ InQualifiedState(d, qualified)
          /\ UpdateBTCDelegationState(d, qualified, Event.newState, NoSubState, FALSE)
      BY <1>1, <1>2, <1>6, <2>3, Zenon DEF processCovenantQuorumReachedEvent, UpdateState
    <3>2. State(d)' = Event.newState
      BY <1>3, <1>4, <3>1, QualifiedUpdate
    <3>3. Event.newState \in {"VERIFIED", "ACTIVE"}
      BY <3>1 DEF InQualifiedState, QualifiedStatesForCovenantQuorumReached
    <3>4. State(d)' \notin {NoDocument, StatePending}
      BY <3>2, <3>3
    <3> QED
      BY <1>2, <1>5, <1>8, <3>4 DEF Applied
  <2> QED
    BY <2>1, <2>2, <2>3
<1>9. CASE event.type = "InclusionProof"
  <2>1. \/ validateBTCDelegationInclusionProofReceivedEvent
        \/ processBTCDelegationInclusionProofReceivedEvent
    BY <1>1, <1>3, <1>9 DEF ProcessorAction, ProcessorStep, Done, Processing, ValidateEvent,
       processNewBTCDelegationEvent, validateCovenantQuorumReachedEvent,
       validateBTCDelegationUnbondedEarlyEvent, validateBTCDelegationExpiredEvent,
       EmitActive, RegisterWatcher, EmitUnbondingMessage, SaveTimeLock, SaveHeight, Continue,
       processCovenantQuorumReachedEvent,
       processBTCDelegationUnbondedEarlyEvent, processBTCDelegationExpiredEvent, UpdateState
  <2>2. CASE validateBTCDelegationInclusionProofReceivedEvent
    <3> DEFINE proof == /\ InQualifiedState(d,
                              QualifiedStatesForInclusionProofReceived(Event.newState))
                        /\ ~docs[d].inclusionProof
    <3>1. UNCHANGED docs /\ Known(d) /\ ~proof
      BY <1>1, <1>2, <1>3, <2>2 DEF validateBTCDelegationInclusionProofReceivedEvent,
         ValidateEvent, Retry, Continue, Done, storeVars
    <3>2. docs[d].inclusionProof
      <4> SUFFICES ASSUME ~docs[d].inclusionProof PROVE FALSE
        OBVIOUS
      <4>1. State(d) # NoDocument
        BY <3>1 DEF Known, State
      <4>2. State(d) \in QualifiedStatesForInclusionProofReceived(Event.newState)
        BY <1>1, <1>2, <1>4, <1>9, <4>1, InclusionProofIgnored
      <4> QED
        BY <3>1, <4>2 DEF InQualifiedState, State
    <3>3. docs'[d].inclusionProof
      BY <3>1, <3>2
    <3> QED
      BY <1>2, <1>5, <1>9, <3>3 DEF Applied
  <2>3. CASE processBTCDelegationInclusionProofReceivedEvent
    <3> DEFINE qualified == QualifiedStatesForInclusionProofReceived(Event.newState)
    <3>1. /\ InQualifiedState(d, qualified)
          /\ UpdateBTCDelegationState(d, qualified, Event.newState, NoSubState, TRUE)
      BY <1>1, <1>2, <1>6, <2>3, Zenon
         DEF processBTCDelegationInclusionProofReceivedEvent, UpdateState
    <3>2. docs'[d].inclusionProof
      BY <1>3, <1>4, <3>1, QualifiedUpdate
    <3> QED
      BY <1>2, <1>5, <1>9, <3>2 DEF Applied
  <2> QED
    BY <2>1, <2>2, <2>3
<1>10. CASE event.type = "UnbondedEarly"
  <2>1. validateBTCDelegationUnbondedEarlyEvent \/ processBTCDelegationUnbondedEarlyEvent
    BY <1>1, <1>3, <1>10 DEF ProcessorAction, ProcessorStep, Done, Processing, ValidateEvent,
       processNewBTCDelegationEvent, validateCovenantQuorumReachedEvent,
       validateBTCDelegationInclusionProofReceivedEvent, validateBTCDelegationExpiredEvent,
       EmitActive, RegisterWatcher, EmitUnbondingMessage, SaveTimeLock, SaveHeight, Continue,
       processCovenantQuorumReachedEvent, processBTCDelegationInclusionProofReceivedEvent,
       processBTCDelegationExpiredEvent, UpdateState
  <2>2. CASE validateBTCDelegationUnbondedEarlyEvent
    <3>1. UNCHANGED docs /\ ~InQualifiedState(d, QualifiedStatesForUnbondedEarly)
      BY <1>1, <1>2, <1>3, <2>2 DEF validateBTCDelegationUnbondedEarlyEvent, ValidateEvent,
         Retry, Continue, Done, storeVars
    <3>2. State(d)' # StateActive
      BY <3>1 DEF State, InQualifiedState, QualifiedStatesForUnbondedEarly
    <3> QED
      BY <1>2, <1>5, <1>10, <3>2 DEF Applied
  <2>3. CASE processBTCDelegationUnbondedEarlyEvent
    <3>1. UpdateBTCDelegationState(d, QualifiedStatesForUnbondedEarly,
             IF StakeExpansion THEN StateExpanded ELSE StateUnbonding,
             SubStateEarlyUnbonding, FALSE)
      BY <1>1, <1>2, <2>3 DEF processBTCDelegationUnbondedEarlyEvent, UpdateState
    <3>2. State(d)' # StateActive
      <4>1. CASE InQualifiedState(d, QualifiedStatesForUnbondedEarly)
        <5>1. State(d)' = IF StakeExpansion THEN StateExpanded ELSE StateUnbonding
          BY <1>3, <1>4, <3>1, <4>1, QualifiedUpdate
        <5> QED
          BY <5>1
      <4>2. CASE ~InQualifiedState(d, QualifiedStatesForUnbondedEarly)
        <5>1. State(d)' = State(d)
          BY <1>3, <1>4, <3>1, <4>2, QualifiedUpdate
        <5> QED
          BY <4>2, <5>1 DEF InQualifiedState, QualifiedStatesForUnbondedEarly, State
      <4> QED
        BY <4>1, <4>2
    <3> QED
      BY <1>2, <1>5, <1>10, <3>2 DEF Applied
  <2> QED
    BY <2>1, <2>2, <2>3
<1>11. CASE event.type = "Expired"
  <2>1. validateBTCDelegationExpiredEvent \/ processBTCDelegationExpiredEvent
    BY <1>1, <1>3, <1>11 DEF ProcessorAction, ProcessorStep, Done, Processing, ValidateEvent,
       processNewBTCDelegationEvent, validateCovenantQuorumReachedEvent,
       validateBTCDelegationInclusionProofReceivedEvent, validateBTCDelegationUnbondedEarlyEvent,
       EmitActive, RegisterWatcher, EmitUnbondingMessage, SaveTimeLock, SaveHeight, Continue,
       processCovenantQuorumReachedEvent, processBTCDelegationInclusionProofReceivedEvent,
       processBTCDelegationUnbondedEarlyEvent, UpdateState
  <2>2. CASE validateBTCDelegationExpiredEvent
    <3>1. UNCHANGED docs /\ ~InQualifiedState(d, QualifiedStatesForExpired)
      BY <1>1, <1>2, <1>3, <2>2 DEF validateBTCDelegationExpiredEvent, ValidateEvent,
         Retry, Continue, Done, storeVars
    <3>2. State(d)' # StateActive
      BY <3>1 DEF State, InQualifiedState, QualifiedStatesForExpired
    <3> QED
      BY <1>2, <1>5, <1>11, <3>2 DEF Applied
  <2>3. CASE processBTCDelegationExpiredEvent
    <3>1. /\ InQualifiedState(d, QualifiedStatesForExpired)
          /\ UpdateBTCDelegationState(d, QualifiedStatesForExpired, StateUnbonding,
                                      SubStateTimelock, FALSE)
      BY <1>1, <1>2, <1>6, <2>3, Zenon DEF processBTCDelegationExpiredEvent, UpdateState
    <3>2. State(d)' = StateUnbonding
      BY <1>3, <1>4, <3>1, QualifiedUpdate
    <3>3. State(d)' # StateActive
      BY <3>2
    <3> QED
      BY <1>2, <1>5, <1>11, <3>3 DEF Applied
  <2> QED
    BY <2>1, <2>2, <2>3
<1> QED
  BY <1>3, <1>7, <1>8, <1>9, <1>10, <1>11 DEF Events, EventTypes

\* A document never stands for an event that Babylon has not emitted.
LEMMA DocumentsFollowEvents == EventInv /\ [Next]_vars => DocumentsFromEvents'
<1> SUFFICES ASSUME EventInv, [Next]_vars, NEW d \in Delegations
             PROVE  /\ State(d)' = StateVerified => EventOf("CovenantQuorum", d, "VERIFIED")'
                    /\ docs'[d].inclusionProof /\ State(d)' \in {NoDocument, StatePending} =>
                          EventOf("InclusionProof", d, "PENDING")'
                    /\ State(d)' \notin {NoDocument, StatePending, StateVerified} =>
                          docs'[d].inclusionProof
  BY DEF DocumentsFromEvents
<1>1. TypeInv
  BY DEF EventInv
<1>2. Changed(d)
  BY <1>1, DocumentChanges
<1>3. ASSUME NEW type, NEW newState, EventOf(type, d, newState)
      PROVE  EventOf(type, d, newState)'
  BY <1>1, <1>3, EventsStay DEF EventOf
<1>4. ASSUME NEW type, Writes(type, d)
      PROVE  EventOf(type, d, Event.newState)
  <2>1. next \in DOMAIN bbnChain
    BY <1>1, <1>4 DEF Writes, TypeInv, PositionInv, ProcessorBusy
  <2> QED
    BY <1>4, <2>1 DEF Writes, EventOf, Event
<1>5. /\ State(d) = StateVerified => EventOf("CovenantQuorum", d, "VERIFIED")
      /\ docs[d].inclusionProof /\ State(d) \in {NoDocument, StatePending} =>
            EventOf("InclusionProof", d, "PENDING")
      /\ State(d) \notin {NoDocument, StatePending, StateVerified} => docs[d].inclusionProof
  BY DEF EventInv, DocumentsFromEvents
<1> USE DEF Later, Changeable, StatePending, StateVerified, StateActive, StateUnbonding,
       StateWithdrawable, StateSlashed, StateWithdrawn, StateExpanded, NoDocument
<1>6. CASE docs'[d] = docs[d]
  BY <1>3, <1>5, <1>6 DEF State
<1>7. CASE /\ State(d) = NoDocument
           /\ State(d)' = StatePending
           /\ docs'[d].inclusionProof = docs[d].inclusionProof
  BY <1>3, <1>5, <1>7
<1>8. CASE /\ Writes("CovenantQuorum", d)
           /\ State(d) = StatePending
           /\ State(d)' = Event.newState
           /\ Event.newState \in {StateVerified, StateActive}
           /\ docs'[d].inclusionProof = docs[d].inclusionProof
  <2>1. Event.newState = StateActive => docs[d].inclusionProof
    BY <1>8 DEF EventInv, QuorumValidated, Writes, ProcessorBusy
  <2>2. Event.newState = StateVerified => EventOf("CovenantQuorum", d, "VERIFIED")'
    BY <1>3, <1>4, <1>8
  <2> QED
    BY <1>8, <2>1, <2>2
<1>9. CASE /\ Writes("InclusionProof", d)
           /\ \/ State(d) = StateVerified /\ Event.newState = StateActive
              \/ State(d) = StatePending /\ Event.newState = StatePending
           /\ State(d)' = Event.newState
           /\ docs'[d].inclusionProof
  <2>1. Event.newState = StatePending => EventOf("InclusionProof", d, "PENDING")'
    BY <1>3, <1>4, <1>9
  <2> QED
    BY <1>9, <2>1
<1>10. CASE /\ State(d) \in Changeable
            /\ State(d)' \in Later
            /\ docs'[d].inclusionProof = docs[d].inclusionProof
  BY <1>5, <1>10
<1> QED
  BY <1>2, <1>6, <1>7, <1>8, <1>9, <1>10 DEF Changed

\* A handler that activates a delegation with its quorum has seen the inclusion proof, and
\* nothing takes the proof away before it writes.
LEMMA QuorumStaysValidated == EventInv /\ [Next]_vars => QuorumValidated'
<1> SUFFICES ASSUME EventInv, [Next]_vars, ProcessorBusy',
                    Event'.type = "CovenantQuorum", Event'.newState = "ACTIVE",
                    NEW d, d = Event'.delegation
             PROVE  docs'[d].inclusionProof
  BY DEF QuorumValidated, StateActive
<1>1. TypeInv
  BY DEF EventInv
<1>2. /\ next' = next
      /\ next \in DOMAIN bbnChain
      /\ Event' = Event
      /\ \/ ProcessorBusy
         \/ ProcessorAction /\ step = "validate"
  BY <1>1, BusyStep, Zenon
<1>3. d \in Delegations
  <2>1. Event \in Events
    BY <1>1, <1>2 DEF Event, TypeInv, TypeOK, ChainsTypeOK
  <2> QED
    BY <1>2, <2>1 DEF Events
<1>4. docs[d].inclusionProof
  <2>1. CASE ProcessorBusy
    BY <1>2, <2>1 DEF EventInv, QuorumValidated
  <2>2. CASE ProcessorAction /\ step = "validate"
    <3>1. validateCovenantQuorumReachedEvent /\ ~Retry /\ ~Done
      BY <1>2, <2>2 DEF ProcessorAction, ProcessorStep, Processing, ValidateEvent,
         validateCovenantQuorumReachedEvent,
         processNewBTCDelegationEvent, validateBTCDelegationInclusionProofReceivedEvent,
         validateBTCDelegationUnbondedEarlyEvent, validateBTCDelegationExpiredEvent,
         EmitActive, RegisterWatcher, EmitUnbondingMessage, SaveTimeLock, SaveHeight,
         processCovenantQuorumReachedEvent, processBTCDelegationInclusionProofReceivedEvent,
         processBTCDelegationUnbondedEarlyEvent, processBTCDelegationExpiredEvent, UpdateState,
         Done, Retry, ProcessorBusy
    <3>2. docs[d].inclusionProof = (Event.newState = StateActive)
      BY <1>2, <3>1, Zenon DEF validateCovenantQuorumReachedEvent, ValidateEvent
    <3>3. (Event.newState = StateActive) = TRUE
      BY <1>2 DEF StateActive
    <3> QED
      BY <3>2, <3>3
  <2> QED
    BY <1>2, <2>1, <2>2
<1>5. Changed(d)
  BY <1>1, <1>3, DocumentChanges
<1> QED
  BY <1>4, <1>5 DEF Changed

\* The stored height stays behind the position, and the position inside the chain.
LEMMA PositionsInOrder == EventInv /\ [Next]_vars => ProcessedInOrder'
<1> SUFFICES ASSUME EventInv, [Next]_vars PROVE ProcessedInOrder'
  OBVIOUS
<1>1. /\ TypeInv /\ lastProcessed < next /\ next <= Len(bbnChain) + 1
      /\ next \in Nat \ {0} /\ lastProcessed \in Nat /\ DOMAIN bbnChain = 1 .. Len(bbnChain)
  BY DEF EventInv, ProcessedInOrder, TypeInv, TypeOK, ProcessorTypeOK, StoreTypeOK,
     ChainsTypeOK
<1>2. /\ Len(bbnChain) \in Nat /\ Len(bbnChain)' \in Nat
      /\ Len(bbnChain) <= Len(bbnChain)'
  BY <1>1, EventsStay
<1> DEFINE length == Len(bbnChain)
<1>3. /\ length \in Nat /\ length' \in Nat /\ length <= length'
      /\ lastProcessed < next /\ next <= length + 1
      /\ DOMAIN bbnChain = 1 .. length
  BY <1>1, <1>2
<1>4. \/ UNCHANGED <<next, lastProcessed>>
      \/ next \in DOMAIN bbnChain /\ next' = next + 1 /\ UNCHANGED lastProcessed
      \/ lastProcessed' = next - 1 /\ UNCHANGED next
      \/ next' = lastProcessed + 1 /\ UNCHANGED lastProcessed
  BY <1>1, PositionMoves DEF Done
<1>5. lastProcessed' < next' /\ next' <= length' + 1
  <2> HIDE DEF length
  <2> QED
    BY <1>1, <1>3, <1>4
<1> QED
  BY <1>5 DEF ProcessedInOrder

\* Nothing that this process has passed, or that a restart takes it past, is without effect.
LEMMA PassedStaysApplied == EventInv /\ [Next]_vars => PassedApplied'
<1> SUFFICES ASSUME EventInv, [Next]_vars, NEW n \in DOMAIN bbnChain', n < next'
             PROVE  Applied(bbnChain[n])'
  BY DEF PassedApplied
<1>1. /\ TypeInv /\ lastProcessed < next /\ next <= Len(bbnChain) + 1
      /\ next \in Nat \ {0} /\ lastProcessed \in Nat
  BY DEF EventInv, ProcessedInOrder, TypeInv, TypeOK, ProcessorTypeOK, StoreTypeOK
<1>2. /\ Len(bbnChain) \in Nat /\ DOMAIN bbnChain = 1 .. Len(bbnChain)
      /\ n \in Nat \ {0}
  BY <1>1, EventsStay
<1>3. CASE n < next
  <2>1. n \in DOMAIN bbnChain
    BY <1>1, <1>2, <1>3
  <2>2. PICK event : event = bbnChain[n]
    OBVIOUS
  <2>3. PICK d : d = event.delegation
    OBVIOUS
  <2> QED
    BY <1>3, <2>1, <2>2, <2>3, AppliedStable
<1>4. CASE ~(n < next)
  <2>1. ProcessorAction /\ Done /\ next \in DOMAIN bbnChain /\ n = next
    BY <1>1, <1>2, <1>4, PositionMoves DEF Done
  <2> QED
    BY <2>1, DoneApplied
<1> QED
  BY <1>3, <1>4

\* The order of the events, their documents and the processor's position form an inductive
\* invariant: every action of the indexer and of the chains preserves it.
LEMMA NextInOrder == EventInv /\ [Next]_vars => EventInv'
<1> SUFFICES ASSUME EventInv, [Next]_vars PROVE EventInv'
  OBVIOUS
<1>1. TypeInv'
  BY NextTyped DEF EventInv
<1>2. EventsInOrder'
  <2>1. ChainsTypeOK /\ EventsInOrder
    BY DEF EventInv, TypeInv, TypeOK
  <2>2. CASE ChainsNext
    BY <2>1, <2>2, ChainsInOrder
  <2>3. CASE UNCHANGED bbnChain
    BY <2>1, <2>3 DEF EventsInOrder, EventInOrder, Earlier
  <2> QED
    BY <2>2, <2>3 DEF Next, ChainsStep, WatcherAction, ProcessorAction, CheckerAction,
       FindMissed, RegisterMissed, CallFails, Crash, GiveUp, StartProcess, vars, chainVars
<1> QED
  BY <1>1, <1>2, DocumentsFollowEvents, QuorumStaysValidated, PositionsInOrder,
     PassedStaysApplied DEF EventInv

\* Nothing was emitted, stored or processed when the indexer starts for the first time.
LEMMA InitInOrder == Init => EventInv
<1> SUFFICES ASSUME Init PROVE EventInv
  OBVIOUS
<1>1. TypeInv
  BY InitTyped
<1>2. bbnChain = <<>> /\ DOMAIN bbnChain = {} /\ Len(bbnChain) = 0
  BY DEF Init, ChainsInit
<1>3. \A d \in Delegations : State(d) = NoDocument /\ ~docs[d].inclusionProof
  BY DEF Init, StoreInit, State
<1>4. next = 1 /\ lastProcessed = 0 /\ ~ProcessorBusy
  BY DEF Init, StoreInit, ProcessorInit, ProcessorBusy
<1>5. EventsInOrder /\ PassedApplied /\ QuorumValidated
  BY <1>2, <1>4 DEF EventsInOrder, PassedApplied, QuorumValidated
<1>6. ProcessedInOrder
  BY <1>2, <1>4 DEF ProcessedInOrder
<1>7. DocumentsFromEvents
  BY <1>3 DEF DocumentsFromEvents, NoDocument, StatePending, StateVerified
<1> QED
  BY <1>1, <1>5, <1>6, <1>7 DEF EventInv

\* What the indexer knows of Babylon's events, in every reachable state: they come in order,
\* documents stand for events, and every event that the current process has passed, not
\* only those up to the stored height, has its effect.
THEOREM EventsApplied == Spec => []EventInv
BY InitInOrder, NextInOrder, PTL DEF Spec

\* The stored height never runs ahead of the events (bootstrap.go,
\* UpdateLastProcessedBbnHeight): no crash, failed call, retry or restart leaves an event of
\* a block up to that height without its effect on the delegation.
THEOREM NoneSkipped == Spec => []NoEventSkipped
<1>1. EventInv => NoEventSkipped
  <2> SUFFICES ASSUME EventInv, NEW n \in DOMAIN bbnChain, n <= lastProcessed
               PROVE  Applied(bbnChain[n])
    BY DEF NoEventSkipped
  <2>1. n \in Nat /\ lastProcessed \in Nat /\ next \in Nat /\ lastProcessed < next
    BY DEF EventInv, ProcessedInOrder, TypeInv, TypeOK, ProcessorTypeOK, StoreTypeOK,
       ChainsTypeOK
  <2>2. n < next
    BY <2>1
  <2> QED
    BY <2>2 DEF EventInv, PassedApplied
<1> QED
  BY <1>1, EventsApplied, PTL
================================================================================
