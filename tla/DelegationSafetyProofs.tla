------------------------- MODULE DelegationSafetyProofs -------------------------
(***************************************************************************)
(* Whatever the indexer stores is justified by Bitcoin.  The inductive     *)
(* invariant IInv of DelegationInvariants is preserved by the chains, by   *)
(* the three kinds of goroutines and by the service; the safety properties *)
(* follow from it.  On IInv and EventInv rest the invariants of the        *)
(* messages, of the watchers, and of what both chains say of an active     *)
(* delegation.                                                             *)
(***************************************************************************)
EXTENDS DelegationIndexerProofs

--------------------------------------------------------------------------------

\* What Bitcoin says of a spent output, it says for ever.
LEMMA SpendsStable ==
    ASSUME ChainsTypeOK, ChainsNext
    PROVE  /\ btcTip <= btcTip'
           /\ \A d \in Delegations, o \in Outputs :
                 SpendPath(d, o) # "unspent" => /\ SpendPath(d, o)' = SpendPath(d, o)
                                                /\ SpendHeight(d, o)' = SpendHeight(d, o)
<1>1. CASE MineBlock
  BY <1>1 DEF MineBlock, ChainsTypeOK, SpendPath, SpendHeight
<1>2. ASSUME NEW e \in Delegations, NEW p \in Outputs, NEW path \in SpendPaths,
             SpendOutput(e, p, path)
      PROVE  /\ btcTip <= btcTip'
             /\ \A d \in Delegations, o \in Outputs :
                   SpendPath(d, o) # "unspent" => /\ SpendPath(d, o)' = SpendPath(d, o)
                                                  /\ SpendHeight(d, o)' = SpendHeight(d, o)
  BY <1>2 DEF SpendOutput, ChainsTypeOK, SpendPath, SpendHeight
<1>3. CASE UNCHANGED <<btcTip, spend>>
  BY <1>3 DEF ChainsTypeOK, SpendPath, SpendHeight
<1>4. \/ MineBlock
      \/ \E d \in Delegations, o \in Outputs, p \in SpendPaths : SpendOutput(d, o, p)
      \/ UNCHANGED <<btcTip, spend>>
  BY DEF ChainsNext, EmitEvent, EmitCreated, EmitInclusionProofPending, EmitCovenantQuorum,
         EmitInclusionProofActive, EmitUnbondedEarly, EmitExpired
<1> QED
  BY <1>1, <1>2, <1>3, <1>4

\* A staking transaction that is in the chain stays there, at its height.
LEMMA MinedStable ==
    ASSUME ChainsTypeOK, ChainsNext, NEW d \in Delegations, StakingMined(d)
    PROVE  StakingMined(d)' /\ EndHeight(d)' = EndHeight(d)
<1>1. CASE IsExpansion(d)
  <2>1. Previous[d] \in Delegations
    BY <1>1, DelegationsAssumption DEF IsExpansion
  <2> QED
    BY <1>1, <2>1, SpendsStable DEF StakingMined, EndHeight, StartHeight, IsExpansion, Outputs
<1>2. CASE ~IsExpansion(d)
  BY <1>2 DEF StakingMined, EndHeight, StartHeight, IsExpansion
<1> QED
  BY <1>1, <1>2

\* The height at which a justified sub-state unlocks is a natural number.
LEMMA UnlockTyped ==
    ASSUME ChainsTypeOK, NEW d \in Delegations, NEW s
    PROVE  UnlockOf(d, s) \in Nat
<1>1. \A o \in Outputs : SpendHeight(d, o) + UnbondingTime \in Nat
  BY HeightsTyped, HeightsAssumption
<1>2. EndHeight(d) \in Nat
  BY HeightsTyped DEF Outputs
<1> QED
  BY <1>1, <1>2 DEF UnlockOf, UnlockHeight, SlashedOutput, Outputs

\* A justification is not lost, and the height it stands for does not move.
LEMMA WitnessStable ==
    ASSUME ChainsTypeOK, SpendsFollowOutputs, ChainsNext,
           NEW d \in Delegations, NEW s, Witnessed(d, s)
    PROVE  /\ Witnessed(d, s)'
           /\ s \in DelegationSubStates => UnlockOf(d, s)' = UnlockOf(d, s)
<1>1. Witnessed(d, s)'
  BY SpendsStable, MinedStable DEF Witnessed, Outputs, UnbondingPaths
<1>2. CASE s = SubStateTimelock
  <2>1. StakingMined(d)
    BY <1>2 DEF Witnessed
  <2>2. EndHeight(d)' = EndHeight(d)
    BY <2>1, MinedStable
  <2> QED
    BY <1>1, <1>2, <2>2 DEF UnlockOf, EndHeight, SubStateTimelock, SubStateEarlyUnbonding
<1>3. CASE s = SubStateEarlyUnbonding
  BY <1>1, <1>3, SpendsStable DEF Witnessed, UnlockOf, Outputs, UnbondingPaths,
        SubStateEarlyUnbonding, SubStateTimelock
<1>4. CASE s \in SlashingSubStates
  <2>1. PICK o \in Outputs : /\ SpendPath(d, o) = "slashing"
                             /\ SlashedOutput(d) = o
                             /\ SlashedOutput(d)' = o
    BY <1>4, SpendsStable DEF Witnessed, SlashedOutput, SpendsFollowOutputs, Outputs,
          SlashingSubStates, SubStateTimelockSlashing, SubStateEarlyUnbondingSlashing
  <2>2. SpendHeight(d, SlashedOutput(d))' = SpendHeight(d, SlashedOutput(d))
    <3>1. spend'[d][o].height = spend[d][o].height
      BY <2>1, SpendsStable DEF SpendHeight
    <3> QED
      BY <2>1, <3>1 DEF SpendHeight
  <2> QED
    BY <1>1, <1>4, <2>2 DEF UnlockOf, UnlockHeight, SlashingSubStates, SubStateTimelockSlashing,
          SubStateEarlyUnbondingSlashing, SubStateEarlyUnbonding, SubStateTimelock
<1> QED
  BY <1>1, <1>2, <1>3, <1>4 DEF DelegationSubStates, UnbondingSubStates

\* A spend on Bitcoin is a spend of an output that exists, by a path it has.
LEMMA ChainsKeepOutputs ==
    ASSUME ChainsTypeOK, SpendsFollowOutputs, ChainsNext
    PROVE  SpendsFollowOutputs'
<1>1. ASSUME NEW e \in Delegations, NEW o \in Outputs, NEW p \in SpendPaths,
             SpendOutput(e, o, p)
      PROVE  SpendsFollowOutputs'
  <2>1. /\ spend[e][o].path = "unspent"
        /\ Exists(e, o)
        /\ PathOpen(e, o, p)
        /\ p \in AllPaths
        /\ spend'[e][o].path = p
        /\ \A d \in Delegations, q \in Outputs :
              d # e \/ q # o => spend'[d][q].path = spend[d][q].path
    BY <1>1, DelegationsAssumption DEF SpendOutput, ChainsTypeOK, SpendPath
  <2>2. /\ p # "unspent"
        /\ o = "unbonding" => p \in {"timelock", "slashing"}
        /\ o = "change" => p = "timelock"
    BY <2>1 DEF PathOpen, AllPaths, UnbondingPaths
  <2>3. ASSUME NEW d \in Delegations, SpendPath(d, "staking")' # "unspent"
        PROVE  StakingMined(d)'
    <3>1. StakingMined(d)
      BY <2>1, <2>3 DEF SpendsFollowOutputs, SpendPath, Exists, Outputs
    <3> QED
      BY <3>1, MinedStable
  <2>4. ASSUME NEW d \in Delegations
        PROVE  /\ SpendPath(d, "unbonding")' # "unspent" => SpendPath(d, "staking")' = "unbonding"
               /\ SpendPath(d, "unbonding")' \in {"unspent", "timelock", "slashing"}
    <3>1. /\ spend[d]["unbonding"].path # "unspent" => spend[d]["staking"].path = "unbonding"
          /\ spend[d]["unbonding"].path \in {"unspent", "timelock", "slashing"}
      BY DEF SpendsFollowOutputs, SpendPath
    <3>2. CASE d = e /\ o = "unbonding"
      BY <2>1, <2>2, <3>2 DEF SpendPath, Exists, Outputs
    <3>3. CASE ~(d = e /\ o = "unbonding")
      BY <2>1, <3>1, <3>3 DEF SpendPath, Outputs
    <3> QED
      BY <3>2, <3>3
  <2>5. ASSUME NEW d \in Delegations
        PROVE  /\ SpendPath(d, "change")' # "unspent" =>
                     SpendPath(d, SlashedOutput(d))' = "slashing"
               /\ SpendPath(d, "change")' \in {"unspent", "timelock"}
    BY <2>1, <2>2 DEF SpendsFollowOutputs, SpendPath, Exists, Outputs, SlashedOutput
  <2> QED
    BY <2>3, <2>4, <2>5 DEF SpendsFollowOutputs
<1>2. CASE UNCHANGED spend
  BY <1>2 DEF SpendsFollowOutputs, SpendPath, StakingMined, IsExpansion, SlashedOutput
<1> QED
  BY <1>1, <1>2 DEF ChainsNext, MineBlock, EmitEvent, EmitCreated, EmitInclusionProofPending,
     EmitCovenantQuorum, EmitInclusionProofActive, EmitUnbondedEarly, EmitExpired

\* A new event is emitted only when Bitcoin justifies it.
LEMMA ChainsKeepEvents ==
    ASSUME ChainsTypeOK, SpendsFollowOutputs, EventsOnBitcoin, ChainsNext
    PROVE  EventsOnBitcoin'
<1> DEFINE Good(event) ==
        /\ event.type = "UnbondedEarly" =>
              SpendPath(event.delegation, "staking") \in UnbondingPaths
        /\ event.type \in {"InclusionProof", "Expired"} => StakingMined(event.delegation)
<1>1. ASSUME NEW event \in Events, Good(event)
      PROVE  Good(event)'
  BY <1>1, SpendsStable, MinedStable DEF Events, Outputs, UnbondingPaths
<1>2. ASSUME NEW n \in DOMAIN bbnChain
      PROVE  bbnChain[n] \in Events /\ Good(bbnChain[n])
  BY DEF ChainsTypeOK, EventsOnBitcoin
<1>3. ASSUME \A n \in DOMAIN bbnChain' :
                \E e \in Events : Good(e) /\ bbnChain'[n] = e
      PROVE  EventsOnBitcoin'
  <2> SUFFICES ASSUME NEW n \in DOMAIN bbnChain',
                      NEW e \in Events, Good(e), bbnChain'[n] = e
               PROVE  Good(e)'
    BY <1>3 DEF EventsOnBitcoin
  <2> QED
    BY <1>1
<1>4. ASSUME NEW e \in Events, Good(e), bbnChain' = Append(bbnChain, e)
      PROVE  EventsOnBitcoin'
  <2>1. \A n \in DOMAIN bbnChain' :
           bbnChain'[n] = e \/ (n \in DOMAIN bbnChain /\ bbnChain'[n] = bbnChain[n])
    BY <1>4 DEF ChainsTypeOK
  <2> HIDE DEF Good
  <2> QED
    BY <1>2, <1>3, <1>4, <2>1
<1>5. CASE UNCHANGED bbnChain
  <2> HIDE DEF Good
  <2> QED
    BY <1>2, <1>3, <1>5
<1>6. ASSUME NEW d \in Delegations, NEW type \in EventTypes,
             NEW newState \in {"PENDING", "VERIFIED", "ACTIVE", "UNBONDED", "EXPIRED"},
             EmitEvent(type, d, newState),
             type = "UnbondedEarly" => SpendPath(d, "staking") \in UnbondingPaths,
             type \in {"InclusionProof", "Expired"} => StakingMined(d)
      PROVE  EventsOnBitcoin'
  <2>1. PICK last \in BOOLEAN :
           bbnChain' = Append(bbnChain, [type |-> type, delegation |-> d,
                                         newState |-> newState, lastInBlock |-> last])
    BY <1>6, DelegationsAssumption DEF EmitEvent
  <2> DEFINE e == [type |-> type, delegation |-> d, newState |-> newState,
                   lastInBlock |-> last]
  <2>2. e \in Events /\ Good(e)
    BY <1>6 DEF Events
  <2> QED
    BY <1>4, <2>1, <2>2
<1>7. ASSUME NEW d \in Delegations, EmitExpired(d)
      PROVE  EventsOnBitcoin'
  <2>1. StakingMined(d)
    <3>1. PICK n \in DOMAIN bbnChain :
             bbnChain[n].type = "InclusionProof" /\ bbnChain[n].delegation = d
      BY <1>7 DEF EmitExpired, Activated, Emitted
    <3> QED
      BY <1>2, <3>1
  <2> QED
    BY <1>6, <1>7, <2>1 DEF EmitExpired, EventTypes
<1>8. ASSUME NEW d \in Delegations,
             \/ EmitCreated(d)
             \/ EmitInclusionProofPending(d)
             \/ EmitCovenantQuorum(d)
             \/ EmitInclusionProofActive(d)
             \/ EmitUnbondedEarly(d)
      PROVE  EventsOnBitcoin'
  BY <1>6, <1>8 DEF EmitCreated, EmitInclusionProofPending, EmitCovenantQuorum,
        EmitInclusionProofActive, EmitUnbondedEarly, EventTypes, UnbondingPaths, StakingMined
<1> QED
  BY <1>5, <1>7, <1>8 DEF ChainsNext, MineBlock, SpendOutput


\* What a stored document says of Bitcoin stays true as Bitcoin moves on: spends are
\* final and heights only grow.
LEMMA ConsistentStable ==
    ASSUME ChainsTypeOK, ChainsTypeOK', SpendsFollowOutputs, ChainsNext,
           NEW d \in Delegations, NEW state, NEW s, Consistent(d, state, s)
    PROVE  Consistent(d, state, s)'
<1>1. Witnessed(d, s)'
  BY WitnessStable DEF Consistent
<1>2. state = StateWithdrawn => SpendPath(d, WithdrawnOutput(s))' = "timelock"
  <2>1. WithdrawnOutput(s) \in Outputs
    BY DEF WithdrawnOutput, Outputs
  <2>2. PICK o \in Outputs : o = WithdrawnOutput(s)
    BY <2>1
  <2>3. SpendPath(d, o) = "timelock" => SpendPath(d, o)' = "timelock"
    BY SpendsStable
  <2> QED
    BY <2>2, <2>3 DEF Consistent
<1>3. state = StateWithdrawable => s \in DelegationSubStates /\ UnlockOf(d, s)' <= btcTip'
  <2> SUFFICES ASSUME state = StateWithdrawable
               PROVE  s \in DelegationSubStates /\ UnlockOf(d, s)' <= btcTip'
    OBVIOUS
  <2>1. s \in DelegationSubStates /\ UnlockOf(d, s) <= btcTip
    BY DEF Consistent
  <2>2. UnlockOf(d, s)' = UnlockOf(d, s)
    BY <2>1, WitnessStable DEF Consistent
  <2>3. UnlockOf(d, s) \in Nat
    BY UnlockTyped
  <2> QED
    BY <2>1, <2>2, <2>3, SpendsStable DEF ChainsTypeOK
<1> QED
  BY <1>1, <1>2, <1>3 DEF Consistent

\* Bitcoin and Babylon move on: all that is stored or under way stays justified.
LEMMA ChainsStepOnBitcoin ==
    ASSUME IInv, ChainsStep
    PROVE  OnBitcoin'
<1>0. /\ ChainsTypeOK /\ ChainsTypeOK' /\ SpendsFollowOutputs /\ ChainsNext
      /\ UNCHANGED <<docs, timelocks, watcher, next, step, found>>
  BY ChainsTyped DEF IInv, TypeInv, TypeOK, OnBitcoin, ChainsStep, storeVars, procVars,
     checkerVars
<1>1. SpendsFollowOutputs' /\ EventsOnBitcoin'
  BY <1>0, ChainsKeepOutputs, ChainsKeepEvents DEF IInv, OnBitcoin
<1>2. UnbondingSteps'
  <2>1. CASE ProcessorBusy
    <3>1. Event' = Event
      BY <1>0, <2>1, ChainGrows DEF IInv, TypeInv, PositionInv, Event
    <3> QED
      BY <1>0, <3>1 DEF IInv, OnBitcoin, UnbondingSteps
  <2>2. CASE ~ProcessorBusy
    BY <1>0, <2>2 DEF ProcessorBusy, UnbondingSteps
  <2> QED
    BY <2>1, <2>2
<1>3. WatchersOnBitcoin'
  <2>1. \A d \in Delegations, o \in Outputs :
           SpendPath(d, o) \in AllPaths => SpendPath(d, o)' = SpendPath(d, o)
    BY <1>0, SpendsStable DEF AllPaths, UnbondingPaths
  <2>2. ASSUME NEW d \in Delegations, NEW o \in Outputs, NEW at, StepJustified(d, o, at)
        PROVE  StepJustified(d, o, at)'
    BY <2>1, <2>2 DEF StepJustified, AllPaths, UnbondingPaths
  <2> QED
    BY <1>0, <2>2 DEF IInv, OnBitcoin, WatchersOnBitcoin
<1>4. ASSUME NEW t \in TimeLockDocuments, Justified(t)
      PROVE  Justified(t)'
  <2>1. t.delegation \in Delegations /\ t.subState \in DelegationSubStates
    BY DEF TimeLockDocuments
  <2>2. Witnessed(t.delegation, t.subState)
    BY <1>4 DEF Justified
  <2>3. Witnessed(t.delegation, t.subState)' /\ UnlockOf(t.delegation, t.subState)' = UnlockOf(t.delegation, t.subState)
    BY <1>0, <2>1, <2>2, WitnessStable
  <2> QED
    BY <1>4, <2>3 DEF Justified
<1>5. TimeLocksOnBitcoin' /\ FoundOnBitcoin'
  <2>1. /\ \A n \in DOMAIN timelocks : timelocks[n] \in TimeLockDocuments /\ Justified(timelocks[n])
        /\ \A n \in DOMAIN found : /\ found[n] \in TimeLockDocuments
                                   /\ Justified(found[n])
                                   /\ found[n].expireHeight <= btcTip
    BY DEF IInv, TypeInv, TypeOK, StoreTypeOK, CheckerTypeOK, OnBitcoin, TimeLocksOnBitcoin,
       FoundOnBitcoin
  <2>2. \A t \in TimeLockDocuments : t.expireHeight <= btcTip => t.expireHeight <= btcTip'
    BY <1>0, SpendsStable DEF TimeLockDocuments, ChainsTypeOK
  <2> QED
    BY <1>0, <1>4, <2>1, <2>2 DEF TimeLocksOnBitcoin, FoundOnBitcoin
<1>6. DocumentsOnBitcoin'
  <2> SUFFICES ASSUME NEW d \in Delegations
               PROVE  Consistent(d, State(d), SubState(d))'
    BY DEF DocumentsOnBitcoin
  <2>1. Consistent(d, State(d), SubState(d)) /\ State(d)' = State(d) /\ SubState(d)' = SubState(d)
    BY <1>0 DEF IInv, OnBitcoin, DocumentsOnBitcoin, State, SubState
  <2> QED
    BY <1>0, <2>1, ConsistentStable DEF IInv
<1>7. ChangeWatchedAfterSlashing'
  BY <1>0 DEF IInv, OnBitcoin, ChangeWatchedAfterSlashing, SubState
<1> QED
  BY <1>1, <1>2, <1>3, <1>5, <1>6, <1>7 DEF OnBitcoin

--------------------------------------------------------------------------------
(***************************************************************************)
(* Steps of the indexer: the chains stand still.                           *)
(***************************************************************************)

\* A step that leaves the chains alone changes nothing that Bitcoin says.
LEMMA QuietChains ==
    ASSUME UNCHANGED chainVars
    PROVE  /\ SpendsFollowOutputs => SpendsFollowOutputs'
           /\ EventsOnBitcoin => EventsOnBitcoin'
           /\ \A d, o, at : StepJustified(d, o, at) => StepJustified(d, o, at)'
           /\ \A t : Justified(t) => Justified(t)'
           /\ \A d, state, s : Consistent(d, state, s) => Consistent(d, state, s)'
<1> USE DEF chainVars, SpendPath, SpendHeight, StakingMined, IsExpansion
<1>1. SpendsFollowOutputs => SpendsFollowOutputs'
  BY DEF SpendsFollowOutputs, SlashedOutput
<1>2. EventsOnBitcoin => EventsOnBitcoin'
  BY DEF EventsOnBitcoin
<1>3. \A d, o, at : StepJustified(d, o, at) => StepJustified(d, o, at)'
  BY DEF StepJustified
<1>4. \A d, s : Witnessed(d, s) => Witnessed(d, s)'
  BY DEF Witnessed
<1>5. \A d, s : UnlockOf(d, s)' = UnlockOf(d, s)
  BY DEF UnlockOf, EndHeight, StartHeight, UnlockHeight, SlashedOutput
<1>6. \A t : Justified(t) => Justified(t)'
  BY <1>4, <1>5 DEF Justified
<1>7. \A d, state, s : Consistent(d, state, s) => Consistent(d, state, s)'
  BY <1>4, <1>5 DEF Consistent
<1> QED
  BY <1>1, <1>2, <1>3, <1>6, <1>7

\* Once slashed, always slashed: the sub-state of a slashing is not overwritten.
SlashingKept ==
    \A d \in Delegations : SubState(d) \in SlashingSubStates => SubState(d)' \in SlashingSubStates

\* A write keeps the documents consistent if the values it stores are.
LEMMA UpdateOnBitcoin ==
    ASSUME TypeInv, DocumentsOnBitcoin, UNCHANGED chainVars,
           NEW d \in Delegations, NEW qualified, NEW newState, NEW s, NEW proof,
           UpdateBTCDelegationState(d, qualified, newState, s, proof),
           InQualifiedState(d, qualified) =>
              Consistent(d, newState, IF s = NoSubState THEN SubState(d) ELSE s),
           InQualifiedState(d, qualified) /\ SubState(d) \in SlashingSubStates =>
              s \in SlashingSubStates
    PROVE  DocumentsOnBitcoin' /\ SlashingKept
<1>1. \A e \in Delegations : e # d \/ ~InQualifiedState(d, qualified) =>
         State(e)' = State(e) /\ SubState(e)' = SubState(e)
  BY DEF UpdateBTCDelegationState, State, SubState, TypeInv, TypeOK, StoreTypeOK
<1>2. InQualifiedState(d, qualified) =>
         /\ State(d)' = newState
         /\ SubState(d)' = IF s = NoSubState THEN SubState(d) ELSE s
  BY DEF UpdateBTCDelegationState, State, SubState, TypeInv, TypeOK, StoreTypeOK
<1>3. NoSubState \notin SlashingSubStates
  BY DEF NoSubState, SlashingSubStates, SubStateTimelockSlashing, SubStateEarlyUnbondingSlashing
<1>4. ASSUME NEW e \in Delegations
      PROVE  Consistent(e, State(e), SubState(e))'
  <2>1. PICK state, t : /\ State(e)' = state /\ SubState(e)' = t
                        /\ Consistent(e, state, t)
    BY <1>1, <1>2 DEF DocumentsOnBitcoin
  <2>2. Consistent(e, state, t)'
    BY <2>1, QuietChains
  <2> QED
    BY <2>1, <2>2
<1>5. SlashingKept
  BY <1>1, <1>2, <1>3 DEF SlashingKept
<1> QED
  BY <1>4, <1>5 DEF DocumentsOnBitcoin

\* A document written by SaveNewBTCDelegation is PENDING without a sub-state and so
\* claims nothing about Bitcoin.
LEMMA NewDocumentOnBitcoin ==
    ASSUME TypeInv, DocumentsOnBitcoin, UNCHANGED chainVars,
           NEW d \in Delegations, SaveNewBTCDelegation(d)
    PROVE  DocumentsOnBitcoin' /\ SlashingKept
<1> DEFINE Fresh(e) == e = d /\ docs[d].state = NoDocument
<1>0. docs \in [Delegations -> Documents]
  BY DEF TypeInv, TypeOK, StoreTypeOK
<1>1. ASSUME NEW e \in Delegations
      PROVE  /\ docs'[e].subState = docs[e].subState
             /\ docs'[e].state = IF Fresh(e) THEN StatePending ELSE docs[e].state
  <2>1. docs[d] \in Documents
    BY <1>0
  <2>2. /\ [docs[d] EXCEPT !.state = StatePending].subState = docs[d].subState
        /\ [docs[d] EXCEPT !.state = StatePending].state = StatePending
    BY <2>1 DEF Documents
  <2> QED
    BY <1>0, <2>2 DEF SaveNewBTCDelegation
<1>2. ASSUME NEW e \in Delegations
      PROVE  Consistent(e, State(e), SubState(e))'
  <2>1. Consistent(e, docs[e].state, docs[e].subState)
    BY DEF DocumentsOnBitcoin, State, SubState
  <2>2. Fresh(e) => Consistent(e, StatePending, docs[e].subState)
    BY <2>1 DEF Consistent, StatePending, NoDocument, StateSlashed, StateWithdrawable,
       StateWithdrawn
  <2>3. PICK state, s : /\ docs'[e].state = state /\ docs'[e].subState = s
                        /\ Consistent(e, state, s)
    BY <1>1, <2>1, <2>2
  <2>4. Consistent(e, state, s)'
    BY <2>3, QuietChains
  <2> QED
    BY <2>3, <2>4 DEF State, SubState
<1> QED
  BY <1>1, <1>2 DEF DocumentsOnBitcoin, SlashingKept, SubState

\* Steps without a write keep the documents consistent.
LEMMA DocumentsQuiet ==
    ASSUME DocumentsOnBitcoin, UNCHANGED <<chainVars, docs>>
    PROVE  DocumentsOnBitcoin' /\ SlashingKept
<1>1. \A d \in Delegations : State(d)' = State(d) /\ SubState(d)' = SubState(d)
  BY DEF State, SubState
<1>2. ASSUME NEW d \in Delegations
      PROVE  Consistent(d, State(d), SubState(d))'
  <2>1. PICK state, s : /\ State(d)' = state /\ SubState(d)' = s
                        /\ Consistent(d, state, s)
    BY <1>1 DEF DocumentsOnBitcoin
  <2>2. Consistent(d, state, s)'
    BY <2>1, QuietChains
  <2> QED
    BY <2>1, <2>2
<1> QED
  BY <1>1, <1>2 DEF DocumentsOnBitcoin, SlashingKept

\* Steps without a new timelock document keep the stored ones justified.
LEMMA TimeLocksQuiet ==
    ASSUME TimeLocksOnBitcoin, UNCHANGED chainVars,
           \A n \in DOMAIN timelocks' :
              \/ Justified(timelocks'[n])
              \/ \E m \in DOMAIN timelocks : timelocks'[n] = timelocks[m]
    PROVE  TimeLocksOnBitcoin'
<1>1. \A n \in DOMAIN timelocks' : \E t : timelocks'[n] = t /\ Justified(t)
  BY DEF TimeLocksOnBitcoin
<1> QED
  BY <1>1, QuietChains DEF TimeLocksOnBitcoin

\* A justified timelock document may be added (SaveNewTimeLockExpire).
LEMMA SavedTimeLock ==
    ASSUME TypeInv, TimeLocksOnBitcoin, UNCHANGED chainVars,
           NEW d \in Delegations, NEW s, Witnessed(d, s), NEW height, height = UnlockOf(d, s),
           SaveNewTimeLockExpire(d, height, s)
    PROVE  TimeLocksOnBitcoin'
<1> DEFINE t == [delegation |-> d, expireHeight |-> height, subState |-> s]
<1>1. Justified(t)
  BY DEF Justified
<1>2. timelocks' = Append(timelocks, t)
  BY DEF SaveNewTimeLockExpire
<1>3. \A n \in DOMAIN timelocks' :
         timelocks'[n] = t \/ (n \in DOMAIN timelocks /\ timelocks'[n] = timelocks[n])
  BY <1>2 DEF TypeInv, TypeOK, StoreTypeOK
<1> HIDE DEF t
<1> QED
  BY <1>1, <1>3, TimeLocksQuiet

\* The documents that a poll of the expiry checker found stay justified until the
\* next poll, however stale they become.
LEMMA FoundQuiet ==
    ASSUME FoundOnBitcoin, UNCHANGED chainVars,
           \A n \in DOMAIN found' : \E m \in DOMAIN found : found'[n] = found[m]
    PROVE  FoundOnBitcoin'
<1>1. \A n \in DOMAIN found' :
         \E t : found'[n] = t /\ Justified(t) /\ t.expireHeight <= btcTip
  BY DEF FoundOnBitcoin
<1> QED
  BY <1>1, QuietChains DEF FoundOnBitcoin, chainVars

\* A moved watcher is justified where it arrives; the others have not moved.
LEMMA WatchersMoved ==
    ASSUME WatchersOnBitcoin, ChangeWatchedAfterSlashing, SlashingKept, UNCHANGED chainVars,
           \A d \in Delegations, o \in Outputs, i \in WatcherIds :
              LET w == <<d, o, i>> IN
              \/ watcher'[w] = watcher[w]
              \/ /\ StepJustified(d, o, watcher'[w])
                 /\ \/ o = "change" /\ watcher[w] = "none" /\ watcher'[w] # "none"
                    \/ watcher'[w] = "saveSlashing"
                    => SubState(d)' \in SlashingSubStates
    PROVE  WatchersOnBitcoin' /\ ChangeWatchedAfterSlashing'
<1>1. ASSUME NEW d \in Delegations, NEW o \in Outputs, NEW i \in WatcherIds
      PROVE  StepJustified(d, o, watcher[<<d, o, i>>])'
  <2>1. PICK at : watcher'[<<d, o, i>>] = at /\ StepJustified(d, o, at)
    BY DEF WatchersOnBitcoin
  <2>2. StepJustified(d, o, at)'
    BY <2>1, QuietChains
  <2> QED
    BY <2>1, <2>2
<1>2. ChangeWatchedAfterSlashing'
  BY DEF ChangeWatchedAfterSlashing, SlashingKept
<1> QED
  BY <1>1, <1>2 DEF WatchersOnBitcoin

\* A watcher that goes to its next step is one moved watcher.
LEMMA GotoMoves ==
    ASSUME WatcherTypeOK, WatchersOnBitcoin, ChangeWatchedAfterSlashing, SlashingKept,
           UNCHANGED chainVars,
           NEW d \in Delegations, NEW o \in Outputs, NEW i \in WatcherIds,
           watcher[<<d, o, i>>] # "none", NEW at, Goto(<<d, o, i>>, at),
           StepJustified(d, o, at), at = "saveSlashing" => SubState(d)' \in SlashingSubStates
    PROVE  WatchersOnBitcoin' /\ ChangeWatchedAfterSlashing'
BY WatchersMoved DEF Goto, WatcherTypeOK, Watchers

\* watchers is watcher, or watcher with one handler ended: starting a further watcher
\* moves no other one beyond its registration.
LEMMA StartMoves ==
    ASSUME WatchersOnBitcoin, ChangeWatchedAfterSlashing, SlashingKept, UNCHANGED chainVars,
           NEW watchers, watchers \in [Watchers -> WatcherSteps],
           \A w \in Watchers : watchers[w] = watcher[w] \/ watchers[w] = "none",
           NEW d \in Delegations, NEW o \in Outputs,
           o = "change" => SubState(d)' \in SlashingSubStates,
           watcher' \in Started(watchers, d, o)
    PROVE  WatchersOnBitcoin' /\ ChangeWatchedAfterSlashing'
<1>1. \A e \in Delegations, p \in Outputs, i \in WatcherIds :
         LET w == <<e, p, i>> IN
         \/ watcher'[w] = watcher[w]
         \/ watcher'[w] = "none"
         \/ watcher'[w] = "register" /\ e = d /\ p = o
  BY DEF Started, Watchers
<1>2. \A e, p : StepJustified(e, p, "none") /\ StepJustified(e, p, "register")
  BY DEF StepJustified
<1> QED
  BY <1>1, <1>2, WatchersMoved

\* Every step of a spend watcher keeps what is stored justified: the classification of
\* a spend (handleSpendingStakingTransaction, handleSpendingUnbondingTransaction)
\* decides what it may store, whatever the other goroutines did in the meantime.
LEMMA WatcherActionOnBitcoin ==
    ASSUME IInv, NEW d \in Delegations, NEW o \in Outputs, NEW i \in WatcherIds,
           WatcherAction(d, o, i)
    PROVE  OnBitcoin'
<1> DEFINE w == <<d, o, i>>
<1>0. /\ ChainsTypeOK /\ WatcherTypeOK /\ TypeInv /\ OnBitcoin
      /\ WatchersOnBitcoin /\ ChangeWatchedAfterSlashing /\ DocumentsOnBitcoin
      /\ TimeLocksOnBitcoin
      /\ UNCHANGED <<chainVars, procVars, checkerVars>>
      /\ WatcherStep(d, o, i)
  BY DEF IInv, TypeInv, TypeOK, OnBitcoin, WatcherAction
<1>a. /\ StepJustified(d, o, watcher[w])
      /\ Consistent(d, State(d), SubState(d))
      /\ UNCHANGED docs => DocumentsOnBitcoin' /\ SlashingKept
      /\ UNCHANGED timelocks => TimeLocksOnBitcoin'
  BY <1>0, DocumentsQuiet, TimeLocksQuiet DEF WatchersOnBitcoin, DocumentsOnBitcoin
<1>b. /\ SpendPath(d, "staking") # "unspent" => StakingMined(d)
      /\ SpendPath(d, "unbonding") # "unspent" => SpendPath(d, "staking") = "unbonding"
      /\ SpendPath(d, "unbonding") \in {"unspent", "timelock", "slashing"}
      /\ SpendPath(d, "change") # "unspent" => SpendPath(d, SlashedOutput(d)) = "slashing"
      /\ SpendPath(d, "change") \in {"unspent", "timelock"}
  BY <1>0 DEF OnBitcoin, SpendsFollowOutputs
<1>c. \A at : StepJustified(d, o, at) /\ at # "saveSlashing" /\ Goto(w, at) /\ SlashingKept
              /\ watcher[w] # "none"
              => WatchersOnBitcoin' /\ ChangeWatchedAfterSlashing'
  BY <1>0, GotoMoves
<1>d. [watcher EXCEPT ![w] = "none"] \in [Watchers -> WatcherSteps]
      /\ \A v \in Watchers : \/ [watcher EXCEPT ![w] = "none"][v] = watcher[v]
                             \/ [watcher EXCEPT ![w] = "none"][v] = "none"
  BY <1>0 DEF WatcherTypeOK, WatcherSteps, Watchers
<1> SUFFICES /\ DocumentsOnBitcoin' /\ TimeLocksOnBitcoin'
             /\ WatchersOnBitcoin' /\ ChangeWatchedAfterSlashing'
  BY <1>0, QuietChains, FoundQuiet DEF OnBitcoin, UnbondingSteps, Event, procVars, chainVars,
     checkerVars
<1>1. CASE RegisterSpend(d, o, i)
  BY <1>1, <1>a, <1>c DEF RegisterSpend, storeVars, StepJustified
<1>2. CASE ReceiveSpend(d, o, i)
  <2>1. StepJustified(d, o, FirstStep(o, SpendPath(d, o)))
    BY <1>b DEF StepJustified, FirstStep, Outputs, isSpendingUnbondingPath,
          isSpendingTimeLockPath, isSpendingSlashingPath
  <2>2. FirstStep(o, SpendPath(d, o)) # "saveSlashing"
    BY DEF FirstStep
  <2> QED
    BY <1>2, <1>a, <1>c, <2>1, <2>2 DEF ReceiveSpend, storeVars
<1>3. CASE SetUnbonding(d, o, i)
  <2>1. o = "staking" /\ SpendPath(d, "staking") \in {"unbonding", "unexpected"}
    BY <1>3, <1>a DEF SetUnbonding, StepJustified
  <2>2. Consistent(d, StateUnbonding, SubStateEarlyUnbonding)
    BY <2>1 DEF Consistent, Witnessed, UnbondingPaths, SlashingSubStates,
       StateUnbonding, StateSlashed, StateWithdrawn, StateWithdrawable,
       SubStateTimelock, SubStateEarlyUnbonding, SubStateTimelockSlashing,
       SubStateEarlyUnbondingSlashing
  <2>3. InQualifiedState(d, QualifiedStatesForUnbondedEarly) => SubState(d) \notin SlashingSubStates
    BY <1>a DEF InQualifiedState, QualifiedStatesForUnbondedEarly, Consistent, State,
       StateActive, StateUnbonding, StateSlashed, StateWithdrawn, StateWithdrawable
  <2>4. SubStateEarlyUnbonding # NoSubState
    BY DEF SubStateEarlyUnbonding, NoSubState
  <2>5. DocumentsOnBitcoin' /\ SlashingKept
    BY <1>0, <1>3, <2>2, <2>3, <2>4, UpdateOnBitcoin DEF SetUnbonding
  <2>6. StepJustified(d, o, "none") /\ (validateUnbondingTxOutput(d) => StepJustified(d, o, "emitUnbonding"))
    BY <2>1 DEF StepJustified, validateUnbondingTxOutput
  <2> QED
    BY <1>3, <1>a, <1>c, <2>5, <2>6 DEF SetUnbonding
<1>4. CASE EmitUnbonding(d, o, i)
  <2>1. StepJustified(d, o, "saveUnbonding")
    BY <1>4, <1>a DEF EmitUnbonding, StepJustified
  <2> QED
    BY <1>4, <1>a, <1>c, <2>1 DEF EmitUnbonding
<1>5. CASE SaveUnbonding(d, o, i)
  <2>1. o = "staking" /\ SpendPath(d, "staking") = "unbonding"
    BY <1>5, <1>a DEF SaveUnbonding, StepJustified
  <2>2. /\ Witnessed(d, SubStateEarlyUnbonding)
        /\ SpendHeight(d, o) + UnbondingTime = UnlockOf(d, SubStateEarlyUnbonding)
    BY <2>1 DEF Witnessed, UnlockOf, UnbondingPaths, SubStateTimelock, SubStateEarlyUnbonding,
       SubStateTimelockSlashing, SubStateEarlyUnbondingSlashing
  <2>3. TimeLocksOnBitcoin'
    BY <1>0, <1>5, <2>2, SavedTimeLock DEF SaveUnbonding
  <2>4. WatchersOnBitcoin' /\ ChangeWatchedAfterSlashing'
    BY <1>0, <1>5, <1>a, <1>d, StartMoves DEF SaveUnbonding, Outputs
  <2> QED
    BY <1>5, <1>a, <2>3, <2>4 DEF SaveUnbonding
<1>6. CASE CheckWithdrawal(d, o, i)
  <2>1. StepJustified(d, o, "none") /\ StepJustified(d, o, "setWithdrawn")
    BY <1>6, <1>a DEF CheckWithdrawal, StepJustified
  <2> QED
    BY <1>6, <1>a, <1>c, <2>1 DEF CheckWithdrawal, storeVars
<1> USE DEF StateActive, StateUnbonding, StateSlashed, StateWithdrawn, StateWithdrawable,
       NoSubState, SubStateTimelock, SubStateEarlyUnbonding, SubStateTimelockSlashing,
       SubStateEarlyUnbondingSlashing
<1>7. CASE SetWithdrawn(d, o, i)
  <2> DEFINE s == SubStateOfWithdrawal(d, o)
  <2>1. SpendPath(d, o) = "timelock"
    BY <1>7, <1>a DEF SetWithdrawn, StepJustified
  <2>2. Consistent(d, StateWithdrawn, s) /\ s # NoSubState
    BY <1>b, <2>1 DEF Consistent, Witnessed, SubStateOfWithdrawal, SubStateOfSlashing,
       WithdrawnOutput, SlashedOutput, UnbondingPaths, SlashingSubStates, Outputs
  <2>3. SubState(d) \in SlashingSubStates => s \in SlashingSubStates
    BY <1>a, <1>b, <2>1 DEF Consistent, Witnessed, SubStateOfWithdrawal, SubStateOfSlashing,
       SlashingSubStates, Outputs
  <2>4. DocumentsOnBitcoin' /\ SlashingKept
    BY <1>0, <1>7, <2>2, <2>3, UpdateOnBitcoin DEF SetWithdrawn
  <2>5. StepJustified(d, o, "none")
    BY DEF StepJustified
  <2> QED
    BY <1>7, <1>a, <1>c, <2>4, <2>5 DEF SetWithdrawn
<1>8. CASE EmitSlashing(d, o, i)
  <2>1. StepJustified(d, o, "setSlashed")
    BY <1>8, <1>a DEF EmitSlashing, StepJustified
  <2> QED
    BY <1>8, <1>a, <1>c, <2>1 DEF EmitSlashing
<1>9. CASE SetSlashed(d, o, i)
  <2> DEFINE s == SubStateOfSlashing(o)
  <2>1. o \in {"staking", "unbonding"} /\ SpendPath(d, o) = "slashing"
    BY <1>9, <1>a DEF SetSlashed, StepJustified
  <2>2. Consistent(d, StateSlashed, s) /\ s # NoSubState /\ s \in SlashingSubStates
    BY <2>1 DEF Consistent, Witnessed, SubStateOfSlashing, SlashingSubStates
  <2>3. DocumentsOnBitcoin' /\ SlashingKept
    BY <1>0, <1>9, <2>2, UpdateOnBitcoin DEF SetSlashed
  <2>4. CASE InQualifiedState(d, QualifiedStatesForSlashed)
    <3>1. SubState(d)' \in SlashingSubStates
      BY <1>0, <1>9, <2>2, <2>4 DEF SetSlashed, UpdateBTCDelegationState, SubState, TypeInv,
            TypeOK, StoreTypeOK
    <3>2. StepJustified(d, o, "saveSlashing")
      BY <2>1 DEF StepJustified
    <3>3. WatchersOnBitcoin' /\ ChangeWatchedAfterSlashing'
      BY <1>0, <1>9, <2>3, <2>4, <3>1, <3>2, GotoMoves DEF SetSlashed
    <3> QED
      BY <1>9, <1>a, <2>3, <3>3 DEF SetSlashed
  <2>5. CASE ~InQualifiedState(d, QualifiedStatesForSlashed)
    <3>1. StepJustified(d, o, "none")
      BY DEF StepJustified
    <3> QED
      BY <1>9, <1>a, <1>c, <2>3, <2>5, <3>1 DEF SetSlashed
  <2> QED
    BY <2>4, <2>5
<1>10. CASE SaveSlashing(d, o, i)
  <2> DEFINE s == SubStateOfSlashing(o)
  <2>1. o \in {"staking", "unbonding"} /\ SpendPath(d, o) = "slashing"
    BY <1>10, <1>a DEF SaveSlashing, StepJustified
  <2>2. Witnessed(d, s) /\ SpendHeight(d, o) + UnbondingTime = UnlockOf(d, s)
    BY <1>b, <2>1 DEF Witnessed, UnlockOf, UnlockHeight, SlashedOutput, SubStateOfSlashing
  <2>3. TimeLocksOnBitcoin'
    BY <1>0, <1>10, <2>2, SavedTimeLock DEF SaveSlashing
  <2>4. SubState(d)' \in SlashingSubStates
    BY <1>0, <1>10 DEF SaveSlashing, ChangeWatchedAfterSlashing, SubState
  <2>5. WatchersOnBitcoin' /\ ChangeWatchedAfterSlashing'
    BY <1>0, <1>10, <1>a, <1>d, <2>4, StartMoves DEF SaveSlashing, Outputs
  <2> QED
    BY <1>10, <1>a, <2>3, <2>5 DEF SaveSlashing
<1> QED
  BY <1>0, <1>1, <1>2, <1>3, <1>4, <1>5, <1>6, <1>7, <1>8, <1>9, <1>10 DEF WatcherStep

\* Every step of the block processor keeps what is stored justified: each event has
\* its cause on Bitcoin.
LEMMA ProcessorActionOnBitcoin ==
    ASSUME IInv, ProcessorAction
    PROVE  OnBitcoin'
<1> DEFINE d == Event.delegation
<1>0. /\ ChainsTypeOK /\ StoreTypeOK /\ WatcherTypeOK /\ TypeInv /\ OnBitcoin
      /\ WatchersOnBitcoin /\ ChangeWatchedAfterSlashing /\ DocumentsOnBitcoin
      /\ TimeLocksOnBitcoin /\ EventsOnBitcoin /\ UnbondingSteps
      /\ UNCHANGED <<chainVars, checkerVars, bbnChain>>
      /\ ProcessorStep
  BY DEF IInv, TypeInv, TypeOK, OnBitcoin, ProcessorAction, chainVars
<1>a. /\ UNCHANGED docs => DocumentsOnBitcoin' /\ SlashingKept
      /\ UNCHANGED timelocks => TimeLocksOnBitcoin'
  BY <1>0, DocumentsQuiet, TimeLocksQuiet
<1>b. UNCHANGED watcher /\ SlashingKept => WatchersOnBitcoin' /\ ChangeWatchedAfterSlashing'
  BY <1>0, WatchersMoved
<1>c. step \in {"validate", "emitActive", "register", "emitUnbonding", "saveTimeLock", "update"}
         /\ (step = "validate" => BlockAvailable)
      => /\ d \in Delegations
         /\ Consistent(d, State(d), SubState(d))
         /\ Event.type = "UnbondedEarly" => SpendPath(d, "staking") \in UnbondingPaths
         /\ Event.type = "Expired" => StakingMined(d)
  <2> SUFFICES ASSUME step # "saveHeight", step # "failed", BlockAvailable \/ ProcessorBusy
               PROVE  /\ d \in Delegations
                      /\ Consistent(d, State(d), SubState(d))
                      /\ Event.type = "UnbondedEarly" =>
                            SpendPath(d, "staking") \in UnbondingPaths
                      /\ Event.type = "Expired" => StakingMined(d)
    BY DEF ProcessorBusy
  <2>1. next \in DOMAIN bbnChain /\ Event \in Events
    BY <1>0, EventTyped
  <2> QED
    BY <1>0, <2>1 DEF Event, Events, DocumentsOnBitcoin, EventsOnBitcoin
<1>d. \A s : Continue(s) => /\ Event' = Event
                            /\ s \notin {"emitUnbonding", "saveTimeLock"} => UnbondingSteps'
                            /\ Event.type \in {"UnbondedEarly", "Expired"} => UnbondingSteps'
  BY <1>0 DEF Continue, Event, UnbondingSteps
<1>e. Done \/ Retry => UnbondingSteps'
  BY DEF Done, Retry, UnbondingSteps
<1> SUFFICES /\ DocumentsOnBitcoin' /\ TimeLocksOnBitcoin' /\ UnbondingSteps'
             /\ WatchersOnBitcoin' /\ ChangeWatchedAfterSlashing'
  BY <1>0, QuietChains, FoundQuiet DEF OnBitcoin, checkerVars
<1>1. ASSUME NEW type, NEW shouldProcess, NEW firstStep,
             ValidateEvent(type, shouldProcess, firstStep),
             type \in {"UnbondedEarly", "Expired"} \/ firstStep \notin {"emitUnbonding", "saveTimeLock"}
      PROVE  /\ DocumentsOnBitcoin' /\ TimeLocksOnBitcoin' /\ UnbondingSteps'
             /\ WatchersOnBitcoin' /\ ChangeWatchedAfterSlashing'
  BY <1>1, <1>a, <1>b, <1>d, <1>e DEF ValidateEvent, Processing, storeVars
<1>2. CASE \/ validateCovenantQuorumReachedEvent
           \/ validateBTCDelegationInclusionProofReceivedEvent
           \/ validateBTCDelegationUnbondedEarlyEvent
           \/ validateBTCDelegationExpiredEvent
  BY <1>1, <1>2 DEF validateCovenantQuorumReachedEvent, ActivatesOr,
     validateBTCDelegationInclusionProofReceivedEvent,
     validateBTCDelegationUnbondedEarlyEvent, validateBTCDelegationExpiredEvent
<1>3. CASE EmitActive
  BY <1>3, <1>a, <1>b, <1>d DEF EmitActive
<1>4. CASE RegisterWatcher
  <2>1. UNCHANGED docs /\ SlashingKept /\ d \in Delegations
    BY <1>4, <1>a, <1>c DEF RegisterWatcher, storeVars
  <2>2. WatchersOnBitcoin' /\ ChangeWatchedAfterSlashing'
    BY <1>0, <1>4, <2>1, StartMoves DEF RegisterWatcher, registerStakingSpendNotification,
       Outputs, WatcherTypeOK
  <2> QED
    BY <1>4, <1>a, <1>d, <2>2 DEF RegisterWatcher, storeVars
<1>5. CASE EmitUnbondingMessage
  BY <1>0, <1>5, <1>a, <1>b, <1>d DEF EmitUnbondingMessage, UnbondingSteps
<1> USE DEF StateActive, StateUnbonding, StateSlashed, StateWithdrawn, StateWithdrawable,
       StatePending, StateVerified, StateExpanded,
       NoSubState, NoDocument, SubStateTimelock, SubStateEarlyUnbonding,
       SubStateTimelockSlashing, SubStateEarlyUnbondingSlashing
<1>6. CASE SaveTimeLock
  <2>1. d \in Delegations /\ Event.type \in {"UnbondedEarly", "Expired"}
    BY <1>0, <1>6, <1>c DEF SaveTimeLock, UnbondingSteps
  <2>2. Witnessed(d, UnbondingSubState) /\ TimeLockHeight(d) = UnlockOf(d, UnbondingSubState)
    BY <1>6, <1>c, <2>1 DEF SaveTimeLock, Witnessed, UnlockOf, UnbondingSubState, TimeLockHeight
  <2>3. TimeLocksOnBitcoin'
    BY <1>0, <1>6, <2>1, <2>2, SavedTimeLock DEF SaveTimeLock
  <2> QED
    BY <1>6, <1>a, <1>b, <1>d, <2>3 DEF SaveTimeLock
<1>7. CASE processNewBTCDelegationEvent
  <2>1. d \in Delegations
    BY <1>7, <1>c DEF processNewBTCDelegationEvent, Processing
  <2>2. DocumentsOnBitcoin' /\ SlashingKept
    BY <1>0, <1>7, <2>1, NewDocumentOnBitcoin DEF processNewBTCDelegationEvent
  <2> QED
    BY <1>7, <1>a, <1>b, <1>e, <2>2 DEF processNewBTCDelegationEvent
<1>8. ASSUME NEW type, NEW qualified, NEW newState, NEW s, NEW proof,
             UpdateState(type, qualified, newState, s, proof),
             qualified \subseteq {StatePending, StateVerified, StateActive, StateUnbonding},
             Witnessed(d, s),
             s \in {NoSubState, SubStateTimelock, SubStateEarlyUnbonding},
             qualified # {} => newState \in DelegationStates \ {StateSlashed, StateWithdrawn,
                                                                StateWithdrawable}
      PROVE  /\ DocumentsOnBitcoin' /\ TimeLocksOnBitcoin' /\ UnbondingSteps'
             /\ WatchersOnBitcoin' /\ ChangeWatchedAfterSlashing'
  <2>1. d \in Delegations /\ Consistent(d, State(d), SubState(d))
    BY <1>8, <1>c DEF UpdateState
  <2>2. ASSUME InQualifiedState(d, qualified)
        PROVE  /\ Consistent(d, newState, IF s = NoSubState THEN SubState(d) ELSE s)
               /\ SubState(d) \notin SlashingSubStates
    BY <1>8, <2>1, <2>2 DEF InQualifiedState, Consistent, State, SlashingSubStates
  <2>3. DocumentsOnBitcoin' /\ SlashingKept
    BY <1>0, <1>8, <2>1, <2>2, UpdateOnBitcoin DEF UpdateState
  <2> QED
    BY <1>8, <1>a, <1>b, <1>e, <2>3 DEF UpdateState
<1>9. CASE processCovenantQuorumReachedEvent
  BY <1>8, <1>9 DEF processCovenantQuorumReachedEvent, Witnessed, DelegationStates,
     QualifiedStatesForCovenantQuorumReached
<1>10. CASE processBTCDelegationInclusionProofReceivedEvent
  BY <1>8, <1>10 DEF processBTCDelegationInclusionProofReceivedEvent, Witnessed,
     DelegationStates, QualifiedStatesForInclusionProofReceived
<1>11. CASE processBTCDelegationUnbondedEarlyEvent
  <2>1. Witnessed(d, SubStateEarlyUnbonding)
    BY <1>11, <1>c DEF processBTCDelegationUnbondedEarlyEvent, UpdateState, Witnessed
  <2> QED
    BY <1>8, <1>11, <2>1 DEF processBTCDelegationUnbondedEarlyEvent, DelegationStates,
       QualifiedStatesForUnbondedEarly
<1>12. CASE processBTCDelegationExpiredEvent
  <2>1. Witnessed(d, SubStateTimelock)
    BY <1>12, <1>c DEF processBTCDelegationExpiredEvent, UpdateState, Witnessed
  <2> QED
    BY <1>8, <1>12, <2>1 DEF processBTCDelegationExpiredEvent, DelegationStates,
       QualifiedStatesForExpired
<1>13. CASE SaveHeight
  BY <1>13, <1>a, <1>b, <1>d DEF SaveHeight
<1> QED
  BY <1>0, <1>2, <1>3, <1>4, <1>5, <1>6, <1>7, <1>9, <1>10, <1>11, <1>12, <1>13
     DEF ProcessorStep

\* What DeleteExpiredDelegation leaves was there before.
LEMMA DeletedFrom ==
    ASSUME timelocks \in Seq(TimeLockDocuments), NEW d, DeleteExpiredDelegation(d)
    PROVE  \A n \in DOMAIN timelocks' : \E m \in DOMAIN timelocks : timelocks'[n] = timelocks[m]
<1>1. CASE TimeLocksOf(d) = {}
  BY <1>1 DEF DeleteExpiredDelegation
<1>2. CASE TimeLocksOf(d) # {}
  <2>1. PICK i \in TimeLocksOf(d) :
           timelocks' = [j \in 1 .. Len(timelocks) - 1 |->
                            IF j < i THEN timelocks[j] ELSE timelocks[j + 1]]
    BY <1>2 DEF DeleteExpiredDelegation
  <2>2. \A j \in 1 .. Len(timelocks) - 1 : j \in DOMAIN timelocks /\ j + 1 \in DOMAIN timelocks
    OBVIOUS
  <2> QED
    BY <2>1, <2>2
<1> QED
  BY <1>1, <1>2

\* Every step of the expiry checker keeps what is stored justified: it works from
\* documents whose height had passed when they were read, and heights only grow.
LEMMA CheckerActionOnBitcoin ==
    ASSUME IInv, CheckerAction
    PROVE  OnBitcoin'
<1>0. /\ TypeInv /\ OnBitcoin /\ StoreTypeOK /\ CheckerTypeOK
      /\ UNCHANGED <<chainVars, watcher, procVars>>
      /\ CheckerStep
  BY DEF IInv, TypeInv, TypeOK, CheckerAction
<1>1. /\ UNCHANGED docs => DocumentsOnBitcoin' /\ SlashingKept
      /\ UNCHANGED timelocks => TimeLocksOnBitcoin'
      /\ SlashingKept => WatchersOnBitcoin' /\ ChangeWatchedAfterSlashing'
  BY <1>0, DocumentsQuiet, TimeLocksQuiet, WatchersMoved DEF OnBitcoin
<1> SUFFICES DocumentsOnBitcoin' /\ SlashingKept /\ TimeLocksOnBitcoin' /\ FoundOnBitcoin'
  BY <1>0, <1>1, QuietChains DEF OnBitcoin, UnbondingSteps, Event, procVars, chainVars
<1>2. CASE Poll
  <2>1. PICK n \in 1 .. ExpiredDelegationsLimit :
          \E pick \in [1 .. n -> ExpiredTimeLocks(btcTip)] :
             found' = [k \in 1 .. n |-> timelocks[pick[k]]]
    BY <1>2 DEF Poll
  <2>2. PICK pick \in [1 .. n -> ExpiredTimeLocks(btcTip)] :
          found' = [k \in 1 .. n |-> timelocks[pick[k]]]
    BY <2>1
  <2>3. \A k \in DOMAIN found' :
           \E t : found'[k] = t /\ Justified(t) /\ t.expireHeight <= btcTip
    BY <1>0, <2>2 DEF ExpiredTimeLocks, OnBitcoin, TimeLocksOnBitcoin
  <2>4. FoundOnBitcoin'
    BY <1>0, <2>3, QuietChains DEF FoundOnBitcoin, chainVars
  <2> QED
    BY <1>1, <1>2, <2>4 DEF Poll, storeVars
<1>3. CASE SetWithdrawable
  <2> DEFINE doc == Head(found)
             d == doc.delegation
             s == doc.subState
  <2>1. doc \in TimeLockDocuments /\ Justified(doc) /\ doc.expireHeight <= btcTip
    <3>1. 1 \in DOMAIN found /\ doc = found[1]
      BY <1>0, <1>3 DEF SetWithdrawable, CheckerTypeOK
    <3> QED
      BY <1>0, <3>1 DEF OnBitcoin, FoundOnBitcoin, CheckerTypeOK
  <2>2. d \in Delegations /\ s \in DelegationSubStates
    BY <2>1 DEF TimeLockDocuments
  <2>3. Consistent(d, State(d), SubState(d))
    BY <1>0, <2>2 DEF OnBitcoin, DocumentsOnBitcoin
  <2> USE DEF StateActive, StateUnbonding, StateSlashed, StateWithdrawn, StateWithdrawable,
         NoSubState, SubStateTimelock, SubStateEarlyUnbonding, SubStateTimelockSlashing,
         SubStateEarlyUnbondingSlashing
  <2>4. Consistent(d, StateWithdrawable, s) /\ s # NoSubState
    BY <2>1, <2>2 DEF Consistent, Justified, DelegationSubStates, UnbondingSubStates,
       SlashingSubStates
  <2>5. InQualifiedState(d, QualifiedStatesForWithdrawable(s)) /\ SubState(d) \in SlashingSubStates
           => s \in SlashingSubStates
    BY <2>2, <2>3 DEF InQualifiedState, QualifiedStatesForWithdrawable, Consistent, State,
       DelegationSubStates, UnbondingSubStates, SlashingSubStates
  <2>6. DocumentsOnBitcoin' /\ SlashingKept
    BY <1>0, <1>3, <2>2, <2>4, <2>5, UpdateOnBitcoin DEF SetWithdrawable, OnBitcoin
  <2> QED
    BY <1>0, <1>1, <1>3, <2>6, FoundQuiet DEF SetWithdrawable, OnBitcoin
<1>4. CASE DeleteTimeLock
  <2>1. TimeLocksOnBitcoin'
    BY <1>0, <1>4, DeletedFrom, TimeLocksQuiet DEF DeleteTimeLock, OnBitcoin, StoreTypeOK
  <2>2. found # <<>> /\ (found' = <<>> \/ found' = Tail(found))
    BY <1>0, <1>4 DEF DeleteTimeLock, NextDocument, CheckerTypeOK
  <2>3. \A n \in DOMAIN found' : \E m \in DOMAIN found : found'[n] = found[m]
    <3>1. CASE found' = <<>>
      BY <3>1
    <3>2. CASE found' = Tail(found)
      <4>1. \A n \in DOMAIN Tail(found) :
               n + 1 \in DOMAIN found /\ Tail(found)[n] = found[n + 1]
        BY <1>0, <2>2 DEF CheckerTypeOK
      <4> QED
        BY <3>2, <4>1
    <3> QED
      BY <2>2, <3>1, <3>2
  <2>4. FoundOnBitcoin'
    BY <1>0, <2>3, FoundQuiet DEF OnBitcoin
  <2> QED
    BY <1>1, <1>4, <2>1, <2>4 DEF DeleteTimeLock
<1> QED
  BY <1>0, <1>2, <1>3, <1>4 DEF CheckerStep

\* Steps of the service: documents and timelock documents stay as they are.
LEMMA ServiceStepOnBitcoin ==
    ASSUME IInv,
           \/ FindMissed
           \/ \E d \in Delegations : RegisterMissed(d)
           \/ CallFails
           \/ Crash
           \/ GiveUp
           \/ UNCHANGED vars
    PROVE  OnBitcoin'
<1>0. /\ TypeInv /\ OnBitcoin /\ WatcherTypeOK /\ WatchersOnBitcoin
      /\ ChangeWatchedAfterSlashing /\ FoundOnBitcoin /\ UnbondingSteps
  BY DEF IInv, TypeInv, TypeOK, OnBitcoin
<1>1. UNCHANGED <<chainVars, docs, timelocks>>
  BY DEF FindMissed, RegisterMissed, CallFails, Crash, GiveUp, StartProcess, WatcherFails,
         ProcessorFails, CheckerFails, vars, storeVars
<1>2. DocumentsOnBitcoin' /\ SlashingKept /\ TimeLocksOnBitcoin'
  BY <1>0, <1>1, DocumentsQuiet, TimeLocksQuiet DEF OnBitcoin
<1>3. \A d, o : StepJustified(d, o, "none")
  BY DEF StepJustified
<1>4. (\A w \in Watchers : watcher'[w] = watcher[w] \/ watcher'[w] = "none")
         => WatchersOnBitcoin' /\ ChangeWatchedAfterSlashing'
  BY <1>0, <1>1, <1>2, <1>3, WatchersMoved DEF Watchers
<1>5. WatchersOnBitcoin' /\ ChangeWatchedAfterSlashing'
  <2>1. ASSUME NEW d \in Delegations, RegisterMissed(d)
        PROVE  WatchersOnBitcoin' /\ ChangeWatchedAfterSlashing'
    BY <1>0, <1>1, <1>2, <2>1, StartMoves DEF RegisterMissed, registerStakingSpendNotification,
       Outputs, WatcherTypeOK
  <2>2. CASE FindMissed \/ UNCHANGED vars
    BY <1>4, <2>2 DEF FindMissed, vars
  <2>3. CASE CallFails
    BY <1>0, <1>4, <2>3 DEF CallFails, WatcherFails, ProcessorFails, CheckerFails, Goto,
       WatcherTypeOK
  <2>4. CASE Crash \/ GiveUp
    BY <1>4, <2>4 DEF Crash, GiveUp, StartProcess
  <2> QED
    BY <2>1, <2>2, <2>3, <2>4
<1>6. FoundOnBitcoin'
  <2>1. UNCHANGED found \/ found' = <<>>
    BY DEF FindMissed, RegisterMissed, CallFails, Crash, GiveUp, StartProcess,
           CheckerFails, NextDocument, vars, checkerVars
  <2> QED
    BY <1>0, <1>1, <2>1, FoundQuiet
<1>7. UnbondingSteps'
  <2>1. UNCHANGED <<step, Event>> \/ step' \in {"validate", "failed"}
    BY <1>1 DEF FindMissed, RegisterMissed, CallFails, Crash, GiveUp, StartProcess,
       WatcherFails, ProcessorFails, CheckerFails, Retry, Continue, vars, procVars, Event,
       chainVars
  <2> QED
    BY <1>0, <2>1 DEF UnbondingSteps
<1> QED
  BY <1>0, <1>1, <1>2, <1>5, <1>6, <1>7, QuietChains DEF OnBitcoin

\* Nothing is stored at first, so nothing needs to be justified.
LEMMA InitOnBitcoin == Init => OnBitcoin
<1> SUFFICES ASSUME Init PROVE OnBitcoin
  OBVIOUS
<1>1. SpendsFollowOutputs /\ EventsOnBitcoin
  BY DEF Init, ChainsInit, SpendsFollowOutputs, EventsOnBitcoin, SpendPath, Unspent, Outputs
<1>2. UnbondingSteps /\ WatchersOnBitcoin /\ ChangeWatchedAfterSlashing
  BY DEF Init, ProcessorInit, WatcherInit, UnbondingSteps, WatchersOnBitcoin, StepJustified,
         ChangeWatchedAfterSlashing, Watchers
<1>3. TimeLocksOnBitcoin /\ FoundOnBitcoin
  BY DEF Init, StoreInit, CheckerInit, TimeLocksOnBitcoin, FoundOnBitcoin
<1>4. DocumentsOnBitcoin
  BY DEF Init, StoreInit, DocumentsOnBitcoin, Consistent, Witnessed, State, SubState,
         SlashingSubStates, NoDocument, NoSubState, StateSlashed, StateWithdrawn,
         StateWithdrawable, SubStateTimelock, SubStateEarlyUnbonding,
         SubStateTimelockSlashing, SubStateEarlyUnbondingSlashing
<1> QED
  BY <1>1, <1>2, <1>3, <1>4 DEF OnBitcoin

\* The invariant is inductive.
LEMMA NextOnBitcoin == IInv /\ [Next]_vars => IInv'
<1> SUFFICES ASSUME IInv, [Next]_vars PROVE OnBitcoin'
  BY NextTyped DEF IInv
<1> QED
  BY ChainsStepOnBitcoin, WatcherActionOnBitcoin, ProcessorActionOnBitcoin,
     CheckerActionOnBitcoin, ServiceStepOnBitcoin DEF Next

\* Everything the service stores or is about to store is justified by Bitcoin, in every
\* reachable state, crashes, retries and failed calls included.
THEOREM Inductive == Spec => []IInv
<1>1. Init => IInv
  BY InitTyped, InitOnBitcoin DEF IInv
<1> QED
  BY <1>1, NextOnBitcoin, PTL DEF Spec

\* The safety properties are consequences of the inductive invariant.
LEMMA IInvImplies ==
    ASSUME IInv
    PROVE  SubStateOnBitcoin /\ WithdrawnOnBitcoin /\ WithdrawableNotEarly
<1> USE DEF SubStateTimelock, SubStateEarlyUnbonding, SubStateTimelockSlashing,
       SubStateEarlyUnbondingSlashing, StateSlashed, StateWithdrawn, StateWithdrawable
<1>1. ASSUME NEW d \in Delegations
      PROVE  Consistent(d, State(d), SubState(d))
  BY DEF IInv, OnBitcoin, DocumentsOnBitcoin
<1>2. SubStateOnBitcoin
  BY <1>1 DEF SubStateOnBitcoin, Consistent, Witnessed, UnbondingPaths
<1>3. WithdrawnOnBitcoin
  BY <1>1 DEF WithdrawnOnBitcoin, Consistent, WithdrawnOutput
<1>4. ASSUME NEW d \in Delegations, State(d) = StateWithdrawable
      PROVE  btcTip >= CASE SubState(d) = SubStateTimelock       -> EndHeight(d)
                         [] SubState(d) = SubStateEarlyUnbonding ->
                               SpendHeight(d, "staking") + UnbondingTime
                         [] OTHER                                -> UnlockHeight(d, "change")
  <2>1. UnlockOf(d, SubState(d)) <= btcTip
    BY <1>1, <1>4 DEF Consistent
  <2>2. btcTip \in Nat /\ UnlockOf(d, SubState(d)) \in Nat
    BY UnlockTyped DEF IInv, TypeInv, TypeOK, ChainsTypeOK
  <2> QED
    BY <2>1, <2>2 DEF UnlockOf
<1> QED
  BY <1>2, <1>3, <1>4 DEF WithdrawableNotEarly

\* No interleaving of events, watchers, polls, crashes and failures stores a slashing
\* or an early unbonding that is not on Bitcoin (types/state.go, DelegationSubState).
THEOREM StoredSubStatesAreOnBitcoin == Spec => []SubStateOnBitcoin
BY Inductive, IInvImplies, PTL

\* WITHDRAWN is stored only for an output that was spent through its timelock path
\* (handleWithdrawal, watchForSpendSlashingChange).
THEOREM WithdrawalsAreOnBitcoin == Spec => []WithdrawnOnBitcoin
BY Inductive, IInvImplies, PTL

\* The expiry checker stores WITHDRAWABLE only once the timelock that the sub-state
\* names has passed (expiry_checker.go, checkExpiry).
THEOREM NoEarlyWithdrawable == Spec => []WithdrawableNotEarly
BY Inductive, IInvImplies, PTL

--------------------------------------------------------------------------------
(***************************************************************************)
(* Messages and watchers: how a goroutine gets to the call before which a  *)
(* message was pushed, or a watcher started.                               *)
(***************************************************************************)

\* How one watcher moves: it is started, takes a step of its own, fails, or ends with the
\* process.
LEMMA WatcherMoves ==
    ASSUME TypeInv, [Next]_vars, NEW d \in Delegations, NEW o \in Outputs, NEW i \in WatcherIds
    PROVE  \/ watcher'[<<d, o, i>>] = watcher[<<d, o, i>>]
           \/ watcher[<<d, o, i>>] = "none" /\ watcher'[<<d, o, i>>] = "register"
           \/ WatcherAction(d, o, i)
           \/ (StartProcess \/ CallFails) /\ watcher'[<<d, o, i>>] = "none"
<1> DEFINE w == <<d, o, i>>
<1>0. WatcherTypeOK /\ w \in Watchers
  BY DEF TypeInv, TypeOK, Watchers
<1>1. ASSUME NEW watchers \in [Watchers -> WatcherSteps], watchers[w] = watcher[w],
             NEW e, NEW p, watcher' \in Started(watchers, e, p)
      PROVE  \/ watcher'[w] = watcher[w]
             \/ watcher[w] = "none" /\ watcher'[w] = "register"
  <2>1. CASE watcher' = watchers
    BY <1>1, <2>1
  <2>2. ASSUME NEW k \in WatcherIds, watchers[<<e, p, k>>] = "none",
               watcher' = [watchers EXCEPT ![<<e, p, k>>] = "register"]
        PROVE  \/ watcher'[w] = watcher[w]
               \/ watcher[w] = "none" /\ watcher'[w] = "register"
    <3>1. CASE <<e, p, k>> = w
      BY <1>0, <1>1, <2>2, <3>1
    <3>2. CASE <<e, p, k>> # w
      BY <1>0, <1>1, <2>2, <3>2
    <3> QED
      BY <3>1, <3>2
  <2> QED
    BY <1>1, <2>1, <2>2 DEF Started
<1>2. ASSUME NEW e \in Delegations, NEW p \in Outputs, NEW j \in WatcherIds,
             WatcherAction(e, p, j), ~WatcherAction(d, o, i)
      PROVE  \/ watcher'[w] = watcher[w]
             \/ watcher[w] = "none" /\ watcher'[w] = "register"
  <2> DEFINE v == <<e, p, j>>
  <2>1. v # w
    BY <1>2
  <2>2. ASSUME NEW at, Goto(v, at) PROVE watcher'[w] = watcher[w]
    BY <1>0, <2>1, <2>2 DEF Goto, WatcherTypeOK
  <2>3. ASSUME NEW q, watcher' \in Started([watcher EXCEPT ![v] = "none"], e, q)
        PROVE  \/ watcher'[w] = watcher[w]
               \/ watcher[w] = "none" /\ watcher'[w] = "register"
    <3>1. [watcher EXCEPT ![v] = "none"] \in [Watchers -> WatcherSteps]
      BY <1>0 DEF WatcherTypeOK, WatcherSteps
    <3>2. [watcher EXCEPT ![v] = "none"][w] = watcher[w]
      BY <1>0, <2>1 DEF WatcherTypeOK
    <3> QED
      BY <1>1, <2>3, <3>1, <3>2
  <2> QED
    BY <1>2, <2>2, <2>3 DEF WatcherAction, WatcherStep, RegisterSpend, ReceiveSpend,
       SetUnbonding, EmitUnbonding, SaveUnbonding, CheckWithdrawal, SetWithdrawn, EmitSlashing,
       SetSlashed, SaveSlashing
<1>3. ASSUME ProcessorAction \/ \E e \in Delegations : RegisterMissed(e)
      PROVE  \/ watcher'[w] = watcher[w]
             \/ watcher[w] = "none" /\ watcher'[w] = "register"
  <2>1. UNCHANGED watcher \/ \E e : watcher' \in Started(watcher, e, "staking")
    BY <1>3 DEF ProcessorAction, ProcessorStep, processNewBTCDelegationEvent,
       validateCovenantQuorumReachedEvent, validateBTCDelegationInclusionProofReceivedEvent,
       validateBTCDelegationUnbondedEarlyEvent, validateBTCDelegationExpiredEvent,
       ValidateEvent, EmitActive, RegisterWatcher, EmitUnbondingMessage, SaveTimeLock,
       processCovenantQuorumReachedEvent, processBTCDelegationInclusionProofReceivedEvent,
       processBTCDelegationUnbondedEarlyEvent, processBTCDelegationExpiredEvent, UpdateState,
       SaveHeight, RegisterMissed, registerStakingSpendNotification
  <2> QED
    BY <1>0, <1>1, <2>1 DEF WatcherTypeOK
<1>4. ASSUME CallFails
      PROVE  watcher'[w] = watcher[w] \/ watcher'[w] = "none"
  <2>1. UNCHANGED watcher \/ \E v : Goto(v, "none")
    BY <1>4 DEF CallFails, WatcherFails, ProcessorFails, CheckerFails
  <2> QED
    BY <1>0, <2>1 DEF Goto, WatcherTypeOK
<1>5. ASSUME StartProcess PROVE watcher'[w] = "none"
  BY <1>0, <1>5 DEF StartProcess
<1>6. CASE ChainsStep \/ CheckerAction \/ FindMissed \/ UNCHANGED vars
  BY <1>6 DEF ChainsStep, CheckerAction, FindMissed, vars
<1> QED
  BY <1>2, <1>3, <1>4, <1>5, <1>6 DEF Next, Crash, GiveUp

\* How a handler of the processor gets to its calls.
HandlerMoves ==
    \/ UNCHANGED step
    \/ /\ step = "validate" /\ step' = "emitActive" /\ Event.newState = StateActive
    \/ /\ step = "validate" /\ step' = "update" /\ Event.newState # StateActive
       /\ Event.type \in {"CovenantQuorum", "InclusionProof"}
    \/ /\ step = "validate" /\ step' = "emitUnbonding"
    \/ EmitActive
    \/ RegisterWatcher
    \/ EmitUnbondingMessage
    \/ SaveTimeLock

\* A processor inside a handler got there by one of the moves.
LEMMA HandlerStep ==
    ASSUME TypeInv, [Next]_vars, ProcessorBusy'
    PROVE  HandlerMoves
<1>1. CASE UNCHANGED step
  BY <1>1 DEF HandlerMoves
<1>2. CASE ProcessorAction
  <2>1. CASE EmitActive \/ RegisterWatcher \/ EmitUnbondingMessage \/ SaveTimeLock
    BY <2>1 DEF HandlerMoves
  <2>2. CASE \/ processNewBTCDelegationEvent \/ processCovenantQuorumReachedEvent
             \/ processBTCDelegationInclusionProofReceivedEvent
             \/ processBTCDelegationUnbondedEarlyEvent
             \/ processBTCDelegationExpiredEvent \/ SaveHeight
    <3>1. ~ProcessorBusy'
      BY <2>2 DEF processNewBTCDelegationEvent, processCovenantQuorumReachedEvent,
         processBTCDelegationInclusionProofReceivedEvent,
         processBTCDelegationUnbondedEarlyEvent, processBTCDelegationExpiredEvent, UpdateState,
         SaveHeight, Done, Retry, Continue, ProcessorBusy
    <3> QED
      BY <3>1
  <2>3. ASSUME NEW type, NEW shouldProcess, NEW firstStep,
               ValidateEvent(type, shouldProcess, firstStep)
        PROVE  step = "validate" /\ Event.type = type /\ step' = firstStep
    <3>1. Done \/ Retry \/ Continue(firstStep)
      BY <2>3 DEF ValidateEvent
    <3> QED
      BY <2>3, <3>1 DEF ValidateEvent, Processing, Done, Retry, Continue, ProcessorBusy
  <2>4. CASE validateCovenantQuorumReachedEvent
    <3>1. step = "validate" /\ Event.type = "CovenantQuorum" /\ step' = ActivatesOr("update")
      BY <2>3, <2>4 DEF validateCovenantQuorumReachedEvent
    <3> QED
      BY <3>1 DEF ActivatesOr, HandlerMoves
  <2>5. CASE validateBTCDelegationInclusionProofReceivedEvent
    <3>1. step = "validate" /\ Event.type = "InclusionProof" /\ step' = ActivatesOr("update")
      BY <2>3, <2>5 DEF validateBTCDelegationInclusionProofReceivedEvent
    <3> QED
      BY <3>1 DEF ActivatesOr, HandlerMoves
  <2>6. CASE validateBTCDelegationUnbondedEarlyEvent \/ validateBTCDelegationExpiredEvent
    <3>1. step = "validate" /\ step' = "emitUnbonding"
      BY <2>3, <2>6 DEF validateBTCDelegationUnbondedEarlyEvent,
         validateBTCDelegationExpiredEvent
    <3> QED
      BY <3>1 DEF HandlerMoves
  <2> QED
    BY <1>2, <2>1, <2>2, <2>4, <2>5, <2>6 DEF ProcessorAction, ProcessorStep
<1>3. CASE StartProcess \/ ProcessorFails
  <2>1. ~ProcessorBusy'
    BY <1>3 DEF StartProcess, ProcessorFails, Retry, Continue, ProcessorBusy
  <2> QED
    BY <2>1
<1> QED
  BY <1>1, <1>2, <1>3 DEF Next, ChainsStep, WatcherAction, CheckerAction, FindMissed,
     RegisterMissed, CallFails, Crash, GiveUp, vars, procVars

\* A handler of an unbonding event does not activate its delegation.
LEMMA UnbondingEventNotActive ==
    ASSUME EventInv, ProcessorBusy, Event.type \in {"UnbondedEarly", "Expired"}
    PROVE  Event.newState # StateActive
<1>1. next \in DOMAIN bbnChain
  BY DEF EventInv, TypeInv, PositionInv
<1>2. EventInOrder(next)
  BY <1>1 DEF EventInv, EventsInOrder
<1> QED
  BY <1>2 DEF EventInOrder, Event, StateActive

\* A push leaves a message of its kind, and takes none away.
LEMMA PushCounts ==
    ASSUME TypeInv, NEW d \in Delegations, NEW kind \in MessageKinds, Push(kind, d)
    PROVE  /\ WasPushed(d, kind)'
           /\ \A e \in Delegations, k \in MessageKinds : WasPushed(e, k) => WasPushed(e, k)'
<1>1. pushed \in [Delegations -> [MessageKinds -> 0 .. MaxMessages]]
  BY DEF TypeInv, TypeOK, StoreTypeOK
<1> DEFINE count == IF pushed[d][kind] < MaxMessages THEN pushed[d][kind] + 1 ELSE pushed[d][kind]
<1>2. pushed[d] \in [MessageKinds -> 0 .. MaxMessages] /\ pushed[d][kind] \in 0 .. MaxMessages
  BY <1>1
<1>3. count > 0
  BY <1>2, MaxMessagesAssumption
<1>4. \A e \in Delegations, k \in MessageKinds :
         pushed'[e][k] = IF e = d /\ k = kind THEN count ELSE pushed[e][k]
  BY <1>1, <1>2 DEF Push
<1> HIDE DEF count
<1> QED
  BY <1>3, <1>4 DEF WasPushed

\* No step takes a message back.
LEMMA MessagesKept ==
    ASSUME TypeInv, [Next]_vars, NEW d \in Delegations, NEW kind \in MessageKinds,
           WasPushed(d, kind)
    PROVE  WasPushed(d, kind)'
<1>1. CASE UNCHANGED pushed
  BY <1>1 DEF WasPushed
<1>2. ASSUME NEW e \in Delegations, NEW k \in MessageKinds, Push(k, e)
      PROVE  WasPushed(d, kind)'
  BY <1>2, PushCounts
<1>3. ASSUME NEW e \in Delegations, NEW o \in Outputs, NEW i \in WatcherIds,
             WatcherAction(e, o, i)
      PROVE  UNCHANGED pushed \/ Push("unbonding", e)
  BY <1>3 DEF WatcherAction, WatcherStep, RegisterSpend, ReceiveSpend,
     SetUnbonding, EmitUnbonding, SaveUnbonding, CheckWithdrawal, SetWithdrawn, EmitSlashing,
     SetSlashed, SaveSlashing, emitUnbondingDelegationEvent, storeVars
<1>4. ASSUME ProcessorAction
      PROVE  \/ UNCHANGED pushed
             \/ ProcessorBusy /\ \E k \in MessageKinds : Push(k, Event.delegation)
  BY <1>4 DEF ProcessorAction, ProcessorStep, processNewBTCDelegationEvent,
     validateCovenantQuorumReachedEvent, validateBTCDelegationInclusionProofReceivedEvent,
     validateBTCDelegationUnbondedEarlyEvent, validateBTCDelegationExpiredEvent,
     ValidateEvent, EmitActive, RegisterWatcher, EmitUnbondingMessage, SaveTimeLock,
     processCovenantQuorumReachedEvent, processBTCDelegationInclusionProofReceivedEvent,
     processBTCDelegationUnbondedEarlyEvent, processBTCDelegationExpiredEvent, UpdateState,
     SaveHeight, emitActiveDelegationEvent, emitUnbondingDelegationEvent, MessageKinds,
     ProcessorBusy, storeVars
<1>5. ProcessorBusy => Event.delegation \in Delegations
  BY EventTyped DEF Events, ProcessorBusy
<1>6. CASE ~\E e \in Delegations, o \in Outputs, i \in WatcherIds : WatcherAction(e, o, i)
  <2>1. CASE ProcessorAction
    BY <1>1, <1>2, <1>4, <1>5, <2>1
  <2>2. CASE ~ProcessorAction
    BY <1>1, <1>6, <2>2 DEF Next, ChainsStep, CheckerAction, CheckerStep, Poll, SetWithdrawable,
       DeleteTimeLock, FindMissed, RegisterMissed, CallFails, WatcherFails, ProcessorFails,
       CheckerFails, Crash, GiveUp, StartProcess, vars, storeVars
  <2> QED
    BY <2>1, <2>2
<1> QED
  BY <1>1, <1>2, <1>3, <1>6 DEF MessageKinds

\* Only the activation of a delegation pushes and registers on its way to the update.
LEMMA ActivationStepsKept ==
    ASSUME TypeInv, MessageInv, [Next]_vars
    PROVE  ActivationSteps'
<1> SUFFICES ASSUME step' \in {"emitActive", "register"} PROVE Event'.newState = StateActive
  BY DEF ActivationSteps, StateActive
<1>1. ProcessorBusy'
  BY DEF ProcessorBusy
<1>2. Event' = Event /\ HandlerMoves
  BY <1>1, BusyStep, HandlerStep
<1>3. Event.newState = StateActive
  BY <1>2 DEF HandlerMoves, MessageInv, ActivationSteps, EmitActive, RegisterWatcher,
     EmitUnbondingMessage, SaveTimeLock, Continue
<1> QED
  BY <1>2, <1>3

\* A handler pushes its message before it registers, saves or updates.
LEMMA HandlerAnnouncedKept ==
    ASSUME IInv, EventInv, MessageInv, [Next]_vars
    PROVE  HandlerAnnounced'
<1>1. TypeInv /\ UnbondingSteps /\ HandlerAnnounced /\ ActivationSteps
  BY DEF IInv, OnBitcoin, MessageInv
<1> SUFFICES ASSUME step' \in {"register", "update", "saveTimeLock"}
             PROVE  /\ step' \in {"register", "update"} /\ Event'.newState = StateActive =>
                          WasPushed(Event.delegation, "active")'
                    /\ step' \in {"saveTimeLock", "update"}
                          /\ Event'.type \in {"UnbondedEarly", "Expired"} =>
                             WasPushed(Event.delegation, "unbonding")'
  BY DEF HandlerAnnounced, StateActive
<1>2. ProcessorBusy'
  BY DEF ProcessorBusy
<1>3. Event' = Event /\ HandlerMoves /\ next \in DOMAIN bbnChain
  BY <1>1, <1>2, BusyStep, HandlerStep
<1>4. PICK d : d = Event.delegation
  OBVIOUS
<1>5. d \in Delegations
  <2>1. Event \in Events
    BY <1>1, <1>3 DEF Event, TypeInv, TypeOK, ChainsTypeOK
  <2> QED
    BY <1>4, <2>1 DEF Events
<1>6. \A kind \in MessageKinds : WasPushed(d, kind) => WasPushed(d, kind)'
  BY <1>1, <1>5, MessagesKept
<1>7. "active" \in MessageKinds /\ "unbonding" \in MessageKinds
  BY DEF MessageKinds
<1>8. ProcessorBusy /\ Event.type \in {"UnbondedEarly", "Expired"} => Event.newState # StateActive
  BY UnbondingEventNotActive
<1> SUFFICES /\ step' \in {"register", "update"} /\ Event.newState = StateActive =>
                   WasPushed(d, "active")'
             /\ step' \in {"saveTimeLock", "update"}
                   /\ Event.type \in {"UnbondedEarly", "Expired"} =>
                      WasPushed(d, "unbonding")'
  BY <1>3, <1>4
<1>9. CASE UNCHANGED step
  BY <1>1, <1>4, <1>6, <1>7, <1>9 DEF HandlerAnnounced
<1>10. CASE step = "validate"
  BY <1>3, <1>10 DEF HandlerMoves, EmitActive, RegisterWatcher, EmitUnbondingMessage,
     SaveTimeLock
<1>11. CASE EmitActive
  <2>1. step' = "register"
    BY <1>11 DEF EmitActive, Continue
  <2>2. WasPushed(d, "active")'
    BY <1>1, <1>4, <1>5, <1>7, <1>11, PushCounts DEF EmitActive, emitActiveDelegationEvent
  <2> QED
    BY <2>1, <2>2
<1>12. CASE RegisterWatcher
  <2>1. step = "register" /\ step' = "update" /\ Event.newState = StateActive
    BY <1>1, <1>12 DEF RegisterWatcher, Continue, ActivationSteps
  <2>2. WasPushed(d, "active")'
    BY <1>1, <1>4, <1>6, <1>7, <2>1 DEF HandlerAnnounced
  <2>3. Event.type \notin {"UnbondedEarly", "Expired"}
    BY <1>8, <2>1 DEF ProcessorBusy
  <2> QED
    BY <2>2, <2>3
<1>13. CASE EmitUnbondingMessage
  <2>1. step = "emitUnbonding" /\ step' \in {"update", "saveTimeLock"}
    BY <1>13 DEF EmitUnbondingMessage, Continue
  <2>2. Event.newState # StateActive
    BY <1>1, <1>8, <2>1 DEF UnbondingSteps, ProcessorBusy
  <2>3. WasPushed(d, "unbonding")'
    BY <1>1, <1>4, <1>5, <1>7, <1>13, PushCounts
       DEF EmitUnbondingMessage, emitUnbondingDelegationEvent
  <2> QED
    BY <2>2, <2>3
<1>14. CASE SaveTimeLock
  <2>1. step = "saveTimeLock" /\ step' = "update"
    BY <1>14 DEF SaveTimeLock, Continue
  <2>2. Event.type \in {"UnbondedEarly", "Expired"} /\ Event.newState # StateActive
    BY <1>1, <1>8, <2>1 DEF UnbondingSteps, ProcessorBusy
  <2>3. WasPushed(d, "unbonding")'
    BY <1>1, <1>4, <1>6, <1>7, <2>1, <2>2 DEF HandlerAnnounced
  <2> QED
    BY <2>2, <2>3
<1> QED
  BY <1>3, <1>9, <1>10, <1>11, <1>12, <1>13, <1>14 DEF HandlerMoves

\* The watcher of a staking output pushes before it stores a slashing.
LEMMA WatchersAnnouncedKept ==
    ASSUME TypeInv, MessageInv, [Next]_vars
    PROVE  WatchersAnnounced'
<1> SUFFICES ASSUME NEW d \in Delegations, NEW i \in WatcherIds,
                    watcher'[<<d, "staking", i>>] \in {"setSlashed", "saveSlashing"}
             PROVE  WasPushed(d, "unbonding")'
  BY DEF WatchersAnnounced
<1> DEFINE w == <<d, "staking", i>>
<1>0. WatcherTypeOK /\ "staking" \in Outputs /\ w \in Watchers /\ WatchersAnnounced
      /\ "unbonding" \in MessageKinds
  BY DEF TypeInv, TypeOK, Outputs, Watchers, MessageInv, MessageKinds
<1>1. WasPushed(d, "unbonding") => WasPushed(d, "unbonding")'
  BY <1>0, MessagesKept
<1>2. CASE watcher[w] \in {"setSlashed", "saveSlashing"}
  BY <1>0, <1>1, <1>2 DEF WatchersAnnounced
<1>3. CASE watcher[w] \notin {"setSlashed", "saveSlashing"}
  <2>1. WatcherAction(d, "staking", i)
    BY <1>0, <1>3, WatcherMoves
  <2>2. ASSUME NEW at, Goto(w, at) PROVE watcher'[w] = at
    BY <1>0, <2>2 DEF Goto, WatcherTypeOK
  <2>3. CASE EmitSlashing(d, "staking", i)
    BY <1>0, <2>3, PushCounts DEF EmitSlashing, emitUnbondingDelegationEvent
  <2>4. CASE ReceiveSpend(d, "staking", i)
    <3>1. watcher'[w] = FirstStep("staking", SpendPath(d, "staking"))
      BY <2>2, <2>4 DEF ReceiveSpend
    <3> QED
      BY <3>1 DEF FirstStep
  <2>5. CASE SaveUnbonding(d, "staking", i)
    <3>1. [watcher EXCEPT ![w] = "none"] \in [Watchers -> WatcherSteps]
          /\ [watcher EXCEPT ![w] = "none"][w] = "none"
      BY <1>0 DEF WatcherTypeOK, WatcherSteps
    <3>2. watcher' \in Started([watcher EXCEPT ![w] = "none"], d, "unbonding")
      BY <2>5 DEF SaveUnbonding
    <3>3. watcher'[w] = "none"
      <4> DEFINE ended == [watcher EXCEPT ![w] = "none"]
      <4>1. \/ watcher' = ended
            \/ \E k \in WatcherIds : watcher' = [ended EXCEPT ![<<d, "unbonding", k>>] = "register"]
        BY <3>2 DEF Started
      <4>2. \A k : <<d, "unbonding", k>> # w
        OBVIOUS
      <4> QED
        BY <1>0, <3>1, <4>1, <4>2
    <3> QED
      BY <3>3
  <2>6. CASE \/ RegisterSpend(d, "staking", i) \/ SetUnbonding(d, "staking", i)
             \/ EmitUnbonding(d, "staking", i) \/ CheckWithdrawal(d, "staking", i)
             \/ SetWithdrawn(d, "staking", i)
    <3>1. \E at \in {"waiting", "emitUnbonding", "saveUnbonding", "setWithdrawn", "none"} :
             Goto(w, at)
      BY <2>6 DEF RegisterSpend, SetUnbonding, EmitUnbonding, CheckWithdrawal, SetWithdrawn
    <3> QED
      BY <2>2, <3>1
  <2>7. ~SetSlashed(d, "staking", i) /\ ~SaveSlashing(d, "staking", i)
    BY <1>3 DEF SetSlashed, SaveSlashing
  <2> QED
    BY <2>1, <2>3, <2>4, <2>5, <2>6, <2>7 DEF WatcherAction, WatcherStep
<1> QED
  BY <1>2, <1>3

\* What SaveNewTimeLockExpire adds.
LEMMA SavedLast ==
    ASSUME TypeInv, NEW d, NEW height, NEW s, SaveNewTimeLockExpire(d, height, s)
    PROVE  \A n \in DOMAIN timelocks' :
              \/ \E m \in DOMAIN timelocks : timelocks'[n] = timelocks[m]
              \/ timelocks'[n].delegation = d /\ timelocks'[n].subState = s
<1> DEFINE t == [delegation |-> d, expireHeight |-> height, subState |-> s]
<1>1. t.delegation = d /\ t.subState = s
  OBVIOUS
<1>2. timelocks' = Append(timelocks, t)
  BY DEF SaveNewTimeLockExpire
<1> HIDE DEF t
<1>3. \A n \in DOMAIN timelocks' :
         timelocks'[n] = t \/ (n \in DOMAIN timelocks /\ timelocks'[n] = timelocks[n])
  BY <1>2 DEF TypeInv, TypeOK, StoreTypeOK
<1> QED
  BY <1>1, <1>3

\* Who writes timelock documents.
LEMMA TimeLockWriters ==
    ASSUME [Next]_vars
    PROVE  \/ UNCHANGED timelocks
           \/ SaveTimeLock
           \/ \E d : DeleteExpiredDelegation(d)
           \/ \E d \in Delegations, o \in Outputs, i \in WatcherIds :
                 SaveUnbonding(d, o, i) \/ SaveSlashing(d, o, i)
<1>1. ASSUME NEW d \in Delegations, NEW o \in Outputs, NEW i \in WatcherIds,
             WatcherAction(d, o, i)
      PROVE  UNCHANGED timelocks \/ SaveUnbonding(d, o, i) \/ SaveSlashing(d, o, i)
  BY <1>1 DEF WatcherAction, WatcherStep, RegisterSpend, ReceiveSpend, SetUnbonding,
     EmitUnbonding, CheckWithdrawal, SetWithdrawn, EmitSlashing, SetSlashed, storeVars
<1>2. ASSUME ProcessorAction PROVE UNCHANGED timelocks \/ SaveTimeLock
  BY <1>2 DEF ProcessorAction, ProcessorStep, processNewBTCDelegationEvent,
     validateCovenantQuorumReachedEvent, validateBTCDelegationInclusionProofReceivedEvent,
     validateBTCDelegationUnbondedEarlyEvent, validateBTCDelegationExpiredEvent,
     ValidateEvent, EmitActive, RegisterWatcher, EmitUnbondingMessage,
     processCovenantQuorumReachedEvent, processBTCDelegationInclusionProofReceivedEvent,
     processBTCDelegationUnbondedEarlyEvent, processBTCDelegationExpiredEvent, UpdateState,
     SaveHeight, storeVars
<1>3. ASSUME CheckerAction PROVE UNCHANGED timelocks \/ \E d : DeleteExpiredDelegation(d)
  BY <1>3 DEF CheckerAction, CheckerStep, Poll, SetWithdrawable, DeleteTimeLock, storeVars
<1> QED
  BY <1>1, <1>2, <1>3 DEF Next, ChainsStep, FindMissed, RegisterMissed, CallFails, WatcherFails,
     ProcessorFails, CheckerFails, Crash, GiveUp, StartProcess, vars, storeVars

\* A timelock document of a slashed staking output comes after the push of its watcher.
LEMMA TimeLocksAnnouncedKept ==
    ASSUME IInv, MessageInv, [Next]_vars
    PROVE  TimeLocksAnnounced'
<1> USE DEF SubStateTimelock, SubStateEarlyUnbonding, SubStateTimelockSlashing,
       SubStateEarlyUnbondingSlashing
<1>0. /\ TypeInv /\ TimeLocksAnnounced /\ WatchersAnnounced /\ "unbonding" \in MessageKinds
      /\ timelocks \in Seq(TimeLockDocuments) /\ found \in Seq(TimeLockDocuments)
      /\ CheckerTypeOK
  BY DEF IInv, MessageInv, MessageKinds, TypeInv, TypeOK, StoreTypeOK, CheckerTypeOK
<1>1. ASSUME NEW t \in TimeLockDocuments, SlashingAnnounced(t)
      PROVE  SlashingAnnounced(t)'
  BY <1>0, <1>1, MessagesKept DEF SlashingAnnounced, TimeLockDocuments
<1>2. \A n \in DOMAIN timelocks : \E t : timelocks[n] = t /\ SlashingAnnounced(t)'
  <2>1. \A n \in DOMAIN timelocks :
           timelocks[n] \in TimeLockDocuments /\ SlashingAnnounced(timelocks[n])
    BY <1>0 DEF TimeLocksAnnounced
  <2> QED
    BY <1>1, <2>1
<1>3. \A n \in DOMAIN found : \E t : found[n] = t /\ SlashingAnnounced(t)'
  <2>1. \A n \in DOMAIN found : found[n] \in TimeLockDocuments /\ SlashingAnnounced(found[n])
    BY <1>0 DEF TimeLocksAnnounced
  <2> QED
    BY <1>1, <2>1
<1>4. \A t : t.subState # SubStateTimelockSlashing => SlashingAnnounced(t)'
  BY DEF SlashingAnnounced
<1>5. \A n \in DOMAIN timelocks' : \E t : timelocks'[n] = t /\ SlashingAnnounced(t)'
  <2>1. ASSUME NEW d, NEW height, NEW s, SaveNewTimeLockExpire(d, height, s),
               s = SubStateTimelockSlashing => WasPushed(d, "unbonding")'
        PROVE  \A n \in DOMAIN timelocks' : \E t : timelocks'[n] = t /\ SlashingAnnounced(t)'
    <3> SUFFICES ASSUME NEW n \in DOMAIN timelocks', NEW t, t = timelocks'[n]
                 PROVE  SlashingAnnounced(t)'
      OBVIOUS
    <3>1. CASE \E m \in DOMAIN timelocks : timelocks'[n] = timelocks[m]
      BY <1>2, <3>1
    <3>2. CASE t.delegation = d /\ t.subState = s
      BY <2>1, <3>2 DEF SlashingAnnounced
    <3> QED
      BY <1>0, <2>1, <3>1, <3>2, SavedLast
  <2>2. CASE SaveTimeLock
    <3>1. UnbondingSubState # SubStateTimelockSlashing
      BY DEF UnbondingSubState
    <3>2. PICK d : d = Event.delegation
      OBVIOUS
    <3>3. PICK height, s : /\ SaveNewTimeLockExpire(d, height, s)
                           /\ s # SubStateTimelockSlashing
      BY <2>2, <3>1, <3>2 DEF SaveTimeLock
    <3> QED
      BY <2>1, <3>3
  <2>3. ASSUME NEW d \in Delegations, NEW o \in Outputs, NEW i \in WatcherIds,
               SaveUnbonding(d, o, i)
        PROVE  \A n \in DOMAIN timelocks' : \E t : timelocks'[n] = t /\ SlashingAnnounced(t)'
    <3>1. PICK height : SaveNewTimeLockExpire(d, height, SubStateEarlyUnbonding)
      BY <2>3 DEF SaveUnbonding
    <3> QED
      BY <2>1, <3>1
  <2>4. ASSUME NEW d \in Delegations, NEW o \in Outputs, NEW i \in WatcherIds,
               SaveSlashing(d, o, i)
        PROVE  \A n \in DOMAIN timelocks' : \E t : timelocks'[n] = t /\ SlashingAnnounced(t)'
    <3>1. PICK height : SaveNewTimeLockExpire(d, height, SubStateOfSlashing(o))
      BY <2>4 DEF SaveSlashing
    <3>2. ASSUME SubStateOfSlashing(o) = SubStateTimelockSlashing
          PROVE  WasPushed(d, "unbonding")'
      <4>1. o = "staking"
        BY <3>2 DEF SubStateOfSlashing
      <4>2. WasPushed(d, "unbonding")
        BY <1>0, <2>4, <4>1 DEF SaveSlashing, WatchersAnnounced
      <4> QED
        BY <1>0, <4>2, MessagesKept
    <3> QED
      BY <2>1, <3>1, <3>2
  <2>5. ASSUME NEW d, DeleteExpiredDelegation(d)
        PROVE  \A n \in DOMAIN timelocks' : \E t : timelocks'[n] = t /\ SlashingAnnounced(t)'
    <3>1. \A n \in DOMAIN timelocks' : \E m \in DOMAIN timelocks : timelocks'[n] = timelocks[m]
      BY <1>0, <2>5, DeletedFrom
    <3> QED
      BY <1>2, <3>1
  <2>6. CASE UNCHANGED timelocks
    BY <1>2, <2>6
  <2> QED
    BY <2>2, <2>3, <2>4, <2>5, <2>6, TimeLockWriters
<1>6. \A n \in DOMAIN found' : \E t : found'[n] = t /\ SlashingAnnounced(t)'
  <2>1. CASE CheckerAction /\ Poll
    <3>1. PICK n \in 1 .. ExpiredDelegationsLimit :
            \E pick \in [1 .. n -> ExpiredTimeLocks(btcTip)] :
               found' = [k \in 1 .. n |-> timelocks[pick[k]]]
      BY <2>1 DEF Poll
    <3>2. PICK pick \in [1 .. n -> ExpiredTimeLocks(btcTip)] :
            found' = [k \in 1 .. n |-> timelocks[pick[k]]]
      BY <3>1
    <3> QED
      BY <1>2, <3>2 DEF ExpiredTimeLocks
  <2>2. CASE found' = Tail(found) /\ found # <<>>
    <3>1. \A n \in DOMAIN Tail(found) :
             n + 1 \in DOMAIN found /\ Tail(found)[n] = found[n + 1]
      BY <1>0, <2>2
    <3> QED
      BY <1>3, <2>2, <3>1
  <2>3. CASE found' = <<>>
    BY <2>3
  <2>4. CASE UNCHANGED found
    BY <1>3, <2>4
  <2>5. CASE CheckerAction /\ SetWithdrawable
    BY <2>4, <2>5 DEF SetWithdrawable
  <2>6. CASE CheckerAction /\ DeleteTimeLock
    <3>1. found # <<>>
      BY <1>0, <2>6 DEF DeleteTimeLock, CheckerTypeOK
    <3>2. found' = <<>> \/ found' = Tail(found)
      BY <2>6 DEF DeleteTimeLock, NextDocument
    <3> QED
      BY <2>2, <2>3, <3>1, <3>2
  <2>7. CASE CheckerAction
    BY <2>1, <2>5, <2>6, <2>7 DEF CheckerAction, CheckerStep
  <2>8. ~CheckerAction => UNCHANGED found \/ found' = <<>>
    BY DEF Next, ChainsStep, WatcherAction, ProcessorAction, FindMissed, RegisterMissed,
       CallFails, CheckerFails, NextDocument, Crash, GiveUp, StartProcess, vars, checkerVars
  <2> QED
    BY <2>3, <2>4, <2>7, <2>8
<1> QED
  BY <1>5, <1>6 DEF TimeLocksAnnounced, SlashingAnnounced, WasPushed

\* The step leaves a document for which the consumers must have heard of the unbonding.
StoresUnbonding(d) ==
    \/ State(d)' = StateExpanded
    \/ SubState(d)' = SubStateTimelockSlashing
    \/ State(d)' = StateUnbonding /\ SubState(d)' = SubStateTimelock

\* A write that does not store an unbonding, or that is announced.
AnnouncedWrite(d) ==
    StoresUnbonding(d) =>
        \/ State(d)' = State(d) /\ SubState(d)' = SubState(d)
        \/ SubState(d) = SubStateTimelockSlashing
        \/ WasPushed(d, "unbonding")

\* Watchers store the slashing of a staking output after the push, and the withdrawal of its
\* change only over the slashing.
LEMMA WatcherAnnouncedWrite ==
    ASSUME IInv, MessageInv, NEW e \in Delegations, NEW o \in Outputs, NEW i \in WatcherIds,
           WatcherAction(e, o, i), NEW d \in Delegations
    PROVE  AnnouncedWrite(d)
<1> USE DEF StateActive, StateUnbonding, StateWithdrawable, StateSlashed, StateWithdrawn,
       StateExpanded, SubStateTimelock, SubStateEarlyUnbonding, SubStateTimelockSlashing,
       SubStateEarlyUnbondingSlashing, NoSubState
<1>0. TypeInv /\ StepJustified(e, o, watcher[<<e, o, i>>])
  BY DEF IInv, OnBitcoin, WatchersOnBitcoin
<1>1. CASE docs'[d] = docs[d]
  BY <1>1 DEF AnnouncedWrite, State, SubState
<1>2. CASE SetUnbonding(e, o, i)
  <2>1. UpdateBTCDelegationState(e, QualifiedStatesForUnbondedEarly, StateUnbonding,
                                 SubStateEarlyUnbonding, FALSE)
    BY <1>2 DEF SetUnbonding
  <2>2. \/ docs'[d] = docs[d]
        \/ /\ d = e
           /\ State(d) \in QualifiedStatesForUnbondedEarly
           /\ State(d)' = StateUnbonding
           /\ SubState(d)' = IF SubStateEarlyUnbonding = NoSubState THEN SubState(d)
                             ELSE SubStateEarlyUnbonding
           /\ docs'[d].inclusionProof = docs[d].inclusionProof
    BY <1>0, <2>1, UpdateWrites
  <2> QED
    BY <1>1, <2>2 DEF AnnouncedWrite, StoresUnbonding
<1>3. CASE SetWithdrawn(e, o, i)
  <2>1. UpdateBTCDelegationState(e, QualifiedStatesForWithdrawn, StateWithdrawn,
                                 SubStateOfWithdrawal(e, o), FALSE)
    BY <1>3 DEF SetWithdrawn
  <2>2. \/ docs'[d] = docs[d]
        \/ /\ d = e
           /\ State(d) \in QualifiedStatesForWithdrawn
           /\ State(d)' = StateWithdrawn
           /\ SubState(d)' = IF SubStateOfWithdrawal(e, o) = NoSubState THEN SubState(d)
                             ELSE SubStateOfWithdrawal(e, o)
           /\ docs'[d].inclusionProof = docs[d].inclusionProof
    BY <1>0, <2>1, UpdateWrites
  <2>3. SubStateOfWithdrawal(e, o) # NoSubState
    BY DEF SubStateOfWithdrawal, SubStateOfSlashing, Outputs
  <2>4. ASSUME SubStateOfWithdrawal(e, o) = SubStateTimelockSlashing
        PROVE  SubState(e) = SubStateTimelockSlashing
    <3>1. o = "change" /\ SlashedOutput(e) = "staking"
      BY <2>4 DEF SubStateOfWithdrawal, SubStateOfSlashing, Outputs
    <3>2. SpendPath(e, "staking") = "slashing"
      BY <3>1 DEF SlashedOutput
    <3>3. SubState(e) \in SlashingSubStates
      BY <1>3, <3>1 DEF SetWithdrawn, IInv, OnBitcoin, ChangeWatchedAfterSlashing
    <3>4. Consistent(e, State(e), SubState(e)) /\ SpendsFollowOutputs
      BY DEF IInv, OnBitcoin, DocumentsOnBitcoin
    <3>5. SubState(e) # SubStateEarlyUnbondingSlashing
      BY <3>2, <3>4 DEF Consistent, Witnessed, SpendsFollowOutputs
    <3> QED
      BY <3>3, <3>5 DEF SlashingSubStates
  <2> QED
    BY <1>1, <2>2, <2>3, <2>4 DEF AnnouncedWrite, StoresUnbonding
<1>4. CASE SetSlashed(e, o, i)
  <2>1. UpdateBTCDelegationState(e, QualifiedStatesForSlashed, StateSlashed,
                                 SubStateOfSlashing(o), FALSE)
    BY <1>4 DEF SetSlashed
  <2>2. \/ docs'[d] = docs[d]
        \/ /\ d = e
           /\ State(d) \in QualifiedStatesForSlashed
           /\ State(d)' = StateSlashed
           /\ SubState(d)' = IF SubStateOfSlashing(o) = NoSubState THEN SubState(d)
                             ELSE SubStateOfSlashing(o)
           /\ docs'[d].inclusionProof = docs[d].inclusionProof
    BY <1>0, <2>1, UpdateWrites
  <2>3. SubStateOfSlashing(o) # NoSubState
    BY DEF SubStateOfSlashing
  <2>4. SubStateOfSlashing(o) = SubStateTimelockSlashing => WasPushed(e, "unbonding")
    BY <1>4 DEF SetSlashed, SubStateOfSlashing, MessageInv, WatchersAnnounced
  <2> QED
    BY <1>1, <2>2, <2>3, <2>4 DEF AnnouncedWrite, StoresUnbonding
<1>5. UNCHANGED docs \/ SetUnbonding(e, o, i) \/ SetWithdrawn(e, o, i) \/ SetSlashed(e, o, i)
  BY DEF WatcherAction, WatcherStep, RegisterSpend, ReceiveSpend,
     EmitUnbonding, SaveUnbonding, CheckWithdrawal, EmitSlashing, SaveSlashing, storeVars
<1> QED
  BY <1>1, <1>2, <1>3, <1>4, <1>5

\* The expiry checker reopens a slashed delegation from a document that was announced.
LEMMA CheckerAnnouncedWrite ==
    ASSUME IInv, MessageInv, CheckerAction, NEW d \in Delegations
    PROVE  AnnouncedWrite(d)
<1>0. TypeInv
  BY DEF IInv
<1>1. CASE docs'[d] = docs[d]
  BY <1>1 DEF AnnouncedWrite, State, SubState
<1>2. CASE SetWithdrawable
  <2> DEFINE doc == Head(found)
  <2>1. doc \in TimeLockDocuments /\ SlashingAnnounced(doc)
    <3>1. 1 \in DOMAIN found /\ doc = found[1]
      BY <1>0, <1>2 DEF SetWithdrawable, TypeInv, TypeOK, CheckerTypeOK
    <3> QED
      BY <1>0, <3>1 DEF MessageInv, TimeLocksAnnounced, TypeInv, TypeOK, CheckerTypeOK
  <2>2. doc.delegation \in Delegations /\ doc.subState \in DelegationSubStates
    BY <2>1 DEF TimeLockDocuments
  <2>3. UpdateBTCDelegationState(doc.delegation, QualifiedStatesForWithdrawable(doc.subState),
                                 StateWithdrawable, doc.subState, FALSE)
    BY <1>2 DEF SetWithdrawable
  <2>4. \/ docs'[d] = docs[d]
        \/ /\ d = doc.delegation
           /\ State(d) \in QualifiedStatesForWithdrawable(doc.subState)
           /\ State(d)' = StateWithdrawable
           /\ SubState(d)' = IF doc.subState = NoSubState THEN SubState(d) ELSE doc.subState
           /\ docs'[d].inclusionProof = docs[d].inclusionProof
    BY <1>0, <2>2, <2>3, UpdateWrites
  <2>5. doc.subState # NoSubState
    BY <2>2 DEF DelegationSubStates, UnbondingSubStates, SlashingSubStates, SubStateTimelock,
       SubStateEarlyUnbonding, SubStateTimelockSlashing, SubStateEarlyUnbondingSlashing,
       NoSubState
  <2> HIDE DEF doc
  <2> QED
    BY <1>1, <2>1, <2>4, <2>5 DEF AnnouncedWrite, StoresUnbonding, SlashingAnnounced,
       StateWithdrawable, StateExpanded, StateUnbonding
<1> QED
  BY <1>1, <1>2 DEF CheckerAction, CheckerStep, Poll, DeleteTimeLock, storeVars

\* The handlers of unbonding events update after their push; the other handlers do not store
\* an unbonding.
LEMMA ProcessorAnnouncedWrite ==
    ASSUME IInv, MessageInv, ProcessorAction, NEW d \in Delegations
    PROVE  AnnouncedWrite(d)
<1> USE DEF StatePending, StateVerified, StateActive, StateUnbonding, StateExpanded, NoDocument,
       SubStateTimelock, SubStateTimelockSlashing
<1>0. TypeInv
  BY DEF IInv
<1>1. CASE docs'[d] = docs[d]
  BY <1>1 DEF AnnouncedWrite, State, SubState
<1>2. step = "update" => Event.delegation \in Delegations
  BY <1>0, EventTyped DEF ProcessorBusy, Events
<1>3. CASE processNewBTCDelegationEvent
  <2>1. Event.delegation \in Delegations
    BY <1>0, <1>3, EventTyped DEF processNewBTCDelegationEvent, Processing, Events
  <2>2. docs \in [Delegations -> Documents]
    BY <1>0 DEF TypeInv, TypeOK, StoreTypeOK
  <2>3. docs'[d] = docs[d] \/ docs'[d] = [docs[d] EXCEPT !.state = StatePending]
    BY <1>3, <2>1, <2>2 DEF processNewBTCDelegationEvent, SaveNewBTCDelegation
  <2>4. docs[d] \in Documents
    BY <2>2
  <2>5. \/ docs'[d] = docs[d]
        \/ docs'[d].state = StatePending /\ docs'[d].subState = docs[d].subState
    BY <2>3, <2>4 DEF Documents
  <2> QED
    BY <1>1, <2>5 DEF AnnouncedWrite, StoresUnbonding, State, SubState
<1>4. ASSUME NEW qualified, NEW newState, NEW proof \in BOOLEAN,
             step = "update", newState # StateExpanded, newState # StateUnbonding,
             UpdateBTCDelegationState(Event.delegation, qualified, newState, NoSubState, proof)
      PROVE  AnnouncedWrite(d)
  <2>1. docs \in [Delegations -> Documents] /\ Event.delegation \in Delegations
    BY <1>0, <1>2, <1>4 DEF TypeInv, TypeOK, StoreTypeOK
  <2>2. \/ docs'[d] = docs[d]
        \/ docs'[d].state = newState /\ docs'[d].subState = docs[d].subState
    BY <1>4, <2>1 DEF UpdateBTCDelegationState
  <2> QED
    BY <1>1, <1>4, <2>2 DEF AnnouncedWrite, StoresUnbonding, State, SubState
<1>5. CASE processCovenantQuorumReachedEvent
  <2>1. CASE Event.newState \in {"VERIFIED", "ACTIVE"}
    BY <1>4, <1>5, <2>1 DEF processCovenantQuorumReachedEvent, UpdateState
  <2>2. CASE Event.newState \notin {"VERIFIED", "ACTIVE"}
    <3>1. QualifiedStatesForCovenantQuorumReached(Event.newState) = {}
      BY <2>2 DEF QualifiedStatesForCovenantQuorumReached
    <3>2. UNCHANGED docs
      BY <1>5, <3>1 DEF processCovenantQuorumReachedEvent, UpdateState,
         UpdateBTCDelegationState, InQualifiedState
    <3> QED
      BY <1>1, <3>2
  <2> QED
    BY <2>1, <2>2
<1>6. CASE processBTCDelegationInclusionProofReceivedEvent
  <2>1. CASE Event.newState \in {"PENDING", "ACTIVE"}
    BY <1>4, <1>6, <2>1 DEF processBTCDelegationInclusionProofReceivedEvent, UpdateState
  <2>2. CASE Event.newState \notin {"PENDING", "ACTIVE"}
    <3>1. QualifiedStatesForInclusionProofReceived(Event.newState) = {}
      BY <2>2 DEF QualifiedStatesForInclusionProofReceived
    <3>2. UNCHANGED docs
      BY <1>6, <3>1 DEF processBTCDelegationInclusionProofReceivedEvent, UpdateState,
         UpdateBTCDelegationState, InQualifiedState
    <3> QED
      BY <1>1, <3>2
  <2> QED
    BY <2>1, <2>2
<1>7. CASE processBTCDelegationUnbondedEarlyEvent \/ processBTCDelegationExpiredEvent
  <2>1. step = "update" /\ Event.type \in {"UnbondedEarly", "Expired"}
    BY <1>7 DEF processBTCDelegationUnbondedEarlyEvent, processBTCDelegationExpiredEvent,
       UpdateState
  <2>2. WasPushed(Event.delegation, "unbonding")
    BY <2>1 DEF MessageInv, HandlerAnnounced
  <2>3. d # Event.delegation => docs'[d] = docs[d]
    BY <1>0, <1>2, <1>7, <2>1 DEF processBTCDelegationUnbondedEarlyEvent,
       processBTCDelegationExpiredEvent, UpdateState, UpdateBTCDelegationState, TypeInv, TypeOK,
       StoreTypeOK
  <2> QED
    BY <1>1, <2>2, <2>3 DEF AnnouncedWrite
<1>8. CASE UNCHANGED docs
  BY <1>1, <1>8
<1> QED
  BY <1>3, <1>5, <1>6, <1>7, <1>8 DEF ProcessorAction, ProcessorStep,
     validateCovenantQuorumReachedEvent, validateBTCDelegationInclusionProofReceivedEvent,
     validateBTCDelegationUnbondedEarlyEvent, validateBTCDelegationExpiredEvent, ValidateEvent,
     EmitActive, RegisterWatcher, EmitUnbondingMessage, SaveTimeLock, SaveHeight, storeVars

\* Messages come before the documents.
LEMMA AnnouncedKept ==
    ASSUME IInv, EventInv, MessageInv, [Next]_vars
    PROVE  AnnouncedBeforeStored'
<1> SUFFICES ASSUME NEW d \in Delegations
             PROVE  /\ State(d)' \notin {NoDocument, StatePending, StateVerified} =>
                          WasPushed(d, "active")'
                    /\ StoresUnbonding(d) => WasPushed(d, "unbonding")'
  BY DEF AnnouncedBeforeStored, WasPushed, StoresUnbonding
<1>0. TypeInv /\ "active" \in MessageKinds /\ "unbonding" \in MessageKinds
  BY DEF IInv, MessageKinds
<1>1. /\ State(d) \notin {NoDocument, StatePending, StateVerified} => WasPushed(d, "active")
      /\ \/ State(d) = StateExpanded
         \/ SubState(d) = SubStateTimelockSlashing
         \/ State(d) = StateUnbonding /\ SubState(d) = SubStateTimelock
         => WasPushed(d, "unbonding")
  BY DEF MessageInv, AnnouncedBeforeStored, WasPushed
<1>2. /\ WasPushed(d, "active") => WasPushed(d, "active")'
      /\ WasPushed(d, "unbonding") => WasPushed(d, "unbonding")'
  BY <1>0, MessagesKept
<1>3. State(d)' \notin {NoDocument, StatePending, StateVerified} => WasPushed(d, "active")
  <2>1. Changed(d)
    BY <1>0, DocumentChanges
  <2>2. step = "update" /\ Event.delegation = d /\ Event.newState = StateActive
           => WasPushed(d, "active")
    BY DEF MessageInv, HandlerAnnounced
  <2> QED
    BY <1>1, <2>1, <2>2 DEF Changed, Changeable, Writes, State, StatePending, StateVerified,
       StateActive, StateUnbonding, StateWithdrawable, StateSlashed, NoDocument
<1>4. AnnouncedWrite(d)
  <2>1. CASE UNCHANGED docs
    BY <2>1 DEF AnnouncedWrite, State, SubState
  <2> QED
    BY <2>1, WatcherAnnouncedWrite, CheckerAnnouncedWrite, ProcessorAnnouncedWrite
       DEF Next, ChainsStep, FindMissed, RegisterMissed, CallFails, WatcherFails, ProcessorFails,
           CheckerFails, Crash, GiveUp, StartProcess, vars, storeVars
<1>5. StoresUnbonding(d) => WasPushed(d, "unbonding")
  BY <1>1, <1>4 DEF AnnouncedWrite, StoresUnbonding
<1> QED
  BY <1>2, <1>3, <1>5

\* What was pushed when, in every reachable state.
THEOREM MessagesInOrder == Spec => []MessageInv
<1>1. Init => MessageInv
  <2> SUFFICES ASSUME Init PROVE MessageInv
    OBVIOUS
  <2>1. ActivationSteps /\ HandlerAnnounced
    BY DEF Init, ProcessorInit, ActivationSteps, HandlerAnnounced
  <2>2. WatchersAnnounced
    BY DEF Init, WatcherInit, WatchersAnnounced, Watchers, Outputs
  <2>3. TimeLocksAnnounced
    BY DEF Init, StoreInit, CheckerInit, TimeLocksAnnounced
  <2>4. AnnouncedBeforeStored
    BY DEF Init, StoreInit, AnnouncedBeforeStored, State, SubState, NoDocument, NoSubState,
       StateExpanded, StateUnbonding, SubStateTimelockSlashing
  <2> QED
    BY <2>1, <2>2, <2>3, <2>4 DEF MessageInv
<1>2. IInv /\ EventInv /\ MessageInv /\ [Next]_vars => MessageInv'
  BY ActivationStepsKept, HandlerAnnouncedKept, WatchersAnnouncedKept, TimeLocksAnnouncedKept,
     AnnouncedKept DEF MessageInv, IInv
<1> QED
  BY <1>1, <1>2, Inductive, EventsApplied, PTL DEF Spec

\* The consumers hear of a delegation before the store shows the change
\* (consumer_events.go): no crash, failed push, retry or replay stores an activation, an
\* expiry, an expansion or a slashing of the staking output that was not announced.
THEOREM AnnouncedFirst == Spec => []AnnouncedBeforeStored
BY MessagesInOrder, PTL DEF MessageInv

--------------------------------------------------------------------------------
(***************************************************************************)
(* The watcher of an unspent staking output.                               *)
(***************************************************************************)

\* An output that is unspent after a step was unspent before it.
LEMMA UnspentBefore ==
    ASSUME TypeInv, [Next]_vars, NEW d \in Delegations, NEW o \in Outputs,
           SpendPath(d, o)' = "unspent"
    PROVE  SpendPath(d, o) = "unspent"
<1>1. CASE ChainsStep
  BY <1>1, SpendsStable DEF ChainsStep, TypeInv, TypeOK
<1>2. CASE UNCHANGED spend
  BY <1>2 DEF SpendPath
<1> QED
  BY <1>1, <1>2 DEF Next, WatcherAction, ProcessorAction, CheckerAction, FindMissed,
     RegisterMissed, CallFails, Crash, GiveUp, StartProcess, vars, chainVars

\* Registering an unspent staking output leaves a watcher that will hear of its spend: a new
\* one, or one that is there already and has nothing to handle yet.
LEMMA StartedWatched ==
    ASSUME TypeInv, WatchersOnBitcoin, NEW d \in Delegations,
           SpendPath(d, "staking") = "unspent", registerStakingSpendNotification(d)
    PROVE  Watched(d)'
<1>0. "staking" \in Outputs /\ watcher \in [Watchers -> WatcherSteps]
  BY DEF Outputs, TypeInv, TypeOK, WatcherTypeOK
<1>1. ASSUME NEW i \in WatcherIds
      PROVE  watcher[<<d, "staking", i>>] \in {"none", "register", "waiting"}
  <2>1. StepJustified(d, "staking", watcher[<<d, "staking", i>>])
    BY <1>0 DEF WatchersOnBitcoin
  <2>2. watcher[<<d, "staking", i>>] \in WatcherSteps
    BY <1>0 DEF Watchers
  <2> QED
    BY <2>1, <2>2 DEF StepJustified, WatcherSteps
<1> DEFINE free == {i \in WatcherIds : watcher[<<d, "staking", i>>] = "none"}
<1>2. CASE free = {}
  <2>1. watcher' = watcher
    BY <1>2 DEF registerStakingSpendNotification, Started
  <2>2. PICK i \in WatcherIds : TRUE
    BY WatcherIdsAssumption
  <2>3. watcher[<<d, "staking", i>>] \in {"register", "waiting"}
    BY <1>1, <1>2
  <2> QED
    BY <2>1, <2>3 DEF Watched
<1>3. CASE free # {}
  <2>1. PICK i \in WatcherIds : watcher' = [watcher EXCEPT ![<<d, "staking", i>>] = "register"]
    BY <1>3 DEF registerStakingSpendNotification, Started
  <2>2. watcher'[<<d, "staking", i>>] = "register"
    BY <1>0, <2>1 DEF Watchers
  <2> QED
    BY <2>2 DEF Watched
<1> QED
  BY <1>2, <1>3

\* A watcher of an unspent output stays until its process ends or its registration fails.
LEMMA WatchedKept ==
    ASSUME TypeInv, [Next]_vars, NEW d \in Delegations,
           SpendPath(d, "staking") = "unspent", Watched(d)
    PROVE  Watched(d)' \/ StartProcess \/ CallFails
<1>0. "staking" \in Outputs /\ watcher \in [Watchers -> WatcherSteps]
  BY DEF Outputs, TypeInv, TypeOK, WatcherTypeOK
<1>1. PICK i \in WatcherIds : watcher[<<d, "staking", i>>] \in {"register", "waiting"}
  BY DEF Watched
<1> DEFINE w == <<d, "staking", i>>
<1>2. ASSUME WatcherAction(d, "staking", i)
      PROVE  watcher'[w] = "waiting"
  <2>1. RegisterSpend(d, "staking", i)
    BY <1>1, <1>2 DEF WatcherAction, WatcherStep, ReceiveSpend, SetUnbonding, EmitUnbonding,
       SaveUnbonding, CheckWithdrawal, SetWithdrawn, EmitSlashing, SetSlashed, SaveSlashing
  <2> QED
    BY <1>0, <2>1 DEF RegisterSpend, Goto, Watchers
<1>3. \/ watcher'[w] \in {"register", "waiting"}
      \/ StartProcess \/ CallFails
  BY <1>0, <1>1, <1>2, WatcherMoves
<1> QED
  BY <1>3 DEF Watched

\* An instance in which no call has failed takes no step in which one fails.
LEMMA NoFault ==
    ASSUME TypeInv, [Next]_vars, faults' = 0
    PROVE  faults = 0 /\ ~CallFails
<1>1. faults \in Nat
  BY FaultsAssumption DEF TypeInv, TypeOK
<1>2. CallFails => faults' # 0
  BY <1>1 DEF CallFails
<1> QED
  BY <1>2 DEF Next, ChainsStep, WatcherAction, ProcessorAction, CheckerAction, FindMissed,
     RegisterMissed, Crash, GiveUp, StartProcess, vars, serviceVars

\* The handler that stores ACTIVE has started the watcher in the call before.
LEMMA WatchedBeforeStoredKept ==
    ASSUME IInv, EventInv, WatchInv, [Next]_vars
    PROVE  WatchedBeforeStored'
<1>0. TypeInv /\ UnbondingSteps /\ WatchersOnBitcoin /\ WatchedBeforeStored
  BY DEF IInv, OnBitcoin, WatchInv
<1> SUFFICES ASSUME step' = "update", Event'.newState = StateActive, faults' = 0,
                    SpendPath(Event.delegation, "staking")' = "unspent"
             PROVE  Watched(Event.delegation)'
  BY DEF WatchedBeforeStored, StateActive
<1>1. ProcessorBusy'
  BY DEF ProcessorBusy
<1>2. /\ Event' = Event
      /\ HandlerMoves
      /\ ProcessorBusy \/ step = "validate"
  BY <1>0, <1>1, BusyStep, HandlerStep
<1>3. PICK d : d = Event.delegation
  OBVIOUS
<1>4. d \in Delegations
  <2>1. next \in DOMAIN bbnChain
    BY <1>0, <1>1, BusyStep
  <2>2. Event \in Events
    BY <1>0, <2>1 DEF Event, TypeInv, TypeOK, ChainsTypeOK
  <2> QED
    BY <1>3, <2>2 DEF Events
<1>5. Event.newState = StateActive /\ SpendPath(d, "staking")' = "unspent"
  BY <1>2, <1>3 DEF SpendPath
<1> SUFFICES Watched(d)'
  BY <1>2, <1>3 DEF Watched
<1>6. /\ SpendPath(d, "staking") = "unspent"
      /\ faults = 0 /\ ~CallFails
      /\ ~StartProcess
  BY <1>0, <1>4, <1>5, UnspentBefore, NoFault DEF StartProcess, Outputs
<1>7. ProcessorBusy => Event.type \notin {"UnbondedEarly", "Expired"}
  BY <1>5, UnbondingEventNotActive
<1>8. CASE UNCHANGED step
  <2>1. Watched(d)
    BY <1>0, <1>3, <1>5, <1>6, <1>8 DEF WatchedBeforeStored
  <2> QED
    BY <1>0, <1>4, <1>6, <2>1, WatchedKept
<1>9. CASE RegisterWatcher
  BY <1>0, <1>3, <1>4, <1>6, <1>9, StartedWatched DEF RegisterWatcher
<1>10. CASE EmitUnbondingMessage \/ SaveTimeLock
  <2>1. step \in {"emitUnbonding", "saveTimeLock"}
    BY <1>10 DEF EmitUnbondingMessage, SaveTimeLock
  <2> QED
    BY <1>0, <1>7, <2>1 DEF UnbondingSteps, ProcessorBusy
<1>11. CASE EmitActive
  BY <1>11 DEF EmitActive, Continue
<1> QED
  BY <1>2, <1>5, <1>8, <1>9, <1>10, <1>11 DEF HandlerMoves

\* A delegation that became active and whose staking output is unspent has not been slashed.
LEMMA UnspentNotSlashed ==
    ASSUME IInv, NEW d \in Delegations, SpendPath(d, "staking") = "unspent"
    PROVE  State(d) # StateSlashed
<1> USE DEF StateSlashed
<1>1. SpendsFollowOutputs /\ Consistent(d, State(d), SubState(d))
  BY DEF IInv, OnBitcoin, DocumentsOnBitcoin
<1>2. SpendPath(d, "unbonding") = "unspent"
  BY <1>1 DEF SpendsFollowOutputs
<1> QED
  BY <1>1, <1>2 DEF Consistent, Witnessed, SlashingSubStates, SubStateTimelockSlashing,
     SubStateEarlyUnbondingSlashing

\* A delegation that is due to be watched stays watched, or registered again: by the process
\* that has watched it, or by the next one (ResubscribeToMissedBtcNotifications).
LEMMA DueKept ==
    ASSUME IInv, EventInv, [Next]_vars, ~CallFails, NEW d \in Delegations,
           SpendPath(d, "staking") = "unspent",
           State(d) \in {StateActive, StateUnbonding, StateWithdrawable},
           ~resubscribed \/ d \in missed \/ Watched(d)
    PROVE  ~resubscribed' \/ d \in missed' \/ Watched(d)'
<1>0. TypeInv /\ WatchersOnBitcoin
  BY DEF IInv, OnBitcoin
<1>1. CASE StartProcess
  BY <1>1 DEF StartProcess
<1>2. CASE FindMissed
  <2>1. docs[d].inclusionProof
    BY DEF EventInv, DocumentsFromEvents, StateActive, StateUnbonding, StateWithdrawable,
       NoDocument, StatePending, StateVerified
  <2>2. InQualifiedState(d, ResubscribedStates)
    BY DEF InQualifiedState, ResubscribedStates, State
  <2> QED
    BY <1>2, <2>1, <2>2 DEF FindMissed
<1>3. CASE RegisterMissed(d)
  <2>1. registerStakingSpendNotification(d)
    BY <1>3 DEF RegisterMissed
  <2> QED
    BY <1>0, <2>1, StartedWatched
<1>4. CASE ~StartProcess /\ ~FindMissed /\ ~RegisterMissed(d)
  <2>1. resubscribed' = resubscribed
    BY <1>4 DEF Next, ChainsStep, WatcherAction, ProcessorAction, CheckerAction, RegisterMissed,
       CallFails, Crash, GiveUp, vars, serviceVars
  <2>2. d \in missed => d \in missed'
    BY <1>4 DEF Next, ChainsStep, WatcherAction, ProcessorAction, CheckerAction, RegisterMissed,
       CallFails, Crash, GiveUp, vars, serviceVars
  <2>3. Watched(d) => Watched(d)'
    BY <1>0, <1>4, WatchedKept
  <2> QED
    BY <2>1, <2>2, <2>3
<1> QED
  BY <1>1, <1>2, <1>3, <1>4

\* What becomes active is watched by then, and what is due to be watched stays so.
LEMMA OutputWatchedKept ==
    ASSUME IInv, EventInv, WatchInv, [Next]_vars
    PROVE  StakingOutputWatched'
<1> DEFINE Due == {StateActive, StateUnbonding, StateWithdrawable}
<1> SUFFICES ASSUME NEW d \in Delegations, State(d)' \in Due,
                    SpendPath(d, "staking")' = "unspent", faults' = 0
             PROVE  ~resubscribed' \/ d \in missed' \/ Watched(d)'
  BY DEF StakingOutputWatched, Watched, StateActive, StateUnbonding, StateWithdrawable
<1>0. TypeInv /\ WatchedBeforeStored /\ StakingOutputWatched
  BY DEF IInv, WatchInv
<1>1. SpendPath(d, "staking") = "unspent" /\ faults = 0 /\ ~CallFails
  BY <1>0, UnspentBefore, NoFault DEF Outputs
<1>2. CASE State(d) \in Due
  <2>1. ~resubscribed \/ d \in missed \/ Watched(d)
    BY <1>0, <1>1, <1>2 DEF StakingOutputWatched, Watched
  <2> QED
    BY <1>1, <1>2, <2>1, DueKept
<1>3. CASE State(d) \notin Due
  <2>1. Changed(d)
    BY <1>0, DocumentChanges
  <2>2. State(d) # StateSlashed
    BY <1>1, UnspentNotSlashed
  <2>3. /\ step = "update" /\ Event.delegation = d /\ Event.newState = StateActive
    BY <1>3, <2>1, <2>2 DEF Changed, Writes, State, Changeable, NoDocument, StatePending,
       StateVerified, StateActive, StateUnbonding, StateWithdrawable, StateSlashed
  <2>4. Watched(d)
    BY <1>0, <1>1, <2>3 DEF WatchedBeforeStored
  <2>5. Watched(d)' \/ StartProcess
    BY <1>0, <1>1, <2>4, WatchedKept
  <2> QED
    BY <2>5 DEF StartProcess
<1> QED
  BY <1>2, <1>3

\* The watcher is started before ACTIVE is stored, and found again by the resubscription.
THEOREM WatchersInOrder == Spec => []WatchInv
<1>1. Init => WatchInv
  BY DEF Init, ProcessorInit, StoreInit, WatchInv, WatchedBeforeStored, StakingOutputWatched,
     State, NoDocument, StateActive, StateUnbonding, StateWithdrawable
<1>2. IInv /\ EventInv /\ WatchInv /\ [Next]_vars => WatchInv'
  BY WatchedBeforeStoredKept, OutputWatchedKept DEF WatchInv
<1> QED
  BY <1>1, <1>2, Inductive, EventsApplied, PTL DEF Spec

\* While its staking output is unspent, a delegation that became active is watched, or is
\* about to be registered again by a process that has just started; only a call that failed
\* can lose the watcher (ResubscribeToMissedBtcNotifications, watch_btc_events.go).
THEOREM OutputsWatched == Spec => []StakingOutputWatched
BY WatchersInOrder, PTL DEF WatchInv

--------------------------------------------------------------------------------
(***************************************************************************)
(* What both chains say of an active delegation.                           *)
(***************************************************************************)

\* What Babylon has emitted stays emitted.
LEMMA EmittedStays ==
    ASSUME TypeInv, [Next]_vars, NEW type, NEW d, Emitted(type, d)
    PROVE  Emitted(type, d)'
BY EventsStay DEF Emitted

\* Documents get a proof, and leave PENDING, by the handlers of events that Babylon emitted.
LEMMA OnBabylonKept ==
    ASSUME TypeInv, ProofsOnBabylon, QuorumsOnBabylon, [Next]_vars
    PROVE  ProofsOnBabylon' /\ QuorumsOnBabylon'
<1> SUFFICES ASSUME NEW d \in Delegations
             PROVE  /\ docs'[d].inclusionProof => Emitted("InclusionProof", d)
                    /\ State(d)' \notin {NoDocument, StatePending} =>
                          Emitted("CovenantQuorum", d)
  BY EmittedStays DEF ProofsOnBabylon, QuorumsOnBabylon, NoDocument, StatePending
<1>1. /\ docs[d].inclusionProof => Emitted("InclusionProof", d)
      /\ State(d) \notin {NoDocument, StatePending} => Emitted("CovenantQuorum", d)
  BY DEF ProofsOnBabylon, QuorumsOnBabylon
<1>2. ASSUME NEW type, Writes(type, d)
      PROVE  Emitted(type, d)
  BY <1>2 DEF Writes, Event, Emitted, TypeInv, PositionInv, ProcessorBusy
<1>3. Changed(d)
  BY DocumentChanges
<1> QED
  BY <1>1, <1>2, <1>3 DEF Changed, Changeable, State, NoDocument, StatePending, StateVerified,
     StateActive, StateUnbonding, StateWithdrawable, StateSlashed

\* An update with another state does not store EXPANDED.
LEMMA StoresOther ==
    ASSUME TypeInv, NEW e \in Delegations, NEW qualified, NEW newState, NEW subState, NEW proof,
           UpdateBTCDelegationState(e, qualified, newState, subState, proof),
           newState # StateExpanded,
           NEW d \in Delegations, State(d)' = StateExpanded
    PROVE  State(d) = StateExpanded
BY DEF TypeInv, TypeOK, StoreTypeOK, UpdateBTCDelegationState, State

\* EXPANDED is stored by the handler of an early unbonding, for an expansion.
LEMMA StoresExpanded ==
    ASSUME TypeInv, [Next]_vars, NEW d \in Delegations, State(d)' = StateExpanded
    PROVE  State(d) = StateExpanded \/ SpendPath(d, "staking") = "expansion"
<1>1. CASE UNCHANGED docs
  BY <1>1 DEF State
<1>2. ASSUME NEW e \in Delegations, NEW o \in Outputs, NEW i \in WatcherIds,
             WatcherAction(e, o, i)
      PROVE  State(d) = StateExpanded
  <2>1. CASE SetUnbonding(e, o, i)
    <3>1. StateUnbonding # StateExpanded
      BY DEF StateUnbonding, StateExpanded
    <3> QED
      BY <2>1, <3>1, StoresOther DEF SetUnbonding
  <2>2. CASE SetWithdrawn(e, o, i)
    <3>1. StateWithdrawn # StateExpanded
      BY DEF StateWithdrawn, StateExpanded
    <3> QED
      BY <2>2, <3>1, StoresOther DEF SetWithdrawn
  <2>3. CASE SetSlashed(e, o, i)
    <3>1. StateSlashed # StateExpanded
      BY DEF StateSlashed, StateExpanded
    <3> QED
      BY <2>3, <3>1, StoresOther DEF SetSlashed
  <2>4. UNCHANGED docs \/ SetUnbonding(e, o, i) \/ SetWithdrawn(e, o, i) \/ SetSlashed(e, o, i)
    BY <1>2 DEF WatcherAction, WatcherStep, RegisterSpend, ReceiveSpend,
       EmitUnbonding, SaveUnbonding, CheckWithdrawal, EmitSlashing, SaveSlashing, storeVars
  <2> QED
    BY <2>1, <2>2, <2>3, <2>4 DEF State
<1>3. CASE CheckerAction
  <2>1. CASE SetWithdrawable
    <3>1. StateWithdrawable # StateExpanded
      BY DEF StateWithdrawable, StateExpanded
    <3>2. Head(found).delegation \in Delegations
      <4>1. Head(found) \in TimeLockDocuments
        BY <2>1 DEF SetWithdrawable, TypeInv, TypeOK, CheckerTypeOK
      <4> QED
        BY <4>1 DEF TimeLockDocuments
    <3> QED
      BY <2>1, <3>1, <3>2, StoresOther DEF SetWithdrawable
  <2> QED
    BY <1>1, <1>3, <2>1 DEF CheckerAction, CheckerStep, Poll, DeleteTimeLock, storeVars
<1>4. CASE ProcessorAction /\ step = "update"
  <2>1. Event \in Events /\ Event.delegation \in Delegations
    BY <1>4, EventTyped DEF ProcessorBusy, Events
  <2>2. Event.newState # StateExpanded
    BY <2>1 DEF Events, StateExpanded
  <2>3. StateUnbonding # StateExpanded
    BY DEF StateUnbonding, StateExpanded
  <2>4. CASE processCovenantQuorumReachedEvent
    BY <2>1, <2>2, <2>4, StoresOther DEF processCovenantQuorumReachedEvent, UpdateState
  <2>5. CASE processBTCDelegationInclusionProofReceivedEvent
    BY <2>1, <2>2, <2>5, StoresOther
       DEF processBTCDelegationInclusionProofReceivedEvent, UpdateState
  <2>6. CASE processBTCDelegationExpiredEvent
    BY <2>1, <2>3, <2>6, StoresOther DEF processBTCDelegationExpiredEvent, UpdateState
  <2>7. CASE processBTCDelegationUnbondedEarlyEvent
    <3>1. CASE Event.delegation = d /\ StakeExpansion
      BY <3>1 DEF StakeExpansion
    <3>2. CASE ~StakeExpansion
      BY <2>1, <2>3, <2>7, <3>2, StoresOther
         DEF processBTCDelegationUnbondedEarlyEvent, UpdateState
    <3>3. CASE Event.delegation # d
      <4>1. docs'[d] = docs[d]
        BY <2>1, <2>7, <3>3 DEF processBTCDelegationUnbondedEarlyEvent, UpdateState,
           UpdateBTCDelegationState, TypeInv, TypeOK, StoreTypeOK
      <4> QED
        BY <4>1 DEF State
    <3> QED
      BY <3>1, <3>2, <3>3
  <2> QED
    BY <1>4, <2>4, <2>5, <2>6, <2>7 DEF ProcessorAction, ProcessorStep,
       processNewBTCDelegationEvent, validateCovenantQuorumReachedEvent,
       validateBTCDelegationInclusionProofReceivedEvent,
       validateBTCDelegationUnbondedEarlyEvent, validateBTCDelegationExpiredEvent,
       ValidateEvent, EmitActive, RegisterWatcher, EmitUnbondingMessage, SaveTimeLock, SaveHeight
<1>5. CASE ProcessorAction /\ step # "update"
  <2>1. CASE processNewBTCDelegationEvent
    <3>1. Event.delegation \in Delegations
      BY <2>1, EventTyped DEF processNewBTCDelegationEvent, Processing, Events
    <3>2. docs \in [Delegations -> Documents]
      BY DEF TypeInv, TypeOK, StoreTypeOK
    <3>3. docs'[d] = docs[d] \/ docs'[d] = [docs[d] EXCEPT !.state = StatePending]
      BY <2>1, <3>1, <3>2 DEF processNewBTCDelegationEvent, SaveNewBTCDelegation
    <3>4. docs[d] \in Documents
      BY <3>2
    <3>5. docs'[d] = docs[d] \/ docs'[d].state = StatePending
      BY <3>3, <3>4 DEF Documents
    <3> QED
      BY <3>5 DEF State, StatePending, StateExpanded
  <2> QED
    BY <1>1, <1>5, <2>1 DEF ProcessorAction, ProcessorStep,
       validateCovenantQuorumReachedEvent, validateBTCDelegationInclusionProofReceivedEvent,
       validateBTCDelegationUnbondedEarlyEvent, validateBTCDelegationExpiredEvent,
       ValidateEvent, EmitActive, RegisterWatcher, EmitUnbondingMessage, SaveTimeLock,
       processCovenantQuorumReachedEvent, processBTCDelegationInclusionProofReceivedEvent,
       processBTCDelegationUnbondedEarlyEvent, processBTCDelegationExpiredEvent, UpdateState,
       SaveHeight, storeVars
<1> QED
  BY <1>1, <1>2, <1>3, <1>4, <1>5 DEF Next, ChainsStep, FindMissed, RegisterMissed, CallFails,
     WatcherFails, ProcessorFails, CheckerFails, Crash, GiveUp, StartProcess, vars, storeVars

\* The spend of an expansion is on Bitcoin for good.
LEMMA ExpansionsKept ==
    ASSUME TypeInv, ExpansionsOnBitcoin, [Next]_vars
    PROVE  ExpansionsOnBitcoin'
<1> SUFFICES ASSUME NEW d \in Delegations, State(d)' = StateExpanded
             PROVE  SpendPath(d, "staking")' = "expansion"
  BY DEF ExpansionsOnBitcoin, StateExpanded
<1>1. SpendPath(d, "staking") = "expansion"
  BY StoresExpanded DEF ExpansionsOnBitcoin
<1>2. CASE ChainsStep
  BY <1>1, <1>2, SpendsStable DEF ChainsStep, TypeInv, TypeOK, Outputs
<1>3. CASE UNCHANGED spend
  BY <1>1, <1>3 DEF SpendPath
<1> QED
  BY <1>2, <1>3 DEF Next, WatcherAction, ProcessorAction, CheckerAction, FindMissed,
     RegisterMissed, CallFails, Crash, GiveUp, StartProcess, vars, chainVars

\* A document that is past VERIFIED has its proof, and Babylon accepts a proof only for a
\* staking transaction that is on Bitcoin.
LEMMA Backed ==
    ASSUME IInv, EventInv, ProofsOnBabylon, QuorumsOnBabylon, ExpansionsOnBitcoin
    PROVE  BackedByChains
<1> SUFFICES ASSUME NEW d \in Delegations, State(d) \notin {NoDocument, StatePending, StateVerified}
             PROVE  Activated(d) /\ StakingMined(d)
  BY DEF BackedByChains, ExpansionsOnBitcoin
<1>1. docs[d].inclusionProof
  BY DEF EventInv, DocumentsFromEvents
<1>2. Emitted("InclusionProof", d) /\ Emitted("CovenantQuorum", d)
  BY <1>1 DEF ProofsOnBabylon, QuorumsOnBabylon
<1>3. PICK n \in DOMAIN bbnChain :
         bbnChain[n].type = "InclusionProof" /\ bbnChain[n].delegation = d
  BY <1>2 DEF Emitted
<1>4. StakingMined(d)
  BY <1>3 DEF IInv, OnBitcoin, EventsOnBitcoin
<1> QED
  BY <1>2, <1>4 DEF Activated

\* The events and spends that the documents rest on, in every reachable state.
THEOREM DocumentsBacked == Spec => []BackingInv
<1> DEFINE Core == ProofsOnBabylon /\ QuorumsOnBabylon /\ ExpansionsOnBitcoin
<1>1. Init => Core
  BY DEF Init, StoreInit, ProofsOnBabylon, QuorumsOnBabylon, ExpansionsOnBitcoin, State,
     NoDocument, StateExpanded
<1>2. IInv /\ Core /\ [Next]_vars => Core'
  BY OnBabylonKept, ExpansionsKept DEF IInv
<1>3. IInv /\ EventInv /\ Core => BackingInv
  BY Backed DEF BackingInv
<1> QED
  BY <1>1, <1>2, <1>3, Inductive, EventsApplied, PTL DEF Spec

\* A delegation that is stored as ACTIVE, or in a later state, has a quorum and an inclusion
\* proof on Babylon and its staking transaction on Bitcoin; EXPANDED is stored only for a
\* staking output that an expansion has spent (delegation.go, the handlers of these events).
THEOREM ActiveIsBacked == Spec => []BackedByChains
BY DocumentsBacked, PTL DEF BackingInv

--------------------------------------------------------------------------------

\* Everything that is known of the reachable states, for every value of the constants.
THEOREM IndexerInvariant == Spec => []IndexerInv
BY Inductive, EventsApplied, MessagesInOrder, WatchersInOrder, DocumentsBacked, PTL
   DEF IndexerInv

\* UpdateLastProcessedBbnHeight never stores a height below the one that is stored, as the
\* processor is past the stored height in every process.
THEOREM HeightGrows == Spec => StoredHeightGrows
<1>1. EventInv /\ [Next]_vars => [lastProcessed <= lastProcessed']_vars
  <2> SUFFICES ASSUME EventInv, [Next]_vars PROVE lastProcessed <= lastProcessed'
    OBVIOUS
  <2>1. TypeInv /\ lastProcessed \in Nat /\ next \in Nat /\ lastProcessed < next
    BY DEF EventInv, ProcessedInOrder, TypeInv, TypeOK, StoreTypeOK, ProcessorTypeOK
  <2> QED
    BY <2>1, PositionMoves
<1> QED
  BY <1>1, EventsApplied, PTL DEF Spec, StoredHeightGrows
================================================================================
