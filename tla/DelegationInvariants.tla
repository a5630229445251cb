-------------------------- MODULE DelegationInvariants --------------------------
(***************************************************************************)
(* The inductive invariant behind the safety properties of delegations.    *)
(* Its parts follow a fact of Bitcoin through the program: from the chain  *)
(* to the events, to the goroutines that work on them, to the timelock     *)
(* documents and to the delegation documents.                              *)
(***************************************************************************)
EXTENDS DelegationProperties

\* The processor is inside a handler, so its event is on the chain.
ProcessorBusy == step \notin {"validate", "saveHeight", "failed"}

PositionInv == ProcessorBusy => next \in DOMAIN bbnChain

\* An output is spent only if it exists, and by a path it has.
SpendsFollowOutputs ==
    \A d \in Delegations :
        /\ SpendPath(d, "staking") # "unspent" => StakingMined(d)
        /\ SpendPath(d, "unbonding") # "unspent" => SpendPath(d, "staking") = "unbonding"
        /\ SpendPath(d, "unbonding") \in {"unspent", "timelock", "slashing"}
        /\ SpendPath(d, "change") # "unspent" => SpendPath(d, SlashedOutput(d)) = "slashing"
        /\ SpendPath(d, "change") \in {"unspent", "timelock"}

EventsOnBitcoin ==
    \A n \in DOMAIN bbnChain :
        LET event == bbnChain[n] IN
        /\ event.type = "UnbondedEarly" =>
              SpendPath(event.delegation, "staking") \in UnbondingPaths
        /\ event.type \in {"InclusionProof", "Expired"} => StakingMined(event.delegation)

\* The calls that only the handlers of unbonding events make.
UnbondingSteps ==
    step \in {"emitUnbonding", "saveTimeLock"} => Event.type \in {"UnbondedEarly", "Expired"}

\* What must be on Bitcoin for a watcher of an output to be at a step.
StepJustified(d, output, at) ==
    /\ at \in {"setUnbonding", "emitUnbonding", "saveUnbonding"} =>
          output = "staking" /\ SpendPath(d, output) \in {"unbonding", "unexpected"}
    /\ at \in {"emitUnbonding", "saveUnbonding"} => SpendPath(d, output) = "unbonding"
    /\ at \in {"checkWithdrawal", "setWithdrawn"} => SpendPath(d, output) = "timelock"
    /\ at \in {"emitSlashing", "setSlashed", "saveSlashing"} =>
          output \in {"staking", "unbonding"} /\ SpendPath(d, output) = "slashing"

WatchersOnBitcoin ==
    \A d \in Delegations, o \in Outputs, i \in WatcherIds :
        StepJustified(d, o, watcher[<<d, o, i>>])

\* What must be on Bitcoin for a sub-state to be stored with a delegation.
Witnessed(d, subState) ==
    /\ subState = SubStateTimelock => StakingMined(d)
    /\ subState = SubStateEarlyUnbonding => SpendPath(d, "staking") \in UnbondingPaths
    /\ subState = SubStateTimelockSlashing => SpendPath(d, "staking") = "slashing"
    /\ subState = SubStateEarlyUnbondingSlashing => SpendPath(d, "unbonding") = "slashing"

\* The height at which the timelock that a sub-state names has passed.
UnlockOf(d, subState) ==
    CASE subState = SubStateTimelock       -> EndHeight(d)
      [] subState = SubStateEarlyUnbonding -> SpendHeight(d, "staking") + UnbondingTime
      [] OTHER                             -> UnlockHeight(d, "change")

Justified(timelock) ==
    /\ Witnessed(timelock.delegation, timelock.subState)
    /\ timelock.expireHeight = UnlockOf(timelock.delegation, timelock.subState)

TimeLocksOnBitcoin == \A n \in DOMAIN timelocks : Justified(timelocks[n])

FoundOnBitcoin ==
    \A n \in DOMAIN found : Justified(found[n]) /\ found[n].expireHeight <= btcTip

\* The output whose spend a withdrawn delegation stands for.
WithdrawnOutput(subState) ==
    CASE subState = SubStateTimelock       -> "staking"
      [] subState = SubStateEarlyUnbonding -> "unbonding"
      [] OTHER                             -> "change"

\* What a state and a sub-state stored together say of a delegation.
Consistent(d, state, subState) ==
    /\ Witnessed(d, subState)
    /\ subState \in SlashingSubStates =>
          state \in {StateSlashed, StateWithdrawable, StateWithdrawn}
    /\ state = StateSlashed => subState \in SlashingSubStates
    /\ state = StateWithdrawn => SpendPath(d, WithdrawnOutput(subState)) = "timelock"
    /\ state = StateWithdrawable =>
          subState \in DelegationSubStates /\ UnlockOf(d, subState) <= btcTip

DocumentsOnBitcoin == \A d \in Delegations : Consistent(d, State(d), SubState(d))

\* The change of a slashing is watched only once the slashing is stored.
ChangeWatchedAfterSlashing ==
    \A d \in Delegations, o \in Outputs, i \in WatcherIds :
        \/ o = "change" /\ watcher[<<d, o, i>>] # "none"
        \/ watcher[<<d, o, i>>] = "saveSlashing"
        => SubState(d) \in SlashingSubStates

OnBitcoin ==
    /\ SpendsFollowOutputs
    /\ EventsOnBitcoin
    /\ UnbondingSteps
    /\ WatchersOnBitcoin
    /\ TimeLocksOnBitcoin
    /\ FoundOnBitcoin
    /\ DocumentsOnBitcoin
    /\ ChangeWatchedAfterSlashing

TypeInv == TypeOK /\ PositionInv

\* Whatever the indexer has stored, and whatever its goroutines are about to
\* store, is justified by a spend that is on Bitcoin: this holds in every
\* reachable state and is preserved by every single step, which makes it the
\* induction hypothesis of the safety theorems.
IInv == TypeInv /\ OnBitcoin

--------------------------------------------------------------------------------
(***************************************************************************)
(* What the events, the stored height and the documents have to do with    *)
(* each other, behind NoEventSkipped.                                      *)
(***************************************************************************)

\* Babylon has emitted an event of this type and delegation before the nth event.
Earlier(type, d, n) ==
    \E m \in 1 .. n - 1 : bbnChain[m].type = type /\ bbnChain[m].delegation = d

\* What precedes an event of a delegation on Babylon.
EventInOrder(n) ==
    LET event == bbnChain[n]
        Seen(type) == Earlier(type, event.delegation, n)
    IN  /\ ~Seen(event.type)
        /\ event.type # "Created" => Seen("Created")
        /\ event.type \in {"UnbondedEarly", "Expired"} =>
              Seen("CovenantQuorum") /\ event.newState # "ACTIVE"
        /\ event.type = "Expired" => Seen("InclusionProof")
        /\ event.type = "CovenantQuorum" =>
              event.newState = IF Seen("InclusionProof") THEN "ACTIVE" ELSE "VERIFIED"
        /\ event.type = "InclusionProof" =>
              IF Seen("CovenantQuorum")
              THEN event.newState = "ACTIVE" /\ ~Seen("UnbondedEarly")
              ELSE event.newState = "PENDING"

EventsInOrder == \A n \in DOMAIN bbnChain : EventInOrder(n)

\* Events are processed in the order of the chain, from the stored height on.
ProcessedInOrder == lastProcessed < next /\ next <= Len(bbnChain) + 1

EventOf(type, d, newState) ==
    \E n \in DOMAIN bbnChain : /\ bbnChain[n].type = type
                               /\ bbnChain[n].delegation = d
                               /\ bbnChain[n].newState = newState

\* The events that a document stands for.  A replayed event can meet the result
\* of later ones, so this says nothing of the processor's position.
DocumentsFromEvents ==
    \A d \in Delegations :
        /\ State(d) = StateVerified => EventOf("CovenantQuorum", d, "VERIFIED")
        /\ docs[d].inclusionProof /\ State(d) \in {NoDocument, StatePending} =>
              EventOf("InclusionProof", d, "PENDING")
        /\ State(d) \notin {NoDocument, StatePending, StateVerified} => docs[d].inclusionProof

\* A quorum that activates a delegation was found to come after the inclusion proof.
QuorumValidated ==
    ProcessorBusy /\ Event.type = "CovenantQuorum" /\ Event.newState = "ACTIVE" =>
        docs[Event.delegation].inclusionProof

\* Not only up to the stored height: every event that this process has passed.
PassedApplied == \A n \in DOMAIN bbnChain : n < next => Applied(bbnChain[n])

EventInv ==
    /\ TypeInv
    /\ EventsInOrder
    /\ ProcessedInOrder
    /\ DocumentsFromEvents
    /\ QuorumValidated
    /\ PassedApplied

--------------------------------------------------------------------------------
(***************************************************************************)
(* What was pushed when a call is made or a document is stored, behind     *)
(* AnnouncedBeforeStored.                                                  *)
(***************************************************************************)

WasPushed(d, kind) == pushed[d][kind] > 0

\* The calls that only the activation of a delegation makes.
ActivationSteps == step \in {"emitActive", "register"} => Event.newState = StateActive

HandlerAnnounced ==
    /\ step \in {"register", "update"} /\ Event.newState = StateActive =>
          WasPushed(Event.delegation, "active")
    /\ step \in {"saveTimeLock", "update"} /\ Event.type \in {"UnbondedEarly", "Expired"} =>
          WasPushed(Event.delegation, "unbonding")

SlashingAnnounced(timelock) ==
    timelock.subState = SubStateTimelockSlashing => WasPushed(timelock.delegation, "unbonding")

WatchersAnnounced ==
    \A d \in Delegations, i \in WatcherIds :
        watcher[<<d, "staking", i>>] \in {"setSlashed", "saveSlashing"} =>
            WasPushed(d, "unbonding")

TimeLocksAnnounced ==
    /\ \A n \in DOMAIN timelocks : SlashingAnnounced(timelocks[n])
    /\ \A n \in DOMAIN found : SlashingAnnounced(found[n])

MessageInv ==
    /\ ActivationSteps
    /\ HandlerAnnounced
    /\ WatchersAnnounced
    /\ TimeLocksAnnounced
    /\ AnnouncedBeforeStored

--------------------------------------------------------------------------------
(***************************************************************************)
(* Where the watcher of an unspent output is, behind StakingOutputWatched. *)
(***************************************************************************)

Watched(d) == \E i \in WatcherIds : watcher[<<d, "staking", i>>] \in {"register", "waiting"}

\* The watcher is started before the delegation is stored as active.
WatchedBeforeStored ==
    /\ step = "update"
    /\ Event.newState = StateActive
    /\ SpendPath(Event.delegation, "staking") = "unspent"
    /\ faults = 0
    => Watched(Event.delegation)

WatchInv == WatchedBeforeStored /\ StakingOutputWatched

--------------------------------------------------------------------------------
(***************************************************************************)
(* Which events and spends the documents rest on, behind BackedByChains.   *)
(***************************************************************************)

ProofsOnBabylon ==
    \A d \in Delegations : docs[d].inclusionProof => Emitted("InclusionProof", d)

QuorumsOnBabylon ==
    \A d \in Delegations :
        State(d) \notin {NoDocument, StatePending} => Emitted("CovenantQuorum", d)

ExpansionsOnBitcoin ==
    \A d \in Delegations : State(d) = StateExpanded => SpendPath(d, "staking") = "expansion"

BackingInv ==
    /\ ProofsOnBabylon
    /\ QuorumsOnBabylon
    /\ ExpansionsOnBitcoin
    /\ BackedByChains

\* All that the proofs establish of the reachable states of DelegationIndexer.
IndexerInv == IInv /\ EventInv /\ MessageInv /\ WatchInv /\ BackingInv

================================================================================
