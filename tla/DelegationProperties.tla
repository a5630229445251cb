-------------------------- MODULE DelegationProperties --------------------------
(***************************************************************************)
(* What the indexer should get right about delegations, and the abstract   *)
(* specification it implements.                                            *)
(***************************************************************************)
EXTENDS DelegationIndexer, FiniteSets

State(d) == docs[d].state
SubState(d) == docs[d].subState

--------------------------------------------------------------------------------
(***************************************************************************)
(* The stored sub-state against Bitcoin.                                   *)
(***************************************************************************)

\* A slashing sub-state is stored only for the output that was slashed on
\* Bitcoin, an early unbonding only when the staking output was spent through
\* its unbonding path or by an expansion, and SLASHED always says which output
\* it was: however events, watchers and the expiry checker are interleaved, no
\* transition of types/state.go is taken for a spend that is not there.
SubStateOnBitcoin ==
    \A d \in Delegations :
        /\ SubState(d) = SubStateTimelockSlashing => SpendPath(d, "staking") = "slashing"
        /\ SubState(d) = SubStateEarlyUnbondingSlashing => SpendPath(d, "unbonding") = "slashing"
        /\ SubState(d) = SubStateEarlyUnbonding => SpendPath(d, "staking") \in UnbondingPaths
        /\ State(d) = StateSlashed => SubState(d) \in SlashingSubStates

\* WITHDRAWN says which output was withdrawn, and that output was indeed spent
\* through its timelock path: handleWithdrawal and watchForSpendSlashingChange
\* accept delegations that were not unbonding yet, so only the spend counts.
WithdrawnOnBitcoin ==
    \A d \in Delegations : State(d) = StateWithdrawn =>
        SpendPath(d, CASE SubState(d) = SubStateTimelock       -> "staking"
                       [] SubState(d) = SubStateEarlyUnbonding -> "unbonding"
                       [] OTHER                                -> "change") = "timelock"

\* WITHDRAWABLE never comes before the timelock that its sub-state names, even
\* when the expiry checker works from documents of an earlier poll or deletes
\* the document of another timelock of the delegation.
WithdrawableNotEarly ==
    \A d \in Delegations : State(d) = StateWithdrawable =>
        btcTip >= CASE SubState(d) = SubStateTimelock       -> EndHeight(d)
                    [] SubState(d) = SubStateEarlyUnbonding ->
                          SpendHeight(d, "staking") + UnbondingTime
                    [] OTHER                                -> UnlockHeight(d, "change")

--------------------------------------------------------------------------------
(***************************************************************************)
(* Events, messages and restarts.                                          *)
(***************************************************************************)

\* The effect of an event that was processed.  An early unbonding of a
\* delegation that was not active has none.
Applied(event) ==
    LET s == State(event.delegation) IN
    CASE event.type = "Created"        -> s # NoDocument
      [] event.type = "CovenantQuorum" -> s \notin {NoDocument, StatePending}
      [] event.type = "InclusionProof" -> docs[event.delegation].inclusionProof
      [] OTHER                         -> s # StateActive

\* The stored height never runs ahead of the events: a crash between any two
\* calls of a handler, a failed call, or a retry leaves no event of a block up
\* to that height without its effect (bootstrap.go, UpdateLastProcessedBbnHeight).
NoEventSkipped ==
    \A i \in DOMAIN bbnChain : i <= lastProcessed => Applied(bbnChain[i])

\* The consumers hear of a delegation before the store shows the change: of
\* every delegation that became active, and of every one that expired, was
\* expanded, or had its staking output slashed, in spite of crashes and failed
\* pushes between the push and the update (consumer_events.go).
AnnouncedBeforeStored ==
    \A d \in Delegations :
        /\ State(d) \notin {NoDocument, StatePending, StateVerified} =>
              pushed[d]["active"] > 0
        /\ \/ State(d) = StateExpanded
           \/ SubState(d) = SubStateTimelockSlashing
           \/ State(d) = StateUnbonding /\ SubState(d) = SubStateTimelock
           => pushed[d]["unbonding"] > 0

\* What the store calls ACTIVE, and every later state, both chains bear out:
\* Babylon has the quorum and the inclusion proof, whichever came first and
\* however often their events were replayed, and the staking transaction is on
\* Bitcoin, so that an expansion is ACTIVE only once it has spent the delegation
\* that it expands.  EXPANDED is stored only for a delegation that was so spent.
BackedByChains ==
    \A d \in Delegations :
        /\ State(d) \notin {NoDocument, StatePending, StateVerified} =>
              Activated(d) /\ StakingMined(d)
        /\ State(d) = StateExpanded => SpendPath(d, "staking") = "expansion"

\* While its staking output is unspent, a delegation that became active is
\* watched, or is about to be registered again by a process that has just
\* started; the window between starting the watcher and storing ACTIVE, and
\* every restart, are covered (ResubscribeToMissedBtcNotifications).  Only a
\* failed registration, which the code gives up, can lose the watcher.
StakingOutputWatched ==
    \A d \in Delegations :
        /\ State(d) \in {StateActive, StateUnbonding, StateWithdrawable}
        /\ SpendPath(d, "staking") = "unspent"
        /\ faults = 0
        => \/ ~resubscribed
           \/ d \in missed
           \/ \E i \in WatcherIds : watcher[<<d, "staking", i>>] \in {"register", "waiting"}

\* state.go calls WITHDRAWN and EXPANDED terminal: no event, spend, timelock,
\* replay or restart changes such a document again.
TerminalStatesFinal ==
    [][\A d \in Delegations :
          State(d) \in {StateWithdrawn, StateExpanded} => docs'[d] = docs[d]]_vars

\* A slashing is never forgotten: no unbonding, unlock, withdrawal or replay
\* replaces the sub-state that tells which output was slashed.
SlashingFinal ==
    [][\A d \in Delegations :
          SubState(d) \in SlashingSubStates => SubState(d)' = SubState(d)]_vars

\* The stored height never goes back, although every start resumes from it and
\* every block after it is processed again (UpdateLastProcessedBbnHeight).
StoredHeightGrows == [][lastProcessed <= lastProcessed']_vars

--------------------------------------------------------------------------------
(***************************************************************************)
(* The abstract specification, and what must eventually happen.            *)
(***************************************************************************)

Lifecycle == INSTANCE DelegationLifecycle WITH
    state <- [d \in Delegations |-> docs[d].state],
    subState <- [d \in Delegations |-> docs[d].subState]

\* Every step of the indexer is a transition of the delegation lifecycle of
\* types/state.go or leaves every state and sub-state alone.
ImplementsLifecycle == Lifecycle!Spec

\* The blocks that end among the first n events.
BlocksUpTo(n) == Cardinality({i \in DOMAIN bbnChain : i <= n /\ bbnChain[i].lastInBlock})

Sequential == INSTANCE SequentialBlocks WITH
    height <- BlocksUpTo(Len(bbnChain)),
    processed <- BlocksUpTo(next - 1),
    stored <- BlocksUpTo(lastProcessed)

\* Event by event, with retries, replays and a process that gives up, the
\* processor keeps the promise of processBlocksSequentially that BlockPipeline
\* keeps block by block (bootstrap.go, NOTE): the two models compose at it.
ProcessesSequentially == Sequential!Spec

\* The processor catches up with Babylon again and again, through crashes,
\* failed calls and restarts: no event makes its handler fail for ever, although
\* the handler of an expiry reports an error when a watcher has moved the
\* delegation on in the meantime (bootstrap.go, events.go).
BlocksProcessed ==
    []<>(\A n \in DOMAIN bbnChain : bbnChain[n].lastInBlock => n <= lastProcessed)

\* The expiry checker keeps up: expired timelock documents are eventually gone,
\* although each poll is limited and deletes documents by delegation only.
TimeLocksConsumed ==
    []<>(ExpiredTimeLocks(btcTip) = {})

\* A watcher whose call failed is gone, and so are those of a process that was
\* killed or that ends because an event could not be processed.
Undisturbed == crashes = 0 /\ faults = 0 /\ step # "failed"

\* A withdrawal that a waiting watcher hears of is eventually stored, if the
\* delegation is in one of the states that withdrawal accepts, whatever the
\* processor and the expiry checker store in the meantime.
WithdrawalRecorded ==
    \A d \in Delegations, o \in Outputs, i \in WatcherIds :
        (/\ watcher[<<d, o, i>>] = "waiting"
         /\ SpendPath(d, o) = "timelock"
         /\ State(d) \in {StateActive, StateUnbonding, StateWithdrawable, StateSlashed})
        ~> (State(d) = StateWithdrawn \/ ~Undisturbed)

\* A slashing that a waiting watcher hears of is eventually stored.
SlashingRecorded ==
    \A d \in Delegations, o \in {"staking", "unbonding"}, i \in WatcherIds :
        (/\ watcher[<<d, o, i>>] = "waiting"
         /\ SpendPath(d, o) = "slashing"
         /\ State(d) \in {StateActive, StateUnbonding, StateWithdrawable})
        ~> (SubState(d) \in SlashingSubStates \/ ~Undisturbed)

\* A spend that no goroutine is left to handle, because it was heard of before
\* ACTIVE was stored, or because a registration or a handler failed, is stored
\* by the next process: its resubscription hears of it again (subscription.go).
MissedSpendRecovered ==
    \A d \in Delegations :
        (/\ ~resubscribed
         /\ crashes = MaxCrashes /\ faults = MaxFaults
         /\ docs[d].inclusionProof
         /\ State(d) \in {StateActive, StateUnbonding, StateWithdrawable}
         /\ SpendPath(d, "staking") \in {"timelock", "slashing"})
        ~> (State(d) = StateWithdrawn \/ SubState(d) \in SlashingSubStates)

--------------------------------------------------------------------------------
(***************************************************************************)
(* Statements of the documentation that the code does not keep.  Each is   *)
(* checked by a run of its own that ends in a violation.                   *)
(***************************************************************************)

\* docs/flows/startup.md:25 and :28: the expiry checker marks a delegation whose
\* staking timelock has expired as withdrawable.
ExpiredUnlocks ==
    \A d \in Delegations :
        (/\ State(d) = StateUnbonding
         /\ SubState(d) = SubStateTimelock
         /\ btcTip >= EndHeight(d))
        ~> (State(d) # StateUnbonding)

\* docs/states/lifecycle.md:124: after the slashing timelock a slashed delegation
\* becomes WITHDRAWABLE again.
SlashedUnlocks ==
    \A d \in Delegations :
        (State(d) = StateSlashed /\ btcTip >= UnlockHeight(d, "change"))
        ~> (State(d) # StateSlashed)

\* docs/flows/startup.md:20-21: the resubscription recovers slashed delegations
\* from a restart, so the withdrawal of their change is still noticed.
SlashedRecovered ==
    \A d \in Delegations :
        (State(d) = StateSlashed /\ SpendPath(d, "change") = "timelock")
        ~> (State(d) = StateWithdrawn)

================================================================================
