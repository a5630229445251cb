# A TLA+ development of the Babylon staking indexer

The indexer follows two chains. From Babylon it reads the BTC-staking events of
every block; on Bitcoin it waits for the outputs of staking transactions to be
spent. What it learns it writes to MongoDB as the *state* and *sub-state* of each
delegation, and it tells other services, over a queue, when a delegation becomes
active and when it unbonds. Several goroutines update the same documents with no
lock but the filter of each update, the process may die between any two calls,
and it then replays the last block over its own results. That these pieces still
amount to one lifecycle per delegation is what most of this development is about;
the rest of it is about the documents that are kept beside: finality providers,
covenant signatures, parameters, statistics and the addresses of stakers.

All paths below are relative to the repository (`src/` is its root).

## 1. Inventory

| Component | State | Operations | Talks to |
|---|---|---|---|
| Delegation states (`internal/types/state.go`) | none: tables of states and *qualified* states | `QualifiedStatesFor...` | used by every update |
| Delegation store (`internal/db/delegation.go`, `timelock.go`, `last_processed_height.go`) | delegation documents, timelock documents, last processed height | `SaveNewBTCDelegation`, `UpdateBTCDelegationState`, `SaveNewTimeLockExpire`, `DeleteExpiredDelegation`, `FindExpiredDelegations`, `UpdateLastProcessedBbnHeight` | MongoDB, one statement each |
| Consumer queue (`internal/services/consumer_events.go`) | messages pushed | `emitActiveDelegationEvent`, `emitUnbondingDelegationEvent` | RabbitMQ |
| Block pipeline (`bootstrap.go`, `subscription.go`, `internal/clients/bbnclient`) | channel of heights, channel of blocks, height in memory, cancellation | subscribe, relay, `getLatestHeight`, `getEventsFromBlock`, consume, store the height | Babylon; hands events to the processor |
| Event processor (`events.go`, `delegation.go`) | the event in hand and the attempts at it | one handler per event, each validate - effect - effect | store, queue, watchers |
| Spend watchers (`watch_btc_events.go`, `delegation_helpers.go`, `btc_notifier.go`) | one goroutine per registered output | register, classify the spend, unbond / withdraw / slash, watch the next output | Bitcoin notifier, store, queue |
| Expiry checker (`expiry_checker.go`) | the documents of the current poll | find expired timelocks, set WITHDRAWABLE, delete | store, Bitcoin tip |
| Restart and resubscription (`service.go`, `subscription.go`) | none of its own | start the goroutines, register again what is in the store | all of the above |
| Covenant signatures (`delegation.go`, `internal/db/delegation.go`) | an array in each delegation document | append, unless the key is there | called by the processor |
| Finality providers (`finality_provider.go`, `internal/db/finality_provider.go`) | provider documents | create, edit, change state | called by the processor |
| Global parameters (`global_params.go`, `internal/db/params.go`) | saved versions, version in memory | poll and save | Babylon, store |
| Network information (`global_params.go`, `internal/db/chain_info.go`) | chain id document | compare and store at the start, in three attempts, or panic | Babylon, store; blocks the start of the rest |
| Statistics (`stats_poller.go`, `internal/db/stats.go`, `stats_aggregation.go`) | stored totals, one document per provider, two metrics | aggregate twice, upsert one by one, report | store |
| Staker address backfill (`bootstrap.go`, `FillStakerAddr`, `cli/fill_staker_addr.go`) | a channel, a pool of workers, a cancellable context; addresses in the store | send, take, ask Babylon, update, report the error | Babylon, store |
| RPC clients, transaction parsing, configuration, metrics | none that the logic depends on | | |

How they interact. `StartIndexerSync` stores the chain id, starts the parameter
poller, the resubscription, the expiry checker, the statistics poller and the
subscription, then runs the block pipeline until it fails. The pipeline's consumer
runs the handlers one event after the other. A handler that activates a delegation pushes a message, starts a watcher and stores ACTIVE, in
that order. A watcher that sees its output spent runs its own sequence of pushes,
updates and inserts, and may start the watcher of the next output: the unbonding
output after a registered unbonding, the change output after a slashing. Handlers
and watchers insert timelock documents; the expiry checker consumes them. The
only thing between these writers of one delegation document is that
`UpdateBTCDelegationState` filters on the qualified previous states. The statistics
poller only reads delegations, while everybody else changes them. The backfill is
a command of its own, run by hand, that shares nothing but the store.

What is hard, and what makes each part correct:

* **Delegations.** Every interleaving of processor, watchers and checker, with
  crashes, retries, lost spends and duplicate watchers, must leave in the store
  only what is true on Bitcoin, follow the lifecycle, keep terminal states
  terminal, never say WITHDRAWABLE too early, lose no event and no message, and
  keep an unspent output watched.
* **Pipeline.** Heights are dropped, repeated and overtaken, the producer runs
  ahead of the consumer, and either may fail. Blocks must be processed in order
  with none passed over, and a failure must end the process, not block it.
* **Finality providers, covenant signatures.** Handlers do not look at heights and
  an append is not idempotent, so replaying a block or repeating a handler must end
  where Babylon is, with no signature twice, and a slashed provider must stay slashed.
* **Parameters, network information.** Version 0 means both "nothing" and "version 0
  is saved", and versions are inserted one by one: none may be missing. A process
  whose node is of another chain must not get as far as writing parameters, whatever
  calls fail and whatever answers are lost before.
* **Statistics.** Two aggregations over a collection that changes meanwhile, then a
  sequence of upserts of which one may fail: a total may be torn, but must not be
  older than its poll, and must catch up.
* **Backfill.** A pool that cancels itself at the first error, with hashes in the
  channel and addresses in hand: nobody may block, and no record may be left without
  an address and without an error.

`PROJECT.json` lists the hazards at their lines and the properties aimed at them.

## 2. Modules

```
DelegationState   Chains
        \          /
       DelegationStore
        /           \
  SpendWatcher    ExpiryChecker
       |              |
  EventProcessor      |
        \            /
      DelegationIndexer ---- DelegationProperties --(implements)-- DelegationLifecycle
                                      |
                             DelegationInvariants --- MCDelegationIndexer (TLC)
                                      |
             DelegationIndexerProofs, DelegationSafetyProofs, DelegationRefinementProofs

      BlockPipeline --(implements)-- SequentialBlocks --(implemented by)-- DelegationIndexer
            |
      BlockPipelineProofs

             EventReplay               DelegationActivity --(implemented by)-- DelegationIndexer
            /           \                      |
 FinalityProviders  CovenantSignatures     Statistics               GlobalParams
            \           /                   /       \                     |
           DocumentReplay         MCStatistics   StatisticsProofs   GlobalParamsProofs
            /          \             (TLC)
 MCDocumentReplay   DocumentReplayProofs       StakerAddresses --- StakerAddressesProofs
      (TLC)
```

* **DelegationState** is `types/state.go`: states, sub-states and the qualified
  states of every update.
* **Chains** is external: what Bitcoin and Babylon may do to a delegation. Bitcoin
  is a tip and, for each output (`staking`, `unbonding`, `change`), the path and
  the height of its spend; Babylon is a sequence of events, each of which says
  whether it ends its block. Babylon emits an event only when its own rules allow
  it, e.g. an early unbonding only after the spend. A delegation may expand
  another (`Previous`), may come in the old flow (created with its inclusion
  proof) or in the pre-approval flow. Four kinds of transactions unlock the unbonding
  script of a staking output (`UnbondingPaths`): the registered one, an *unexpected* transfer,
  an *unrecognized* one that is no transfer (`IsTransferTx`), which the watcher gives up with an
  error so that only Babylon's event reports it, and that of an expansion.
* **DelegationStore** is what outlives the process, and its single-statement
  writes. `UpdateBTCDelegationState(d, qualified, state, subState, proof)` is
  `FindOneAndUpdate` with its filter; `DeleteExpiredDelegation` removes the first
  document of the delegation, as `DeleteOne` on the hash does. Messages are
  counted up to `MaxMessages`.
* **EventProcessor** has one action per *call* of a handler, so that every other
  goroutine, and a crash, fits between two calls. `step` is the next call;
  `ValidateEvent` is the `validate...` function and its `shouldProcess`. A handler that
  returns an error is run again from its validation, up to `MaxAttempts`
  (the retry of `processEvent`), and then the process fails.
* **SpendWatcher** has one goroutine per `<<delegation, output, i>>` whose
  position is `watcher[...]`. Where two goroutines for one output can exist,
  `i` tells them apart.
* **ExpiryChecker** polls at most `ExpiredDelegationsLimit` documents in any order
  (the query has no sort), then updates and deletes one by one. A failing call, or
  a deletion that finds nothing, ends the poll.
* **DelegationIndexer** composes them, adds the resubscription goroutine, crashes
  (`Crash`), the exit of a failed processor (`GiveUp`), failing calls
  (`CallFails`) and fairness.
* **DelegationLifecycle** is the abstract specification: the transitions of
  states and sub-states that the qualified states leave possible, with no goroutine, event
  or message in it.
* **BlockPipeline** runs from the websocket's events to the stored height: the
  client's buffer, the relay goroutine, `getLatestHeight`, the producer loop, the bounded channel
  (`ChannelSize` is `eventProcessorSize`), the consumer goroutine, its
  `cancel(err)`, and the deferred close and wait. A block's events are one step
  here; DelegationIndexer is where they are many.
* **SequentialBlocks** is the promise of the comment on `processBlocksSequentially`:
  blocks are processed one by one in order, and a new process starts at the stored
  height. The pipeline implements it with its channels and one step per block; the
  DelegationIndexer implements it with one step per call of a handler, its
  position in the events mapped to a height (`ProcessesSequentially`). That is how the two are
  composed: what one assumes of the consumer the other shows.
* **DelegationProperties** states what is promised of DelegationIndexer, and the refinement
  mappings; **DelegationInvariants** the invariants behind these promises, whose
  conjunction is `IndexerInv`. The proofs are in **DelegationIndexerProofs** (types, events),
  **DelegationSafetyProofs** (documents, messages, watchers) and
  **DelegationRefinementProofs** (the abstract specifications, what is final).
* **EventReplay** is Babylon's events, the position of the processor and what a
  crash, a lost answer or an event that is run again do to it, for handlers that
  make one write. **FinalityProviders** adds Babylon's view of providers as a
  history and the documents built from the events; **CovenantSignatures** adds the
  arrays of signatures. **DocumentReplay** composes both over one sequence of events.
* **GlobalParams** is `fetchAndSaveNetworkInfo`, which must succeed before anything
  else runs, and then `fetchAndSaveParams`, call by call.
* **Statistics** is `calculateAndUpdateStats`: each aggregation reads the delegations
  one by one, each upsert is a step. A total is the *set* of delegations that it adds
  up, which tells more than its count and satoshis. What the delegations do
  meanwhile is **DelegationActivity**: each is ACTIVE during one interval at most.
  Theorem `ActiveOnce` shows that DelegationIndexer implements it, so what Statistics
  assumes of the rest of the indexer is what the rest does.
* **StakerAddresses** is the command that fills in addresses: the main goroutine, the
  producer, the channel, the workers with their `select`, the context. An address is
  named by the delegation it belongs to, so that a mixed-up one shows.

Data that no property tells apart is left out: amounts, keys, scripts, wording and
logging. A transaction is the path it takes. A name with `Faulty`, or a comment "Seeded fault", is a deliberately wrong
variant of the next definition; no specification uses it. Each property has such
a variant that TLC finds it violated by.

## 3. What is checked

### Runs

| Run | Question | Instance |
|---|---|---|
| `spends` | Can the three outputs be spent in any way, at any point of the handlers, without a wrong document? `TypeOK`, `SubStateOnBitcoin`, `WithdrawableNotEarly` | one delegation; registered, unexpected and unrecognized unbonding, timelock and slashing paths; one watcher per output |
| `crashes` | Do replay, retries and duplicate watchers lose an event, a message, a watcher or a terminal state? `WithdrawnOnBitcoin`, `NoEventSkipped`, `AnnouncedBeforeStored`, `StakingOutputWatched`, `TerminalStatesFinal`, `ProcessesSequentially` | one crash between any two calls and one failing call, two attempts; creation always shares its block with the next event; slashing and timelock; two interchangeable watchers (symmetric: no definition orders them) |
| `expansion` | Two delegations, one expanding the other: `ImplementsLifecycle`, and `IndexerInv`, all that the proofs establish of the reachable states | expansion and timelock paths |
| `recovery` | Does the indexer catch up? `BlocksProcessed`, `TimeLocksConsumed`, `WithdrawalRecorded`, `SlashingRecorded`, `MissedSpendRecovered` | fairness; one fault, which with a single attempt also brings the process down and up again |
| `pipeline` | Are blocks processed in order, with none passed over and nobody left blocked? seven properties | four blocks, channel of one, websocket buffer of two, one crash, two failures; fairness |
| `document_replay` | Does replay end where Babylon is? `SyncedWithBabylon`, `SignaturesComplete`, `SlashedForEver`, `TypeOK` | one provider with two details of two values, one delegation with two committee members, four events in blocks of any size, a crash, a lost answer |
| `global_params` | Can a version be missing, or chains be mixed? `NoVersionMissing`, `OneChain`, `ParamsUpToDate`, `TypeOK` | four versions, one change of the checkpoint parameters, two chains, two changes of the node, three attempts, a crash, three failures; fairness |
| `statistics` | How old can a total be? `FreshTotals`, `StatsCatchUp`, `MetricsCatchUp`, `TypeOK` | two delegations, one of them with both providers, a crash, two failures; fairness |
| `staker_addresses` | Is a record lost or passed over, does anybody block? `NoErrorMeansFilled`, `BadAddressReported`, `FilledFromBabylon`, `CommandReturns`, `TypeOK` | three records with any answers, two workers, a channel of one, a kill, a failing call, any number of runs; fairness |
| `expired_unlocks`, `slashed_unlocks`, `slashed_recovered` | Documented behaviour that the code does not show; see section 5 | as small as shows it |

The properties are stated and explained in `DelegationProperties` and at the end
of the other modules.

### Bounds, and why they suffice

* `StakingTime` 2, `UnbondingTime` 1, `MaxBtcHeight` 3: the staking timelock, an
  unbonding timelock that starts before it and one that starts with it elapse
  within the run, and a slashing can come before or after the expiry. Only comparisons
  of heights matter. `crashes` has no unbonding, so `StakingTime` 1 and `MaxBtcHeight` 2
  are enough there: the timelock elapses, and a slashing or a withdrawal comes on either
  side of it. Greater heights would leave no room for two watchers with both a crash and a
  fault. Unbonding under crashes and failing calls is left to the proofs, which cover
  everything that `spends` checks for any number of them.
* One delegation suffices for the races, because every update, deletion and
  message concerns one staking transaction hash; the only relation between two
  delegations is the expansion, which has its own run.
* `MaxAttempts` 2: one retry over the effects of the first attempt, then the
  failure. `MaxAttempts` 1 in `recovery` makes every fault a failure. A crash or a
  fault may fall on any call.
* `ExpiredDelegationsLimit` 1 makes every poll a partial one.
* `MaxMessages` 1: whether a message was pushed is all that a property asks.
* `WatcherIds`: two watchers are where duplicate notifications start. Where one id
  is given, a second watcher of an output is not started while the first one
  exists.
* `ChannelSize` 1 and `FeedSize` 2 in `pipeline` are the sizes at which both
  channels fill up with four blocks.
* `document_replay`: a creation, a change, and two more events of either kind are
  enough for a replay over results of later events of the block; documents of
  different keys do not interact, so one of each will do.
* `global_params`: with `MaxTries` 3 and three failures all attempts may fail; two changes
  of the node lead to the wrong chain and back.
* `statistics`: a delegation may leave ACTIVE, and another enter it, between any two reads;
  two failures stop two polls in a row at any call.
* `staker_addresses`: three records fill the channel of one and both workers' hands.
  Every combination of valid, empty and malformed answers is an initial state.

The bounds limit the chains and the faults, never what the indexer may do in a
given situation, with the exception of `WatcherIds`. `CHECK_DEADLOCK FALSE` is
given where the chains stop growing at their bounds and the indexer then waits
for the next block, as it does in fact; `global_params` and `statistics` never stop
polling, `staker_addresses` can always be run again, and they are checked for deadlock.

### Fairness

Weak fairness of each goroutine's steps (the processor, the checker, each
watcher, the resubscription; in the pipeline the feed, the producer and the
consumer): the Go scheduler runs every goroutine that is ready, and every call
has a timeout or an answer. Weak fairness of `GiveUp` and `Exit`: `main` ends with
the error and the environment restarts the process. Weak fairness of mining a
block: Bitcoin grows up to its bound. Nothing is assumed of spends, of Babylon's
events, of faults or of crashes. In the pipeline nothing is assumed of the
resubscription either, so liveness there is stated only for heights that arrived.
Strong fairness is assumed of two steps of the producer: `DrainEnds`, because heights
do not arrive faster, for ever, than `getLatestHeight` reads them (a
resubscription takes a minute), and `ReturnCancelled`, because Go's `select` chooses
at random among the cases that are ready.

The two pollers have weak fairness of their steps, since `poller.Start` never
leaves its loop, and in `global_params` also of the starting process, which the
environment restarts after a panic; `ParamsUpToDate` excepts the case in which the
configured node stays that of the wrong chain. `staker_addresses` has weak fairness
of the main goroutine, the producer and each worker, and none of running the command.

Liveness of the single spends is claimed only up to a crash, a failing call or an
event that could not be processed (`Undisturbed`): the watcher of a spend whose
handler fails is given up until the next restart, and a restart ends all watchers.
`MissedSpendRecovered` claims the rest: when the process has been started again and is not
disturbed after that, what was missed is stored.

## 4. What is proved

All theorems hold for every value of the constants that the modules' assumptions
admit: any finite or infinite set of delegations, and of watchers if there is one at all
(`WatcherIdsAssumption`), any expansions,
any timelocks with `UnbondingTime <= StakingTime`, any number of retries, crashes
and faults, any size of a poll or channel. The bounds (`MaxBtcHeight`, ...) are
constants like any other.

**Types** (`DelegationIndexerProofs`). `TypeInv` is `TypeOK` and "a handler works on
an event that exists"; the second part is what makes the first inductive.
Theorems `TypeCorrect` and `Typed`.

**Safety of what is stored** (`DelegationSafetyProofs`). `SubStateOnBitcoin`,
`WithdrawnOnBitcoin` and `WithdrawableNotEarly` speak of the delegation documents
alone, and none is inductive: a watcher about to write, a timelock document, or
the checker's copy of one could already be wrong. `IInv` therefore follows a fact
of Bitcoin through the whole program:

1. `SpendsFollowOutputs`: an output is spent only if it exists, by a path it has;
2. `EventsOnBitcoin`: Babylon's events name spends that are there;
3. `UnbondingSteps`, `WatchersOnBitcoin`: a goroutine is at a call only if the spend
   that this call is about is there;
4. `TimeLocksOnBitcoin`, `FoundOnBitcoin`: each timelock document, and each copy in
   the checker's hands, has the height that its sub-state stands for, and a copy has
   expired;
5. `DocumentsOnBitcoin`: state and sub-state go together, and with Bitcoin;
6. `ChangeWatchedAfterSlashing`: a change output is watched only after the slashing
   is stored, which is why a withdrawal of the change finds a slashing sub-state.

Spends are never undone in the model (a reorganisation is outside of it; the
indexer waits for confirmations), so the facts are stable. `Inductive` proves the invariant by
one lemma per goroutine; `StoredSubStatesAreOnBitcoin`, `WithdrawalsAreOnBitcoin`
and `NoEarlyWithdrawable` follow.

**Events** (`DelegationIndexerProofs`). `NoEventSkipped` speaks of the events up to the
stored height. That is not inductive: the height is stored at the end of a block, and what it then
vouches for are all events that this process has passed, some of which were *ignored* by
the validation. `EventInv` therefore contains

1. `PassedApplied`: every event before the processor's position has its effect;
2. `ProcessedInOrder`: the position is past the stored height, and on the chain;
3. `EventsInOrder`: what comes before what on Babylon, and with which new state;
4. `DocumentsFromEvents`: the events that a document stands for. It cannot say more of
   *when*, as a replayed event meets the results of later ones;
5. `QuorumValidated`: between the validation of an activating quorum and its update,
   the document keeps the inclusion proof that the validation has seen.

An event may be ignored because its effect is there, or because the document has moved on;
3 and 4 exclude that it is ignored because something is missing. `EventsApplied` proves the
invariant, with crashes, retries, failing calls and `GiveUp` wherever they may come, and
`NoneSkipped` follows. `HeightGrows` needs 2: the height that is stored is never below
the one that was.

**Messages** (`DelegationSafetyProofs`). A document shows nothing of a push, so
`AnnouncedBeforeStored` needs to know what was pushed at each call on the way to it (`MessageInv`):
at the calls of a handler after its push, at the calls of a slashing after its push, and at each
timelock document of a slashed staking output, since the checker moves a delegation on.
Messages are never taken back, so all of this survives a crash. `MessagesInOrder`, `AnnouncedFirst`.

**Watchers** (`DelegationSafetyProofs`). `WatchInv` adds to `StakingOutputWatched` the window
between starting the watcher and storing ACTIVE (`WatchedBeforeStored`). A watcher leaves its
place only with the spend of its output, a restart clears `resubscribed`, and the
resubscription either finds the document or leaves it in `missed` until it has registered it. The exception `faults = 0`
is the code's: a registration that fails is only logged. `WatchersInOrder`, `OutputsWatched`.

**Both chains** (`DelegationSafetyProofs`). `BackedByChains`: what is stored as ACTIVE or later
has a quorum and an inclusion proof on Babylon, in whichever order they came, and its staking
transaction on Bitcoin, so that a delegation that expands another is ACTIVE only after it
has spent that one. `ActiveIsBacked` follows from `IInv`, `EventInv` and three facts about where
proofs, quorums and expansions come from. `IndexerInvariant` puts all invariants together.

**Refinement** (`DelegationRefinementProofs`). `Implements` proves
`Spec => Lifecycle!Spec`: each write of a document is a transition of the lifecycle,
every other step stutters. `IInv` is needed where the filter does not tell
what is written: that a slashing or an unlock keeps the sub-state of a slashed
delegation. `TerminalStates` proves that WITHDRAWN and EXPANDED documents
never change, and `SlashingsStay` that no later write, of an unbonding, an unlock, a
withdrawal or a replay, replaces the sub-state of a slashing (`SlashingFinal`). In the
states of `IInv` every transition of the lifecycle keeps it, so the refinement proves it.

`ActiveOnce` goes on from there to `DelegationActivity`: a delegation is "before" until it
is ACTIVE, and "after" in every state that comes later.

`BlockByBlock` proves `ProcessesSequentially`: the heights of `SequentialBlocks` are numbers
of blocks that have ended by a position of the chain (`Blocks`), so a step of the processor is a
block only if it passes the last event of one, and a step of Babylon only if it adds one
(`NextBlock`, `NewEvent`). `ProcessedInOrder` says that the mapped position
is between the stored height and the chain's. BlockPipeline and DelegationIndexer thus
implement the same `SequentialBlocks` by two proofs.

**Pipeline** (`BlockPipelineProofs`). The invariant is `TypeOK`, `Announced` and
`Contiguous`: the channel holds exactly the blocks between the consumer's and the
producer's. Each is a theorem of its own (`PipelineTyped`, `OnlyAnnouncedHeights`,
`NothingSkipped`), and `ProcessesSequentially` proves that the pipeline implements
`SequentialBlocks`, with any channel size. `SentIsStored` needs one fact more, `Drained`:
a consumer that has stopped without a cancellation has found the channel closed and
empty, and has stored the last block that it took.

**Document replay** (`DocumentReplayProofs`). While a block is repeated, a document may
have any of the values that it ever had, so `SyncedWithBabylon` is far from inductive.
`ReplayInv` compares a document with what Babylon held after the *furthest* event that
was ever applied (`Repeated`): a detail or a state may differ from that only if an event
between the position and the furthest one will write it again. That the
position can be moved back at all needs `History`, the effect of each event and of every stretch
of events on Babylon's view, and for the state that SLASHED is final on Babylon.
An array of signatures (`Complete`) has no such exception: it holds
the signatures of all events up to the furthest, each once, because the append is
guarded by the key. `ProvidersSynced`, `SignaturesNeverTwice` and `SlashedStays` follow.

**Parameters** (`GlobalParamsProofs`). `ParamsInv` adds that a version that the process
remembers is saved, that the versions still to be saved continue those that are, and
how far the start has compared the chains (`ChainCompared`). `VersionsComplete` and
`ChainsNotMixed` follow, for any number of versions, chains, attempts and failures.

**Statistics** (`StatisticsProofs`). `TotalsInv` says of each aggregation that what it has not
counted of the delegations active all through the poll is still unread, and that
it has counted nothing that was not active during the poll. `TotalsAreFresh` follows.

**Backfill** (`StakerAddressesProofs`). `PoolInv`: a record without an address is in exactly
one place, to be sent, in the channel or in one worker's hands, or was only looked at in a
dry run, unless a worker has failed (`OnePlace`, `NothingLost`); and nobody stops before the
channel is closed and empty, unless a worker has failed (`StopsAtEnd`). For any number of
records and workers and any channel size, `NothingUnfilled`, `NothingPassedOver` and
`OnlyBabylonsAnswers` follow.

**Only model-checked.** Liveness, since no prover here does ENABLED: `BlocksProcessed`,
`TimeLocksConsumed`, `WithdrawalRecorded`, `SlashingRecorded`, `MissedSpendRecovered`,
`FailureEndsProcess`, `AnnouncedIsStored`, `ParamsUpToDate`, `StatsCatchUp`,
`MetricsCatchUp` and `CommandReturns`. Every invariant, every action property and every
refinement that a passing run checks is a theorem. The other way round, `SlashingFinal` and
`StoredHeightGrows` are proved and have no run; `BackedByChains` is checked as a part of `IndexerInv`.

## 5. Where the documentation and the code disagree

Three statements have a run of their own that ends in a counterexample:

* `expired_unlocks`. `docs/flows/startup.md:25,28` say that the checker marks a
  delegation whose staking timelock has expired as withdrawable. The handler of an
  expiry saves the timelock document *before* it stores UNBONDING
  (`internal/services/delegation.go:387`, `:396`). When the end height has passed
  already, for instance because the indexer is behind, a poll between the two calls finds the
  delegation ACTIVE, updates nothing and deletes the document; the delegation
  then stays UNBONDING.
* `slashed_unlocks`. `docs/states/lifecycle.md:124`: after its timelock a slashed
  delegation becomes WITHDRAWABLE again. `DeleteExpiredDelegation`
  (`internal/db/timelock.go`) deletes by the hash alone; with two timelock documents
  of one delegation the checker can process one and delete the other.
* `slashed_recovered`. `docs/flows/startup.md:20-21` say that resubscription
  recovers SLASHED delegations. The slashing of the staking output is delivered
  again, SLASHED is not a qualified state for slashing, so the handler stops
  before it watches the change output, and its withdrawal is not recorded.

Others were met while modelling. They follow from the same modules and have no run:

* `internal/services/delegation.go:250-253` says that an early-unbonding event of a
  delegation that the notifier has already moved to UNBONDING is ignored; UNBONDING
  is a qualified state, so it is processed again (with a second message and a second timelock document).
* `docs/states/lifecycle.md:13,76` treat EXPANDED as a state without sub-state; the
  code stores EXPANDED with `EARLY_UNBONDING` (`delegation.go:328-333`).
* `docs/states/lifecycle.md:53-54`: an early unbonding waits for its own timelock.
  A TIMELOCK document of the same delegation makes it WITHDRAWABLE with
  the sub-state TIMELOCK, since the filter is on the state only
  (`expiry_checker.go:52`). `WithdrawableNotEarly` still holds, for the timelock that is stored.
* `docs/states/lifecycle.md:97-99` say that a notifier that is faster than Babylon is
  handled. A watcher starts before ACTIVE is stored (`delegation.go:209`, `:233`); a
  withdrawal it hears of in between finds VERIFIED, is rejected, and is not
  delivered again before the next restart. `MissedSpendRecovered` shows that the
  restart recovers it.
* The totals are not reset when no delegation is active: the poll ends with the metrics
  (`stats_poller.go:39-45`), and a provider that has lost its last delegation is not among
  the results of the aggregation, so its document keeps its last value.
  `docs/flows/startup.md:31` describes the poller without that exception;
  `StatsCatchUp` therefore speaks of totals that have something to count.
* The backfill stops at the first error, so one record whose address is missing or malformed
  on Babylon may keep later records unfilled however often the command is run. It is
  reported (`BadAddressReported`), which is all the code promises.
* `docs/overview.md:54-57` draw SLASHED as entered once; WITHDRAWABLE is a
  qualified state for slashing (`state.go:95`), also after a slashing, so a slashing
  that is delivered again moves the delegation back. The lifecycle allows this.

## 6. Not modelled

* Reorganisations of Bitcoin, and decoding of transactions and scripts: a spend
  is its path. The classification order of the code is kept.
* Amounts and transactions recorded with a spend: no transition depends on them.
  `SaveBTCDelegationSlashingTxHex` and `SaveBTCDelegationUnbondingSlashingTxHex` have no
  caller.
* The 500 lines that decode scripts and witnesses (`watch_btc_events.go:540-1042`) are mapped to
  the predicates `isSpending...` and `validateUnbondingTxOutput`, which say only what their outcome
  is for each path. That the decoding arrives at that outcome is not shown.
* An edit that *empties* a description field of a provider: `UpdateFinalityProviderDetailsFromEvent`
  (`internal/db/finality_provider.go:39-57`) writes only fields that are not empty, so
  the document keeps the old text. `SyncedWithBabylon` is about the commission and the moniker,
  for which an empty value means "unchanged"; of the other fields it claims nothing.
* Errors that Babylon's answers as used here never cause: no qualified states for the new state of an
  event (`events.go:196-199`, `:270-273`), nil parameters (`global_params.go:97-99`); and a
  cursor that fails at its first result (`stats_aggregation.go:43`), which the code takes for
  "no active delegation".
* A node that lags behind the one that announced the last height: heights never decrease in
  BlockPipeline. A stored height that cannot be read at the start (`bootstrap.go:128-131`)
  ends the process before it has done anything, so it is a start that has not happened yet.
* In DelegationIndexer a failing call has no effect. A call whose answer is lost has the effect of one
  that succeeds, followed by a failure of the next one or a crash; where a write is not
  idempotent the lost answer is modelled by itself (EventReplay, GlobalParams, StakerAddresses).
* RPC clients: their retries and timeouts appear as a call that fails or not.
* A second failure of the registration of a watcher is the first one: it is only logged.
* Configuration, the command line, metrics other than the totals, tracing, logging.

## 7. Plan

Done: the lifecycle of delegations, the pipeline, providers and signatures, parameters and
network information, statistics and the backfill, each with its proofs. Every component with
logic of its own has its module, and every safety property its theorem. What is left to the
runs is liveness, which the provers cannot reach.
