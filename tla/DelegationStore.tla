----------------------------- MODULE DelegationStore -----------------------------
(***************************************************************************)
(* What outlives the indexer process: its MongoDB collections and the      *)
(* messages it pushed to the consumer queue (internal/db,                  *)
(* internal/services/consumer_events.go).                                  *)
(*                                                                         *)
(* A delegation document keeps its state, its sub-state and whether it has *)
(* an inclusion proof; the heights it stores are those of the chains.      *)
(* Timelock documents are kept in insertion order, which is the order in   *)
(* which an unindexed DeleteOne scans them.  Messages are counted, up to   *)
(* MaxMessages.                                                            *)
(***************************************************************************)
EXTENDS Chains

CONSTANT MaxMessages    \* bound: further messages of a kind are not counted

ASSUME MaxMessagesAssumption == MaxMessages \in Nat \ {0}

VARIABLES
    docs,           \* the delegation collection
    timelocks,      \* the timelock collection
    lastProcessed,  \* the last processed Babylon height, as an event position
    pushed          \* messages pushed for each delegation

storeVars == <<docs, timelocks, lastProcessed, pushed>>

Documents == [state : DelegationStates \cup {NoDocument},
              subState : DelegationSubStates \cup {NoSubState},
              inclusionProof : BOOLEAN]

TimeLockDocuments == [delegation : Delegations, expireHeight : Nat,
                      subState : DelegationSubStates]

MessageKinds == {"active", "unbonding"}

StoreTypeOK ==
    /\ docs \in [Delegations -> Documents]
    /\ timelocks \in Seq(TimeLockDocuments)
    /\ lastProcessed \in Nat
    /\ pushed \in [Delegations -> [MessageKinds -> 0 .. MaxMessages]]

StoreInit ==
    /\ docs = [d \in Delegations |-> [state |-> NoDocument, subState |-> NoSubState,
                                      inclusionProof |-> FALSE]]
    /\ timelocks = <<>>
    /\ lastProcessed = 0
    /\ pushed = [d \in Delegations |-> [k \in MessageKinds |-> 0]]

--------------------------------------------------------------------------------
(***************************************************************************)
(* Writes.  Each is one statement of MongoDB or one push, hence atomic.    *)
(***************************************************************************)

\* A duplicate key means that the event was processed before: nothing changes.
SaveNewBTCDelegation(d) ==
    docs' = IF docs[d].state = NoDocument
            THEN [docs EXCEPT ![d].state = StatePending]
            ELSE docs

InQualifiedState(d, qualified) == docs[d].state \in qualified

\* Seeded fault: the filter on the current state is missing.
UnfilteredUpdateBTCDelegationState(d, qualified, newState, subState, proof) ==
    docs' = [docs EXCEPT ![d] =
                [state |-> newState,
                 subState |-> IF subState = NoSubState THEN @.subState ELSE subState,
                 inclusionProof |-> @.inclusionProof \/ proof]]

\* FindOneAndUpdate on the key and the qualified states.  NoSubState stands
\* for a call without WithSubState, which leaves the field as it is; proof for
\* a call that sets the start and end heights.
UpdateBTCDelegationState(d, qualified, newState, subState, proof) ==
    docs' = IF InQualifiedState(d, qualified)
            THEN [docs EXCEPT ![d] =
                     [state |-> newState,
                      subState |-> IF subState = NoSubState THEN @.subState ELSE subState,
                      inclusionProof |-> @.inclusionProof \/ proof]]
            ELSE docs

SaveNewTimeLockExpire(d, height, subState) ==
    timelocks' = Append(timelocks, [delegation |-> d, expireHeight |-> height,
                                    subState |-> subState])

TimeLocksOf(d) == {i \in DOMAIN timelocks : timelocks[i].delegation = d}

\* Seeded fault: the document is kept until its delegation is withdrawable.
KeepExpiredDelegation(d) ==
    IF docs[d].state # StateWithdrawable
    THEN UNCHANGED timelocks
    ELSE timelocks' = SelectSeq(timelocks, LAMBDA t : t.delegation # d)

\* DeleteOne filters on the staking transaction hash only: the document it
\* deletes is the first one of the delegation, whatever its sub-state.
DeleteExpiredDelegation(d) ==
    IF TimeLocksOf(d) = {}
    THEN UNCHANGED timelocks
    ELSE \E i \in TimeLocksOf(d) :
            /\ \A j \in TimeLocksOf(d) : i <= j
            /\ timelocks' = [j \in 1 .. Len(timelocks) - 1 |->
                                IF j < i THEN timelocks[j] ELSE timelocks[j + 1]]

\* The positions of the expired documents at the given tip height.
ExpiredTimeLocks(tip) == {i \in DOMAIN timelocks : timelocks[i].expireHeight <= tip}

Push(kind, d) ==
    pushed' = [pushed EXCEPT ![d][kind] = IF @ < MaxMessages THEN @ + 1 ELSE @]

emitActiveDelegationEvent(d) == Push("active", d)
emitUnbondingDelegationEvent(d) == Push("unbonding", d)

================================================================================
