--------------------------------- MODULE Chains ---------------------------------
(***************************************************************************)
(* The two chains the indexer follows, as the indexer uses them.           *)
(*                                                                         *)
(* Bitcoin is its tip height and, for every output of a delegation, the    *)
(* transaction that spends it: the staking output, the output of the       *)
(* registered unbonding transaction, and the change output of a slashing   *)
(* transaction.  Only the path taken and the height of a spend matter.     *)
(*                                                                         *)
(* Babylon is the sequence of BTC-staking events of its blocks.  An event  *)
(* says whether it is the last of its block; a block is visible once its   *)
(* last event is there, and its height is the position of that event.      *)
(*                                                                         *)
(* Neither chain is code of the repository: the order and the conditions   *)
(* of the events are those the handlers in src/ are written for.           *)
(***************************************************************************)
EXTENDS Naturals, Sequences, DelegationState

CONSTANTS
    Delegations,    \* the staking transactions
    Previous,       \* the staking transaction an expansion spends
    StakingTime,    \* blocks until the timelock path of a staking output opens
    UnbondingTime,  \* blocks until unbonding and change outputs can be spent
    SpendPaths,     \* the ways in which this instance spends outputs
    BlockCuts,      \* for each event type, whether it may be the last of its block
    MaxBtcHeight    \* bound: the Bitcoin chain stops growing here

\* The paths through the unbonding script of a staking output: by the registered
\* transaction, by another one with a single input and output, by one of any
\* other shape, and by the staking transaction of an expansion.
UnbondingPaths == {"unbonding", "unexpected", "unrecognized", "expansion"}

AllPaths == UnbondingPaths \cup {"timelock", "slashing"}

EventTypes == {"Created", "InclusionProof", "CovenantQuorum", "UnbondedEarly", "Expired"}

ASSUME DelegationsAssumption ==
    /\ \E E \in SUBSET Delegations : Previous \in [E -> Delegations]
    /\ SpendPaths \subseteq AllPaths
    /\ BlockCuts \in [EventTypes -> SUBSET BOOLEAN]

ASSUME HeightsAssumption ==
    /\ StakingTime \in Nat
    /\ UnbondingTime \in Nat
    /\ MaxBtcHeight \in Nat
    /\ UnbondingTime <= StakingTime

VARIABLES
    btcTip,     \* height of the last Bitcoin block
    spend,      \* the spend of each output of each delegation
    bbnChain    \* the events of Babylon's blocks, in order

chainVars == <<btcTip, spend, bbnChain>>

Outputs == {"staking", "unbonding", "change"}
Unspent == [path |-> "unspent", height |-> 0]
Spends == [path : AllPaths \cup {"unspent"}, height : Nat]

Events == [type : EventTypes, delegation : Delegations,
           newState : {"PENDING", "VERIFIED", "ACTIVE", "UNBONDED", "EXPIRED"},
           lastInBlock : BOOLEAN]

ChainsTypeOK ==
    /\ btcTip \in Nat
    /\ spend \in [Delegations -> [Outputs -> Spends]]
    /\ bbnChain \in Seq(Events)

ChainsInit ==
    /\ btcTip = 1
    /\ spend = [d \in Delegations |-> [o \in Outputs |-> Unspent]]
    /\ bbnChain = <<>>

--------------------------------------------------------------------------------
(***************************************************************************)
(* What the chains say about a delegation.                                 *)
(***************************************************************************)

SpendPath(d, output) == spend[d][output].path
SpendHeight(d, output) == spend[d][output].height

IsExpansion(d) == d \in DOMAIN Previous

\* A staking transaction is in the first block, except that of an expansion,
\* which is in the block that spends the previous staking output.
StakingMined(d) ==
    IsExpansion(d) => SpendPath(Previous[d], "staking") = "expansion"

StartHeight(d) == IF IsExpansion(d) THEN SpendHeight(Previous[d], "staking") ELSE 1

EndHeight(d) == StartHeight(d) + StakingTime

\* The output that the slashing transaction of d spends.
SlashedOutput(d) == IF SpendPath(d, "staking") = "slashing" THEN "staking" ELSE "unbonding"

Exists(d, output) ==
    CASE output = "staking"   -> StakingMined(d)
      [] output = "unbonding" -> SpendPath(d, "staking") = "unbonding"
      [] output = "change"    -> SpendPath(d, SlashedOutput(d)) = "slashing"

\* The height from which the timelock path of an existing output can be taken.
UnlockHeight(d, output) ==
    CASE output = "staking"   -> EndHeight(d)
      [] output = "unbonding" -> SpendHeight(d, "staking") + UnbondingTime
      [] output = "change"    -> SpendHeight(d, SlashedOutput(d)) + UnbondingTime

Emitted(type, d) ==
    \E i \in DOMAIN bbnChain : bbnChain[i].type = type /\ bbnChain[i].delegation = d

\* Babylon's own notion of an active delegation: quorum and inclusion proof.
Activated(d) == Emitted("CovenantQuorum", d) /\ Emitted("InclusionProof", d)

--------------------------------------------------------------------------------
(***************************************************************************)
(* Bitcoin.  The unbonding and slashing paths need the covenant signatures *)
(* that Babylon has when the quorum is reached.                            *)
(***************************************************************************)

MineBlock ==
    /\ btcTip < MaxBtcHeight
    /\ btcTip' = btcTip + 1
    /\ UNCHANGED <<spend, bbnChain>>

PathOpen(d, output, path) ==
    CASE path = "timelock"  -> btcTip >= UnlockHeight(d, output)
      [] path = "slashing"  -> output # "change" /\ Emitted("CovenantQuorum", d)
      [] path = "expansion" -> /\ output = "staking"
                               /\ \E e \in DOMAIN Previous :
                                     Previous[e] = d /\ Emitted("CovenantQuorum", e)
      [] OTHER              -> output = "staking" /\ Emitted("CovenantQuorum", d)

SpendOutput(d, output, path) ==
    /\ Exists(d, output)
    /\ SpendPath(d, output) = "unspent"
    /\ PathOpen(d, output, path)
    /\ spend' = [spend EXCEPT ![d][output] = [path |-> path, height |-> btcTip]]
    /\ UNCHANGED <<btcTip, bbnChain>>

--------------------------------------------------------------------------------
(***************************************************************************)
(* Babylon.  A delegation is created with its inclusion proof (old flow)   *)
(* or gets it after the quorum (pre-approval flow).  Early unbonding is    *)
(* reported once the spend is on Bitcoin; expiry comes UnbondingTime       *)
(* blocks before the end, whether or not the delegation unbonded early.    *)
(***************************************************************************)

EmitEvent(type, d, newState) ==
    /\ ~Emitted(type, d)
    /\ \E last \in BlockCuts[type] :
          bbnChain' = Append(bbnChain, [type |-> type, delegation |-> d,
                                        newState |-> newState, lastInBlock |-> last])
    /\ UNCHANGED <<btcTip, spend>>

EmitCreated(d) ==
    /\ IsExpansion(d) => Activated(Previous[d])
    /\ EmitEvent("Created", d, "PENDING")

\* Old flow: the inclusion proof comes in the message that creates the delegation.
EmitInclusionProofPending(d) ==
    /\ ~IsExpansion(d)
    /\ bbnChain # <<>>
    /\ bbnChain[Len(bbnChain)] = [type |-> "Created", delegation |-> d,
                                  newState |-> "PENDING", lastInBlock |-> FALSE]
    /\ EmitEvent("InclusionProof", d, "PENDING")

EmitCovenantQuorum(d) ==
    /\ Emitted("Created", d)
    /\ EmitEvent("CovenantQuorum", d,
                 IF Emitted("InclusionProof", d) THEN "ACTIVE" ELSE "VERIFIED")

EmitInclusionProofActive(d) ==
    /\ Emitted("CovenantQuorum", d)
    /\ StakingMined(d)
    /\ ~Emitted("UnbondedEarly", d)
    /\ EmitEvent("InclusionProof", d, "ACTIVE")

EmitUnbondedEarly(d) ==
    /\ Emitted("CovenantQuorum", d)
    /\ SpendPath(d, "staking") \in UnbondingPaths
    /\ EmitEvent("UnbondedEarly", d, "UNBONDED")

EmitExpired(d) ==
    /\ Activated(d)
    /\ btcTip + UnbondingTime >= EndHeight(d)
    /\ EmitEvent("Expired", d, "EXPIRED")

ChainsNext ==
    \/ MineBlock
    \/ \E d \in Delegations, o \in Outputs, p \in SpendPaths : SpendOutput(d, o, p)
    \/ \E d \in Delegations :
          \/ EmitCreated(d)
          \/ EmitInclusionProofPending(d)
          \/ EmitCovenantQuorum(d)
          \/ EmitInclusionProofActive(d)
          \/ EmitUnbondedEarly(d)
          \/ EmitExpired(d)

================================================================================
