-------------------------- MODULE MCDelegationIndexer --------------------------
(***************************************************************************)
(* Instances of DelegationIndexer for TLC.                                 *)
(***************************************************************************)
EXTENDS DelegationInvariants, TLC

CONSTANTS d1, d2, i1, i2

\* No expansion, and d2 expanding d1.
NoPrevious == [d \in {} |-> d]
D2ExpandsD1 == d2 :> d1

\* The watchers of an output are interchangeable.
WatcherSymmetry == Permutations(WatcherIds)

\* Every event in a block of its own, and so without the old flow.
SingleEventBlocks == [type \in EventTypes |-> {TRUE}]

\* Created opens a block that the next event closes.
PairedBlocks == [type \in EventTypes |-> IF type = "Created" THEN {FALSE} ELSE {TRUE}]

================================================================================
