----------------------------- MODULE SequentialBlocks -----------------------------
(***************************************************************************)
(* What processing Babylon's blocks promises, as the comment on            *)
(* processBlocksSequentially puts it: blocks are processed one by one in   *)
(* the order of their heights, and after a restart from the one that       *)
(* follows the stored height, so that blocks may be processed again but    *)
(* none is ever passed over.                                               *)
(***************************************************************************)
EXTENDS Naturals

VARIABLES
    height,     \* blocks that Babylon has produced
    processed,  \* the block that the current process has processed last
    stored      \* the stored height

vars == <<height, processed, stored>>

Init ==
    /\ height = 0
    /\ processed = 0
    /\ stored = 0

NewBlock ==
    /\ height' = height + 1
    /\ UNCHANGED <<processed, stored>>

ProcessBlock ==
    /\ processed < height
    /\ processed' = processed + 1
    /\ UNCHANGED <<height, stored>>

StoreHeight ==
    /\ stored' = processed
    /\ UNCHANGED <<height, processed>>

Restart ==
    /\ processed' = stored
    /\ UNCHANGED <<height, stored>>

Next == NewBlock \/ ProcessBlock \/ StoreHeight \/ Restart

Spec == Init /\ [][Next]_vars

================================================================================
