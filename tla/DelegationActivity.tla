-------------------------- MODULE DelegationActivity --------------------------
(***************************************************************************)
(* What the statistics see of the delegation lifecycle: a delegation is    *)
(* ACTIVE during one interval of its life, or never.                       *)
(***************************************************************************)

CONSTANT Delegations

VARIABLE phase      \* of each delegation, as to being ACTIVE

Phases == {"before", "active", "after"}

TypeOK == phase \in [Delegations -> Phases]

Init == phase = [d \in Delegations |-> "before"]

Enter(d) ==
    /\ phase[d] = "before"
    /\ phase' = [phase EXCEPT ![d] = "active"]

Leave(d) ==
    /\ phase[d] = "active"
    /\ phase' = [phase EXCEPT ![d] = "after"]

Next == \E d \in Delegations : Enter(d) \/ Leave(d)

Spec == Init /\ [][Next]_phase

================================================================================
