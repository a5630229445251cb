---------------------------- MODULE MCDocumentReplay ----------------------------
(***************************************************************************)
(* Instances of DocumentReplay for TLC.                                    *)
(***************************************************************************)
EXTENDS DocumentReplay, TLC

\* No action orders the values of details or the keys of the committee.
ValueSymmetry == Permutations(Values) \cup Permutations(CovenantKeys)

================================================================================
