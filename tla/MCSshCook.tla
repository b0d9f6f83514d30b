------------------------------ MODULE MCSshCook ------------------------------
(***************************************************************************)
(* Small instances of SshCook: one remote worker and its requests, which   *)
(* are interchangeable.                                                    *)
(***************************************************************************)
EXTENDS SshCook, TLC

ASSUME InstanceAssumption == ConstantsOK

Symmetry == Permutations(Reqs)
=============================================================================
