------------------------------ MODULE MCIntake ------------------------------
(***************************************************************************)
(* Small instances of Intake.  Hosts are interchangeable: which one is     *)
(* started first tells nothing.                                            *)
(***************************************************************************)
EXTENDS Intake, TLC

ASSUME InstanceAssumption == ConstantsOK

Symmetry == Permutations(Hosts)
=============================================================================
