----------------------------- MODULE MCGateHold -----------------------------
(***************************************************************************)
(* Small instances of GateHold: a run whose worker asks for a plain shell  *)
(* command, a compound one, an answer and a plan approval.                 *)
(***************************************************************************)
EXTENDS GateHold, TLC

CONSTANTS sh, compound

Shell    == [kind |-> "tool", tool |-> sh]
Compound == [kind |-> "tool", tool |-> compound]
Ask      == [kind |-> "ask", tool |-> compound]
Plan     == [kind |-> "plan", tool |-> compound]

MCTools    == {sh, compound}
MCRemember == {sh}
MCShellCalls == {Shell}
MCTwoCalls   == {Shell, Plan}

Symmetry == Permutations(Reqs)

ASSUME InstanceAssumption == ConstantsOK
=============================================================================
