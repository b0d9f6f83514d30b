-------------------------------- MODULE Parts --------------------------------
(***************************************************************************)
(* What MCRunParts, MCHostParts, MCDeskParts and MCWireParts have in       *)
(* common: which component a behaviour is one of, and the places its       *)
(* variables stand in.  A behaviour keeps the places its component has no  *)
(* use for at 0: FreeN says so of the initial state from xN on, KeepN of a *)
(* step.                                                                   *)
(***************************************************************************)
EXTENDS Naturals

CONSTANTS None

VARIABLES
    part,    \* the component this behaviour is one of
    \* its variables, in the order in which its module declares them
    x1, x2, x3, x4, x5, x6, x7, x8, x9, x10, x11, x12, x13, x14, x15, x16, x17,
    x18, x19, x20, x21, x22, x23

vars == <<part, x1, x2, x3, x4, x5, x6, x7, x8, x9, x10, x11, x12,
          x13, x14, x15, x16, x17, x18, x19, x20, x21, x22, x23>>

-----------------------------------------------------------------------------
Free23 == x23 = 0
Free22 == x22 = 0 /\ Free23
Free21 == x21 = 0 /\ Free22
Free20 == x20 = 0 /\ Free21
Free19 == x19 = 0 /\ Free20
Free18 == x18 = 0 /\ Free19
Free17 == x17 = 0 /\ Free18
Free16 == x16 = 0 /\ Free17
Free15 == x15 = 0 /\ Free16
Free14 == x14 = 0 /\ Free15
Free13 == x13 = 0 /\ Free14
Free12 == x12 = 0 /\ Free13
Free11 == x11 = 0 /\ Free12
Free10 == x10 = 0 /\ Free11
Free9 == x9 = 0 /\ Free10

Keep23 == UNCHANGED x23
Keep22 == UNCHANGED x22 /\ Keep23
Keep21 == UNCHANGED x21 /\ Keep22
Keep20 == UNCHANGED x20 /\ Keep21
Keep19 == UNCHANGED x19 /\ Keep20
Keep18 == UNCHANGED x18 /\ Keep19
Keep17 == UNCHANGED x17 /\ Keep18
Keep16 == UNCHANGED x16 /\ Keep17
Keep15 == UNCHANGED x15 /\ Keep16
Keep14 == UNCHANGED x14 /\ Keep15
Keep13 == UNCHANGED x13 /\ Keep14
Keep12 == UNCHANGED x12 /\ Keep13
Keep11 == UNCHANGED x11 /\ Keep12
Keep10 == UNCHANGED x10 /\ Keep11
Keep9 == UNCHANGED x9 /\ Keep10
=============================================================================
