------------------------------ MODULE MCJobPool ------------------------------
(***************************************************************************)
(* Small instances of JobPool: two channels, two checkouts, and asks that  *)
(* read, that write in their channel's realm and that name a checkout.     *)
(***************************************************************************)
EXTENDS JobPool, TLC

CONSTANTS c1, c2, t1, t2

ReadAsk  == [channel |-> c1, names |-> None, writes |-> FALSE]
WriteAsk == [channel |-> c1, names |-> None, writes |-> TRUE]
OtherAsk == [channel |-> c2, names |-> None, writes |-> TRUE]
NamedAsk == [channel |-> c1, names |-> t1, writes |-> TRUE]

MCChannels == {c1, c2}
OneChannel == {c1}
OneTree    == {t1}
MCTrees    == {t1, t2}
MCAsks     == {ReadAsk, WriteAsk, NamedAsk}
MCWriteAsks == {WriteAsk}
MCPairAsks == {WriteAsk, OtherAsk}

Symmetry == Permutations(Jobs)

ASSUME InstanceAssumption == ConstantsOK
=============================================================================
