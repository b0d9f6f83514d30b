---------------------------- MODULE MCWireParts ----------------------------
(***************************************************************************)
(* What is written down for later, one component to a behaviour: the       *)
(* bindings and the .env of a host (of two channels without faults, or of  *)
(* one with a fault), the slash commands, their registration with Discord, *)
(* and the lineage that forks are picked from.  The initial state picks   *)
(* the component, its variables stand in x1, x2, ..., those it has no use  *)
(* for are 0, and every step is a step of that component.                  *)
(*                                                                         *)
(* All but Lineage are taken with their theorems, which PartsProofs uses;  *)
(* TLC has no use for these.                                               *)
(***************************************************************************)
EXTENDS Parts, Naturals, Sequences, FiniteSets, TLC

\* Wiring, Slash and SlashRegistration.
Wired == INSTANCE WireProofs WITH
    binding <- x1, env <- x2, exported <- x3, environ <- x4, inbox <- x5,
    stored <- x6, flag <- x7, todo <- x8, noted <- x9, jobs <- x10,
    cooked <- x11, told <- x12, wrote <- x13, ops <- x14, mishaps <- x15,
    annals <- x16, Names <- {"r1"}, Unknown <- "u", Hosts <- {"h1"},
    Claims <- [h \in {"h1"} |-> {"c1"}], Clis <- {"cli"}, MaxOps <- 2,
    MaxMishaps <- 1,
    mode <- x1, paired <- x2, realm <- x3, slash <- x4, queue <- x5,
    taken <- x6, shifts <- x7, drops <- x8, Members <- {"u1", "u2"}, Taps <- 1..2,
    Chans <- {"c1", "c2"}, Strict <- FALSE, MaxShifts <- 1, MaxDrops <- 1,
    disk <- x1, versions <- x2, home <- x3, registered <- x4, stamp <- x5,
    reg <- x6, boots <- x7, refusals <- x8, upsets <- x9,
    Cmds <- {"ask", "bind"}, Guilds <- {"g1", "g2"}, MaxVersion <- 2,
    MaxBoots <- 2, MaxRefusals <- 1

Lineage == INSTANCE Lineage WITH
    log <- x1, tips <- x2, run <- x3, op <- x4, printed <- x5, moves <- x6,
    faults <- x7, history <- x8, Runs <- 1..2, MaxLive <- 1, MaxMoves <- 1,
    MaxFaults <- 1

-----------------------------------------------------------------------------
WireInit ==
    \/ part = "wiring" /\ Wired!Wiring!Init /\ Free17
    \/ part = "faults" /\ Wired!Wiring!Init /\ Free17
    \/ part = "slash" /\ Wired!Slash!Init /\ Free9
    \/ part = "register" /\ Wired!Registration!Init /\ Free10
    \/ part = "lineage" /\ Lineage!Init /\ Free9

\* Bounds of the model: two channels are wired without faults, one with a fault; the
\* roster or the realm moves during the slash commands, or a fault happens.
NoFaults == x15 = 0
OneUpset == x7 + x8 <= 1
OneChannel ==
    \A t \in DOMAIN x8 : \A k \in 1..Len(x8[t]) :
        "c" \in DOMAIN x8[t][k] => x8[t][k].c # "c2"

BindingsDoes(A) == part = "wiring" /\ A /\ NoFaults' /\ UNCHANGED part /\ Keep17
FaultsDoes(A) == part = "faults" /\ A /\ OneChannel' /\ UNCHANGED part /\ Keep17
MenuDoes(A) == part = "slash" /\ A /\ OneUpset' /\ UNCHANGED part /\ Keep9
RegisterDoes(A) == part = "register" /\ A /\ UNCHANGED part /\ Keep10
LineageDoes(A) == part = "lineage" /\ A /\ UNCHANGED part /\ Keep9

BindingsStep == BindingsDoes(Wired!Wiring!Next)
FaultsStep == FaultsDoes(Wired!Wiring!Next)
MenuStep == MenuDoes(Wired!Slash!Next)
RegisterStep == RegisterDoes(Wired!Registration!Next)
LineageStep == LineageDoes(Lineage!Next)

WireNext ==
    \/ BindingsStep
    \/ FaultsStep
    \/ MenuStep
    \/ RegisterStep
    \/ LineageStep

WireSpec == WireInit /\ [][WireNext]_vars

-----------------------------------------------------------------------------
(* WireTypesOK: each component's variables are of their kinds.             *)
WireTypesOK ==
    CASE part \in {"wiring", "faults"} -> Wired!Wiring!TypeOK
      [] part = "slash"    -> Wired!Slash!TypeOK
      [] part = "register" -> Wired!Registration!TypeOK
      [] part = "lineage"  -> Lineage!TypeOK

(* CommandsTrue: a command does what its reply tells: the channel cooks in *)
(* the realm and on the host it was bound to, .env holds what was written  *)
(* and the inbox stays where it was opened (Wiring!BoundAsTold,            *)
(* Wiring!NeverSilentlyLocal, Wiring!EnvKept, Wiring!InboxHeld), an ask is *)
(* answered "On it." iff it was taken, by one who may, and lands in a      *)
(* channel of its realm (Slash!ReplyTrue, Slash!LandsBound), and Discord   *)
(* knows the commands the stamp says (SlashRegistration!StampTrue).        *)
CommandsTrue ==
    /\ part \in {"wiring", "faults"} =>
           /\ Wired!Wiring!BoundAsTold /\ Wired!Wiring!NeverSilentlyLocal
           /\ Wired!Wiring!EnvKept /\ Wired!Wiring!InboxHeld
    /\ part = "slash" => Wired!Slash!ReplyTrue /\ Wired!Slash!LandsBound
    /\ part = "register" => Wired!Registration!StampTrue

(* LineageKept: the rows of a run are one chain that never loops, a        *)
(* follow-up stands on the settle of the run before it, and a fork leaves  *)
(* from the step its user was shown (Lineage!OneChain,                     *)
(* Lineage!FollowsSettle, Lineage!ForkAsPrinted).                          *)
LineageKept ==
    part = "lineage" =>
        Lineage!OneChain /\ Lineage!FollowsSettle /\ Lineage!ForkAsPrinted
=============================================================================
