-------------------------- MODULE SlashRegistration --------------------------
(***************************************************************************)
(* The registration of the slash commands (discord/interactions.py): the   *)
(* host heals it at its start when the version that is installed is not    *)
(* the one of the stamp, discord-os interactions --register does it by     *)
(* hand, and a registration posts one command after the other.             *)
(***************************************************************************)
EXTENDS Naturals, FiniteSets

CONSTANTS
    Cmds,       \* the opt-in commands
    Guilds,     \* scopes of a registration: guilds, "global"
    MaxVersion, \* bound of the model: versions of the package
    MaxRuns,    \* bound of the model: starts of the host, registrations by hand
    MaxFaults,  \* bound of the model: refused posts, stamps that cannot be saved
    None        \* no guild

Registrars == {"host", "cli"}

VARIABLES
    disk,        \* the version that is installed
    running,     \* the version each registrar runs
    home,        \* the guild the host is started with
    registered,  \* at Discord: version of each command in each scope, 0 for none
    stamp,       \* slash_registration.json: version, scope
    reg,         \* the registration under way
    starts, faults,
    history      \* crossed, failed, otherGuild

vars == <<disk, running, home, registered, stamp, reg, starts, faults, history>>

-----------------------------------------------------------------------------
NoReg == [step |-> "idle", guild |-> None, left |-> {}]

Fault       == faults < MaxFaults /\ faults' = faults + 1
Starts      == starts < MaxRuns /\ starts' = starts + 1
Excuse(why) == history' = history \cup {why}
Busy(r)     == reg[r].step # "idle"

Init ==
    /\ disk = 1 /\ running = [r \in Registrars |-> 1]
    /\ home \in Guilds
    /\ registered = [g \in Guilds |-> [c \in Cmds |-> 0]]
    /\ stamp = [ver |-> 0, guild |-> None]
    /\ reg = [r \in Registrars |-> IF r = "host" THEN [NoReg EXCEPT !.step = "load", !.guild = home]
                                   ELSE NoReg]
    /\ starts = 0 /\ faults = 0
    /\ history = {}

-----------------------------------------------------------------------------
Upgrade ==
    /\ disk < MaxVersion /\ disk' = disk + 1
    /\ UNCHANGED <<running, home, registered, stamp, reg, starts, faults, history>>

\* The host is started: maybe_self_heal_slash_registration.
HostStarts ==
    /\ Starts
    /\ running' = [running EXCEPT !["host"] = disk]
    /\ \E g \in Guilds : home' = g
    /\ reg' = [reg EXCEPT !["host"] = [NoReg EXCEPT !.step = "load", !.guild = home']]
    /\ IF Busy("host") THEN Excuse("failed") ELSE UNCHANGED history
    /\ UNCHANGED <<disk, registered, stamp, faults>>

\* discord-os interactions --register, in any guild.
CliRegisters ==
    /\ ~Busy("cli") /\ Starts
    /\ running' = [running EXCEPT !["cli"] = disk]
    /\ \E g \in Guilds :
         reg' = [reg EXCEPT !["cli"] = [step |-> "post", guild |-> g, left |-> Cmds]]
    /\ UNCHANGED <<disk, home, registered, stamp, faults, history>>

\* A stamp of this version ends it, whatever guild it was saved for.
Load ==
    /\ reg["host"].step = "load"
    /\ IF stamp.ver = running["host"]
       THEN /\ reg' = [reg EXCEPT !["host"] = NoReg]
            /\ history' = history \cup (IF stamp.guild = home THEN {} ELSE {"otherGuild"})
       ELSE /\ reg' = [reg EXCEPT !["host"].step = "post", !["host"].left = Cmds]
            /\ UNCHANGED history
    /\ UNCHANGED <<disk, running, home, registered, stamp, starts, faults>>

\* register_opt_in_commands posts one command after the other.
PostCmd(r) ==
    /\ reg[r].step = "post" /\ reg[r].left # {}
    /\ \E c \in reg[r].left :
         /\ registered' = [registered EXCEPT ![reg[r].guild][c] = running[r]]
         /\ reg' = [reg EXCEPT ![r].left = @ \ {c}]
    /\ IF \E q \in Registrars \ {r} : Busy(q) THEN Excuse("crossed") ELSE UNCHANGED history
    /\ UNCHANGED <<disk, running, home, stamp, starts, faults>>

\* A refused command ends the registration without a stamp; the next start tries again.
PostFails(r) ==
    /\ reg[r].step = "post" /\ reg[r].left # {} /\ Fault
    /\ reg' = [reg EXCEPT ![r] = NoReg]
    /\ Excuse("failed")
    /\ UNCHANGED <<disk, running, home, registered, stamp, starts>>

SaveStamp(r) ==
    /\ reg[r].step = "post" /\ reg[r].left = {}
    /\ stamp' = [ver |-> running[r], guild |-> reg[r].guild]
    /\ reg' = [reg EXCEPT ![r] = NoReg]
    /\ IF \E q \in Registrars \ {r} : Busy(q) THEN Excuse("crossed") ELSE UNCHANGED history
    /\ UNCHANGED <<disk, running, home, registered, starts, faults>>

SaveFails(r) ==
    /\ reg[r].step = "post" /\ reg[r].left = {} /\ Fault
    /\ reg' = [reg EXCEPT ![r] = NoReg]
    /\ UNCHANGED <<disk, running, home, registered, stamp, starts, history>>

-----------------------------------------------------------------------------
Register(r) == PostCmd(r) \/ SaveStamp(r)

Next ==
    \/ Upgrade \/ HostStarts \/ CliRegisters \/ Load
    \/ \E r \in Registrars : Register(r) \/ PostFails(r) \/ SaveFails(r)

Spec == Init /\ [][Next]_vars

\* The threads of the two processes run.
FairSpec == Spec /\ WF_vars(Load) /\ \A r \in Registrars : WF_vars(Register(r))

-----------------------------------------------------------------------------
(* What it promises.                                                       *)

TypeOK ==
    /\ \A g \in Guilds : registered[g] \in [Cmds -> 0..MaxVersion]
    /\ stamp \in [ver : 0..MaxVersion, guild : Guilds \cup {None}]
    /\ \A r \in Registrars : reg[r].left \subseteq Cmds /\ running[r] \in 1..disk

\* "Re-register slash commands when version/stamp drifts": a stamp tells the truth of
\* its scope, also after a registration that failed in the middle, unless two ran at
\* once; and a host whose self-heal ended without a failure has the commands of its
\* version in its guild, unless the stamp was another guild's.
StampTrue ==
    history \cap {"crossed"} = {} =>
        /\ stamp.guild # None => \A c \in Cmds : registered[stamp.guild][c] >= stamp.ver
        /\ ~Busy("host") /\ history \cap {"failed", "otherGuild"} = {} =>
               \A c \in Cmds : registered[home][c] >= running["host"]

\* In the end no registration is open.
RegistrationRests == \A r \in Registrars : ~Busy(r)
=============================================================================
