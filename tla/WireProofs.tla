----------------------------- MODULE WireProofs -----------------------------
(***************************************************************************)
(* Proofs about what a host writes down of its commands, for any channels, *)
(* realms, hosts, members, guilds and versions, and any number of faults:  *)
(* SlashRegistration, Slash and Wiring.                                    *)
(* Where two of them use one name for two variables, the instance says     *)
(* what it is called here.                                                 *)
(*                                                                         *)
(* SlashRegistration.  Unless two registrations crossed, what one has      *)
(* posted is of its version and none under way is older than the stamp     *)
(* (PostedSoFar, NoneBehind).  Slash.  What an interaction knows of the    *)
(* operators and the realms it learned while it was handled                *)
(* (InteractionTrue).  Wiring.  A command is a sequence of steps of a      *)
(* thread, and only those at the inbox depend on each other (Shaped, Left):*)
(* a row is what its channel was told (RealmHeld, HostHeld), and the inbox *)
(* what was told last once nobody is halfway there (InboxTrue).            *)
(***************************************************************************)
EXTENDS Integers, Sequences, FiniteSetTheorems, TLAPS

CONSTANTS
    None,
    Cmds, Guilds, MaxVersion, MaxBoots, MaxRefusals,           \* SlashRegistration
    Members, Taps, Chans, Strict, MaxShifts, MaxDrops,         \* Slash, and Chans: Wiring
    Names, Unknown, Hosts, Claims, Clis, MaxOps, MaxMishaps    \* Wiring

VARIABLES
    \* SlashRegistration
    disk, versions, home, registered, stamp, reg, boots, refusals, upsets,
    \* Slash
    mode, paired, realm, slash, queue, taken, shifts, drops,
    \* Wiring
    binding, env, exported, environ, inbox, stored, flag, todo, noted, jobs, cooked, told,
    wrote, ops, mishaps, annals

Registration == INSTANCE SlashRegistration WITH
    running <- versions, starts <- boots, faults <- refusals, history <- upsets,
    MaxRuns <- MaxBoots, MaxFaults <- MaxRefusals

Slash == INSTANCE Slash WITH
    operators <- paired, tap <- slash, cooked <- taken, moves <- shifts, faults <- drops,
    Users <- Members, Require <- Strict, MaxMoves <- MaxShifts, MaxFaults <- MaxDrops

Wiring == INSTANCE Wiring WITH
    seen <- noted, faults <- mishaps, history <- annals, MaxFaults <- MaxMishaps

-----------------------------------------------------------------------------
(* The registration of the slash commands: a stamp tells the truth.         *)

RegTyped ==
    /\ disk \in Nat /\ home \in Guilds
    /\ versions \in [Registration!Registrars -> Nat]
    /\ \A r \in Registration!Registrars : versions[r] <= disk
    /\ registered \in [Guilds -> [Cmds -> Nat]]
    /\ stamp \in [ver : Nat, guild : Guilds \cup {None}] /\ stamp.ver <= disk
    /\ reg \in [Registration!Registrars -> [step : {"idle", "load", "post"},
                                            guild : Guilds \cup {None}, left : SUBSET Cmds]]
    /\ reg["cli"].step # "load"
    /\ \A r \in Registration!Registrars : reg[r].step = "post" => reg[r].guild \in Guilds
    /\ reg["host"].step # "idle" => reg["host"].guild = home

\* What a registration has posted so far is of the version it runs.
PostedSoFar ==
    \A r \in Registration!Registrars : reg[r].step = "post" =>
        \A c \in Cmds \ reg[r].left : registered[reg[r].guild][c] = versions[r]

\* No registration under way is older than the stamp.
NoneBehind ==
    \A r \in Registration!Registrars : reg[r].step # "idle" => versions[r] >= stamp.ver

Stamped == stamp.guild # None => \A c \in Cmds : registered[stamp.guild][c] >= stamp.ver

\* The host's self-heal has begun to post, or is over.
Posting == \/ reg["host"].step = "idle"
           \/ reg["host"].step = "post" /\ reg["host"].left # Cmds

\* So what is registered by hand beside it is no older than it.
HandNewer ==
    reg["cli"].step = "post" /\ Posting /\ upsets \cap {"failed", "otherGuild"} = {} /\ Cmds # {}
        => versions["cli"] >= versions["host"]

Healed ==
    reg["host"].step = "idle" /\ upsets \cap {"failed", "otherGuild"} = {} =>
        \A c \in Cmds : registered[home][c] >= versions["host"]

RegInv ==
    /\ None \notin Guilds
    /\ RegTyped
    /\ "crossed" \notin upsets => PostedSoFar /\ NoneBehind /\ Stamped /\ HandNewer /\ Healed

(* RegInit: nothing is registered, and the host's self-heal is due.          *)
LEMMA RegInit == None \notin Guilds /\ Registration!Init => RegInv
<1> SUFFICES ASSUME None \notin Guilds, Registration!Init PROVE RegInv
  OBVIOUS
<1> USE DEF Registration!Init, Registration!NoReg, Registration!Registrars
<1>1. RegTyped
  <2>1. registered \in [Guilds -> [Cmds -> Nat]] /\ versions \in [Registration!Registrars -> Nat]
    OBVIOUS
  <2>2. reg \in [Registration!Registrars -> [step : {"idle", "load", "post"},
                                             guild : Guilds \cup {None}, left : SUBSET Cmds]]
    OBVIOUS
  <2>3. reg["cli"].step = "idle" /\ reg["host"].step = "load" /\ reg["host"].guild = home
    OBVIOUS
  <2>4. disk = 1 /\ home \in Guilds /\ \A r \in Registration!Registrars : versions[r] = 1
    OBVIOUS
  <2>5. stamp \in [ver : Nat, guild : Guilds \cup {None}] /\ stamp.ver = 0
    OBVIOUS
  <2> HIDE DEF Registration!Init
  <2>6. QED
    BY <2>1, <2>2, <2>3, <2>4, <2>5 DEF RegTyped
<1>2. reg["host"].step = "load" /\ reg["cli"].step = "idle" /\ stamp.ver = 0 /\ stamp.guild = None
      /\ versions["host"] = 1
  OBVIOUS
<1>3. QED
  BY <1>1, <1>2 DEF RegInv, PostedSoFar, NoneBehind, Stamped, HandNewer, Healed

(* RegStep: by cases on what a registrar does.                               *)
LEMMA RegStep == RegInv /\ [Registration!Next]_(Registration!vars) => RegInv'
<1> SUFFICES ASSUME RegInv, [Registration!Next]_(Registration!vars) PROVE RegInv'
  OBVIOUS
<1> USE DEF Registration!NoReg, Registration!Registrars, Registration!Starts, Registration!Fault,
            Registration!Excuse, Registration!Busy
<1> DEFINE Told == PostedSoFar /\ NoneBehind /\ Stamped /\ HandNewer /\ Healed
<1>0. /\ None \notin Guilds /\ RegTyped
      /\ "crossed" \notin upsets => PostedSoFar /\ NoneBehind /\ Stamped /\ HandNewer /\ Healed
  BY DEF RegInv
<1>1. CASE Registration!Upgrade
  <2>1. disk' = disk + 1 /\ UNCHANGED <<versions, home, registered, stamp, reg, upsets>>
    BY <1>1 DEF Registration!Upgrade
  <2>2. RegTyped'
    BY <1>0, <2>1 DEF RegTyped
  <2>3. QED
    BY <1>0, <2>1, <2>2 DEF RegInv, PostedSoFar, NoneBehind, Stamped, HandNewer, Healed, Posting
<1>2. CASE Registration!HostStarts
  <2>0. PICK g \in Guilds : home' = g
    BY <1>2 DEF Registration!HostStarts
  <2> DEFINE o == [Registration!NoReg EXCEPT !.step = "load", !.guild = g]
  <2>1. /\ versions' = [versions EXCEPT !["host"] = disk]
        /\ UNCHANGED <<disk, registered, stamp>> /\ upsets \subseteq upsets'
    BY <1>2 DEF Registration!HostStarts
  <2>2. reg' = [reg EXCEPT !["host"] = o]
    <3>1. reg' = [reg EXCEPT !["host"] =
                    [Registration!NoReg EXCEPT !.step = "load", !.guild = home']]
      BY <1>2, Zenon DEF Registration!HostStarts
    <3>2. QED
      BY <2>0, <3>1, Zenon
  <2>3. /\ o \in [step : {"idle", "load", "post"}, guild : Guilds \cup {None}, left : SUBSET Cmds]
        /\ o.step = "load" /\ o.guild = g
    OBVIOUS
  <2> HIDE DEF o
  <2>4. /\ reg'["host"] = o /\ reg'["cli"] = reg["cli"]
        /\ versions'["host"] = disk /\ versions'["cli"] = versions["cli"]
    BY <1>0, <2>1, <2>2 DEF RegTyped
  <2>5. RegTyped'
    <3>1. reg' \in [Registration!Registrars -> [step : {"idle", "load", "post"},
                                               guild : Guilds \cup {None}, left : SUBSET Cmds]]
      BY <1>0, <2>2, <2>3 DEF RegTyped
    <3>2. versions' \in [Registration!Registrars -> Nat]
      BY <1>0, <2>1 DEF RegTyped
    <3>3. QED
      BY <1>0, <2>0, <2>1, <2>3, <2>4, <3>1, <3>2 DEF RegTyped
  <2>6. "crossed" \notin upsets' => PostedSoFar' /\ NoneBehind' /\ Stamped'
    BY <1>0, <2>1, <2>3, <2>4 DEF RegTyped, PostedSoFar, NoneBehind, Stamped
  <2>7. HandNewer' /\ Healed'
    BY <2>3, <2>4 DEF HandNewer, Healed, Posting
  <2>8. QED
    BY <1>0, <2>5, <2>6, <2>7 DEF RegInv
<1>3. CASE Registration!CliRegisters
  <2>1. PICK g \in Guilds :
          /\ reg["cli"].step = "idle"
          /\ versions' = [versions EXCEPT !["cli"] = disk]
          /\ reg' = [reg EXCEPT !["cli"] = [step |-> "post", guild |-> g, left |-> Cmds]]
          /\ UNCHANGED <<disk, home, registered, stamp, upsets>>
    BY <1>3 DEF Registration!CliRegisters
  <2>2. RegTyped'
    BY <1>0, <2>1 DEF RegTyped
  <2>3. /\ reg'["cli"] = [step |-> "post", guild |-> g, left |-> Cmds] /\ versions'["cli"] = disk
        /\ reg'["host"] = reg["host"] /\ versions'["host"] = versions["host"]
    BY <1>0, <2>1 DEF RegTyped
  <2>4. "crossed" \notin upsets' => PostedSoFar' /\ NoneBehind' /\ Stamped'
    BY <1>0, <2>1, <2>3 DEF RegTyped, PostedSoFar, NoneBehind, Stamped
  <2>5. "crossed" \notin upsets' => HandNewer' /\ Healed'
    BY <1>0, <2>1, <2>3 DEF RegTyped, HandNewer, Healed, Posting
  <2>6. QED
    BY <1>0, <2>2, <2>4, <2>5 DEF RegInv
<1>4. CASE Registration!Load
  <2>1. reg["host"].step = "load" /\ UNCHANGED <<disk, versions, home, registered, stamp>>
    BY <1>4 DEF Registration!Load
  <2>2. CASE stamp.ver = versions["host"]
    <3>1. /\ reg' = [reg EXCEPT !["host"] = [step |-> "idle", guild |-> None, left |-> {}]]
          /\ upsets' = upsets \cup (IF stamp.guild = home THEN {} ELSE {"otherGuild"})
      BY <1>4, <2>2 DEF Registration!Load
    <3>2. RegTyped'
      BY <1>0, <2>1, <3>1 DEF RegTyped
    <3>3. reg'["host"].step = "idle" /\ reg'["cli"] = reg["cli"]
      BY <1>0, <3>1 DEF RegTyped
    <3>4. "crossed" \notin upsets' => PostedSoFar' /\ NoneBehind' /\ Stamped'
      BY <1>0, <2>1, <3>1, <3>3 DEF RegTyped, PostedSoFar, NoneBehind, Stamped
    <3>5. "crossed" \notin upsets' => HandNewer'
      BY <1>0, <2>1, <2>2, <3>1, <3>3 DEF RegTyped, NoneBehind, HandNewer
    <3>6. "crossed" \notin upsets' => Healed'
      BY <1>0, <2>1, <2>2, <3>1, <3>3 DEF RegTyped, Stamped, Healed
    <3>7. QED
      BY <1>0, <3>2, <3>4, <3>5, <3>6 DEF RegInv
  <2>3. CASE stamp.ver # versions["host"]
    <3>1. /\ reg' = [reg EXCEPT !["host"].step = "post", !["host"].left = Cmds]
          /\ UNCHANGED upsets
      BY <1>4, <2>3 DEF Registration!Load
    <3>2. RegTyped'
      BY <1>0, <2>1, <3>1 DEF RegTyped
    <3>3. /\ reg'["host"].step = "post" /\ reg'["host"].left = Cmds /\ reg'["cli"] = reg["cli"]
      BY <1>0, <3>1 DEF RegTyped
    <3>4. "crossed" \notin upsets' => PostedSoFar' /\ NoneBehind' /\ Stamped'
      BY <1>0, <2>1, <3>1, <3>3 DEF RegTyped, PostedSoFar, NoneBehind, Stamped
    <3>5. "crossed" \notin upsets' => HandNewer' /\ Healed'
      BY <1>0, <2>1, <2>3, <3>1, <3>3 DEF RegTyped, Posting, HandNewer, Healed
    <3>7. QED
      BY <1>0, <3>2, <3>4, <3>5 DEF RegInv
  <2>4. QED
    BY <2>2, <2>3
<1>5. ASSUME NEW r \in Registration!Registrars, Registration!PostCmd(r) PROVE RegInv'
  <2>1. PICK c \in reg[r].left :
          /\ reg[r].step = "post"
          /\ registered' = [registered EXCEPT ![reg[r].guild][c] = versions[r]]
          /\ reg' = [reg EXCEPT ![r].left = @ \ {c}]
          /\ UNCHANGED <<disk, versions, home, stamp>>
          /\ upsets' = upsets \/ upsets' = upsets \cup {"crossed"}
          /\ "crossed" \notin upsets' =>
                 \A q \in Registration!Registrars \ {r} : reg[q].step = "idle"
    BY <1>5 DEF Registration!PostCmd
  <2>2. RegTyped'
    BY <1>0, <2>1 DEF RegTyped
  <2>3. /\ c \in Cmds /\ reg[r].guild \in Guilds
        /\ reg'[r].step = "post" /\ reg'[r].guild = reg[r].guild /\ reg'[r].left = reg[r].left \ {c}
        /\ \A q \in Registration!Registrars \ {r} : reg'[q] = reg[q]
        /\ \A g \in Guilds, d \in Cmds : registered'[g][d] =
             IF g = reg[r].guild /\ d = c THEN versions[r] ELSE registered[g][d]
    BY <1>0, <2>1 DEF RegTyped
  <2>4. "crossed" \notin upsets' => PostedSoFar' /\ NoneBehind' /\ Stamped'
    BY <1>0, <2>1, <2>3 DEF RegTyped, PostedSoFar, NoneBehind, Stamped
  <2>5. "crossed" \notin upsets' => HandNewer'
    BY <1>0, <2>1, <2>3 DEF RegTyped, Posting, HandNewer
  <2>6. "crossed" \notin upsets' => Healed'
    <3> SUFFICES ASSUME "crossed" \notin upsets', reg'["host"].step = "idle",
                        upsets' \cap {"failed", "otherGuild"} = {}, NEW d \in Cmds
                 PROVE  registered'[home][d] >= versions["host"]
      BY <2>1 DEF Healed
    <3>1. r = "cli" /\ reg["host"].step = "idle" /\ Healed /\ HandNewer
      BY <1>0, <2>1, <2>3
    <3>2. versions["cli"] >= versions["host"] /\ registered[home][d] >= versions["host"]
      BY <2>1, <2>3, <3>1 DEF HandNewer, Posting, Healed
    <3>3. QED
      BY <1>0, <2>3, <3>1, <3>2 DEF RegTyped
  <2>7. QED
    BY <1>0, <2>2, <2>4, <2>5, <2>6 DEF RegInv
<1>6. ASSUME NEW r \in Registration!Registrars,
             Registration!PostFails(r) \/ Registration!SaveFails(r)
      PROVE  RegInv'
  <2>1. /\ reg[r].step = "post"
        /\ reg' = [reg EXCEPT ![r] = [step |-> "idle", guild |-> None, left |-> {}]]
        /\ UNCHANGED <<disk, versions, home, registered, stamp>>
        /\ upsets \subseteq upsets'
        /\ "failed" \notin upsets' => reg[r].left = {}
    BY <1>6 DEF Registration!PostFails, Registration!SaveFails
  <2>2. RegTyped'
    BY <1>0, <2>1 DEF RegTyped
  <2>3. reg'[r].step = "idle" /\ \A q \in Registration!Registrars \ {r} : reg'[q] = reg[q]
    BY <1>0, <2>1 DEF RegTyped
  <2>4. "crossed" \notin upsets' => PostedSoFar' /\ NoneBehind' /\ Stamped'
    BY <1>0, <2>1, <2>3 DEF RegTyped, PostedSoFar, NoneBehind, Stamped
  <2>5. "crossed" \notin upsets' => HandNewer'
    BY <1>0, <2>1, <2>3 DEF RegTyped, Posting, HandNewer
  <2>6. "crossed" \notin upsets' => Healed'
    <3> SUFFICES ASSUME "crossed" \notin upsets', reg'["host"].step = "idle",
                        upsets' \cap {"failed", "otherGuild"} = {}, NEW d \in Cmds
                 PROVE  registered[home][d] >= versions["host"]
      BY <2>1 DEF Healed
    <3>1. CASE r = "host"
      BY <1>0, <2>1, <3>1 DEF RegTyped, PostedSoFar
    <3>2. CASE r = "cli"
      BY <1>0, <2>1, <2>3, <3>2 DEF Healed
    <3>3. QED
      BY <3>1, <3>2
  <2>7. QED
    BY <1>0, <2>2, <2>4, <2>5, <2>6 DEF RegInv
<1>7. ASSUME NEW r \in Registration!Registrars, Registration!SaveStamp(r) PROVE RegInv'
  <2>1. /\ reg[r].step = "post" /\ reg[r].left = {}
        /\ stamp' = [ver |-> versions[r], guild |-> reg[r].guild]
        /\ reg' = [reg EXCEPT ![r] = [step |-> "idle", guild |-> None, left |-> {}]]
        /\ UNCHANGED <<disk, versions, home, registered>>
        /\ upsets \subseteq upsets'
        /\ "crossed" \notin upsets' => \A q \in Registration!Registrars \ {r} : reg[q].step = "idle"
    BY <1>7 DEF Registration!SaveStamp
  <2>2. RegTyped'
    BY <1>0, <2>1 DEF RegTyped
  <2>3. reg'[r].step = "idle" /\ \A q \in Registration!Registrars \ {r} : reg'[q] = reg[q]
    BY <1>0, <2>1 DEF RegTyped
  <2>4. "crossed" \notin upsets' => \A q \in Registration!Registrars : reg'[q].step = "idle"
    BY <2>1, <2>3
  <2>5. "crossed" \notin upsets' => Stamped' /\ PostedSoFar' /\ NoneBehind' /\ HandNewer'
    BY <1>0, <2>1, <2>4 DEF RegTyped, PostedSoFar, NoneBehind, Stamped, HandNewer
  <2>6. "crossed" \notin upsets' => Healed'
    <3> SUFFICES ASSUME "crossed" \notin upsets', upsets' \cap {"failed", "otherGuild"} = {},
                        NEW d \in Cmds
                 PROVE  registered[home][d] >= versions["host"]
      BY <2>1 DEF Healed
    <3>1. CASE r = "host"
      BY <1>0, <2>1, <3>1 DEF RegTyped, PostedSoFar
    <3>2. CASE r = "cli"
      BY <1>0, <2>1, <2>3, <3>2 DEF Healed
    <3>3. QED
      BY <3>1, <3>2
  <2>7. QED
    BY <1>0, <2>2, <2>5, <2>6 DEF RegInv
<1>8. CASE UNCHANGED Registration!vars
  BY <1>0, <1>8 DEF Registration!vars, RegInv, RegTyped, PostedSoFar, NoneBehind, Stamped,
     HandNewer, Posting, Healed
<1>9. QED
  BY <1>1, <1>2, <1>3, <1>4, <1>5, <1>6, <1>7, <1>8 DEF Registration!Next, Registration!Register

(* StampsTrue: what the stamp says is registered in its guild is, and a host *)
(* that found its stamp old has healed it, unless two registrations crossed  *)
(* (discord/register.py, host/service.py).                                   *)
THEOREM StampsTrue ==
    ASSUME None \notin Guilds PROVE Registration!Spec => []Registration!StampTrue
<1>1. RegInv => Registration!StampTrue
  BY DEF RegInv, Stamped, Healed, Registration!StampTrue, Registration!Busy
<1>2. Registration!Init => RegInv
  BY RegInit
<1>3. QED
  BY <1>1, <1>2, RegStep, PTL DEF Registration!Spec

-----------------------------------------------------------------------------
(* Slash commands: a reply tells what happened.                             *)

Interactions ==
    [step : {"none", "sent", "look", "check", "aim", "dispatch", "seed", "insert", "effect",
             "reply", "over"},
     kind : Slash!Kinds \cup {None}, user : Members \cup {None}, outside : BOOLEAN,
     aimed : BOOLEAN, chan : Chans \cup {"here", None},
     reply : {"done", "denied", "failed", "noQueue", None}, seen : BOOLEAN, done : {0, 1},
     roster : SUBSET Members, homes : SUBSET Chans, open : BOOLEAN, blind : BOOLEAN]

SlashTyped ==
    /\ paired \subseteq Members /\ realm \in Chans
    /\ slash \in [Taps -> Interactions]
    /\ \A a \in queue \cup taken : a.i \in Taps

Unasked(o) == o.step \in {"sent", "look", "check", "aim", "dispatch", "seed", "insert"}
Seeds(o) == ~Strict /\ ~o.outside
Entitled(o) == o.user \in o.roster \/ (Seeds(o) /\ (o.open \/ o.blind))
Homed(o) == o.chan = "here" \/ o.chan \in o.homes

\* An interaction knows whether its user was paired or nobody was, and where the realm
\* was bound, while it was open; it is past a check only if that entitles it.
InteractionTrue(o, who, chan) ==
    /\ Unasked(o) => (o.user \in who => Entitled(o)) /\ (who = {} => o.open)
    /\ o.step \notin {"none", "over"} => chan \in o.homes
    /\ Unasked(o) \/ o.step \in {"none", "effect"} => o.done = 0 /\ o.reply = None
    /\ o.step # "none" => o.kind \in Slash!Kinds /\ o.user \in Members
    /\ o.step = "look" => o.kind = "look" \/ (o.kind = "job" /\ Entitled(o))
    /\ o.step = "check" => o.kind \in Slash!Guarded
    /\ o.step \in {"aim", "dispatch"} => o.kind \in {"ask", "message"}
    /\ o.step \in {"seed", "insert"} => o.kind \in {"on", "ask", "message"} /\ Seeds(o)
    /\ o.step = "insert" => o.open
    /\ o.step = "effect" => o.kind \in {"on", "act", "ask", "message"}
    /\ o.step = "effect" \/ o.done = 1 \/ (o.reply = "done" /\ o.kind = "job") => Entitled(o)
    /\ o.step = "dispatch" => Homed(o)
    /\ o.step \in {"seed", "insert", "effect"} /\ o.kind \in {"ask", "message"} => Homed(o)
    /\ o.step = "reply" => (o.done = 1 <=> o.reply = "done" /\ o.kind \notin {"job", "look"})
    /\ o.seen =>
           /\ o.step = "over"
           /\ o.done = 1 <=> o.reply = "done" /\ o.kind \notin {"job", "look"}

\* An ask is queued by its effect, once.
QueuedOnce ==
    /\ \A a \in queue \cup taken : slash[a.i].done = 1
    /\ \A a, b \in queue \cup taken : a.i = b.i => a = b
    /\ \A a \in queue \cup taken : a.c = "here" \/ a.c \in slash[a.i].homes

SlashInv ==
    /\ SlashTyped /\ QueuedOnce /\ None # "done"
    /\ \A i \in Taps : InteractionTrue(slash[i], paired, realm)

(* SlashInit: no interaction is under way.                                   *)
LEMMA SlashInit == Chans # {} /\ Members # {} /\ None # "done" /\ Slash!Init => SlashInv
<1> SUFFICES ASSUME Chans # {}, Members # {}, None # "done", Slash!Init PROVE SlashInv
  OBVIOUS
<1>1. realm \in Chans
  BY DEF Slash!Init
<1>2. paired \subseteq Members /\ queue = {} /\ taken = {}
  BY DEF Slash!Init
<1>3. slash \in [Taps -> Interactions]
  BY DEF Slash!Init, Slash!NoTap, Interactions
<1>4. \A i \in Taps : /\ slash[i].step = "none" /\ slash[i].done = 0 /\ slash[i].seen = FALSE
                      /\ slash[i].reply = None
  BY DEF Slash!Init, Slash!NoTap
<1>5. \A i \in Taps : InteractionTrue(slash[i], paired, realm)
  BY <1>3, <1>4 DEF InteractionTrue, Unasked, Interactions
<1>6. QED
  BY <1>1, <1>2, <1>3, <1>5 DEF SlashInv, SlashTyped, QueuedOnce

\* The interaction i has become o, and o is an interaction and true.
Becomes(i, o) ==
    /\ slash' = [slash EXCEPT ![i] = o] /\ o \in Interactions
    /\ slash[i].done = 0 \/ (o.done = 1 /\ slash[i].homes \subseteq o.homes)
    /\ InteractionTrue(o, paired, realm)

(* OneMoves: a step of one interaction alone.                               *)
LEMMA OneMoves ==
    ASSUME SlashInv, NEW i \in Taps, NEW o, Becomes(i, o), UNCHANGED <<paired, realm>>,
           queue' \cup taken' \subseteq queue \cup taken
    PROVE  SlashInv'
<1>1. slash' \in [Taps -> Interactions] /\ slash'[i] = o
      /\ \A j \in Taps \ {i} : slash'[j] = slash[j]
  BY DEF SlashInv, SlashTyped, Becomes
<1>2. \A j \in Taps : InteractionTrue(slash'[j], paired', realm')
  BY <1>1 DEF SlashInv, Becomes
<1>3. SlashTyped'
  BY <1>1 DEF SlashInv, SlashTyped
<1>4. QueuedOnce'
  BY <1>1 DEF SlashInv, SlashTyped, QueuedOnce, Becomes
<1>5. QED
  BY <1>2, <1>3, <1>4 DEF SlashInv

(* WatchedTrue: what it knows stays true by that.                            *)
LEMMA WatchedTrue ==
    ASSUME NEW o \in Interactions, InteractionTrue(o, paired, realm),
           NEW who \in SUBSET Members, NEW chan \in Chans
    PROVE  /\ Slash!Sees(o, who, chan) \in Interactions
           /\ InteractionTrue(Slash!Sees(o, who, chan), who, chan)
           /\ o.homes \subseteq Slash!Sees(o, who, chan).homes
           /\ Slash!Sees(o, who, chan).done = o.done
<1> DEFINE p == Slash!Sees(o, who, chan)
<1>1. CASE o.step \in {"none", "over"}
  BY <1>1 DEF InteractionTrue, Unasked, Slash!Sees
<1>2. CASE o.step \notin {"none", "over"}
  <2>1. /\ p \in Interactions /\ p.roster = o.roster \cup who /\ p.homes = o.homes \cup {chan}
        /\ p.open = (o.open \/ who = {}) /\ p.blind = o.blind
        /\ p.step = o.step /\ p.kind = o.kind /\ p.user = o.user /\ p.outside = o.outside
        /\ p.chan = o.chan /\ p.reply = o.reply /\ p.seen = o.seen /\ p.done = o.done
    BY <1>2 DEF Interactions, Slash!Sees
  <2> HIDE DEF p
  <2>2. InteractionTrue(p, who, chan)
    BY <1>2, <2>1 DEF InteractionTrue, Unasked, Entitled, Seeds, Homed
  <2>3. QED
    BY <2>1, <2>2 DEF p
<1>3. QED
  BY <1>1, <1>2

(* SlashStep: an interaction steps by itself (OneMoves, WatchedTrue); who is *)
(* an operator and what the realms are change beside it.                     *)
LEMMA SlashStep == SlashInv /\ [Slash!Next]_(Slash!vars) => SlashInv'
<1> SUFFICES ASSUME SlashInv, [Slash!Next]_(Slash!vars) PROVE SlashInv'
  OBVIOUS
<1>0. /\ slash \in [Taps -> Interactions] /\ paired \subseteq Members /\ realm \in Chans
      /\ None # "done"
      /\ \A i \in Taps : slash[i] \in Interactions /\ InteractionTrue(slash[i], paired, realm)
  BY DEF SlashInv, SlashTyped
<1>1. ASSUME NEW who \in SUBSET Members, NEW chan \in Chans,
             slash' = Slash!Watched(who, chan), paired' = who, realm' = chan,
             UNCHANGED <<queue, taken>>
      PROVE  SlashInv'
  <2>1. \A i \in Taps : slash'[i] = Slash!Sees(slash[i], who, chan)
    BY <1>1 DEF Slash!Watched, Slash!Sees
  <2>2. ASSUME NEW i \in Taps
        PROVE  /\ slash'[i] \in Interactions /\ InteractionTrue(slash'[i], who, chan)
               /\ slash[i].homes \subseteq slash'[i].homes /\ slash'[i].done = slash[i].done
    <3>1. slash[i] \in Interactions /\ InteractionTrue(slash[i], paired, realm)
      BY <1>0
    <3> DEFINE o == slash[i]
    <3> HIDE DEF o
    <3>2. o \in Interactions /\ InteractionTrue(o, paired, realm)
      BY <3>1 DEF o
    <3>3. /\ Slash!Sees(o, who, chan) \in Interactions
          /\ InteractionTrue(Slash!Sees(o, who, chan), who, chan)
          /\ o.homes \subseteq Slash!Sees(o, who, chan).homes
          /\ Slash!Sees(o, who, chan).done = o.done
      BY <3>2, WatchedTrue
    <3>4. slash'[i] = Slash!Sees(o, who, chan)
      BY <2>1 DEF o
    <3>5. QED
      BY <3>3, <3>4 DEF o
  <2>3. slash' \in [Taps -> Interactions]
    BY <1>1, <2>2 DEF Slash!Watched
  <2>4. QED
    BY <1>1, <2>2, <2>3 DEF SlashInv, SlashTyped, QueuedOnce
<1>2. ASSUME NEW u \in Members, Slash!Pair(u) PROVE SlashInv'
  <2>1. PICK who \in SUBSET Members : paired' = who
    BY <1>0, <1>2 DEF Slash!Pair
  <2>2. slash' = Slash!Watched(who, realm) /\ UNCHANGED <<realm, queue, taken>>
    BY <1>2, <2>1 DEF Slash!Pair
  <2>3. QED
    BY <1>0, <1>1, <2>1, <2>2
<1>3. CASE Slash!Rebind
  <2>1. PICK c \in Chans : realm' = c
    BY <1>3 DEF Slash!Rebind
  <2>2. slash' = Slash!Watched(paired, c) /\ UNCHANGED <<paired, queue, taken>>
    BY <1>3, <2>1 DEF Slash!Rebind
  <2>3. QED
    BY <1>0, <1>1, <2>1, <2>2
<1>4. ASSUME NEW i \in Taps, Slash!Tap(i) PROVE SlashInv'
  <2>1. PICK k \in Slash!Kinds, u \in Members, out \in BOOLEAN, aim \in BOOLEAN :
          Slash!Put(i, [Slash!NoTap EXCEPT !.step = "sent", !.kind = k, !.user = u,
                          !.outside = out, !.aimed = aim, !.roster = paired, !.homes = {realm},
                          !.open = paired = {}])
    BY <1>4, Zenon DEF Slash!Tap
  <2>10. PICK b \in BOOLEAN : b = (paired = {})
    OBVIOUS
  <2> DEFINE o == [Slash!NoTap EXCEPT !.step = "sent", !.kind = k, !.user = u, !.outside = out,
                                 !.aimed = aim, !.roster = paired, !.homes = {realm},
                                 !.open = b]
  <2>2. slash[i].step = "none" /\ UNCHANGED <<paired, realm, queue, taken>>
    BY <1>4 DEF Slash!Tap, Slash!desk
  <2>3. /\ None # "done" /\ o \in Interactions /\ o.step = "sent" /\ o.kind \in Slash!Kinds
        /\ o.user = u /\ o.done = 0 /\ o.seen = FALSE
        /\ o.roster = paired /\ o.homes = {realm} /\ o.open = b /\ o.reply = None
    <3>1. PICK n : n = Slash!NoTap
      OBVIOUS
    <3>2. n \in Interactions
      BY <3>1 DEF Interactions, Slash!NoTap
    <3>3. n.done = 0 /\ n.seen = FALSE /\ n.reply = None
      BY <3>1 DEF Slash!NoTap
    <3> DEFINE p == [n EXCEPT !.step = "sent", !.kind = k, !.user = u, !.outside = out]
               q == [p EXCEPT !.aimed = aim, !.roster = paired, !.homes = {realm}]
    <3>4. o = [q EXCEPT !.open = b]
      BY <3>1
    <3>5. /\ p \in Interactions /\ p.step = "sent" /\ p.kind = k /\ p.user = u
          /\ p.done = 0 /\ p.seen = FALSE /\ p.reply = None
      BY <3>2, <3>3 DEF Interactions
    <3> HIDE DEF o, p
    <3>6. /\ q \in Interactions /\ q.step = p.step /\ q.kind = p.kind /\ q.user = p.user
          /\ q.done = p.done /\ q.seen = p.seen /\ q.reply = p.reply
          /\ q.roster = paired /\ q.homes = {realm}
      <4>1. paired \in SUBSET Members /\ {realm} \in SUBSET Chans
        BY <1>0
      <4>2. PICK who \in SUBSET Members, where \in SUBSET Chans : who = paired /\ where = {realm}
        BY <4>1
      <4>3. q = [p EXCEPT !.aimed = aim, !.roster = who, !.homes = where]
        BY <4>2
      <4> HIDE DEF q
      <4>4. q \in Interactions
        <5> DEFINE a == [p EXCEPT !.aimed = aim]
                   c == [a EXCEPT !.roster = who]
        <5>1. a \in Interactions
          BY <3>5 DEF Interactions
        <5>2. q = [c EXCEPT !.homes = where]
          BY <4>3
        <5> HIDE DEF a
        <5>3. c \in Interactions
          BY <5>1 DEF Interactions
        <5> HIDE DEF c
        <5>4. QED
          BY <5>2, <5>3 DEF Interactions
      <4>5. /\ q.step = p.step /\ q.kind = p.kind /\ q.user = p.user
            /\ q.done = p.done /\ q.seen = p.seen /\ q.reply = p.reply
        BY <3>5, <4>3 DEF Interactions
      <4>6. q.roster = who /\ q.homes = where
        BY <3>5, <4>3 DEF Interactions
      <4>7. QED
        BY <4>2, <4>4, <4>5, <4>6
    <3> HIDE DEF q
    <3>7. /\ o.step = q.step /\ o.kind = q.kind /\ o.user = q.user /\ o.done = q.done
          /\ o.seen = q.seen /\ o.reply = q.reply /\ o.roster = q.roster
          /\ o.homes = q.homes /\ o.open = b /\ o \in Interactions
      BY <3>4, <3>6 DEF Interactions
    <3>8. QED
      BY <1>0, <2>10, <3>5, <3>6, <3>7
  <2>4. slash' = [slash EXCEPT ![i] = o]
    BY <2>1, <2>10 DEF Slash!Put
  <2> HIDE DEF o
  <2>5. InteractionTrue(o, paired, realm)
    BY <2>3, <2>10 DEF InteractionTrue, Unasked, Entitled, Interactions
  <2>6. slash[i].done = 0
    BY <1>0, <2>2 DEF InteractionTrue
  <2>7. Becomes(i, o)
    BY <2>3, <2>4, <2>5, <2>6 DEF Becomes
  <2>8. QED
    BY <2>2, <2>7, OneMoves
<1>5. ASSUME NEW i \in Taps, Slash!Open(i) PROVE SlashInv'
  <2> DEFINE t == slash[i]
  <2>0. /\ t \in Interactions /\ InteractionTrue(t, paired, realm) /\ None # "done"
        /\ UNCHANGED <<paired, realm, taken>> /\ queue' \subseteq queue
    BY <1>0, <1>5 DEF Slash!Open, Slash!desk
  <2>1. ASSUME t.kind = "on", ~Strict, ~t.outside PROVE SlashInv'
      <3> DEFINE o == [t EXCEPT !.step = "seed"]
      <3>2. /\ t.step = "sent" /\ t.kind = "on" /\ Seeds(t)
            /\ slash' = [slash EXCEPT ![i] = o]
        BY <1>5, <2>0, <2>1 DEF Slash!Open, Slash!Put, Slash!Goes, Slash!Outside, Seeds
      <3>3. /\ o \in Interactions
            /\ o.step = "seed" /\ o.kind = t.kind /\ o.user = t.user
            /\ o.outside = t.outside /\ o.chan = t.chan /\ o.reply = t.reply
            /\ o.seen = t.seen /\ o.done = t.done /\ o.roster = t.roster
            /\ o.homes = t.homes /\ o.open = t.open /\ o.blind = t.blind
        BY <2>0, <2>1 DEF Interactions, Slash!Kinds
      <3> HIDE DEF o
      <3>4. InteractionTrue(o, paired, realm)
        BY <2>0, <3>2, <3>3, <2>1
           DEF InteractionTrue, Unasked, Entitled, Seeds, Homed, Slash!Kinds, Slash!Guarded
      <3>5. Becomes(i, o)
        BY <2>0, <3>2, <3>3, <3>4 DEF Becomes, InteractionTrue, Unasked, Interactions
      <3>6. QED
        BY <2>0, <3>5, OneMoves
  <2>11. ASSUME t.kind = "message" PROVE SlashInv'
      <3> DEFINE o == [t EXCEPT !.step = "aim"]
      <3>2. /\ t.step = "sent" /\ t.kind = "message"
            /\ slash' = [slash EXCEPT ![i] = o]
        BY <1>5, <2>0, <2>11 DEF Slash!Open, Slash!Put, Slash!Goes, Slash!Outside
      <3>3. /\ o \in Interactions
            /\ o.step = "aim" /\ o.kind = t.kind /\ o.user = t.user
            /\ o.outside = t.outside /\ o.chan = t.chan /\ o.reply = t.reply
            /\ o.seen = t.seen /\ o.done = t.done /\ o.roster = t.roster
            /\ o.homes = t.homes /\ o.open = t.open /\ o.blind = t.blind
        BY <2>0, <2>11 DEF Interactions, Slash!Kinds
      <3> HIDE DEF o
      <3>4. InteractionTrue(o, paired, realm)
        BY <2>0, <3>2, <3>3, <2>11
           DEF InteractionTrue, Unasked, Entitled, Seeds, Homed, Slash!Kinds, Slash!Guarded
      <3>5. Becomes(i, o)
        BY <2>0, <3>2, <3>3, <3>4 DEF Becomes, InteractionTrue, Unasked, Interactions
      <3>6. QED
        BY <2>0, <3>5, OneMoves
  <2>21. ASSUME t.kind = "look" PROVE SlashInv'
      <3> DEFINE o == [t EXCEPT !.step = "look"]
      <3>2. /\ t.step = "sent" /\ t.kind = "look"
            /\ slash' = [slash EXCEPT ![i] = o]
        BY <1>5, <2>0, <2>21 DEF Slash!Open, Slash!Put, Slash!Goes, Slash!Outside
      <3>3. /\ o \in Interactions
            /\ o.step = "look" /\ o.kind = t.kind /\ o.user = t.user
            /\ o.outside = t.outside /\ o.chan = t.chan /\ o.reply = t.reply
            /\ o.seen = t.seen /\ o.done = t.done /\ o.roster = t.roster
            /\ o.homes = t.homes /\ o.open = t.open /\ o.blind = t.blind
        BY <2>0, <2>21 DEF Interactions, Slash!Kinds
      <3> HIDE DEF o
      <3>4. InteractionTrue(o, paired, realm)
        BY <2>0, <3>2, <3>3, <2>21
           DEF InteractionTrue, Unasked, Entitled, Seeds, Homed, Slash!Kinds, Slash!Guarded
      <3>5. Becomes(i, o)
        BY <2>0, <3>2, <3>3, <3>4 DEF Becomes, InteractionTrue, Unasked, Interactions
      <3>6. QED
        BY <2>0, <3>5, OneMoves
  <2>31. ASSUME t.kind \in Slash!Guarded, t.kind = "on" => Strict \/ t.outside PROVE SlashInv'
      <3> DEFINE o == [t EXCEPT !.step = "check"]
      <3>2. /\ t.step = "sent" /\ t.kind \in Slash!Guarded
            /\ slash' = [slash EXCEPT ![i] = o]
        BY <1>5, <2>0, <2>31 DEF Slash!Open, Slash!Put, Slash!Goes, Slash!Outside, Slash!Guarded
      <3>3. /\ o \in Interactions
            /\ o.step = "check" /\ o.kind = t.kind /\ o.user = t.user
            /\ o.outside = t.outside /\ o.chan = t.chan /\ o.reply = t.reply
            /\ o.seen = t.seen /\ o.done = t.done /\ o.roster = t.roster
            /\ o.homes = t.homes /\ o.open = t.open /\ o.blind = t.blind
        BY <2>0, <2>31 DEF Interactions, Slash!Kinds
      <3> HIDE DEF o
      <3>4. InteractionTrue(o, paired, realm)
        BY <2>0, <3>2, <3>3, <2>31
           DEF InteractionTrue, Unasked, Entitled, Seeds, Homed, Slash!Kinds, Slash!Guarded
      <3>5. Becomes(i, o)
        BY <2>0, <3>2, <3>3, <3>4 DEF Becomes, InteractionTrue, Unasked, Interactions
      <3>6. QED
        BY <2>0, <3>5, OneMoves
  <2>100. QED
    BY <1>5, <2>0, <2>1, <2>11, <2>21, <2>31
       DEF Slash!Open, InteractionTrue, Slash!Kinds, Slash!Guarded
<1>6. ASSUME NEW i \in Taps, Slash!LookUp(i) PROVE SlashInv'
  <2> DEFINE t == slash[i]
  <2>0. /\ t \in Interactions /\ InteractionTrue(t, paired, realm) /\ None # "done"
        /\ UNCHANGED <<paired, realm, taken>> /\ queue' \subseteq queue
    BY <1>0, <1>6 DEF Slash!LookUp, Slash!desk
    <2> DEFINE o == [t EXCEPT !.step = "reply", !.reply = "done"]
    <2>2. /\ t.step = "look"
          /\ slash' = [slash EXCEPT ![i] = o]
      BY <1>6, <2>0 DEF Slash!LookUp, Slash!Put
    <2>3. /\ o \in Interactions
          /\ o.step = "reply" /\ o.kind = t.kind /\ o.user = t.user
          /\ o.outside = t.outside /\ o.chan = t.chan /\ o.reply = "done"
          /\ o.seen = t.seen /\ o.done = t.done /\ o.roster = t.roster
          /\ o.homes = t.homes /\ o.open = t.open /\ o.blind = t.blind
      BY <2>0 DEF Interactions, Slash!Kinds
    <2> HIDE DEF o
    <2>4. InteractionTrue(o, paired, realm)
      BY <2>0, <2>2, <2>3
         DEF InteractionTrue, Unasked, Entitled, Seeds, Homed, Slash!Kinds, Slash!Guarded
    <2>5. Becomes(i, o)
      BY <2>0, <2>2, <2>3, <2>4 DEF Becomes, InteractionTrue, Unasked, Interactions
    <2>6. QED
      BY <2>0, <2>5, OneMoves
<1>7. ASSUME NEW i \in Taps, Slash!Check(i) PROVE SlashInv'
  <2> DEFINE t == slash[i]
  <2>0. /\ t \in Interactions /\ InteractionTrue(t, paired, realm) /\ None # "done"
        /\ UNCHANGED <<paired, realm, taken>> /\ queue' \subseteq queue
    BY <1>0, <1>7 DEF Slash!Check, Slash!desk
  <2>1. ASSUME ~Slash!MayOperate(i, paired # {}) PROVE SlashInv'
      <3> DEFINE o == [t EXCEPT !.step = "reply", !.reply = "denied"]
      <3>2. /\ t.step = "check"
            /\ slash' = [slash EXCEPT ![i] = o]
        BY <1>7, <2>0, <2>1
           DEF Slash!Check, Slash!AfterCheck, Slash!Put, Slash!Goes, Slash!Denied
      <3>3. /\ o \in Interactions
            /\ o.step = "reply" /\ o.kind = t.kind /\ o.user = t.user
            /\ o.outside = t.outside /\ o.chan = t.chan /\ o.reply = "denied"
            /\ o.seen = t.seen /\ o.done = t.done /\ o.roster = t.roster
            /\ o.homes = t.homes /\ o.open = t.open /\ o.blind = t.blind
        BY <2>0, <2>1 DEF Interactions, Slash!Kinds
      <3> HIDE DEF o
      <3>4. InteractionTrue(o, paired, realm)
        BY <2>0, <3>2, <3>3, <2>1
           DEF InteractionTrue, Unasked, Entitled, Seeds, Homed, Slash!Kinds, Slash!Guarded
      <3>5. Becomes(i, o)
        BY <2>0, <3>2, <3>3, <3>4 DEF Becomes, InteractionTrue, Unasked, Interactions
      <3>6. QED
        BY <2>0, <3>5, OneMoves
  <2>11. ASSUME Slash!MayOperate(i, paired # {}), t.kind = "ask" PROVE SlashInv'
      <3> DEFINE o == [t EXCEPT !.step = "aim"]
      <3>2. /\ t.step = "check" /\ t.kind = "ask"
            /\ slash' = [slash EXCEPT ![i] = o]
        BY <1>7, <2>0, <2>11
           DEF Slash!Check, Slash!AfterCheck, Slash!Put, Slash!Goes, Slash!Denied
      <3>3. /\ o \in Interactions
            /\ o.step = "aim" /\ o.kind = t.kind /\ o.user = t.user
            /\ o.outside = t.outside /\ o.chan = t.chan /\ o.reply = t.reply
            /\ o.seen = t.seen /\ o.done = t.done /\ o.roster = t.roster
            /\ o.homes = t.homes /\ o.open = t.open /\ o.blind = t.blind
        BY <2>0, <2>11 DEF Interactions, Slash!Kinds
      <3> HIDE DEF o
      <3>4. InteractionTrue(o, paired, realm)
        BY <2>0, <3>2, <3>3, <2>11
           DEF InteractionTrue, Unasked, Entitled, Seeds, Homed, Slash!Kinds, Slash!Guarded
      <3>5. Becomes(i, o)
        BY <2>0, <3>2, <3>3, <3>4 DEF Becomes, InteractionTrue, Unasked, Interactions
      <3>6. QED
        BY <2>0, <3>5, OneMoves
  <2>21. ASSUME Slash!MayOperate(i, paired # {}), t.kind = "job" PROVE SlashInv'
      <3> DEFINE o == [t EXCEPT !.step = "look"]
      <3>2. /\ t.step = "check" /\ t.kind = "job" /\ Entitled(t)
            /\ slash' = [slash EXCEPT ![i] = o]
        BY <1>7, <2>0, <2>21
           DEF Slash!Check, Slash!AfterCheck, Slash!Put, Slash!Goes, Slash!Denied,
               Slash!MayOperate, Slash!Paired, Slash!Outside, InteractionTrue, Unasked,
               Entitled, Seeds
      <3>3. /\ o \in Interactions
            /\ o.step = "look" /\ o.kind = t.kind /\ o.user = t.user
            /\ o.outside = t.outside /\ o.chan = t.chan /\ o.reply = t.reply
            /\ o.seen = t.seen /\ o.done = t.done /\ o.roster = t.roster
            /\ o.homes = t.homes /\ o.open = t.open /\ o.blind = t.blind
        BY <2>0, <2>21 DEF Interactions, Slash!Kinds
      <3> HIDE DEF o
      <3>4. InteractionTrue(o, paired, realm)
        BY <2>0, <3>2, <3>3, <2>21
           DEF InteractionTrue, Unasked, Entitled, Seeds, Homed, Slash!Kinds, Slash!Guarded
      <3>5. Becomes(i, o)
        BY <2>0, <3>2, <3>3, <3>4 DEF Becomes, InteractionTrue, Unasked, Interactions
      <3>6. QED
        BY <2>0, <3>5, OneMoves
  <2>31. ASSUME Slash!MayOperate(i, paired # {}), t.kind \notin {"ask", "job"} PROVE SlashInv'
      <3> DEFINE o == [t EXCEPT !.step = "effect"]
      <3>2. /\ t.step = "check" /\ t.kind \in {"on", "act"} /\ Entitled(t)
            /\ slash' = [slash EXCEPT ![i] = o]
        BY <1>7, <2>0, <2>31
           DEF Slash!Check, Slash!AfterCheck, Slash!Put, Slash!Goes, Slash!Denied,
               Slash!MayOperate, Slash!Paired, Slash!Outside, InteractionTrue, Unasked,
               Entitled, Seeds, Slash!Guarded
      <3>3. /\ o \in Interactions
            /\ o.step = "effect" /\ o.kind = t.kind /\ o.user = t.user
            /\ o.outside = t.outside /\ o.chan = t.chan /\ o.reply = t.reply
            /\ o.seen = t.seen /\ o.done = t.done /\ o.roster = t.roster
            /\ o.homes = t.homes /\ o.open = t.open /\ o.blind = t.blind
        BY <2>0, <2>31 DEF Interactions, Slash!Kinds
      <3> HIDE DEF o
      <3>4. InteractionTrue(o, paired, realm)
        BY <2>0, <3>2, <3>3, <2>31
           DEF InteractionTrue, Unasked, Entitled, Seeds, Homed, Slash!Kinds, Slash!Guarded
      <3>5. Becomes(i, o)
        BY <2>0, <3>2, <3>3, <3>4 DEF Becomes, InteractionTrue, Unasked, Interactions
      <3>6. QED
        BY <2>0, <3>5, OneMoves
  <2>100. QED
    BY <1>7, <2>0, <2>1, <2>11, <2>21, <2>31 DEF Slash!Check
<1>8. ASSUME NEW i \in Taps, Slash!Aim(i) PROVE SlashInv'
  <2> DEFINE t == slash[i]
  <2>0. /\ t \in Interactions /\ InteractionTrue(t, paired, realm)
        /\ UNCHANGED <<paired, realm, taken>> /\ queue' \subseteq queue
    BY <1>0, <1>8 DEF Slash!Aim, Slash!desk
  <2>1. PICK c \in Chans \cup {"here"} : c = Slash!Target(i) /\ (c = "here" \/ c = realm)
    BY <1>0 DEF Slash!Target
  <2> DEFINE o == [t EXCEPT !.step = "dispatch", !.chan = c]
  <2>2. /\ t.step = "aim" /\ slash' = [slash EXCEPT ![i] = o]
    BY <1>8, <2>1 DEF Slash!Aim, Slash!Put
  <2>3. /\ o \in Interactions /\ o.step = "dispatch" /\ o.chan = c
        /\ o.kind = t.kind /\ o.user = t.user /\ o.outside = t.outside /\ o.reply = t.reply
        /\ o.seen = t.seen /\ o.done = t.done /\ o.roster = t.roster /\ o.homes = t.homes
        /\ o.open = t.open /\ o.blind = t.blind
    BY <2>0, <2>1 DEF Interactions
  <2> HIDE DEF o
  <2>4. InteractionTrue(o, paired, realm)
    BY <2>0, <2>1, <2>2, <2>3 DEF InteractionTrue, Unasked, Entitled, Seeds, Homed, Slash!Kinds
  <2>5. Becomes(i, o)
    BY <2>0, <2>2, <2>3, <2>4 DEF Becomes, InteractionTrue, Unasked
  <2>6. QED
    BY <2>0, <2>5, OneMoves
<1>9. ASSUME NEW i \in Taps, Slash!Dispatch(i) PROVE SlashInv'
  <2> DEFINE t == slash[i]
  <2>0. /\ t \in Interactions /\ InteractionTrue(t, paired, realm) /\ None # "done"
        /\ UNCHANGED <<paired, realm, taken>> /\ queue' \subseteq queue
    BY <1>0, <1>9 DEF Slash!Dispatch, Slash!desk
  <2>1. ASSUME Slash!Paired(i), mode = "gateway" PROVE SlashInv'
      <3> DEFINE o == [t EXCEPT !.step = "effect"]
      <3>2. /\ t.step = "dispatch" /\ Entitled(t)
            /\ slash' = [slash EXCEPT ![i] = o]
        BY <1>9, <2>0, <2>1
           DEF Slash!Dispatch, Slash!AfterDispatch, Slash!Put, Slash!Goes, Slash!Denied,
               Slash!Paired, InteractionTrue, Unasked
      <3>3. /\ o \in Interactions
            /\ o.step = "effect" /\ o.kind = t.kind /\ o.user = t.user
            /\ o.outside = t.outside /\ o.chan = t.chan /\ o.reply = t.reply
            /\ o.seen = t.seen /\ o.done = t.done /\ o.roster = t.roster
            /\ o.homes = t.homes /\ o.open = t.open /\ o.blind = t.blind
        BY <2>0, <2>1 DEF Interactions, Slash!Kinds
      <3> HIDE DEF o
      <3>4. InteractionTrue(o, paired, realm)
        BY <2>0, <3>2, <3>3, <2>1
           DEF InteractionTrue, Unasked, Entitled, Seeds, Homed, Slash!Kinds, Slash!Guarded
      <3>5. Becomes(i, o)
        BY <2>0, <3>2, <3>3, <3>4 DEF Becomes, InteractionTrue, Unasked, Interactions
      <3>6. QED
        BY <2>0, <3>5, OneMoves
  <2>11. ASSUME Slash!Paired(i), mode # "gateway" PROVE SlashInv'
      <3> DEFINE o == [t EXCEPT !.step = "reply", !.reply = "noQueue"]
      <3>2. /\ t.step = "dispatch"
            /\ slash' = [slash EXCEPT ![i] = o]
        BY <1>9, <2>0, <2>11
           DEF Slash!Dispatch, Slash!AfterDispatch, Slash!Put, Slash!Goes, Slash!Denied
      <3>3. /\ o \in Interactions
            /\ o.step = "reply" /\ o.kind = t.kind /\ o.user = t.user
            /\ o.outside = t.outside /\ o.chan = t.chan /\ o.reply = "noQueue"
            /\ o.seen = t.seen /\ o.done = t.done /\ o.roster = t.roster
            /\ o.homes = t.homes /\ o.open = t.open /\ o.blind = t.blind
        BY <2>0, <2>11 DEF Interactions, Slash!Kinds
      <3> HIDE DEF o
      <3>4. InteractionTrue(o, paired, realm)
        BY <2>0, <3>2, <3>3, <2>11
           DEF InteractionTrue, Unasked, Entitled, Seeds, Homed, Slash!Kinds, Slash!Guarded
      <3>5. Becomes(i, o)
        BY <2>0, <3>2, <3>3, <3>4 DEF Becomes, InteractionTrue, Unasked, Interactions
      <3>6. QED
        BY <2>0, <3>5, OneMoves
  <2>21. ASSUME ~Slash!Paired(i), paired = {}, Slash!MaySeed(i) PROVE SlashInv'
      <3> DEFINE o == [t EXCEPT !.step = "seed"]
      <3>2. /\ t.step = "dispatch" /\ Seeds(t)
            /\ slash' = [slash EXCEPT ![i] = o]
        BY <1>9, <2>0, <2>21
           DEF Slash!Dispatch, Slash!AfterDispatch, Slash!Put, Slash!Goes, Slash!Denied,
               Slash!MaySeed, Slash!Outside, Seeds
      <3>3. /\ o \in Interactions
            /\ o.step = "seed" /\ o.kind = t.kind /\ o.user = t.user
            /\ o.outside = t.outside /\ o.chan = t.chan /\ o.reply = t.reply
            /\ o.seen = t.seen /\ o.done = t.done /\ o.roster = t.roster
            /\ o.homes = t.homes /\ o.open = t.open /\ o.blind = t.blind
        BY <2>0, <2>21 DEF Interactions, Slash!Kinds
      <3> HIDE DEF o
      <3>4. InteractionTrue(o, paired, realm)
        BY <2>0, <3>2, <3>3, <2>21
           DEF InteractionTrue, Unasked, Entitled, Seeds, Homed, Slash!Kinds, Slash!Guarded
      <3>5. Becomes(i, o)
        BY <2>0, <3>2, <3>3, <3>4 DEF Becomes, InteractionTrue, Unasked, Interactions
      <3>6. QED
        BY <2>0, <3>5, OneMoves
  <2>31. ASSUME ~Slash!Paired(i), ~(paired = {} /\ Slash!MaySeed(i)) PROVE SlashInv'
      <3> DEFINE o == [t EXCEPT !.step = "reply", !.reply = "denied"]
      <3>2. /\ t.step = "dispatch"
            /\ slash' = [slash EXCEPT ![i] = o]
        BY <1>9, <2>0, <2>31
           DEF Slash!Dispatch, Slash!AfterDispatch, Slash!Put, Slash!Goes, Slash!Denied
      <3>3. /\ o \in Interactions
            /\ o.step = "reply" /\ o.kind = t.kind /\ o.user = t.user
            /\ o.outside = t.outside /\ o.chan = t.chan /\ o.reply = "denied"
            /\ o.seen = t.seen /\ o.done = t.done /\ o.roster = t.roster
            /\ o.homes = t.homes /\ o.open = t.open /\ o.blind = t.blind
        BY <2>0, <2>31 DEF Interactions, Slash!Kinds
      <3> HIDE DEF o
      <3>4. InteractionTrue(o, paired, realm)
        BY <2>0, <3>2, <3>3, <2>31
           DEF InteractionTrue, Unasked, Entitled, Seeds, Homed, Slash!Kinds, Slash!Guarded
      <3>5. Becomes(i, o)
        BY <2>0, <3>2, <3>3, <3>4 DEF Becomes, InteractionTrue, Unasked, Interactions
      <3>6. QED
        BY <2>0, <3>5, OneMoves
  <2>100. QED
    BY <1>9, <2>0, <2>1, <2>11, <2>21, <2>31 DEF Slash!Dispatch
<1>19. ASSUME NEW i \in Taps, Slash!Seed(i) PROVE SlashInv'
  <2> DEFINE t == slash[i]
  <2>0. /\ t \in Interactions /\ InteractionTrue(t, paired, realm) /\ None # "done"
        /\ UNCHANGED <<paired, realm, taken>> /\ queue' \subseteq queue
    BY <1>0, <1>19 DEF Slash!Seed, Slash!desk
  <2>1. ASSUME paired = {} PROVE SlashInv'
      <3> DEFINE o == [t EXCEPT !.step = "insert"]
      <3>2. /\ t.step = "seed" /\ t.open
            /\ slash' = [slash EXCEPT ![i] = o]
        BY <1>19, <2>0, <2>1
           DEF Slash!Seed, Slash!Put, Slash!Goes, Slash!Denied, InteractionTrue, Unasked
      <3>3. /\ o \in Interactions
            /\ o.step = "insert" /\ o.kind = t.kind /\ o.user = t.user
            /\ o.outside = t.outside /\ o.chan = t.chan /\ o.reply = t.reply
            /\ o.seen = t.seen /\ o.done = t.done /\ o.roster = t.roster
            /\ o.homes = t.homes /\ o.open = t.open /\ o.blind = t.blind
        BY <2>0, <2>1 DEF Interactions, Slash!Kinds
      <3> HIDE DEF o
      <3>4. InteractionTrue(o, paired, realm)
        BY <2>0, <3>2, <3>3, <2>1
           DEF InteractionTrue, Unasked, Entitled, Seeds, Homed, Slash!Kinds, Slash!Guarded
      <3>5. Becomes(i, o)
        BY <2>0, <3>2, <3>3, <3>4 DEF Becomes, InteractionTrue, Unasked, Interactions
      <3>6. QED
        BY <2>0, <3>5, OneMoves
  <2>11. ASSUME paired # {}, t.kind = "on" PROVE SlashInv'
      <3> DEFINE o == [t EXCEPT !.step = "check"]
      <3>2. /\ t.step = "seed" /\ t.kind \in Slash!Guarded
            /\ slash' = [slash EXCEPT ![i] = o]
        BY <1>19, <2>0, <2>11 DEF Slash!Seed, Slash!Put, Slash!Goes, Slash!Denied, Slash!Guarded
      <3>3. /\ o \in Interactions
            /\ o.step = "check" /\ o.kind = t.kind /\ o.user = t.user
            /\ o.outside = t.outside /\ o.chan = t.chan /\ o.reply = t.reply
            /\ o.seen = t.seen /\ o.done = t.done /\ o.roster = t.roster
            /\ o.homes = t.homes /\ o.open = t.open /\ o.blind = t.blind
        BY <2>0, <2>11 DEF Interactions, Slash!Kinds
      <3> HIDE DEF o
      <3>4. InteractionTrue(o, paired, realm)
        BY <2>0, <3>2, <3>3, <2>11
           DEF InteractionTrue, Unasked, Entitled, Seeds, Homed, Slash!Kinds, Slash!Guarded
      <3>5. Becomes(i, o)
        BY <2>0, <3>2, <3>3, <3>4 DEF Becomes, InteractionTrue, Unasked, Interactions
      <3>6. QED
        BY <2>0, <3>5, OneMoves
  <2>21. ASSUME paired # {}, t.kind # "on" PROVE SlashInv'
      <3> DEFINE o == [t EXCEPT !.step = "reply", !.reply = "denied"]
      <3>2. /\ t.step = "seed"
            /\ slash' = [slash EXCEPT ![i] = o]
        BY <1>19, <2>0, <2>21 DEF Slash!Seed, Slash!Put, Slash!Goes, Slash!Denied
      <3>3. /\ o \in Interactions
            /\ o.step = "reply" /\ o.kind = t.kind /\ o.user = t.user
            /\ o.outside = t.outside /\ o.chan = t.chan /\ o.reply = "denied"
            /\ o.seen = t.seen /\ o.done = t.done /\ o.roster = t.roster
            /\ o.homes = t.homes /\ o.open = t.open /\ o.blind = t.blind
        BY <2>0, <2>21 DEF Interactions, Slash!Kinds
      <3> HIDE DEF o
      <3>4. InteractionTrue(o, paired, realm)
        BY <2>0, <3>2, <3>3, <2>21
           DEF InteractionTrue, Unasked, Entitled, Seeds, Homed, Slash!Kinds, Slash!Guarded
      <3>5. Becomes(i, o)
        BY <2>0, <3>2, <3>3, <3>4 DEF Becomes, InteractionTrue, Unasked, Interactions
      <3>6. QED
        BY <2>0, <3>5, OneMoves
  <2>100. QED
    BY <1>19, <2>0, <2>1, <2>11, <2>21 DEF Slash!Seed
<1>20. ASSUME NEW i \in Taps, Slash!Insert(i) PROVE SlashInv'
  <2> DEFINE t == slash[i]
  <2>0. /\ t \in Interactions /\ InteractionTrue(t, paired, realm) /\ None # "done"
        /\ t.step = "insert" /\ UNCHANGED <<realm, queue, taken>>
    BY <1>0, <1>20 DEF Slash!Insert
  <2>1. PICK who \in SUBSET Members : who = paired \cup {t.user}
    <3>1. t.user \in Members
      BY <2>0 DEF InteractionTrue
    <3>2. QED
      BY <1>0, <3>1
  <2>2. PICK s \in {"check", "effect", "reply"}, r \in {t.reply, "noQueue"} :
          /\ t.kind = "on" => s = "check" /\ r = t.reply
          /\ t.kind # "on" => \/ mode = "gateway" /\ s = "effect" /\ r = t.reply
                              \/ mode # "gateway" /\ s = "reply" /\ r = "noQueue"
    OBVIOUS
  <2> DEFINE o == [t EXCEPT !.step = s, !.reply = r]
             w == Slash!Watched(who, realm)
  <2>3. paired' = who /\ slash' = [w EXCEPT ![i] = o]
    <3>1. o = IF t.kind = "on" THEN [t EXCEPT !.step = "check"] ELSE Slash!AfterDispatch(t)
      <4>1. t = [t EXCEPT !.reply = t.reply]
        BY <2>0 DEF Interactions
      <4>2. CASE r = t.reply
        BY <2>0, <2>2, <4>2 DEF Interactions, Slash!AfterDispatch
      <4>3. CASE r # t.reply
        BY <2>2, <4>3 DEF Slash!AfterDispatch
      <4>4. QED
        BY <4>2, <4>3
    <3>2. QED
      BY <1>20, <2>1, <3>1 DEF Slash!Insert
  <2>4. /\ o \in Interactions
        /\ o.step = s /\ o.kind = t.kind /\ o.user = t.user /\ o.outside = t.outside
        /\ o.chan = t.chan /\ o.reply = r /\ o.seen = t.seen /\ o.done = t.done
        /\ o.roster = t.roster /\ o.homes = t.homes /\ o.open = t.open /\ o.blind = t.blind
    BY <2>0, <2>2 DEF Interactions
  <2>5. w = [j \in Taps |-> w[j]] /\ \A j \in Taps : w[j] = Slash!Sees(slash[j], who, realm)
    BY DEF Slash!Watched
  <2> HIDE DEF o, w
  <2>6. slash'[i] = o /\ \A j \in Taps \ {i} : slash'[j] = Slash!Sees(slash[j], who, realm)
    BY <2>3, <2>5
  <2>7. InteractionTrue(slash'[i], who, realm)
    <3>1. Entitled(t) /\ Entitled(o) /\ t.seen = FALSE /\ t.done = 0
      BY <2>0, <2>4 DEF InteractionTrue, Unasked, Entitled, Seeds, Interactions
    <3>2. InteractionTrue(o, who, realm)
      BY <2>0, <2>1, <2>2, <2>4, <3>1
         DEF InteractionTrue, Unasked, Entitled, Seeds, Homed, Slash!Guarded
    <3>3. QED
      BY <2>6, <3>2
  <2>8. \A j \in Taps \ {i} :
          /\ slash'[j] \in Interactions /\ InteractionTrue(slash'[j], who, realm)
          /\ slash[j].homes \subseteq slash'[j].homes /\ slash'[j].done = slash[j].done
    <3>1. ASSUME NEW j \in Taps \ {i}
          PROVE  /\ slash'[j] \in Interactions /\ InteractionTrue(slash'[j], who, realm)
                 /\ slash[j].homes \subseteq slash'[j].homes /\ slash'[j].done = slash[j].done
      <4>1. slash[j] \in Interactions /\ InteractionTrue(slash[j], paired, realm)
        BY <1>0
      <4> DEFINE q == slash[j]
      <4> HIDE DEF q
      <4>2. q \in Interactions /\ InteractionTrue(q, paired, realm) /\ realm \in Chans
        BY <1>0, <4>1 DEF q
      <4>3. /\ Slash!Sees(q, who, realm) \in Interactions
            /\ InteractionTrue(Slash!Sees(q, who, realm), who, realm)
            /\ q.homes \subseteq Slash!Sees(q, who, realm).homes
            /\ Slash!Sees(q, who, realm).done = q.done
        BY <4>2, WatchedTrue
      <4>4. slash'[j] = Slash!Sees(q, who, realm)
        BY <2>6 DEF q
      <4>5. QED
        BY <4>3, <4>4 DEF q
    <3>2. QED
      BY <3>1
  <2>9. slash' \in [Taps -> Interactions]
    <3>1. slash' = [j \in Taps |-> slash'[j]]
      BY <2>3, <2>5
    <3>2. QED
      BY <2>4, <2>6, <2>8, <3>1
  <2>10. QED
    BY <2>0, <2>3, <2>4, <2>6, <2>7, <2>8, <2>9 DEF SlashInv, SlashTyped, QueuedOnce
<1>21. ASSUME NEW i \in Taps, Slash!CheckBlind(i) PROVE SlashInv'
  <2> DEFINE t == slash[i]
  <2>0. /\ t \in Interactions /\ InteractionTrue(t, paired, realm) /\ None # "done"
        /\ UNCHANGED <<paired, realm, taken>> /\ queue' \subseteq queue
    BY <1>0, <1>21 DEF Slash!CheckBlind, Slash!desk
  <2>1. ASSUME Strict PROVE SlashInv'
      <3> DEFINE o == [t EXCEPT !.step = "reply", !.reply = "denied"]
      <3>2. /\ t.step \in {"check", "dispatch"}
            /\ slash' = [slash EXCEPT ![i] = o]
        BY <1>21, <2>0, <2>1
           DEF Slash!CheckBlind, Slash!AfterCheck, Slash!Put, Slash!Goes, Slash!Denied,
               Slash!Outside
      <3>3. /\ o \in Interactions
            /\ o.step = "reply" /\ o.kind = t.kind /\ o.user = t.user
            /\ o.outside = t.outside /\ o.chan = t.chan /\ o.reply = "denied"
            /\ o.seen = t.seen /\ o.done = t.done /\ o.roster = t.roster
            /\ o.homes = t.homes /\ o.open = t.open /\ o.blind = t.blind
        BY <2>0, <2>1 DEF Interactions, Slash!Kinds
      <3> HIDE DEF o
      <3>4. InteractionTrue(o, paired, realm)
        BY <2>0, <3>2, <3>3, <2>1
           DEF InteractionTrue, Unasked, Entitled, Seeds, Homed, Slash!Kinds, Slash!Guarded
      <3>5. Becomes(i, o)
        BY <2>0, <3>2, <3>3, <3>4 DEF Becomes, InteractionTrue, Unasked, Interactions
      <3>6. QED
        BY <2>0, <3>5, OneMoves
  <2>11. ASSUME ~Strict, t.step = "dispatch" PROVE SlashInv'
      <3> DEFINE o == [t EXCEPT !.step = "seed"]
      <3>2. /\ t.step = "dispatch" /\ Seeds(t)
            /\ slash' = [slash EXCEPT ![i] = o]
        BY <1>21, <2>0, <2>11
           DEF Slash!CheckBlind, Slash!AfterCheck, Slash!Put, Slash!Goes, Slash!Denied,
               Slash!Outside, Seeds
      <3>3. /\ o \in Interactions
            /\ o.step = "seed" /\ o.kind = t.kind /\ o.user = t.user
            /\ o.outside = t.outside /\ o.chan = t.chan /\ o.reply = t.reply
            /\ o.seen = t.seen /\ o.done = t.done /\ o.roster = t.roster
            /\ o.homes = t.homes /\ o.open = t.open /\ o.blind = t.blind
        BY <2>0, <2>11 DEF Interactions, Slash!Kinds
      <3> HIDE DEF o
      <3>4. InteractionTrue(o, paired, realm)
        BY <2>0, <3>2, <3>3, <2>11
           DEF InteractionTrue, Unasked, Entitled, Seeds, Homed, Slash!Kinds, Slash!Guarded
      <3>5. Becomes(i, o)
        BY <2>0, <3>2, <3>3, <3>4 DEF Becomes, InteractionTrue, Unasked, Interactions
      <3>6. QED
        BY <2>0, <3>5, OneMoves
  <2>21. ASSUME ~Strict, t.step = "check", t.kind = "ask" PROVE SlashInv'
      <3> DEFINE o == [t EXCEPT !.step = "aim", !.blind = TRUE]
      <3>2. /\ t.step = "check" /\ Seeds(t) /\ t.kind = "ask"
            /\ slash' = [slash EXCEPT ![i] = o]
        BY <1>21, <2>0, <2>21
           DEF Slash!CheckBlind, Slash!AfterCheck, Slash!Put, Slash!Goes, Slash!Denied,
               Slash!Outside, Seeds
      <3>3. /\ o \in Interactions
            /\ o.step = "aim" /\ o.kind = t.kind /\ o.user = t.user
            /\ o.outside = t.outside /\ o.chan = t.chan /\ o.reply = t.reply
            /\ o.seen = t.seen /\ o.done = t.done /\ o.roster = t.roster
            /\ o.homes = t.homes /\ o.open = t.open /\ o.blind = TRUE
        BY <2>0, <2>21 DEF Interactions, Slash!Kinds
      <3> HIDE DEF o
      <3>4. InteractionTrue(o, paired, realm)
        BY <2>0, <3>2, <3>3, <2>21
           DEF InteractionTrue, Unasked, Entitled, Seeds, Homed, Slash!Kinds, Slash!Guarded
      <3>5. Becomes(i, o)
        BY <2>0, <3>2, <3>3, <3>4 DEF Becomes, InteractionTrue, Unasked, Interactions
      <3>6. QED
        BY <2>0, <3>5, OneMoves
  <2>31. ASSUME ~Strict, t.step = "check", t.kind = "job" PROVE SlashInv'
      <3> DEFINE o == [t EXCEPT !.step = "look", !.blind = TRUE]
      <3>2. /\ t.step = "check" /\ Seeds(t) /\ t.kind = "job"
            /\ slash' = [slash EXCEPT ![i] = o]
        BY <1>21, <2>0, <2>31
           DEF Slash!CheckBlind, Slash!AfterCheck, Slash!Put, Slash!Goes, Slash!Denied,
               Slash!Outside, Seeds
      <3>3. /\ o \in Interactions
            /\ o.step = "look" /\ o.kind = t.kind /\ o.user = t.user
            /\ o.outside = t.outside /\ o.chan = t.chan /\ o.reply = t.reply
            /\ o.seen = t.seen /\ o.done = t.done /\ o.roster = t.roster
            /\ o.homes = t.homes /\ o.open = t.open /\ o.blind = TRUE
        BY <2>0, <2>31 DEF Interactions, Slash!Kinds
      <3> HIDE DEF o
      <3>4. InteractionTrue(o, paired, realm)
        BY <2>0, <3>2, <3>3, <2>31
           DEF InteractionTrue, Unasked, Entitled, Seeds, Homed, Slash!Kinds, Slash!Guarded
      <3>5. Becomes(i, o)
        BY <2>0, <3>2, <3>3, <3>4 DEF Becomes, InteractionTrue, Unasked, Interactions
      <3>6. QED
        BY <2>0, <3>5, OneMoves
  <2>41. ASSUME ~Strict, t.step = "check", t.kind \notin {"ask", "job"} PROVE SlashInv'
      <3> DEFINE o == [t EXCEPT !.step = "effect", !.blind = TRUE]
      <3>2. /\ t.step = "check" /\ Seeds(t) /\ t.kind \in {"on", "act"}
            /\ slash' = [slash EXCEPT ![i] = o]
        BY <1>21, <2>0, <2>41
           DEF Slash!CheckBlind, Slash!AfterCheck, Slash!Put, Slash!Goes, Slash!Denied,
               Slash!Outside, Seeds, InteractionTrue, Slash!Guarded
      <3>3. /\ o \in Interactions
            /\ o.step = "effect" /\ o.kind = t.kind /\ o.user = t.user
            /\ o.outside = t.outside /\ o.chan = t.chan /\ o.reply = t.reply
            /\ o.seen = t.seen /\ o.done = t.done /\ o.roster = t.roster
            /\ o.homes = t.homes /\ o.open = t.open /\ o.blind = TRUE
        BY <2>0, <2>41 DEF Interactions, Slash!Kinds
      <3> HIDE DEF o
      <3>4. InteractionTrue(o, paired, realm)
        BY <2>0, <3>2, <3>3, <2>41
           DEF InteractionTrue, Unasked, Entitled, Seeds, Homed, Slash!Kinds, Slash!Guarded
      <3>5. Becomes(i, o)
        BY <2>0, <3>2, <3>3, <3>4 DEF Becomes, InteractionTrue, Unasked, Interactions
      <3>6. QED
        BY <2>0, <3>5, OneMoves
  <2>100. QED
    BY <1>21, <2>0, <2>1, <2>11, <2>21, <2>31, <2>41 DEF Slash!CheckBlind
<1>22. ASSUME NEW i \in Taps, Slash!CheckFails(i) PROVE SlashInv'
  <2> DEFINE t == slash[i]
  <2>0. /\ t \in Interactions /\ InteractionTrue(t, paired, realm) /\ None # "done"
        /\ UNCHANGED <<paired, realm, taken>> /\ queue' \subseteq queue
    BY <1>0, <1>22 DEF Slash!CheckFails, Slash!desk
    <2> DEFINE o == [t EXCEPT !.step = "reply", !.reply = "denied"]
    <2>2. /\ t.step \in {"check", "dispatch", "seed", "insert"}
          /\ slash' = [slash EXCEPT ![i] = o]
      BY <1>22, <2>0 DEF Slash!CheckFails, Slash!Put, Slash!Denied
    <2>3. /\ o \in Interactions
          /\ o.step = "reply" /\ o.kind = t.kind /\ o.user = t.user
          /\ o.outside = t.outside /\ o.chan = t.chan /\ o.reply = "denied"
          /\ o.seen = t.seen /\ o.done = t.done /\ o.roster = t.roster
          /\ o.homes = t.homes /\ o.open = t.open /\ o.blind = t.blind
      BY <2>0 DEF Interactions, Slash!Kinds
    <2> HIDE DEF o
    <2>4. InteractionTrue(o, paired, realm)
      BY <2>0, <2>2, <2>3
         DEF InteractionTrue, Unasked, Entitled, Seeds, Homed, Slash!Kinds, Slash!Guarded
    <2>5. Becomes(i, o)
      BY <2>0, <2>2, <2>3, <2>4 DEF Becomes, InteractionTrue, Unasked, Interactions
    <2>6. QED
      BY <2>0, <2>5, OneMoves
<1>23. ASSUME NEW i \in Taps, Slash!SeedFails(i) PROVE SlashInv'
  <2> DEFINE t == slash[i]
  <2>0. /\ t \in Interactions /\ InteractionTrue(t, paired, realm) /\ None # "done"
        /\ UNCHANGED <<paired, realm, taken>> /\ queue' \subseteq queue
    BY <1>0, <1>23 DEF Slash!SeedFails, Slash!desk
    <2> DEFINE o == [t EXCEPT !.step = "check"]
    <2>2. /\ t.step \in {"seed", "insert"} /\ t.kind \in Slash!Guarded
          /\ slash' = [slash EXCEPT ![i] = o]
      BY <1>23, <2>0 DEF Slash!SeedFails, Slash!Put, Slash!Goes, Slash!Guarded
    <2>3. /\ o \in Interactions
          /\ o.step = "check" /\ o.kind = t.kind /\ o.user = t.user
          /\ o.outside = t.outside /\ o.chan = t.chan /\ o.reply = t.reply
          /\ o.seen = t.seen /\ o.done = t.done /\ o.roster = t.roster
          /\ o.homes = t.homes /\ o.open = t.open /\ o.blind = t.blind
      BY <2>0 DEF Interactions, Slash!Kinds
    <2> HIDE DEF o
    <2>4. InteractionTrue(o, paired, realm)
      BY <2>0, <2>2, <2>3
         DEF InteractionTrue, Unasked, Entitled, Seeds, Homed, Slash!Kinds, Slash!Guarded
    <2>5. Becomes(i, o)
      BY <2>0, <2>2, <2>3, <2>4 DEF Becomes, InteractionTrue, Unasked, Interactions
    <2>6. QED
      BY <2>0, <2>5, OneMoves
<1>10. ASSUME NEW i \in Taps, Slash!Ask(i) PROVE SlashInv'
  <2> DEFINE t == slash[i]
             o == [t EXCEPT !.step = "reply", !.reply = "done", !.done = t.done + 1]
             a == [i |-> i, c |-> t.chan]
  <2>0. /\ t \in Interactions /\ InteractionTrue(t, paired, realm) /\ t.step = "effect"
        /\ t.kind \in {"ask", "message"} /\ UNCHANGED <<paired, realm, taken>>
        /\ queue' = queue \cup {a} /\ slash' = [slash EXCEPT ![i] = o]
    BY <1>0, <1>10 DEF Slash!Ask, Slash!Put
  <2>1. t.done = 0 /\ Homed(t) /\ Entitled(t) /\ t.seen # TRUE
    BY <2>0 DEF InteractionTrue
  <2>2. /\ o \in Interactions /\ o.step = "reply" /\ o.reply = "done" /\ o.done = 1
        /\ o.kind = t.kind /\ o.user = t.user /\ o.outside = t.outside /\ o.chan = t.chan
        /\ o.seen = t.seen /\ o.roster = t.roster /\ o.homes = t.homes
        /\ o.open = t.open /\ o.blind = t.blind
    <3>1. PICK d : d = t.done + 1
      OBVIOUS
    <3>2. d = 1
      BY <2>1, <3>1
    <3>3. o = [t EXCEPT !.step = "reply", !.reply = "done", !.done = d]
      BY <3>1
    <3>4. QED
      BY <2>0, <3>2, <3>3 DEF Interactions
  <2>3. a.i = i /\ a.c = t.chan
    OBVIOUS
  <2> HIDE DEF o, a
  <2>4. InteractionTrue(o, paired, realm)
    BY <2>0, <2>1, <2>2 DEF InteractionTrue, Unasked, Entitled, Seeds
  <2>5. slash' \in [Taps -> Interactions] /\ slash'[i] = o
        /\ \A j \in Taps \ {i} : slash'[j] = slash[j]
    BY <1>0, <2>0, <2>2
  <2>6. \A b \in queue \cup taken : b.i \in Taps /\ b.i # i
    BY <2>1 DEF SlashInv, SlashTyped, QueuedOnce
  <2>7. QueuedOnce'
    BY <2>0, <2>1, <2>2, <2>3, <2>5, <2>6 DEF SlashInv, QueuedOnce, Homed
  <2>8. SlashTyped'
    BY <2>0, <2>3, <2>5 DEF SlashInv, SlashTyped
  <2>9. QED
    BY <1>0, <2>0, <2>4, <2>5, <2>7, <2>8 DEF SlashInv
<1>11. ASSUME NEW i \in Taps, Slash!Act(i) PROVE SlashInv'
  <2> DEFINE t == slash[i]
  <2>0. /\ t \in Interactions /\ InteractionTrue(t, paired, realm)
        /\ UNCHANGED <<paired, realm, taken>> /\ queue' \subseteq queue
    BY <1>0, <1>11 DEF Slash!Act, Slash!desk
  <2> DEFINE o == [t EXCEPT !.step = "reply", !.reply = "done", !.done = @ + 1]
  <2>2. /\ t.step = "effect" /\ t.kind \in {"on", "act"} /\ slash' = [slash EXCEPT ![i] = o]
    BY <1>11 DEF Slash!Act, Slash!Put
  <2>3. /\ o \in Interactions /\ o.step = "reply" /\ o.reply = "done" /\ o.done = 1
        /\ o.kind = t.kind /\ o.user = t.user /\ o.outside = t.outside /\ o.chan = t.chan
        /\ o.seen = t.seen /\ o.roster = t.roster /\ o.homes = t.homes
        /\ o.open = t.open /\ o.blind = t.blind
    <3>1. PICK d : d = t.done + 1
      OBVIOUS
    <3>2. d = 1
      BY <2>0, <2>2, <3>1 DEF InteractionTrue
    <3>3. o = [t EXCEPT !.step = "reply", !.reply = "done", !.done = d]
      BY <3>1
    <3>4. QED
      BY <2>0, <3>2, <3>3 DEF Interactions
  <2> HIDE DEF o
  <2>4. InteractionTrue(o, paired, realm)
    BY <2>0, <2>2, <2>3 DEF InteractionTrue, Unasked, Entitled, Seeds, Homed, Slash!Kinds
  <2>5. Becomes(i, o)
    BY <2>0, <2>2, <2>3, <2>4 DEF Becomes, InteractionTrue, Unasked
  <2>6. QED
    BY <2>0, <2>5, OneMoves
<1>12. ASSUME NEW i \in Taps, Slash!EffectFails(i) PROVE SlashInv'
  <2> DEFINE t == slash[i]
  <2>0. /\ t \in Interactions /\ InteractionTrue(t, paired, realm) /\ None # "done"
        /\ UNCHANGED <<paired, realm, taken>> /\ queue' \subseteq queue
    BY <1>0, <1>12 DEF Slash!EffectFails, Slash!desk
    <2> DEFINE o == [t EXCEPT !.step = "reply", !.reply = "failed"]
    <2>2. /\ t.step \in {"look", "aim", "dispatch", "effect"}
          /\ slash' = [slash EXCEPT ![i] = o]
      BY <1>12, <2>0 DEF Slash!EffectFails, Slash!Put
    <2>3. /\ o \in Interactions
          /\ o.step = "reply" /\ o.kind = t.kind /\ o.user = t.user
          /\ o.outside = t.outside /\ o.chan = t.chan /\ o.reply = "failed"
          /\ o.seen = t.seen /\ o.done = t.done /\ o.roster = t.roster
          /\ o.homes = t.homes /\ o.open = t.open /\ o.blind = t.blind
      BY <2>0 DEF Interactions, Slash!Kinds
    <2> HIDE DEF o
    <2>4. InteractionTrue(o, paired, realm)
      BY <2>0, <2>2, <2>3
         DEF InteractionTrue, Unasked, Entitled, Seeds, Homed, Slash!Kinds, Slash!Guarded
    <2>5. Becomes(i, o)
      BY <2>0, <2>2, <2>3, <2>4 DEF Becomes, InteractionTrue, Unasked, Interactions
    <2>6. QED
      BY <2>0, <2>5, OneMoves
<1>13. ASSUME NEW i \in Taps, Slash!Reply(i) PROVE SlashInv'
  <2> DEFINE t == slash[i]
  <2>0. /\ t \in Interactions /\ InteractionTrue(t, paired, realm) /\ None # "done"
        /\ UNCHANGED <<paired, realm, taken>> /\ queue' \subseteq queue
    BY <1>0, <1>13 DEF Slash!Reply, Slash!desk
    <2> DEFINE o == [t EXCEPT !.step = "over", !.seen = TRUE]
    <2>2. /\ t.step = "reply"
          /\ slash' = [slash EXCEPT ![i] = o]
      BY <1>13, <2>0 DEF Slash!Reply, Slash!Put
    <2>3. /\ o \in Interactions
          /\ o.step = "over" /\ o.kind = t.kind /\ o.user = t.user
          /\ o.outside = t.outside /\ o.chan = t.chan /\ o.reply = t.reply
          /\ o.seen = TRUE /\ o.done = t.done /\ o.roster = t.roster /\ o.homes = t.homes
          /\ o.open = t.open /\ o.blind = t.blind
      BY <2>0 DEF Interactions, Slash!Kinds
    <2> HIDE DEF o
    <2>4. InteractionTrue(o, paired, realm)
      BY <2>0, <2>2, <2>3
         DEF InteractionTrue, Unasked, Entitled, Seeds, Homed, Slash!Kinds, Slash!Guarded
    <2>5. Becomes(i, o)
      BY <2>0, <2>2, <2>3, <2>4 DEF Becomes, InteractionTrue, Unasked, Interactions
    <2>6. QED
      BY <2>0, <2>5, OneMoves
<1>14. ASSUME NEW i \in Taps, Slash!ReplyLost(i) PROVE SlashInv'
  <2> DEFINE t == slash[i]
  <2>0. /\ t \in Interactions /\ InteractionTrue(t, paired, realm) /\ None # "done"
        /\ UNCHANGED <<paired, realm, taken>> /\ queue' \subseteq queue
    BY <1>0, <1>14 DEF Slash!ReplyLost, Slash!desk
    <2> DEFINE o == [t EXCEPT !.step = "over"]
    <2>2. /\ t.step = "reply"
          /\ slash' = [slash EXCEPT ![i] = o]
      BY <1>14, <2>0 DEF Slash!ReplyLost, Slash!Put
    <2>3. /\ o \in Interactions
          /\ o.step = "over" /\ o.kind = t.kind /\ o.user = t.user
          /\ o.outside = t.outside /\ o.chan = t.chan /\ o.reply = t.reply
          /\ o.seen = t.seen /\ o.done = t.done /\ o.roster = t.roster
          /\ o.homes = t.homes /\ o.open = t.open /\ o.blind = t.blind
      BY <2>0 DEF Interactions, Slash!Kinds
    <2> HIDE DEF o
    <2>4. InteractionTrue(o, paired, realm)
      BY <2>0, <2>2, <2>3
         DEF InteractionTrue, Unasked, Entitled, Seeds, Homed, Slash!Kinds, Slash!Guarded
    <2>5. Becomes(i, o)
      BY <2>0, <2>2, <2>3, <2>4 DEF Becomes, InteractionTrue, Unasked, Interactions
    <2>6. QED
      BY <2>0, <2>5, OneMoves
<1>15. CASE Slash!HostStarts
  <2>1. /\ UNCHANGED <<paired, realm, taken>> /\ queue' = {}
        /\ slash' = [i \in Taps |->
              IF mode = "gateway" /\ slash[i].step \notin {"none", "sent", "over"}
              THEN [slash[i] EXCEPT !.step = "over"] ELSE slash[i]]
    BY <1>15 DEF Slash!HostStarts
  <2>2. ASSUME NEW i \in Taps
        PROVE  /\ slash'[i] \in Interactions /\ InteractionTrue(slash'[i], paired, realm)
               /\ slash'[i].homes = slash[i].homes /\ slash'[i].done = slash[i].done
    <3> DEFINE t == slash[i]
               o == [t EXCEPT !.step = "over"]
    <3>1. t \in Interactions /\ InteractionTrue(t, paired, realm)
      BY <1>0
    <3>2. CASE slash'[i] = t
      BY <3>1, <3>2
    <3>3. CASE slash'[i] = o /\ t.step \notin {"none", "sent", "over"}
      <4>1. /\ o \in Interactions /\ o.step = "over" /\ o.kind = t.kind /\ o.user = t.user
            /\ o.outside = t.outside /\ o.chan = t.chan /\ o.reply = t.reply /\ o.seen = t.seen
            /\ o.done = t.done /\ o.roster = t.roster /\ o.homes = t.homes
            /\ o.open = t.open /\ o.blind = t.blind
        BY <3>1 DEF Interactions
      <4> HIDE DEF o
      <4>2. InteractionTrue(o, paired, realm)
        BY <3>1, <3>3, <4>1 DEF InteractionTrue, Unasked, Entitled, Seeds
      <4>3. QED
        BY <3>3, <4>1, <4>2
    <3>4. QED
      BY <2>1, <3>2, <3>3
  <2>3. slash' \in [Taps -> Interactions]
    BY <2>1, <2>2
  <2>4. QED
    BY <2>1, <2>2, <2>3 DEF SlashInv, SlashTyped, QueuedOnce
<1>16. CASE Slash!Take
  <2>1. queue' \cup taken' = queue \cup taken /\ UNCHANGED <<paired, realm, slash>>
    BY <1>16 DEF Slash!Take
  <2>2. QED
    BY <2>1 DEF SlashInv, SlashTyped, QueuedOnce
<1>17. CASE UNCHANGED Slash!vars
  BY <1>17 DEF Slash!vars, SlashInv, SlashTyped, QueuedOnce
<1>18. QED
  BY <1>2, <1>3, <1>4, <1>5, <1>6, <1>7, <1>8, <1>9, <1>10, <1>11, <1>12, <1>13, <1>14, <1>15,
     <1>16, <1>17, <1>19, <1>20, <1>21, <1>22, <1>23
     DEF Slash!Next, Slash!Handle, Slash!Fails

(* RepliesTrue: "On it." is told once the ask is queued, once, and to nobody *)
(* else; nothing is done and no job shown but for one who was paired at some *)
(* moment of the interaction, or tapped on our server, with operators not    *)
(* required, while the desk was open or its roster could not be listed       *)
(* (Slash!ReplyTrue); and an ask lands where its realm was bound meanwhile   *)
(* (Slash!LandsBound).                                                       *)
THEOREM RepliesTrue ==
    ASSUME Chans # {}, Members # {}, None # "done"
    PROVE Slash!Spec => [](Slash!ReplyTrue /\ Slash!LandsBound)
<1>1. ASSUME SlashInv PROVE Slash!ReplyTrue /\ Slash!LandsBound
  <2>1. ASSUME NEW i \in Taps
        PROVE  Cardinality({a \in queue \cup taken : a.i = i}) <= slash[i].done
    <3> DEFINE mine == {a \in queue \cup taken : a.i = i}
    <3>1. CASE mine = {}
      <4>1. slash[i].done \in {0, 1}
        BY <1>1 DEF SlashInv, SlashTyped, Interactions
      <4>2. Cardinality({}) = 0
        BY FS_EmptySet
      <4>3. QED
        BY <3>1, <4>1, <4>2
    <3>2. ASSUME NEW a \in mine PROVE Cardinality(mine) <= slash[i].done
      <4>1. mine = {a} /\ slash[i].done = 1
        BY <1>1, <3>2 DEF SlashInv, QueuedOnce
      <4>2. Cardinality({a}) = 1
        BY FS_Singleton
      <4>3. QED
        BY <4>1, <4>2
    <3>3. QED
      BY <3>1, <3>2
  <2>2. ASSUME NEW i \in Taps
        PROVE  /\ slash[i].seen =>
                      (slash[i].done = 1 <=>
                          slash[i].reply = "done" /\ slash[i].kind \notin {"job", "look"})
               /\ slash[i].done = 1 \/ (slash[i].reply = "done" /\ slash[i].kind = "job") =>
                      Slash!Entitled(i)
    BY <1>1 DEF SlashInv, InteractionTrue, Entitled, Seeds, Slash!Entitled
  <2>3. Slash!ReplyTrue
    <3>1. \A S : Slash!Cardinality(S) = Cardinality(S)
      BY DEF Slash!Cardinality, Cardinality, Slash!IsFiniteSet, IsFiniteSet
    <3>2. QED
      BY <2>1, <2>2, <3>1 DEF Slash!ReplyTrue
  <2>4. Slash!LandsBound
    BY <1>1 DEF SlashInv, QueuedOnce, Slash!LandsBound
  <2>5. QED
    BY <2>3, <2>4
<1>2. Chans # {} /\ Members # {} /\ None # "done" /\ Slash!Init => SlashInv
  BY SlashInit
<1>3. QED
  BY <1>1, <1>2, SlashStep, PTL DEF Slash!Spec

-----------------------------------------------------------------------------
(* The wiring: a channel cooks where its people were told, and .env and the *)
(* inbox hold what was written.                                             *)

RowKeys == {"repo", "cwd", "host", "memory", "capture"}

\* The keys a command puts; a bare name only once somebody sent one.
KnownPuts ==
    {[repo |-> n, cwd |-> n] : n \in Names} \cup {[memory |-> TRUE]}
    \cup [host : Hosts] \cup [capture : BOOLEAN]

Puts(bare) == KnownPuts \cup {p \in {[repo |-> Unknown]} : bare}

\* The steps of a thread but those at the inbox preferences.
Plain(bare) ==
    [do : {"read", "write"}, c : Chans, put : Puts(bare)]
    \cup [do : {"value", "lines", "save"},
          key : {"line", "memory", "capture", "tools", "token", "inbox"},
          n : Names \cup {Unknown, None}, c : Chans \cup {None}]
    \cup [do : {"pref", "flag"}, on : BOOLEAN \cup {None}]

AtInbox == {"inbox", "since", "inboxIf", "inboxOff"}

\* A command at the inbox has its two steps in front.
Opens(s, bare) ==
    /\ s # <<>> /\ Head(s) \in [do : {"inbox"}, c : Chans, at : Nat \ {0}]
    /\ Tail(s) # <<>> /\ Tail(Tail(s)) \in Seq(Plain(bare))
    /\ Head(Tail(s)) = [do |-> "since", c |-> Head(s).c, at |-> Head(s).at]

Closes(s, bare) ==
    /\ s # <<>> /\ Head(s) \in [do : {"inboxIf"}, c : Chans]
    /\ Tail(s) # <<>> /\ Tail(Tail(s)) \in Seq(Plain(bare))
    /\ Head(Tail(s)) = [do |-> "inboxOff", c |-> Head(s).c]

Halfway(s, bare) ==
    /\ s # <<>> /\ Tail(s) \in Seq(Plain(bare))
    /\ \/ Head(s) \in [do : {"since"}, c : Chans, at : Nat \ {0}]
       \/ Head(s) \in [do : {"inboxOff"}, c : Chans]

Shaped(s, bare) ==
    s \in Seq(Plain(bare)) \/ Opens(s, bare) \/ Closes(s, bare) \/ Halfway(s, bare)

Bare == "unknown" \in annals

WiringTyped ==
    /\ ops \in Nat
    /\ DOMAIN binding = Chans /\ \A c \in Chans : DOMAIN binding[c] = RowKeys
    /\ DOMAIN told = Chans
    /\ \A c \in Chans : DOMAIN told[c] = {"repo", "host", "inbox"} /\ told[c].inbox \in Nat
    /\ DOMAIN noted = Wiring!Threads
    /\ \A t \in Wiring!Threads :
           DOMAIN noted[t] = {"row", "file", "on"} /\ DOMAIN noted[t].row = RowKeys
    /\ inbox \in [chan : Chans \cup {None}, since : Nat]
    /\ stored \in BOOLEAN \cup {None}
    /\ DOMAIN todo = Wiring!Threads /\ \A t \in Wiring!Threads : Shaped(todo[t], Bare)

\* The row of a channel is what its people were told.
RealmHeld ==
    annals \cap {"crossed", "seeded", "unknown"} # {}
    \/ \A c \in Chans : told[c].repo # None => binding[c].cwd = told[c].repo

HostHeld == "crossed" \in annals \/ \A c \in Chans : binding[c].host = told[c].host

\* A thread is at the inbox.
Near(t) == todo[t] # <<>> /\ Head(todo[t]).do \in AtInbox

InboxAsTold ==
    \A c \in Chans : told[c].inbox > 0 => inbox.chan = c /\ inbox.since = told[c].inbox

\* What holds while the only thread at the inbox is at this step.
InboxAt(s) ==
    /\ s.do \in {"inbox", "since"} =>
           \A c \in Chans : told[c].inbox > 0 => c = s.c /\ told[c].inbox = s.at
    /\ s.do \in {"since", "inboxOff"} => inbox.chan = s.c
    /\ s.do \in {"inboxIf", "inboxOff"} => told[s.c].inbox = 0 /\ InboxAsTold

\* Nobody is at the inbox, or one, or it is past saving.
InboxTrue ==
    \/ annals \cap {"inboxCrossed", "killed"} # {}
    \/ \E t, u \in Wiring!Threads : t # u /\ Near(t) /\ Near(u)
    \/ \E t \in Wiring!Threads : Near(t) /\ InboxAt(Head(todo[t]))
    \/ (\A t \in Wiring!Threads : ~Near(t)) /\ InboxAsTold

WiringInv ==
    /\ WiringTyped /\ RealmHeld /\ HostHeld /\ InboxTrue
    /\ Wiring!NeverSilentlyLocal /\ Wiring!EnvKept

-----------------------------------------------------------------------------
(* SeqWider: what is a sequence over a set is one over a larger set.        *)
LEMMA SeqWider == ASSUME NEW S, NEW T, S \subseteq T, NEW s \in Seq(S) PROVE s \in Seq(T)
  OBVIOUS

(* ConcatSeq: two sequences one after the other.                             *)
LEMMA ConcatSeq == ASSUME NEW S, NEW a \in Seq(S), NEW b \in Seq(S) PROVE a \o b \in Seq(S)
  OBVIOUS

(* PlainWider: a bare name adds to what a thread may do.                     *)
LEMMA PlainWider ==
    ASSUME NEW a \in BOOLEAN, NEW b \in BOOLEAN, a => b PROVE Plain(a) \subseteq Plain(b)
<1>1. Puts(a) \subseteq Puts(b)
  BY DEF Puts
<1>2. [do : {"read", "write"}, c : Chans, put : Puts(a)]
        \subseteq [do : {"read", "write"}, c : Chans, put : Puts(b)]
  BY <1>1
<1>3. QED
  BY <1>2 DEF Plain

(* ShapedWider: what a command's rest may be is so when more is recorded.    *)
LEMMA ShapedWider ==
    ASSUME NEW a \in BOOLEAN, NEW b \in BOOLEAN, a => b, NEW s, Shaped(s, a)
    PROVE  Shaped(s, b)
<1>1. \A r : r \in Seq(Plain(a)) => r \in Seq(Plain(b))
  BY PlainWider, SeqWider
<1>2. QED
  BY <1>1, Zenon DEF Shaped, Opens, Closes, Halfway

(* PlainDo: a plain step is not at the inbox.                                *)
LEMMA PlainDo == ASSUME NEW b, NEW s \in Plain(b) PROVE s.do \notin AtInbox
  BY DEF Plain, AtInbox

(* PlainSeq: plain steps one after the other.                                *)
LEMMA PlainSeq ==
    ASSUME NEW b, NEW s \in Seq(Plain(b)), s # <<>>
    PROVE  Head(s) \in Plain(b) /\ Head(s).do \notin AtInbox /\ Tail(s) \in Seq(Plain(b))
<1>1. Head(s) \in Plain(b) /\ Tail(s) \in Seq(Plain(b))
  OBVIOUS
<1>2. QED
  BY <1>1, PlainDo

(* PlainHead: a thread whose next step is plain has only plain ones left.    *)
LEMMA PlainHead ==
    ASSUME NEW b, NEW s, Shaped(s, b), s # <<>>, Head(s).do \notin AtInbox
    PROVE  s \in Seq(Plain(b)) /\ Head(s) \in Plain(b) /\ Tail(s) \in Seq(Plain(b))
<1>1. ~Opens(s, b)
  BY DEF Opens, AtInbox
<1>2. ~Closes(s, b)
  BY DEF Closes, AtInbox
<1>3. ~Halfway(s, b)
  BY DEF Halfway, AtInbox
<1>4. s \in Seq(Plain(b))
  BY <1>1, <1>2, <1>3 DEF Shaped
<1>5. QED
  BY <1>4, PlainSeq

(* ShapedTail: a thread that took a step has a command's rest left.          *)
LEMMA ShapedTail ==
    ASSUME NEW b, NEW s, Shaped(s, b), s # <<>> PROVE Shaped(Tail(s), b)
<1>1. CASE s \in Seq(Plain(b))
  BY <1>1, PlainSeq DEF Shaped
<1>2. CASE Opens(s, b)
  <2>1. Head(Tail(s)) \in [do : {"since"}, c : Chans, at : Nat \ {0}]
    BY <1>2 DEF Opens
  <2>2. QED
    BY <1>2, <2>1 DEF Opens, Halfway, Shaped
<1>3. CASE Closes(s, b)
  <2>1. Head(Tail(s)) \in [do : {"inboxOff"}, c : Chans]
    BY <1>3 DEF Closes
  <2>2. QED
    BY <1>3, <2>1 DEF Closes, Halfway, Shaped
<1>4. CASE Halfway(s, b)
  BY <1>4 DEF Halfway, Shaped
<1>5. QED
  BY <1>1, <1>2, <1>3, <1>4 DEF Shaped

(* The commands' steps.                                                      *)
LEMMA MergePlain ==
    ASSUME NEW b, NEW c \in Chans, NEW put \in Puts(b)
    PROVE  Wiring!Merge(c, put) \in Seq(Plain(b))
<1> DEFINE e(do) == [do |-> do, c |-> c, put |-> put]
<1>1. e("read") \in Plain(b) /\ e("write") \in Plain(b)
  BY DEF Plain
<1> HIDE DEF e
<1>2. <<e("read"), e("write")>> \in Seq(Plain(b))
  BY <1>1
<1>3. QED
  BY <1>2 DEF e, Wiring!Merge

(* PutPlain: a row is put by plain steps.                                    *)
LEMMA PutPlain ==
    ASSUME NEW b, NEW key \in {"line", "memory", "capture", "tools", "token", "inbox"},
           NEW n \in Names \cup {Unknown, None}, NEW c \in Chans \cup {None}
    PROVE  Wiring!Put(key, n, c) \in Seq(Plain(b)) /\ Wiring!Line(key, n, c) \in Seq(Plain(b))
<1> DEFINE e(do) == [do |-> do, key |-> key, n |-> n, c |-> c]
<1>1. e("value") \in Plain(b) /\ e("lines") \in Plain(b) /\ e("save") \in Plain(b)
  BY DEF Plain
<1> HIDE DEF e
<1>2. <<e("lines"), e("save")>> \in Seq(Plain(b)) /\ <<e("value")>> \in Seq(Plain(b))
  BY <1>1
<1>3. <<e("value")>> \o <<e("lines"), e("save")>> \in Seq(Plain(b))
  BY <1>2
<1>4. QED
  BY <1>2, <1>3 DEF e, Wiring!Put, Wiring!Line

(* RealmPlain: what /realm does to the binding is plain.                     *)
LEMMA RealmPlain ==
    ASSUME Unknown \notin Names, NEW c \in Chans, NEW n \in Names \cup {Unknown}, NEW t
    PROVE  /\ Wiring!RealmRow(t, c, n) \in Seq(Plain(TRUE))
           /\ n # Unknown \/ t = "cli" => Wiring!RealmRow(t, c, n) \in Seq(Plain(FALSE))
<1>1. CASE n \in Names
  <2>1. [repo |-> n, cwd |-> n] \in Puts(TRUE) /\ [repo |-> n, cwd |-> n] \in Puts(FALSE)
    BY <1>1 DEF Puts, KnownPuts
  <2>2. QED
    <3>1. Wiring!RealmRow(t, c, n) = Wiring!Merge(c, [repo |-> n, cwd |-> n])
      BY <1>1 DEF Wiring!RealmRow
    <3>2. QED
      BY <2>1, <3>1, MergePlain
<1>2. CASE n \notin Names /\ n = Unknown /\ t = "gate"
  <2>1. [repo |-> n] \in Puts(TRUE)
    BY <1>2 DEF Puts
  <2>2. QED
    BY <1>2, <2>1, MergePlain DEF Wiring!RealmRow
<1>3. CASE n \notin Names /\ ~(n = Unknown /\ t = "gate")
  <2>1. Wiring!RealmRow(t, c, n) = <<>>
    BY <1>3 DEF Wiring!RealmRow
  <2>2. QED
    BY <2>1
<1>4. QED
  BY <1>1, <1>2, <1>3

(* AddPlain: what discord-os add does is plain.                              *)
LEMMA AddPlain ==
    ASSUME Unknown \notin Names, NEW c \in Chans, NEW n \in Names \cup {Unknown}
    PROVE  /\ Wiring!AddRealm(c, n) \in Seq(Plain(FALSE))
           /\ Wiring!AddMemory(c) \in Seq(Plain(FALSE))
           /\ Wiring!AddRealm(c, n) \o Wiring!AddMemory(c) \in Seq(Plain(FALSE))
<1>1. Wiring!RealmRow("cli", c, n) \in Seq(Plain(FALSE))
  BY RealmPlain
<1>2. /\ Wiring!Line("line", n, c) \in Seq(Plain(FALSE))
      /\ Wiring!Line("memory", None, c) \in Seq(Plain(FALSE))
  BY PutPlain
<1>3. [memory |-> TRUE] \in Puts(FALSE)
  BY DEF Puts, KnownPuts
<1>4. Wiring!Merge(c, [memory |-> TRUE]) \in Seq(Plain(FALSE))
  BY <1>3, MergePlain
<1>5. Wiring!AddRealm(c, n) \in Seq(Plain(FALSE)) /\ Wiring!AddMemory(c) \in Seq(Plain(FALSE))
  BY <1>1, <1>2, <1>4, ConcatSeq DEF Wiring!AddRealm, Wiring!AddMemory
<1>6. QED
  BY <1>5, ConcatSeq

-----------------------------------------------------------------------------
(* WiringInit: nobody is at a command yet.                                   *)
LEMMA WiringInit == Wiring!Init => WiringInv
<1> SUFFICES ASSUME Wiring!Init PROVE WiringInv
  OBVIOUS
<1>1. /\ ops = 0 /\ annals = {} /\ cooked = None /\ env = wrote
      /\ binding = [c \in Chans |-> Wiring!NoRow] /\ inbox = [chan |-> None, since |-> 0]
      /\ stored = None /\ todo = [t \in Wiring!Threads |-> <<>>]
      /\ noted = [t \in Wiring!Threads |-> Wiring!Unread]
      /\ told = [c \in Chans |-> [repo |-> None, host |-> None, inbox |-> 0]]
  BY DEF Wiring!Init
<1>2. \A b : <<>> \in Seq(Plain(b))
  OBVIOUS
<1>3. WiringTyped
  <2>1. \A c \in Chans : DOMAIN binding[c] = RowKeys
    BY <1>1 DEF Wiring!NoRow, RowKeys
  <2>2. \A t \in Wiring!Threads :
          DOMAIN noted[t] = {"row", "file", "on"} /\ DOMAIN noted[t].row = RowKeys
    BY <1>1 DEF Wiring!Unread, Wiring!NoRow, RowKeys
  <2>3. QED
    BY <1>1, <1>2, <2>1, <2>2 DEF WiringTyped, Shaped
<1>4. RealmHeld /\ HostHeld
  BY <1>1 DEF RealmHeld, HostHeld, Wiring!NoRow
<1>5. InboxTrue
  BY <1>1 DEF InboxTrue, Near, InboxAsTold
<1>6. Wiring!NeverSilentlyLocal /\ Wiring!EnvKept
  BY <1>1 DEF Wiring!NeverSilentlyLocal, Wiring!EnvKept
<1>7. QED
  BY <1>3, <1>4, <1>5, <1>6 DEF WiringInv

\* A step after which every thread has a command's rest left.
Left == DOMAIN todo = Wiring!Threads /\ \A t \in Wiring!Threads : Shaped(todo[t], Bare)

(* LeftSet: what one thread has left is replaced.                            *)
LEMMA LeftSet ==
    ASSUME Left, annals \subseteq annals', NEW t \in Wiring!Threads, NEW s,
           todo' = [todo EXCEPT ![t] = s], Shaped(s, Bare')
    PROVE  Left' /\ todo'[t] = s /\ \A u \in Wiring!Threads \ {t} : todo'[u] = todo[u]
<1>1. Bare \in BOOLEAN /\ Bare' \in BOOLEAN /\ (Bare => Bare')
  BY DEF Bare
<1>2. \A u \in Wiring!Threads : Shaped(todo[u], Bare')
  BY <1>1, ShapedWider DEF Left
<1>3. QED
  BY <1>2 DEF Left

(* LeftSame: what the threads have left stays.                               *)
LEMMA LeftSame == ASSUME Left, annals \subseteq annals', todo' = todo PROVE Left'
<1>1. Bare \in BOOLEAN /\ Bare' \in BOOLEAN /\ (Bare => Bare')
  BY DEF Bare
<1>2. QED
  BY <1>1, ShapedWider DEF Left

(* InboxSame: a step that has nothing to do with the inbox.                  *)
LEMMA InboxSame ==
    ASSUME InboxTrue, annals \subseteq annals', inbox' = inbox,
           \A c \in Chans : told'[c].inbox = told[c].inbox,
           \A t \in Wiring!Threads :
               (Near(t) <=> Near(t)') /\ (Near(t) => Head(todo'[t]) = Head(todo[t])),
           Left
    PROVE  InboxTrue'
<1>1. InboxAsTold => InboxAsTold'
  BY DEF InboxAsTold
<1>2. ASSUME NEW t \in Wiring!Threads, Near(t), InboxAt(Head(todo[t]))
      PROVE  Near(t)' /\ InboxAt(Head(todo[t]))'
  <2>1. Near(t)' /\ Head(todo'[t]) = Head(todo[t])
    BY <1>2
  <2>2. Head(todo[t]).do \in {"inboxIf", "inboxOff"} => Head(todo[t]).c \in Chans
    <3>1. Shaped(todo[t], Bare)
      BY DEF Left
    <3>2. todo[t] \notin Seq(Plain(Bare))
      BY <1>2, PlainSeq DEF Near
    <3>3. QED
      BY <3>1, <3>2 DEF Shaped, Opens, Closes, Halfway
  <2>3. QED
    BY <1>1, <1>2, <2>1, <2>2 DEF InboxAt
<1>3. QED
  BY <1>1, <1>2 DEF InboxTrue

\* A step that leaves the rows, .env, the last cook and the inbox alone.
Quiet ==
    /\ UNCHANGED <<binding, env, environ, inbox, stored, cooked, wrote>>
    /\ annals \subseteq annals' /\ ops' \in Nat
    /\ DOMAIN told' = Chans
    /\ \A c \in Chans : /\ DOMAIN told'[c] = {"repo", "host", "inbox"}
                        /\ told'[c].inbox \in Nat /\ told'[c].host = told[c].host
    /\ (\A c \in Chans : told'[c].repo = told[c].repo) \/ "unknown" \in annals'
    /\ DOMAIN noted' = Wiring!Threads
    /\ \A t \in Wiring!Threads :
           DOMAIN noted'[t] = {"row", "file", "on"} /\ DOMAIN noted'[t].row = RowKeys

(* QuietStep: a step that writes no row and leaves no job.                   *)
LEMMA QuietStep == ASSUME WiringInv, Quiet, Left', InboxTrue' PROVE WiringInv'
<1>1. WiringTyped'
  BY DEF WiringInv, WiringTyped, Quiet, Left
<1>2. RealmHeld' /\ HostHeld'
  BY DEF WiringInv, RealmHeld, HostHeld, Quiet
<1>3. Wiring!NeverSilentlyLocal' /\ Wiring!EnvKept'
  BY DEF WiringInv, Wiring!NeverSilentlyLocal, Wiring!EnvKept, Wiring!Off, Quiet
<1>4. QED
  BY <1>1, <1>2, <1>3 DEF WiringInv

(* PlainCommand: a thread begins a command away from the inbox.              *)
LEMMA PlainCommand ==
    ASSUME WiringInv, NEW t \in Wiring!Threads, NEW steps, Wiring!Command(t, steps),
           steps \in Seq(Plain(Bare')), annals \subseteq annals',
           \/ told' = told
           \/ \E c \in Chans : \E n : told' = [told EXCEPT ![c].repo = n] /\ "unknown" \in annals'
    PROVE  WiringInv'
<1>1. /\ todo[t] = <<>> /\ ops' = ops + 1 /\ todo' = [todo EXCEPT ![t] = steps]
      /\ UNCHANGED <<env, exported, environ, binding, inbox, stored, flag, noted, jobs, cooked,
                     wrote, mishaps>>
  BY DEF Wiring!Command, Wiring!Ready, Wiring!prefs, Wiring!pool
<1>2. Left
  BY DEF WiringInv, WiringTyped, Left
<1>3. Left' /\ todo'[t] = steps /\ \A u \in Wiring!Threads \ {t} : todo'[u] = todo[u]
  BY <1>1, <1>2, LeftSet DEF Shaped
<1>4. /\ DOMAIN told' = Chans
      /\ \A c \in Chans : /\ DOMAIN told'[c] = {"repo", "host", "inbox"}
                          /\ told'[c].inbox = told[c].inbox /\ told'[c].host = told[c].host
  BY DEF WiringInv, WiringTyped
<1>5. Quiet
  BY <1>1, <1>4 DEF WiringInv, WiringTyped, Quiet
<1>6. ~Near(t) /\ ~Near(t)'
  <2>1. steps = <<>> \/ Head(steps).do \notin AtInbox
    BY PlainSeq
  <2>2. QED
    BY <1>1, <1>3, <2>1 DEF Near
<1>7. \A u \in Wiring!Threads :
        (Near(u) <=> Near(u)') /\ (Near(u) => Head(todo'[u]) = Head(todo[u]))
  BY <1>3, <1>6 DEF Near
<1>8. InboxTrue'
  BY <1>1, <1>2, <1>4, <1>7, InboxSame DEF WiringInv
<1>9. QED
  BY <1>3, <1>5, <1>8, QuietStep

(* PairFront: two steps, and what comes after them.                          *)
LEMMA PairFront ==
    ASSUME NEW S, NEW r \in Seq(S), NEW a, NEW b
    PROVE  /\ <<a, b>> \o r # <<>> /\ Head(<<a, b>> \o r) = a
           /\ Tail(<<a, b>> \o r) # <<>> /\ Head(Tail(<<a, b>> \o r)) = b
           /\ Tail(Tail(<<a, b>> \o r)) \in Seq(S)
<1> DEFINE s == <<a, b>> \o r
<1>1. s \in Seq(S \cup {a, b}) /\ Len(s) = Len(r) + 2 /\ s[1] = a /\ s[2] = b
      /\ \A i \in 1..Len(r) : s[i + 2] = r[i]
  OBVIOUS
<1> HIDE DEF s
<1>2. s # <<>> /\ Head(s) = a
  BY <1>1
<1> DEFINE t == Tail(s)
<1>3. /\ t \in Seq(S \cup {a, b}) /\ Len(t) = Len(r) + 1
      /\ \A i \in 1..Len(t) : t[i] = s[i + 1]
  BY <1>1, <1>2
<1> HIDE DEF t
<1>4. t # <<>> /\ Head(t) = b
  BY <1>1, <1>3
<1> DEFINE q == Tail(t)
<1>5. /\ q \in Seq(S \cup {a, b}) /\ Len(q) = Len(r)
      /\ \A i \in 1..Len(q) : q[i] = t[i + 1]
  BY <1>3, <1>4
<1> HIDE DEF q
<1>6. ASSUME NEW i \in 1..Len(q) PROVE q[i] \in S
  <2>1. Len(r) \in Nat /\ i \in 1..Len(r) /\ i + 1 \in 1..Len(t) /\ (i + 1) + 1 = i + 2
    BY <1>3, <1>5
  <2>2. q[i] = s[i + 2]
    BY <1>3, <1>5, <2>1
  <2>3. r[i] \in S
    BY <2>1
  <2>4. QED
    BY <1>1, <2>1, <2>2, <2>3
<1>7. q \in Seq(S)
  BY <1>5, <1>6
<1>8. QED
  BY <1>2, <1>4, <1>7 DEF s, t, q

(* InboxOnStep: /features turns the inbox on.                                *)
LEMMA InboxOnStep ==
    ASSUME WiringInv, NEW t \in Wiring!Threads, NEW c \in Chans, Wiring!InboxOn(t, c)
    PROVE  WiringInv'
<1>a. PICK a : a = [do |-> "inbox", c |-> c, at |-> ops + 1]
  OBVIOUS
<1>b. PICK b : b = [do |-> "since", c |-> c, at |-> ops + 1]
  OBVIOUS
<1>1. PICK alsoEnv \in BOOLEAN :
        Wiring!Command(t, <<a, b>> \o (IF alsoEnv THEN Wiring!Put("inbox", None, c) ELSE <<>>))
  BY <1>a, <1>b DEF Wiring!InboxOn
<1>2. PICK r : r = IF alsoEnv THEN Wiring!Put("inbox", None, c) ELSE <<>>
  OBVIOUS
<1>3. /\ todo[t] = <<>> /\ ops' = ops + 1 /\ todo' = [todo EXCEPT ![t] = <<a, b>> \o r]
      /\ UNCHANGED <<env, exported, environ, binding, inbox, stored, flag, noted, jobs, cooked,
                     wrote, mishaps>>
  BY <1>1, <1>2 DEF Wiring!Command, Wiring!Ready, Wiring!prefs, Wiring!pool
<1>4. /\ annals' = annals
      /\ told' = [x \in Chans |-> [told[x] EXCEPT !.inbox = IF x = c THEN ops + 1 ELSE 0]]
  BY DEF Wiring!InboxOn
<1>5. r \in Seq(Plain(Bare'))
  <2>1. <<>> \in Seq(Plain(Bare'))
    OBVIOUS
  <2>2. Wiring!Put("inbox", None, c) \in Seq(Plain(Bare'))
    BY PutPlain
  <2>3. QED
    BY <1>2, <2>1, <2>2
<1>6. /\ <<a, b>> \o r # <<>> /\ Head(<<a, b>> \o r) = a
      /\ Tail(<<a, b>> \o r) # <<>> /\ Head(Tail(<<a, b>> \o r)) = b
      /\ Tail(Tail(<<a, b>> \o r)) \in Seq(Plain(Bare'))
  BY <1>5, PairFront
<1>7. ops \in Nat /\ a \in [do : {"inbox"}, c : Chans, at : Nat \ {0}]
      /\ a.c = c /\ a.at = ops + 1 /\ a.do = "inbox"
  BY <1>a DEF WiringInv, WiringTyped
<1>8. b = [do |-> "since", c |-> a.c, at |-> a.at]
  BY <1>a, <1>b
<1>9. PICK s : s = <<a, b>> \o r
  OBVIOUS
<1>10. Shaped(s, Bare')
  BY <1>6, <1>7, <1>8, <1>9 DEF Shaped, Opens
<1>11. Left
  BY DEF WiringInv, WiringTyped, Left
<1>12. Left' /\ todo'[t] = s /\ \A u \in Wiring!Threads \ {t} : todo'[u] = todo[u]
  BY <1>3, <1>4, <1>9, <1>10, <1>11, LeftSet
<1>13. /\ DOMAIN told' = Chans
       /\ \A x \in Chans : /\ DOMAIN told'[x] = {"repo", "host", "inbox"}
                           /\ told'[x].inbox = IF x = c THEN ops + 1 ELSE 0
                           /\ told'[x].host = told[x].host /\ told'[x].repo = told[x].repo
  BY <1>4 DEF WiringInv, WiringTyped
<1>14. Quiet
  BY <1>3, <1>4, <1>7, <1>13 DEF WiringInv, WiringTyped, Quiet
<1>15. Near(t)' /\ Head(todo'[t]) = a
  BY <1>6, <1>7, <1>9, <1>12 DEF Near, AtInbox
<1>16. InboxAt(a)'
  BY <1>7, <1>13 DEF InboxAt
<1>17. InboxTrue'
  BY <1>15, <1>16 DEF InboxTrue
<1>18. QED
  BY <1>12, <1>14, <1>17, QuietStep

(* InboxOffStep: /features turns the inbox off.                              *)
LEMMA InboxOffStep ==
    ASSUME WiringInv, NEW t \in Wiring!Threads, NEW c \in Chans, Wiring!InboxOff(t, c)
    PROVE  WiringInv'
<1> DEFINE a == [do |-> "inboxIf", c |-> c]
           b == [do |-> "inboxOff", c |-> c]
           s == <<a, b>>
<1>1. /\ todo[t] = <<>> /\ ops' = ops + 1 /\ todo' = [todo EXCEPT ![t] = s]
      /\ UNCHANGED <<env, exported, environ, binding, inbox, stored, flag, noted, jobs, cooked,
                     wrote, mishaps>>
      /\ annals' = annals /\ told' = [told EXCEPT ![c].inbox = 0]
  BY DEF Wiring!InboxOff, Wiring!Command, Wiring!Ready, Wiring!prefs, Wiring!pool
<1>2. /\ a \in [do : {"inboxIf"}, c : Chans] /\ a.c = c /\ a.do = "inboxIf"
      /\ b = [do |-> "inboxOff", c |-> a.c]
  OBVIOUS
<1> HIDE DEF a, b
<1>3. s # <<>> /\ Head(s) = a /\ Tail(s) # <<>> /\ Head(Tail(s)) = b /\ Tail(Tail(s)) = <<>>
  OBVIOUS
<1>4. <<>> \in Seq(Plain(Bare'))
  OBVIOUS
<1> HIDE DEF s
<1>5. Shaped(s, Bare')
  BY <1>2, <1>3, <1>4 DEF Shaped, Closes
<1>6. Left
  BY DEF WiringInv, WiringTyped, Left
<1>7. Left' /\ todo'[t] = s /\ \A u \in Wiring!Threads \ {t} : todo'[u] = todo[u]
  BY <1>1, <1>5, <1>6, LeftSet
<1>8. /\ DOMAIN told' = Chans
      /\ \A x \in Chans : /\ DOMAIN told'[x] = {"repo", "host", "inbox"}
                          /\ told'[x].inbox = IF x = c THEN 0 ELSE told[x].inbox
                          /\ told'[x].host = told[x].host /\ told'[x].repo = told[x].repo
  BY <1>1 DEF WiringInv, WiringTyped
<1>9. Quiet
  BY <1>1, <1>8 DEF WiringInv, WiringTyped, Quiet
<1>10. Near(t)' /\ Head(todo'[t]) = a /\ ~Near(t)
  BY <1>1, <1>2, <1>3, <1>7 DEF Near, AtInbox
<1>11. InboxAsTold => InboxAt(a)'
  BY <1>1, <1>2, <1>8 DEF InboxAsTold, InboxAt
<1>12. \A u \in Wiring!Threads : Near(u) => u # t /\ Near(u)'
  BY <1>7, <1>10 DEF Near
<1>13. InboxTrue'
  BY <1>1, <1>10, <1>11, <1>12 DEF InboxTrue, WiringInv
<1>14. QED
  BY <1>7, <1>9, <1>13, QuietStep

(* TailLeft: a thread takes its next step.                                   *)
LEMMA TailLeft ==
    ASSUME WiringInv, NEW t \in Wiring!Threads, Wiring!Step(t), todo[t] # <<>>,
           annals \subseteq annals'
    PROVE  /\ Left /\ Left' /\ todo'[t] = Tail(todo[t])
           /\ \A u \in Wiring!Threads \ {t} : todo'[u] = todo[u]
<1>1. Left
  BY DEF WiringInv, WiringTyped, Left
<1>2. Shaped(todo[t], Bare)
  BY <1>1 DEF Left
<1>3. Shaped(Tail(todo[t]), Bare)
  BY <1>2, ShapedTail
<1>4. Bare \in BOOLEAN /\ Bare' \in BOOLEAN /\ (Bare => Bare')
  BY DEF Bare
<1>5. Shaped(Tail(todo[t]), Bare')
  BY <1>3, <1>4, ShapedWider
<1>6. todo' = [todo EXCEPT ![t] = Tail(todo[t])]
  BY DEF Wiring!Step
<1>7. QED
  BY <1>1, <1>5, <1>6, LeftSet

(* PlainWork: a step away from the inbox.                                    *)
LEMMA PlainWork ==
    ASSUME WiringInv, NEW t \in Wiring!Threads, Wiring!Step(t), todo[t] # <<>>,
           Head(todo[t]).do \notin AtInbox, annals \subseteq annals', inbox' = inbox,
           \A c \in Chans : told'[c].inbox = told[c].inbox
    PROVE  Left' /\ InboxTrue' /\ Head(todo[t]) \in Plain(Bare)
<1>1. /\ Left /\ Left' /\ todo'[t] = Tail(todo[t])
      /\ \A u \in Wiring!Threads \ {t} : todo'[u] = todo[u]
  BY TailLeft
<1>2. Shaped(todo[t], Bare)
  BY <1>1 DEF Left
<1>3. Head(todo[t]) \in Plain(Bare) /\ Tail(todo[t]) \in Seq(Plain(Bare))
  BY <1>2, PlainHead
<1>4. Tail(todo[t]) = <<>> \/ Head(Tail(todo[t])).do \notin AtInbox
  BY <1>3, PlainSeq
<1>5. ~Near(t) /\ ~Near(t)'
  BY <1>1, <1>4 DEF Near
<1>6. \A u \in Wiring!Threads :
        (Near(u) <=> Near(u)') /\ (Near(u) => Head(todo'[u]) = Head(todo[u]))
  BY <1>1, <1>5 DEF Near
<1>7. InboxTrue'
  BY <1>1, <1>6, InboxSame DEF WiringInv
<1>8. QED
  BY <1>1, <1>3, <1>7

(* ReadStep: a thread reads the table.                                       *)
LEMMA ReadStep == ASSUME WiringInv, NEW t \in Wiring!Threads, Wiring!Read(t) PROVE WiringInv'
<1>1. /\ todo[t] # <<>> /\ Head(todo[t]).do = "read" /\ Wiring!Step(t)
      /\ UNCHANGED <<binding, told, env, exported, environ, inbox, stored, flag, jobs, cooked,
                     wrote, ops, mishaps, annals>>
  BY DEF Wiring!Read, Wiring!At, Wiring!Ready, Wiring!rows, Wiring!prefs, Wiring!pool
<1>2. Left' /\ InboxTrue' /\ Head(todo[t]) \in Plain(Bare)
  BY <1>1, PlainWork DEF AtInbox
<1>3. PICK x : x = binding[Head(todo[t]).c] /\ noted' = [noted EXCEPT ![t].row = x]
  BY DEF Wiring!Read, Wiring!Now
<1>4. Head(todo[t]).c \in Chans
  BY <1>1, <1>2 DEF Plain
<1>5. DOMAIN x = RowKeys
  BY <1>3, <1>4 DEF WiringInv, WiringTyped
<1>6. DOMAIN noted' = Wiring!Threads /\ \A u \in Wiring!Threads :
        DOMAIN noted'[u] = {"row", "file", "on"} /\ DOMAIN noted'[u].row = RowKeys
  BY <1>3, <1>5 DEF WiringInv, WiringTyped
<1>7. Quiet
  BY <1>1, <1>6 DEF WiringInv, WiringTyped, Quiet
<1>8. QED
  BY <1>2, <1>7, QuietStep

(* ReadEnvStep: a thread reads the env file.                                 *)
LEMMA ReadEnvStep ==
    ASSUME WiringInv, NEW t \in Wiring!Threads, Wiring!ReadEnv(t) PROVE WiringInv'
<1>1. /\ todo[t] # <<>> /\ Head(todo[t]).do \in {"value", "lines"} /\ Wiring!Step(t)
      /\ UNCHANGED <<binding, told, env, exported, environ, inbox, stored, flag, jobs, cooked,
                     wrote, ops, mishaps, annals>>
  BY DEF Wiring!ReadEnv, Wiring!At, Wiring!Ready, Wiring!rows, Wiring!prefs, Wiring!pool
<1>2. Left' /\ InboxTrue'
  BY <1>1, PlainWork DEF AtInbox
<1>3. PICK x : noted' = [noted EXCEPT ![t].file = x]
  BY DEF Wiring!ReadEnv
<1>4. Quiet
  BY <1>1, <1>3 DEF WiringInv, WiringTyped, Quiet
<1>5. QED
  BY <1>2, <1>4, QuietStep

(* Written: what a write puts into a row and what is said of it.             *)
LEMMA Written ==
    ASSUME NEW entry, DOMAIN entry = RowKeys, NEW tell, DOMAIN tell = {"repo", "host", "inbox"},
           NEW b, NEW put \in Puts(b)
    PROVE  LET r == Wiring!Over(put, entry)
               s == Wiring!Over(Wiring!Spoken(put), tell)
           IN  /\ DOMAIN r = RowKeys /\ DOMAIN s = {"repo", "host", "inbox"}
               /\ s.inbox = tell.inbox
               /\ entry.host = tell.host => r.host = s.host
               /\ (tell.repo # None => entry.cwd = tell.repo) /\ (b => put # [repo |-> Unknown])
                    => (s.repo # None => r.cwd = s.repo)
<1> DEFINE r == Wiring!Over(put, entry)
           s == Wiring!Over(Wiring!Spoken(put), tell)
<1>1. DOMAIN r = RowKeys /\ DOMAIN s = {"repo", "host", "inbox"}
  BY DEF Wiring!Over
<1>2. /\ DOMAIN Wiring!Spoken(put) = DOMAIN put \cap {"repo", "host"}
      /\ \A f \in DOMAIN put \cap {"repo", "host"} : Wiring!Spoken(put)[f] = put[f]
  BY DEF Wiring!Spoken
<1>3. /\ r.host = IF "host" \in DOMAIN put THEN put.host ELSE entry.host
      /\ r.cwd = IF "cwd" \in DOMAIN put THEN put.cwd ELSE entry.cwd
  BY DEF Wiring!Over, RowKeys
<1>4. /\ s.host = IF "host" \in DOMAIN put THEN put.host ELSE tell.host
      /\ s.repo = IF "repo" \in DOMAIN put THEN put.repo ELSE tell.repo
      /\ s.inbox = tell.inbox
  BY <1>2 DEF Wiring!Over
<1> HIDE DEF r, s
<1>5. (b => put # [repo |-> Unknown]) =>
        \/ \E n \in Names : /\ DOMAIN put = {"repo", "cwd"} /\ put.repo = n /\ put.cwd = n
        \/ "repo" \notin DOMAIN put /\ "cwd" \notin DOMAIN put
  BY DEF Puts, KnownPuts
<1>6. QED
  BY <1>1, <1>3, <1>4, <1>5 DEF r, s

(* WriteStep: a thread writes the table it read, with its own row in it.     *)
LEMMA WriteStep == ASSUME WiringInv, NEW t \in Wiring!Threads, Wiring!Write(t) PROVE WiringInv'
<1> DEFINE x == Head(todo[t])
<1>1. /\ todo[t] # <<>> /\ x.do = "write" /\ Wiring!Step(t)
      /\ UNCHANGED <<env, exported, environ, inbox, stored, flag, noted, jobs, cooked,
                     wrote, ops, mishaps>>
      /\ binding' = [binding EXCEPT ![x.c] = Wiring!Over(x.put, noted[t].row)]
      /\ told' = [told EXCEPT ![x.c] = Wiring!Over(Wiring!Spoken(x.put), told[x.c])]
      /\ annals' = annals \cup (IF binding[x.c] # noted[t].row THEN {"crossed"} ELSE {})
  BY DEF Wiring!Write, Wiring!At, Wiring!Ready, Wiring!prefs, Wiring!pool, Wiring!Now,
         Wiring!Merged
<1>2. /\ DOMAIN binding = Chans /\ DOMAIN told = Chans /\ Shaped(todo[t], Bare)
      /\ \A c \in Chans : DOMAIN binding[c] = RowKeys /\ DOMAIN told[c] = {"repo", "host", "inbox"}
  BY DEF WiringInv, WiringTyped
<1>3. x \in Plain(Bare)
  BY <1>1, <1>2, PlainHead DEF AtInbox
<1>4. x.c \in Chans /\ x.put \in Puts(Bare)
  BY <1>1, <1>3 DEF Plain
<1> DEFINE r == Wiring!Over(x.put, noted[t].row)
           s == Wiring!Over(Wiring!Spoken(x.put), told[x.c])
<1>5. DOMAIN s = {"repo", "host", "inbox"} /\ s.inbox = told[x.c].inbox
  <2>1. DOMAIN told[x.c] = {"repo", "host", "inbox"}
    BY <1>2, <1>4
  <2>2. DOMAIN s = {"repo", "host", "inbox"}
    BY <2>1 DEF Wiring!Over
  <2>3. "inbox" \notin DOMAIN Wiring!Spoken(x.put)
    BY DEF Wiring!Spoken
  <2>4. QED
    BY <2>1, <2>2, <2>3 DEF Wiring!Over
<1>6. DOMAIN noted[t].row = RowKeys /\ DOMAIN r = RowKeys
  BY DEF WiringInv, WiringTyped, Wiring!Over
<1>7. /\ DOMAIN told' = Chans
      /\ \A c \in Chans : /\ DOMAIN told'[c] = {"repo", "host", "inbox"}
                          /\ told'[c].inbox = told[c].inbox /\ told'[c].inbox \in Nat
  BY <1>1, <1>2, <1>4, <1>5 DEF WiringInv, WiringTyped
<1>8. annals \subseteq annals'
  BY <1>1
<1>9. Left' /\ InboxTrue'
  BY <1>1, <1>7, <1>8, PlainWork DEF AtInbox
<1>10. WiringTyped'
  <2>1. DOMAIN binding' = Chans /\ \A c \in Chans : DOMAIN binding'[c] = RowKeys
    BY <1>1, <1>2, <1>4, <1>6
  <2>2. QED
    BY <1>1, <1>7, <1>9, <2>1 DEF WiringInv, WiringTyped, Left
<1>11. Wiring!NeverSilentlyLocal' /\ Wiring!EnvKept'
  BY <1>1, <1>8
     DEF WiringInv, Wiring!NeverSilentlyLocal, Wiring!EnvKept, Wiring!Off
<1>12. ASSUME "crossed" \notin annals' PROVE RealmHeld' /\ HostHeld'
  <2>1. binding[x.c] = noted[t].row /\ annals' = annals
    BY <1>1, <1>12
  <2>2. /\ binding[x.c].host = told[x.c].host => r.host = s.host
        /\ ((told[x.c].repo # None => binding[x.c].cwd = told[x.c].repo)
              /\ (Bare => x.put # [repo |-> Unknown]))
             => (s.repo # None => r.cwd = s.repo)
    <3>1. DOMAIN binding[x.c] = RowKeys /\ DOMAIN told[x.c] = {"repo", "host", "inbox"}
      BY <1>2, <1>4
    <3>2. PICK entry, tell, put, b :
            entry = binding[x.c] /\ tell = told[x.c] /\ put = x.put /\ b = Bare
      OBVIOUS
    <3>3. DOMAIN entry = RowKeys /\ DOMAIN tell = {"repo", "host", "inbox"} /\ put \in Puts(b)
      BY <1>4, <3>1, <3>2
    <3>4. LET y == Wiring!Over(put, entry)
              z == Wiring!Over(Wiring!Spoken(put), tell)
          IN  /\ entry.host = tell.host => y.host = z.host
              /\ (tell.repo # None => entry.cwd = tell.repo) /\ (b => put # [repo |-> Unknown])
                   => (z.repo # None => y.cwd = z.repo)
      BY <3>3, Written
    <3>5. r = Wiring!Over(put, entry) /\ s = Wiring!Over(Wiring!Spoken(put), tell)
      BY <2>1, <3>2
    <3>6. QED
      BY <3>2, <3>4, <3>5
  <2>3. /\ binding'[x.c] = r /\ told'[x.c] = s
        /\ \A c \in Chans \ {x.c} : binding'[c] = binding[c] /\ told'[c] = told[c]
    BY <1>1, <1>2, <1>4
  <2> HIDE DEF r, s
  <2>4. HostHeld'
    BY <1>4, <1>12, <2>1, <2>2, <2>3 DEF WiringInv, HostHeld
  <2>5. RealmHeld'
    BY <1>4, <1>12, <2>1, <2>2, <2>3 DEF WiringInv, RealmHeld, Bare
  <2>6. QED
    BY <2>4, <2>5
<1>13. RealmHeld' /\ HostHeld'
  BY <1>12 DEF RealmHeld, HostHeld
<1>14. QED
  BY <1>9, <1>10, <1>11, <1>13 DEF WiringInv

(* SaveEnvStep: a thread writes the env file it read.                        *)
LEMMA SaveEnvStep ==
    ASSUME WiringInv, NEW t \in Wiring!Threads, Wiring!SaveEnv(t) PROVE WiringInv'
<1>1. /\ todo[t] # <<>> /\ Head(todo[t]).do = "save" /\ Wiring!Step(t)
      /\ UNCHANGED <<binding, told, exported, environ, inbox, stored, flag, noted, jobs, cooked,
                     ops, mishaps>>
      /\ annals' = annals \cup (IF env # noted[t].file THEN {"envCrossed"} ELSE {})
  BY DEF Wiring!SaveEnv, Wiring!At, Wiring!Ready, Wiring!rows, Wiring!prefs, Wiring!pool
<1>2. env' = Wiring!Entered(Head(todo[t]), noted[t].file)
      /\ wrote' = Wiring!Entered(Head(todo[t]), wrote)
  BY DEF Wiring!SaveEnv, Wiring!Saved, Wiring!Now
<1>3. annals \subseteq annals'
  BY <1>1
<1>4. Left' /\ InboxTrue'
  BY <1>1, <1>3, PlainWork DEF AtInbox
<1>5. WiringTyped' /\ RealmHeld' /\ HostHeld'
  BY <1>1, <1>4 DEF WiringInv, WiringTyped, RealmHeld, HostHeld, Left
<1>6. Wiring!NeverSilentlyLocal'
  BY <1>1 DEF WiringInv, Wiring!NeverSilentlyLocal, Wiring!Off
<1>7. Wiring!EnvKept'
  <2>1. ASSUME annals' \cap {"envCrossed", "killed"} = {} PROVE env' = wrote'
    <3>1. env = noted[t].file /\ annals' = annals
      BY <1>1, <2>1
    <3>2. env = wrote
      BY <2>1, <3>1 DEF WiringInv, Wiring!EnvKept, Wiring!Off
    <3>3. QED
      BY <1>2, <3>1, <3>2
  <2>2. QED
    BY <2>1 DEF Wiring!EnvKept, Wiring!Off
<1>8. QED
  BY <1>4, <1>5, <1>6, <1>7 DEF WiringInv

(* AloneAt: at the inbox and by itself a thread finds it as its step says.   *)
LEMMA AloneAt ==
    ASSUME WiringInv, NEW t \in Wiring!Threads, Near(t),
           \A u \in Wiring!Threads \ {t} : ~Near(u),
           annals \cap {"inboxCrossed", "killed"} = {}
    PROVE  InboxAt(Head(todo[t]))
  BY DEF WiringInv, InboxTrue

(* InboxShape: what a thread at the inbox has left.                          *)
LEMMA InboxShape ==
    ASSUME WiringInv, NEW t \in Wiring!Threads, Near(t)
    PROVE  /\ Head(todo[t]).do = "inbox" => Opens(todo[t], Bare)
           /\ Head(todo[t]).do = "inboxIf" => Closes(todo[t], Bare)
           /\ Head(todo[t]).do \in {"since", "inboxOff"} => Halfway(todo[t], Bare)
<1>1. Shaped(todo[t], Bare)
  BY DEF WiringInv, WiringTyped
<1>2. todo[t] \notin Seq(Plain(Bare))
  BY PlainSeq DEF Near
<1>3. QED
  BY <1>1, <1>2 DEF Shaped, Opens, Closes, Halfway

\* What a step at the inbox leaves alone.
InboxStep(t) ==
    /\ todo[t] # <<>> /\ Head(todo[t]).do \in AtInbox
    /\ UNCHANGED <<binding, told, env, exported, environ, noted, jobs, cooked, wrote, ops,
                   mishaps, stored, flag>>
    /\ annals \subseteq annals'
    /\ (\E u \in Wiring!Threads \ {t} : Near(u)) => "inboxCrossed" \in annals'

(* AtInboxStep: it is enough to look at a thread that is there by itself.    *)
LEMMA AtInboxStep ==
    ASSUME WiringInv, NEW t \in Wiring!Threads, InboxStep(t), Left',
           inbox' \in [chan : Chans \cup {None}, since : Nat],
           (\A u \in Wiring!Threads \ {t} : ~Near(u)) /\ InboxAt(Head(todo[t])) => InboxTrue'
    PROVE  WiringInv'
<1>1. WiringTyped'
  BY DEF WiringInv, WiringTyped, Left, InboxStep
<1>2. RealmHeld' /\ HostHeld'
  BY DEF WiringInv, RealmHeld, HostHeld, InboxStep
<1>3. Wiring!NeverSilentlyLocal' /\ Wiring!EnvKept'
  BY DEF WiringInv, Wiring!NeverSilentlyLocal, Wiring!EnvKept, Wiring!Off, InboxStep
<1>4. InboxTrue'
  <2>1. CASE annals' \cap {"inboxCrossed", "killed"} # {}
    BY <2>1 DEF InboxTrue
  <2>2. CASE annals' \cap {"inboxCrossed", "killed"} = {}
    <3>1. annals \cap {"inboxCrossed", "killed"} = {} /\ \A u \in Wiring!Threads \ {t} : ~Near(u)
      BY <2>2 DEF InboxStep
    <3>2. Near(t)
      BY DEF InboxStep, Near
    <3>3. QED
      BY <3>1, <3>2, AloneAt
  <2>3. QED
    BY <2>1, <2>2
<1>5. QED
  BY <1>1, <1>2, <1>3, <1>4 DEF WiringInv

(* SetPrefStep: a thread stores the inbox's flag.                            *)
LEMMA SetPrefStep ==
    ASSUME WiringInv, NEW t \in Wiring!Threads, Wiring!SetPref(t) PROVE WiringInv'
<1> DEFINE x == Head(todo[t])
<1>1. /\ todo[t] # <<>>
      /\ UNCHANGED <<binding, told, env, exported, environ, noted, jobs, cooked, wrote, ops,
                      mishaps>>
      /\ annals \subseteq annals'
  BY DEF Wiring!SetPref, Wiring!At, Wiring!Ready, Wiring!rows, Wiring!files, Wiring!pool
<1>2. x.do \in AtInbox /\ (\E u \in Wiring!Threads \ {t} : Near(u)) => "inboxCrossed" \in annals'
  BY DEF Wiring!SetPref, Wiring!Now, Wiring!Ready, Near, AtInbox
<1>3. CASE x.do \in {"pref", "flag"}
  <2>1. Wiring!Step(t) /\ inbox' = inbox /\ (stored' = stored \/ stored' = x.on) /\ annals' = annals
    BY <1>3 DEF Wiring!SetPref, Wiring!At, Wiring!Now
  <2>2. Left' /\ InboxTrue' /\ x \in Plain(Bare)
    BY <1>1, <1>3, <2>1, PlainWork DEF AtInbox
  <2>3. x.on \in BOOLEAN \cup {None}
    BY <1>3, <2>2 DEF Plain
  <2>4. WiringTyped' /\ RealmHeld' /\ HostHeld'
    BY <1>1, <2>1, <2>2, <2>3 DEF WiringInv, WiringTyped, RealmHeld, HostHeld, Left
  <2>5. Wiring!NeverSilentlyLocal' /\ Wiring!EnvKept'
    BY <1>1 DEF WiringInv, Wiring!NeverSilentlyLocal, Wiring!EnvKept, Wiring!Off
  <2>6. QED
    BY <2>2, <2>4, <2>5 DEF WiringInv
<1>4. CASE x.do = "inbox"
  <2>1. /\ Wiring!Step(t) /\ inbox' = [inbox EXCEPT !.chan = x.c] /\ UNCHANGED <<stored, flag>>
    BY <1>4 DEF Wiring!SetPref, Wiring!At, Wiring!Now
  <2>2. Near(t) /\ InboxStep(t)
    BY <1>1, <1>2, <1>4, <2>1 DEF InboxStep, Near, AtInbox
  <2>3. Opens(todo[t], Bare)
    BY <1>4, <2>2, InboxShape
  <2>4. /\ Left' /\ todo'[t] = Tail(todo[t])
        /\ \A u \in Wiring!Threads \ {t} : todo'[u] = todo[u]
    BY <1>1, <2>1, TailLeft
  <2>5. x.c \in Chans /\ inbox' \in [chan : Chans \cup {None}, since : Nat] /\ inbox'.chan = x.c
    BY <2>1, <2>3 DEF Opens, WiringInv, WiringTyped
  <2>6. PICK y : y = [do |-> "since", c |-> x.c, at |-> x.at]
    OBVIOUS
  <2>7. /\ todo'[t] # <<>> /\ Head(todo'[t]) = y
        /\ y.do = "since" /\ y.c = x.c /\ y.at = x.at
    BY <2>3, <2>4, <2>6 DEF Opens
  <2>8. ASSUME InboxAt(x) PROVE InboxAt(y)'
    BY <1>1, <1>4, <2>5, <2>7, <2>8 DEF InboxAt
  <2>9. Near(t)'
    BY <2>7 DEF Near, AtInbox
  <2>10. InboxAt(x) => InboxTrue'
    BY <2>7, <2>8, <2>9 DEF InboxTrue
  <2>11. QED
    BY <2>2, <2>4, <2>5, <2>10, AtInboxStep
<1>5. CASE x.do = "since"
  <2>1. /\ Wiring!Step(t) /\ inbox' = [inbox EXCEPT !.since = x.at] /\ UNCHANGED <<stored, flag>>
    BY <1>5 DEF Wiring!SetPref, Wiring!At, Wiring!Now
  <2>2. Near(t) /\ InboxStep(t)
    BY <1>1, <1>2, <1>5, <2>1 DEF InboxStep, Near, AtInbox
  <2>3. Halfway(todo[t], Bare)
    BY <1>5, <2>2, InboxShape
  <2>4. /\ Left' /\ todo'[t] = Tail(todo[t])
        /\ \A u \in Wiring!Threads \ {t} : todo'[u] = todo[u]
    BY <1>1, <2>1, TailLeft
  <2>5. /\ x.c \in Chans /\ x.at \in Nat /\ inbox' \in [chan : Chans \cup {None}, since : Nat]
        /\ inbox'.chan = inbox.chan /\ inbox'.since = x.at
    BY <1>5, <2>1, <2>3 DEF Halfway, WiringInv, WiringTyped
  <2>6. todo'[t] \in Seq(Plain(Bare))
    BY <2>3, <2>4 DEF Halfway
  <2>7. ~Near(t)'
    BY <2>6, PlainSeq DEF Near
  <2>8. InboxAt(x) => InboxAsTold'
    BY <1>1, <1>5, <2>5 DEF InboxAt, InboxAsTold
  <2>9. (\A u \in Wiring!Threads \ {t} : ~Near(u)) => \A u \in Wiring!Threads : ~Near(u)'
    BY <2>4, <2>7 DEF Near
  <2>10. (\A u \in Wiring!Threads \ {t} : ~Near(u)) /\ InboxAt(x) => InboxTrue'
    BY <2>8, <2>9 DEF InboxTrue
  <2>11. QED
    BY <2>2, <2>4, <2>5, <2>10, AtInboxStep
<1>6. CASE x.do = "inboxIf" /\ inbox.chan = x.c
  <2>1. Wiring!Step(t) /\ UNCHANGED <<inbox, stored, flag>>
    BY <1>6 DEF Wiring!SetPref, Wiring!At, Wiring!Now, Wiring!ClearIf, Wiring!prefs
  <2>2. Near(t) /\ InboxStep(t)
    BY <1>1, <1>2, <1>6, <2>1 DEF InboxStep, Near, AtInbox
  <2>3. Closes(todo[t], Bare)
    BY <1>6, <2>2, InboxShape
  <2>4. /\ Left' /\ todo'[t] = Tail(todo[t])
        /\ \A u \in Wiring!Threads \ {t} : todo'[u] = todo[u]
    BY <1>1, <2>1, TailLeft
  <2>5. PICK y : y = [do |-> "inboxOff", c |-> x.c]
    OBVIOUS
  <2>6. todo'[t] # <<>> /\ Head(todo'[t]) = y /\ y.do = "inboxOff" /\ y.c = x.c
    BY <2>3, <2>4, <2>5 DEF Closes
  <2>7. InboxAt(x) => InboxAt(y)'
    BY <1>1, <1>6, <2>1, <2>6 DEF InboxAt, InboxAsTold
  <2>8. Near(t)'
    BY <2>6 DEF Near, AtInbox
  <2>9. InboxAt(x) => InboxTrue'
    BY <2>6, <2>7, <2>8 DEF InboxTrue
  <2>10. inbox' \in [chan : Chans \cup {None}, since : Nat]
    BY <2>1 DEF WiringInv, WiringTyped
  <2>11. QED
    BY <2>2, <2>4, <2>9, <2>10, AtInboxStep
<1>7. CASE x.do = "inboxIf" /\ inbox.chan # x.c
  <2>1. todo' = [todo EXCEPT ![t] = <<>>] /\ UNCHANGED <<inbox, stored, flag>>
    BY <1>7 DEF Wiring!SetPref, Wiring!At, Wiring!Now, Wiring!ClearIf, Wiring!prefs
  <2>2. InboxStep(t)
    BY <1>1, <1>2, <1>7, <2>1 DEF InboxStep, AtInbox
  <2>3. Left /\ Shaped(<<>>, Bare')
    BY DEF WiringInv, WiringTyped, Left, Shaped
  <2>4. Left' /\ todo'[t] = <<>> /\ \A u \in Wiring!Threads \ {t} : todo'[u] = todo[u]
    BY <1>1, <2>1, <2>3, LeftSet
  <2>5. InboxAt(x) => InboxAsTold'
    BY <1>1, <1>7, <2>1 DEF InboxAt, InboxAsTold
  <2>6. (\A u \in Wiring!Threads \ {t} : ~Near(u)) => \A u \in Wiring!Threads : ~Near(u)'
    BY <2>4 DEF Near
  <2>7. (\A u \in Wiring!Threads \ {t} : ~Near(u)) /\ InboxAt(x) => InboxTrue'
    BY <2>5, <2>6 DEF InboxTrue
  <2>8. inbox' \in [chan : Chans \cup {None}, since : Nat]
    BY <2>1 DEF WiringInv, WiringTyped
  <2>9. QED
    BY <2>2, <2>4, <2>7, <2>8, AtInboxStep
<1>8. CASE x.do = "inboxOff"
  <2>1. /\ Wiring!Step(t) /\ inbox' = [inbox EXCEPT !.chan = None] /\ UNCHANGED <<stored, flag>>
    BY <1>8 DEF Wiring!SetPref, Wiring!At
  <2>2. Near(t) /\ InboxStep(t)
    BY <1>1, <1>2, <1>8, <2>1 DEF InboxStep, Near, AtInbox
  <2>3. Halfway(todo[t], Bare)
    BY <1>8, <2>2, InboxShape
  <2>4. /\ Left' /\ todo'[t] = Tail(todo[t])
        /\ \A u \in Wiring!Threads \ {t} : todo'[u] = todo[u]
    BY <1>1, <2>1, TailLeft
  <2>5. /\ x.c \in Chans /\ inbox' \in [chan : Chans \cup {None}, since : Nat]
    BY <1>8, <2>1, <2>3 DEF Halfway, WiringInv, WiringTyped
  <2>6. todo'[t] \in Seq(Plain(Bare))
    BY <2>3, <2>4 DEF Halfway
  <2>7. ~Near(t)'
    BY <2>6, PlainSeq DEF Near
  <2>8. InboxAt(x) => \A c \in Chans : ~(told[c].inbox > 0)
    BY <1>8, <2>5 DEF InboxAt, InboxAsTold
  <2>9. InboxAt(x) => InboxAsTold'
    BY <1>1, <2>8 DEF InboxAsTold
  <2>10. (\A u \in Wiring!Threads \ {t} : ~Near(u)) => \A u \in Wiring!Threads : ~Near(u)'
    BY <2>4, <2>7 DEF Near
  <2>11. (\A u \in Wiring!Threads \ {t} : ~Near(u)) /\ InboxAt(x) => InboxTrue'
    BY <2>9, <2>10 DEF InboxTrue
  <2>12. QED
    BY <2>2, <2>4, <2>5, <2>11, AtInboxStep
<1>9. x.do \in {"pref", "flag", "inbox", "since", "inboxIf", "inboxOff"}
  BY DEF Wiring!SetPref, Wiring!At
<1>10. QED
  BY <1>3, <1>4, <1>5, <1>6, <1>7, <1>8, <1>9

(* SyncStep: the poll brings the inbox to its flag.                          *)
LEMMA SyncStep == ASSUME WiringInv, Wiring!Sync PROVE WiringInv'
<1> DEFINE x == [do |-> "flag", on |-> stored]
<1>1. /\ todo["loop"] = <<>> /\ todo' = [todo EXCEPT !["loop"] = <<x>>]
      /\ UNCHANGED <<binding, told, env, exported, environ, inbox, stored, flag, noted, jobs,
                     cooked, wrote, ops, mishaps, annals>>
  BY DEF Wiring!Sync, Wiring!Ready, Wiring!rows, Wiring!files, Wiring!prefs, Wiring!pool
<1>2. "loop" \in Wiring!Threads /\ Left
  BY DEF Wiring!Threads, WiringInv, WiringTyped, Left
<1>3. x \in Plain(Bare')
  BY DEF WiringInv, WiringTyped, Plain
<1> HIDE DEF x
<1>4. <<x>> \in Seq(Plain(Bare')) /\ <<x>> # <<>>
  BY <1>3
<1>5. /\ Left' /\ todo'["loop"] = <<x>>
      /\ \A u \in Wiring!Threads \ {"loop"} : todo'[u] = todo[u]
  BY <1>1, <1>2, <1>4, LeftSet DEF Shaped
<1>6. \A u \in Wiring!Threads :
        (Near(u) <=> Near(u)') /\ (Near(u) => Head(todo'[u]) = Head(todo[u]))
  BY <1>1, <1>4, <1>5, PlainSeq DEF Near
<1>7. InboxTrue'
  BY <1>1, <1>2, <1>6, InboxSame DEF WiringInv
<1>8. Quiet
  BY <1>1 DEF WiringInv, WiringTyped, Quiet
<1>9. QED
  BY <1>5, <1>7, <1>8, QuietStep

\* A step that leaves what the threads do and the inbox alone.
LEMMA StillStep ==
    ASSUME WiringInv, UNCHANGED <<todo, inbox, stored, noted, told, binding, ops>>,
           annals \subseteq annals',
           Wiring!NeverSilentlyLocal', Wiring!EnvKept'
    PROVE  WiringInv'
<1>1. Left
  BY DEF WiringInv, WiringTyped, Left
<1>2. Left'
  BY <1>1, LeftSame
<1>3. InboxTrue'
  BY <1>1, InboxSame DEF WiringInv, Near
<1>4. WiringTyped' /\ RealmHeld' /\ HostHeld'
  BY <1>2 DEF WiringInv, WiringTyped, RealmHeld, HostHeld, Left
<1>5. QED
  BY <1>3, <1>4 DEF WiringInv

(* SubmitStep: an ask is taken from a channel.                               *)
LEMMA SubmitStep == ASSUME WiringInv, NEW c \in Chans, Wiring!Submit(c) PROVE WiringInv'
<1>1. UNCHANGED <<binding, told, env, inbox, stored, todo, noted, cooked, wrote, ops, annals>>
  BY DEF Wiring!Submit, Wiring!rows, Wiring!files, Wiring!prefs
<1>2. Wiring!NeverSilentlyLocal' /\ Wiring!EnvKept'
  BY <1>1 DEF WiringInv, Wiring!NeverSilentlyLocal, Wiring!EnvKept, Wiring!Off
<1>3. QED
  BY <1>1, <1>2, StillStep

(* CookStep: a job is cooked where its row says.                             *)
LEMMA CookStep == ASSUME WiringInv, NEW c \in Chans, Wiring!Cook(c) PROVE WiringInv'
<1>1. /\ UNCHANGED <<binding, told, env, inbox, stored, todo, noted, wrote, ops, annals>>
      /\ cooked'.where = Wiring!Route(c, binding[c].host) /\ cooked'.asked = told[c].host
  BY DEF Wiring!Cook, Wiring!CookWith, Wiring!rows, Wiring!files, Wiring!prefs
<1>2. Wiring!NeverSilentlyLocal'
  <2>1. ASSUME "crossed" \notin annals, told[c].host # None
        PROVE  Wiring!Route(c, binding[c].host) \in {told[c].host, "deny"}
    <3>1. PICK h : h = told[c].host /\ h = binding[c].host /\ h # None
      BY <2>1 DEF WiringInv, HostHeld
    <3>2. Wiring!Route(c, h) = IF h \in environ.hosts THEN h ELSE "deny"
      BY <3>1 DEF Wiring!Route
    <3>3. QED
      BY <3>1, <3>2
  <2>2. QED
    BY <1>1, <2>1 DEF Wiring!NeverSilentlyLocal, Wiring!Off
<1>3. Wiring!EnvKept'
  BY <1>1 DEF WiringInv, Wiring!EnvKept, Wiring!Off
<1>4. QED
  BY <1>1, <1>2, <1>3, StillStep

(* CookUnreadStep: a job is cooked while the table cannot be read.           *)
LEMMA CookUnreadStep == ASSUME WiringInv, NEW c \in Chans, Wiring!CookUnread(c) PROVE WiringInv'
<1>1. /\ UNCHANGED <<binding, told, env, inbox, stored, todo, noted, wrote, ops>>
      /\ annals' = annals \cup {"unread"}
  BY DEF Wiring!CookUnread, Wiring!CookWith, Wiring!rows, Wiring!files, Wiring!prefs
<1>2. Wiring!NeverSilentlyLocal' /\ Wiring!EnvKept'
  BY <1>1 DEF WiringInv, Wiring!NeverSilentlyLocal, Wiring!EnvKept, Wiring!Off
<1>3. QED
  BY <1>1, <1>2, StillStep

(* EditHostsStep: the hosts file is edited by hand.                          *)
LEMMA EditHostsStep == ASSUME WiringInv, Wiring!EditHosts PROVE WiringInv'
<1>1. UNCHANGED <<binding, told, inbox, stored, todo, noted, cooked, ops, annals>>
  BY DEF Wiring!EditHosts, Wiring!rows, Wiring!prefs, Wiring!pool
<1>2. Wiring!NeverSilentlyLocal'
  BY <1>1 DEF WiringInv, Wiring!NeverSilentlyLocal, Wiring!Off
<1>3. env = wrote => env' = wrote'
  BY DEF Wiring!EditHosts
<1>4. Wiring!EnvKept'
  BY <1>1, <1>3 DEF WiringInv, Wiring!EnvKept, Wiring!Off
<1>5. QED
  BY <1>1, <1>2, <1>4, StillStep

(* KillStep: a command is killed halfway.                                    *)
LEMMA KillStep == ASSUME WiringInv, NEW t \in Wiring!Threads, Wiring!Kill(t) PROVE WiringInv'
<1>1. /\ UNCHANGED <<binding, told, inbox, stored, noted, cooked, wrote, ops>>
      /\ annals' = annals \cup {"killed"} /\ todo' = [todo EXCEPT ![t] = <<>>]
  BY DEF Wiring!Kill, Wiring!rows, Wiring!prefs, Wiring!pool
<1>2. Left /\ Shaped(<<>>, Bare')
  BY DEF WiringInv, WiringTyped, Left, Shaped
<1>3. Left'
  BY <1>1, <1>2, LeftSet
<1>4. WiringTyped' /\ RealmHeld' /\ HostHeld' /\ InboxTrue'
  BY <1>1, <1>3 DEF WiringInv, WiringTyped, RealmHeld, HostHeld, InboxTrue, Left
<1>5. Wiring!NeverSilentlyLocal' /\ Wiring!EnvKept'
  BY <1>1 DEF WiringInv, Wiring!NeverSilentlyLocal, Wiring!EnvKept, Wiring!Off
<1>6. QED
  BY <1>4, <1>5 DEF WiringInv

(* SeedKeeps: a seeded row is still bound to its host.                       *)
LEMMA SeedKeeps ==
    ASSUME NEW c \in Chans, NEW e, NEW r \in Wiring!Seeded(c, e), DOMAIN binding[c] = RowKeys
    PROVE  DOMAIN r = RowKeys /\ r.host = binding[c].host
<1>1. ASSUME NEW put, NEW entry, DOMAIN entry = RowKeys, "host" \notin DOMAIN put
     
     PROVE
          DOMAIN Wiring!Over(put, entry) = RowKeys /\ Wiring!Over(put, entry).host = entry.host
  BY <1>1 DEF Wiring!Over, RowKeys
<1>2. PICK mem : mem = [memory |-> binding[c].memory \/ c \in e.memory]
  OBVIOUS
<1>3. PICK base : base = Wiring!Over(mem, binding[c])
  OBVIOUS
<1>4. DOMAIN base = RowKeys /\ base.host = binding[c].host
  BY <1>1, <1>2, <1>3
<1>5. \/ r = base
      \/ \E n, k : r = Wiring!Over([repo |-> n, cwd |-> k], base)
  <2>1. r \in Wiring!Seeds(c, e)
    BY DEF Wiring!Seeded
  <2> DEFINE lines == {n \in Wiring!AllNames : e.line[n] = c}
             kept  == IF lines \cap Names = {} THEN {binding[c].cwd} ELSE lines \cap Names
  <2>2. Wiring!Seeds(c, e) =
          IF lines = {} THEN {base}
          ELSE {Wiring!Over([repo |-> n, cwd |-> k], base) : n \in lines, k \in kept}
    BY <1>2, <1>3 DEF Wiring!Seeds
  <2> HIDE DEF lines, kept
  <2>3. CASE lines = {}
    BY <2>1, <2>2, <2>3
  <2>4. CASE lines # {}
    <3>1. r \in {Wiring!Over([repo |-> n, cwd |-> k], base) : n \in lines, k \in kept}
      BY <2>1, <2>2, <2>4
    <3>2. PICK n \in lines, k \in kept : r = Wiring!Over([repo |-> n, cwd |-> k], base)
      BY <3>1
    <3>3. QED
      BY <3>2, Zenon
  <2>5. QED
    BY <2>3, <2>4
<1>6. ASSUME NEW n, NEW k, r = Wiring!Over([repo |-> n, cwd |-> k], base)
      PROVE  DOMAIN r = RowKeys /\ r.host = binding[c].host
  <2> DEFINE put == [repo |-> n, cwd |-> k]
  <2>1. "host" \notin DOMAIN put
    OBVIOUS
  <2>2. r = Wiring!Over(put, base)
    BY <1>6
  <2> HIDE DEF put
  <2>3. QED
    BY <1>1, <1>4, <2>1, <2>2
<1>7. QED
  BY <1>4, <1>5, <1>6

(* RestartStep: the host starts again and seeds the table.                   *)
LEMMA RestartStep == ASSUME WiringInv, Wiring!Restart PROVE WiringInv'
<1>1. /\ UNCHANGED <<told, env, wrote, inbox, stored, noted, cooked, ops>>
      /\ annals' = annals \cup (IF binding' # binding THEN {"seeded"} ELSE {})
                          \cup (IF todo["gate"] = <<>> /\ todo["loop"] = <<>> THEN {}
                                ELSE {"killed"})
      /\ todo' = [t \in Wiring!Threads |-> IF t \in Clis THEN todo[t] ELSE <<>>]
  BY DEF Wiring!Restart, Wiring!files, Wiring!Ready
<1>2. annals \subseteq annals'
  BY <1>1
<1>3. /\ DOMAIN binding' = Chans
      /\ \A c \in Chans : binding'[c] \in Wiring!Seeded(c, environ')
  BY DEF Wiring!Restart
<1>4. \A c \in Chans : DOMAIN binding'[c] = RowKeys /\ binding'[c].host = binding[c].host
  BY <1>3, SeedKeeps DEF WiringInv, WiringTyped
<1>5. Left
  BY DEF WiringInv, WiringTyped, Left
<1>6. Left'
  <2>1. Bare \in BOOLEAN /\ Bare' \in BOOLEAN /\ (Bare => Bare')
    BY <1>2 DEF Bare
  <2>2. \A t \in Wiring!Threads : Shaped(todo[t], Bare')
    BY <1>5, <2>1, ShapedWider DEF Left
  <2>3. Shaped(<<>>, Bare')
    BY DEF Shaped
  <2>4. QED
    BY <1>1, <2>2, <2>3 DEF Left
<1>7. WiringTyped'
  <2>1. DOMAIN binding' = Chans /\ \A c \in Chans : DOMAIN binding'[c] = RowKeys
    BY <1>3, <1>4
  <2>2. UNCHANGED <<told, inbox, stored, noted, ops>>
    BY <1>1
  <2>3. QED
    BY <1>6, <2>1, <2>2 DEF WiringInv, WiringTyped, Left
<1>8. RealmHeld' /\ HostHeld'
  BY <1>1, <1>4 DEF WiringInv, RealmHeld, HostHeld
<1>9. InboxTrue'
  <2>1. CASE todo["gate"] = <<>> /\ todo["loop"] = <<>>
    <3>1. \A t \in Wiring!Threads : todo'[t] = todo[t]
      BY <1>1, <2>1 DEF Wiring!Threads
    <3>2. QED
      BY <1>1, <1>2, <1>5, <3>1, InboxSame DEF WiringInv, Near
  <2>2. CASE ~(todo["gate"] = <<>> /\ todo["loop"] = <<>>)
    BY <1>1, <2>2 DEF InboxTrue
  <2>3. QED
    BY <2>1, <2>2
<1>10. Wiring!NeverSilentlyLocal' /\ Wiring!EnvKept'
  BY <1>1, <1>2 DEF WiringInv, Wiring!NeverSilentlyLocal, Wiring!EnvKept, Wiring!Off
<1>11. QED
  BY <1>7, <1>8, <1>9, <1>10 DEF WiringInv

(* BindStep: what is sent or typed about a channel.                          *)
LEMMA BindStep ==
    ASSUME WiringInv, Unknown \notin Names, NEW t \in {"loop", "gate"}, NEW c \in Chans,
           \/ \E n \in Wiring!AllNames : Wiring!BindRealm(t, c, n)
           \/ Wiring!BindMemory(t, c)
           \/ \E h \in Hosts : Wiring!BindHost(t, c, h) \/ Wiring!BindHostDenied(t, c, h)
    PROVE  WiringInv'
<1>0. t \in Wiring!Threads
  BY DEF Wiring!Threads
<1>1. ASSUME NEW n \in Wiring!AllNames, Wiring!BindRealm(t, c, n) PROVE WiringInv'
  <2> DEFINE steps == Wiring!RealmRow(t, c, n)
  <2>1. /\ Wiring!Command(t, steps)
        /\ annals' = annals \cup (IF n = Unknown THEN {"unknown"} ELSE {})
        /\ \/ told' = told
           \/ told' = [told EXCEPT ![c].repo = n] /\ n = Unknown
    BY <1>1 DEF Wiring!BindRealm
  <2>2. steps \in Seq(Plain(Bare'))
    <3>1. steps \in Seq(Plain(TRUE)) /\ (n # Unknown => steps \in Seq(Plain(FALSE)))
      BY RealmPlain DEF Wiring!AllNames
    <3>2. Bare' \in BOOLEAN /\ (n = Unknown => Bare')
      BY <2>1 DEF Bare
    <3>3. Plain(FALSE) \subseteq Plain(TRUE)
      BY PlainWider
    <3> HIDE DEF steps
    <3>4. steps \in Seq(Plain(FALSE)) => steps \in Seq(Plain(TRUE))
      BY <3>3, SeqWider
    <3>5. CASE Bare' = TRUE
      BY <3>1, <3>5
    <3>6. CASE Bare' = FALSE
      BY <3>1, <3>2, <3>6
    <3>7. QED
      BY <3>2, <3>5, <3>6
  <2> HIDE DEF steps
  <2>3. QED
    BY <1>0, <2>1, <2>2, PlainCommand
<1>2. CASE Wiring!BindMemory(t, c)
  <2>1. Wiring!Command(t, Wiring!Merge(c, [memory |-> TRUE])) /\ told' = told /\ annals' = annals
    BY <1>2 DEF Wiring!BindMemory
  <2>2. [memory |-> TRUE] \in Puts(Bare')
    BY DEF Puts, KnownPuts
  <2>3. Wiring!Merge(c, [memory |-> TRUE]) \in Seq(Plain(Bare'))
    BY <2>2, MergePlain
  <2>4. QED
    BY <1>0, <2>1, <2>3, PlainCommand
<1>3. ASSUME NEW h \in Hosts, Wiring!BindHost(t, c, h) PROVE WiringInv'
  <2>1. Wiring!Command(t, Wiring!Merge(c, [host |-> h])) /\ told' = told /\ annals' = annals
    BY <1>3 DEF Wiring!BindHost
  <2>2. [host |-> h] \in Puts(Bare')
    BY DEF Puts, KnownPuts
  <2>3. Wiring!Merge(c, [host |-> h]) \in Seq(Plain(Bare'))
    BY <2>2, MergePlain
  <2>4. QED
    BY <1>0, <2>1, <2>3, PlainCommand
<1>4. ASSUME NEW h \in Hosts, Wiring!BindHostDenied(t, c, h) PROVE WiringInv'
  <2>1. Wiring!Command(t, <<>>) /\ told' = told /\ annals' = annals
    BY <1>4 DEF Wiring!BindHostDenied
  <2>2. <<>> \in Seq(Plain(Bare'))
    OBVIOUS
  <2>3. QED
    BY <1>0, <2>1, <2>2, PlainCommand
<1>5. QED
  BY <1>1, <1>2, <1>3, <1>4

(* AddStep: discord-os add.                                                  *)
LEMMA AddStep ==
    ASSUME WiringInv, Unknown \notin Names, NEW t \in Clis, NEW steps,
           Wiring!Command(t, steps), steps \in Seq(Plain(FALSE)), UNCHANGED <<told, annals>>
    PROVE  WiringInv'
<1>1. t \in Wiring!Threads
  BY DEF Wiring!Threads
<1>2. Bare' \in BOOLEAN
  BY DEF Bare
<1>3. \A b \in BOOLEAN : Plain(FALSE) \subseteq Plain(b)
  BY PlainWider
<1>4. \A b \in BOOLEAN : steps \in Seq(Plain(b))
  BY <1>3, SeqWider
<1>5. steps \in Seq(Plain(Bare'))
  BY <1>2, <1>4
<1>6. QED
  BY <1>1, <1>5, PlainCommand

(* CliStep: what is typed in a terminal.                                     *)
LEMMA CliStep ==
    ASSUME WiringInv, Unknown \notin Names, NEW t \in Clis,
           \/ \E c \in Chans :
                \/ \E n \in Wiring!AllNames :
                       Wiring!CliRealm(t, c, n) \/ Wiring!CliDeskPack(t, c, n)
                \/ Wiring!CliMemory(t, c) \/ Wiring!CliCapture(t, c)
           \/ Wiring!CliTool(t) \/ Wiring!CliWiki(t)
    PROVE  WiringInv'
<1>1. ASSUME NEW c \in Chans, NEW n \in Wiring!AllNames, Wiring!CliRealm(t, c, n) PROVE WiringInv'
  BY <1>1, AddPlain, AddStep DEF Wiring!CliRealm, Wiring!AllNames
<1>2. ASSUME NEW c \in Chans, NEW n \in Wiring!AllNames, Wiring!CliDeskPack(t, c, n)
      PROVE  WiringInv'
  BY <1>2, AddPlain, AddStep DEF Wiring!CliDeskPack, Wiring!AllNames
<1>3. ASSUME NEW c \in Chans, Wiring!CliMemory(t, c) PROVE WiringInv'
  <2>1. Wiring!AddMemory(c) \in Seq(Plain(FALSE))
    BY AddPlain DEF Wiring!AllNames
  <2>2. QED
    BY <1>3, <2>1, AddStep DEF Wiring!CliMemory
<1>4. ASSUME NEW c \in Chans, Wiring!CliCapture(t, c) PROVE WiringInv'
  <2> DEFINE a == Wiring!Merge(c, [capture |-> TRUE])
             b == Wiring!Line("capture", None, c)
  <2>1. [capture |-> TRUE] \in Puts(FALSE)
    BY DEF Puts, KnownPuts
  <2>2. a \in Seq(Plain(FALSE)) /\ b \in Seq(Plain(FALSE))
    BY <2>1, MergePlain, PutPlain
  <2>3. Wiring!Command(t, a \o b) /\ UNCHANGED <<told, annals>>
    BY <1>4 DEF Wiring!CliCapture
  <2> HIDE DEF a, b
  <2>4. QED
    BY <2>2, <2>3, ConcatSeq, AddStep
<1>5. CASE Wiring!CliTool(t)
  BY <1>5, PutPlain, AddStep DEF Wiring!CliTool
<1>6. CASE Wiring!CliWiki(t)
  BY <1>6, PutPlain, AddStep DEF Wiring!CliWiki
<1>7. QED
  BY <1>1, <1>2, <1>3, <1>4, <1>5, <1>6

(* ToggleStep: /features, and the inbox.                                     *)
LEMMA ToggleStep ==
    ASSUME WiringInv, NEW t \in {"gate"} \cup Clis,
           \/ \E on \in BOOLEAN : Wiring!ToggleHost(t, on)
           \/ \E c \in Chans : Wiring!InboxOn(t, c) \/ Wiring!InboxOff(t, c)
           \/ \E c \in Chans, on \in BOOLEAN : Wiring!ToggleCapture(t, c, on)
    PROVE  WiringInv'
<1>0. t \in Wiring!Threads
  BY DEF Wiring!Threads
<1>1. ASSUME NEW on \in BOOLEAN, Wiring!ToggleHost(t, on) PROVE WiringInv'
  <2> DEFINE a == [do |-> "pref", on |-> on]
             b == [do |-> "flag", on |-> on]
  <2>1. a \in Plain(Bare') /\ b \in Plain(Bare')
    BY DEF Plain
  <2>2. Wiring!Command(t, IF t = "gate" THEN <<a, b>> ELSE <<a>>) /\ UNCHANGED <<told, annals>>
    BY <1>1 DEF Wiring!ToggleHost
  <2> HIDE DEF a, b
  <2>3. (IF t = "gate" THEN <<a, b>> ELSE <<a>>) \in Seq(Plain(Bare'))
    BY <2>1
  <2>4. QED
    BY <1>0, <2>2, <2>3, PlainCommand
<1>2. ASSUME NEW c \in Chans, NEW on \in BOOLEAN, Wiring!ToggleCapture(t, c, on) PROVE WiringInv'
  <2>1. Wiring!Command(t, Wiring!Merge(c, [capture |-> on])) /\ UNCHANGED <<told, annals>>
    BY <1>2 DEF Wiring!ToggleCapture
  <2>2. [capture |-> on] \in Puts(Bare')
    BY DEF Puts, KnownPuts
  <2>3. Wiring!Merge(c, [capture |-> on]) \in Seq(Plain(Bare'))
    BY <2>2, MergePlain
  <2>4. QED
    BY <1>0, <2>1, <2>3, PlainCommand
<1>3. QED
  BY <1>0, <1>1, <1>2, InboxOnStep, InboxOffStep

(* WiringStep: by cases on what the threads do.                              *)
LEMMA WiringStep ==
    Unknown \notin Names /\ WiringInv /\ [Wiring!Next]_(Wiring!vars) => WiringInv'
<1> SUFFICES ASSUME Unknown \notin Names, WiringInv, [Wiring!Next]_(Wiring!vars)
             PROVE  WiringInv'
  OBVIOUS
<1>1. ASSUME NEW t \in Wiring!Threads, Wiring!Work(t) PROVE WiringInv'
  BY <1>1, ReadStep, WriteStep, ReadEnvStep, SaveEnvStep, SetPrefStep DEF Wiring!Work
<1>2. ASSUME NEW t \in Clis, Wiring!Kill(t) PROVE WiringInv'
  BY <1>2, KillStep DEF Wiring!Threads
<1>3. CASE UNCHANGED Wiring!vars
  <2>1. UNCHANGED <<todo, inbox, stored, noted, told, binding, ops, annals, cooked, env, wrote>>
    BY <1>3 DEF Wiring!vars
  <2>2. Wiring!NeverSilentlyLocal' /\ Wiring!EnvKept'
    BY <2>1 DEF WiringInv, Wiring!NeverSilentlyLocal, Wiring!EnvKept, Wiring!Off
  <2>3. QED
    BY <2>1, <2>2, StillStep
<1>4. QED
  BY <1>1, <1>2, <1>3, BindStep, CliStep, ToggleStep, SyncStep, SubmitStep, CookStep,
     CookUnreadStep, RestartStep, EditHostsStep
     DEF Wiring!Next

(* WiredAsTold: whatever binds, edits, restarts and cooks cross, a channel   *)
(* ends up wired to the realm its people were told last and is never cooked  *)
(* silently on another host, .env holds what the commands wrote and the      *)
(* inbox stays where it was opened, unless one of the crossings each of them *)
(* names is recorded (host/add.py, runners.py).                              *)
THEOREM WiredAsTold ==
    ASSUME Unknown \notin Names
    PROVE  Wiring!Spec => [](/\ Wiring!BoundAsTold /\ Wiring!NeverSilentlyLocal
                             /\ Wiring!EnvKept /\ Wiring!InboxHeld)
<1>1. ASSUME WiringInv PROVE Wiring!BoundAsTold /\ Wiring!InboxHeld
  <2>1. ASSUME annals \cap {"crossed", "seeded", "unknown", "killed"} = {}, NEW c \in Chans,
               told[c].repo # None
        PROVE  Wiring!Tree(binding[c]) = told[c].repo
    BY <1>1, <2>1 DEF WiringInv, RealmHeld, Wiring!Tree
  <2>2. ASSUME Wiring!AllReady, annals \cap {"inboxCrossed", "killed"} = {} PROVE InboxAsTold
    BY <1>1, <2>2 DEF WiringInv, InboxTrue, Near, Wiring!AllReady, Wiring!Ready
  <2>3. QED
    BY <2>1, <2>2 DEF Wiring!BoundAsTold, Wiring!InboxHeld, Wiring!Off, InboxAsTold
<1>2. WiringInv => Wiring!NeverSilentlyLocal /\ Wiring!EnvKept
  BY DEF WiringInv
<1>3. QED
  BY <1>1, <1>2, WiringInit, WiringStep, PTL DEF Wiring!Spec
=============================================================================
