------------------------------- MODULE Wiring -------------------------------
(***************************************************************************)
(* How channels are wired to checkouts, hosts and features: "bind" typed   *)
(* in a channel or sent as a slash command, discord-os add, /features, and *)
(* the restart that seeds the bindings from .env (host/add.py, realms.py,  *)
(* runners.py, features.py).                                               *)
(*                                                                         *)
(* A binding row and the .env file are read, changed and written back by   *)
(* three processes without a transaction.  A thread's work is the sequence *)
(* of the reads and writes it has left.  A checkout is named by its repo.  *)
(***************************************************************************)
EXTENDS Naturals, Sequences, FiniteSets

CONSTANTS
    Chans,      \* channels
    Names,      \* repositories with a checkout (DISCORD_OS_REPOS)
    Unknown,    \* a name without one
    Hosts,      \* ids of remote hosts
    Claims,     \* Hosts -> SUBSET Chans: the channels DISCORD_OS_HOSTS gives a host
    Clis,       \* discord-os processes besides the host
    MaxOps,     \* bound of the model: commands
    MaxFaults,  \* bound of the model: restarts, kills, edits, unreadable rows
    None        \* nothing

Threads  == {"loop", "gate"} \cup Clis
AllNames == Names \cup {Unknown}

VARIABLES
    binding,   \* metadata of workspace_bindings
    env,       \* the .env file
    exported,  \* the shell that starts the host exports .env
    environ,   \* os.environ of the host
    inbox,     \* the inbox preferences: channel, moment of the opening
    stored,    \* the preference of a host feature
    flag,      \* its variable in os.environ
    todo,      \* what each thread still reads and writes
    seen,      \* what it read
    jobs,      \* asks waiting in the pool: the tree their write lock covers
    cooked,    \* the last cook
    told,      \* what the people of each channel were told last
    wrote,     \* .env as the commands that ended wrote it
    ops, faults,
    history    \* crossed, envCrossed, seeded, unknown, unread, killed

vars == <<binding, env, exported, environ, inbox, stored, flag, todo, seen, jobs, cooked,
          told, wrote, ops, faults, history>>

rows   == <<binding, told>>
files  == <<env, wrote>>
prefs  == <<inbox, stored, flag>>
pool   == <<jobs, cooked>>

-----------------------------------------------------------------------------
NoRow  == [repo |-> None, cwd |-> None, host |-> None, memory |-> FALSE, capture |-> FALSE]
NoEnv  == [line |-> [n \in AllNames |-> None], memory |-> {}, capture |-> {}, tools |-> FALSE,
           token |-> FALSE, inbox |-> None, hosts |-> {}]
Unread == [row |-> NoRow, file |-> NoEnv, on |-> FALSE]

Ready(t)    == todo[t] = <<>>
At(t, step) == ~Ready(t) /\ Head(todo[t]).do = step
Now(t)      == Head(todo[t])
Step(t)     == todo' = [todo EXCEPT ![t] = Tail(@)]
Fault       == faults < MaxFaults /\ faults' = faults + 1

\* realm_for_channel: the checkout of a channel.
Tree(row) == CASE row.cwd # None -> row.cwd
               [] row.cwd = None /\ row.repo \in Names -> row.repo
               [] OTHER -> None

\* resolve_channel_host: "deny" for a host that is not allowlisted or two that claim.
Route(c, bound) ==
    LET claimed == {h \in environ.hosts : c \in Claims[h]}
    IN  CASE bound # None -> IF bound \in environ.hosts THEN bound ELSE "deny"
          [] bound = None /\ Cardinality(claimed) > 1 -> "deny"
          [] bound = None /\ Cardinality(claimed) = 1 -> CHOOSE h \in claimed : TRUE
          [] OTHER -> "local"

\* listen_channel_ids, without the channel the host was started on.
Listened == {c \in Chans :
    \/ binding[c].repo # None \/ binding[c].memory
    \/ \E n \in AllNames : environ.line[n] = c}

Init ==
    /\ binding = [c \in Chans |-> NoRow]
    /\ exported \in BOOLEAN
    /\ \E hs \in SUBSET Hosts :
         /\ env = [NoEnv EXCEPT !.hosts = hs] /\ wrote = env
         /\ environ = IF exported THEN env ELSE NoEnv
    /\ inbox = [chan |-> None, since |-> 0]
    /\ stored = None /\ flag = FALSE
    /\ todo = [t \in Threads |-> <<>>] /\ seen = [t \in Threads |-> Unread]
    /\ jobs = [c \in Chans |-> {}] /\ cooked = None
    /\ told = [c \in Chans |-> [repo |-> None, host |-> None, inbox |-> 0]]
    /\ ops = 0 /\ faults = 0
    /\ history = {}

-----------------------------------------------------------------------------
(* The commands, as the steps they take.                                   *)

\* merge_binding_metadata.
Merge(c, put) == << [do |-> "read", c |-> c, put |-> put], [do |-> "write", c |-> c, put |-> put] >>

\* upsert_dotenv reads and writes all lines; a value that is a list was read before.
Put(key, n, c) == << [do |-> "lines", key |-> key, n |-> n, c |-> c],
                     [do |-> "save",  key |-> key, n |-> n, c |-> c] >>

Line(key, n, c) == << [do |-> "value", key |-> key, n |-> n, c |-> c] >> \o Put(key, n, c)

Lists == {"line", "memory", "capture", "tools"}

\* bind_channel_realm: a name without a checkout changes nothing.  The slash command
\* then records the bare name; a typed bind only says it.
RealmRow(t, c, n) ==
    CASE n \in Names -> Merge(c, [repo |-> n, cwd |-> n])
      [] n = Unknown /\ t = "gate" -> Merge(c, [repo |-> n])
      [] OTHER -> <<>>

AddRealm(c, n) == RealmRow("cli", c, n) \o Line("line", n, c)
AddMemory(c)   == Merge(c, [memory |-> TRUE]) \o Line("memory", None, c)

Command(t, steps) ==
    /\ Ready(t) /\ ops < MaxOps /\ ops' = ops + 1
    /\ todo' = [todo EXCEPT ![t] = steps]
    /\ UNCHANGED <<env, exported, environ, binding, prefs, seen, pool, wrote, faults>>

\* What an answer says of a row.
Spoken(put) == [f \in DOMAIN put \cap {"repo", "host"} |-> put[f]]

\* _absorb_bind needs a channel that is polled, _handle_bind_slash does not.
BindRealm(t, c, n) ==
    /\ t = "loop" => c \in Listened
    /\ Command(t, RealmRow(t, c, n))
    /\ told' = IF n = Unknown THEN [told EXCEPT ![c].repo = n] ELSE told
    /\ history' = history \cup (IF n = Unknown THEN {"unknown"} ELSE {})

BindMemory(t, c) ==
    /\ t = "loop" => c \in Listened
    /\ Command(t, Merge(c, [memory |-> TRUE]))
    /\ UNCHANGED <<told, history>>

\* bind_channel_host: a host that is not allowlisted is denied aloud.
BindHost(t, c, h) ==
    /\ t = "loop" => c \in Listened
    /\ h \in environ.hosts
    /\ Command(t, Merge(c, [host |-> h]))
    /\ UNCHANGED <<told, history>>

BindHostDenied(t, c, h) ==
    /\ h \notin environ.hosts
    /\ Command(t, <<>>)
    /\ UNCHANGED <<told, history>>

CliRealm(t, c, n) == Command(t, AddRealm(c, n)) /\ UNCHANGED <<told, history>>

CliMemory(t, c) == Command(t, AddMemory(c)) /\ UNCHANGED <<told, history>>

\* add desk-pack: a realm and a memory channel.
CliDeskPack(t, c, n) ==
    Command(t, AddRealm(c, n) \o AddMemory(c)) /\ UNCHANGED <<told, history>>

CliCapture(t, c) ==
    /\ Command(t, Merge(c, [capture |-> TRUE]) \o Line("capture", None, c))
    /\ UNCHANGED <<told, history>>

\* add tool, repo, github; add wiki.
CliTool(t) == Command(t, Line("tools", None, None)) /\ UNCHANGED <<told, history>>
CliWiki(t) == Command(t, Put("token", None, None)) /\ UNCHANGED <<told, history>>

\* set_feature: capture is a key of the binding, a host feature a preference and, in
\* the host's own process, a variable.
ToggleCapture(t, c, on) ==
    Command(t, Merge(c, [capture |-> on])) /\ UNCHANGED <<told, history>>

ToggleHost(t, on) ==
    /\ Command(t, IF t = "gate"
                  THEN << [do |-> "pref", on |-> on], [do |-> "flag", on |-> on] >>
                  ELSE << [do |-> "pref", on |-> on] >>)
    /\ UNCHANGED <<told, history>>

\* enable_pm_inbox takes the moment, writes the channel, then the moment; add pm-inbox
\* writes .env too.
InboxOn(t, c) ==
    /\ \E alsoEnv \in IF t \in Clis THEN BOOLEAN ELSE {FALSE} :
         Command(t, << [do |-> "inbox", c |-> c, at |-> ops + 1],
                       [do |-> "since", c |-> c, at |-> ops + 1] >>
                    \o (IF alsoEnv THEN Put("inbox", None, c) ELSE <<>>))
    /\ told' = [x \in Chans |-> [told[x] EXCEPT !.inbox = IF x = c THEN ops + 1 ELSE 0]]
    /\ UNCHANGED history

InboxOff(t, c) ==
    /\ Command(t, << [do |-> "inboxIf", c |-> c], [do |-> "inboxOff", c |-> c] >>)
    /\ told' = [told EXCEPT ![c].inbox = 0]
    /\ UNCHANGED history

-----------------------------------------------------------------------------
(* The steps.                                                              *)

Read(t) ==
    /\ At(t, "read")
    /\ seen' = [seen EXCEPT ![t].row = binding[Now(t).c]]
    /\ Step(t)
    /\ UNCHANGED <<rows, env, exported, environ, prefs, pool, wrote, ops, faults, history>>

\* A row with some of its keys put anew.
Over(put, row) == [f \in DOMAIN row |-> IF f \in DOMAIN put THEN put[f] ELSE row[f]]

Merged(t) == Over(Now(t).put, seen[t].row)

\* The whole row is written: what another thread wrote since the read is lost.
Write(t) ==
    /\ At(t, "write")
    /\ binding' = [binding EXCEPT ![Now(t).c] = Merged(t)]
    /\ told' = [told EXCEPT ![Now(t).c] = Over(Spoken(Now(t).put), @)]
    /\ history' = history \cup (IF binding[Now(t).c] # seen[t].row THEN {"crossed"} ELSE {})
    /\ Step(t)
    /\ UNCHANGED <<env, exported, environ, prefs, seen, pool, wrote, ops, faults>>

\* A list the file lacks is taken from the environment of the process: here what the
\* shell exported to the host.
Filled(file) ==
    [file EXCEPT !.line = IF \A n \in AllNames : @[n] = None THEN environ.line ELSE @,
                 !.memory = IF @ = {} THEN environ.memory ELSE @,
                 !.capture = IF @ = {} THEN environ.capture ELSE @,
                 !.tools = @ \/ environ.tools]

ReadEnv(t) ==
    /\ \/ /\ At(t, "value")
          /\ seen' = [seen EXCEPT ![t].file = Filled(env)]
       \/ /\ At(t, "lines")
          /\ seen' = [seen EXCEPT ![t].file =
                [env EXCEPT ![Now(t).key] = IF Now(t).key \in Lists THEN seen[t].file[Now(t).key]
                                            ELSE @]]
    /\ Step(t)
    /\ UNCHANGED <<rows, env, exported, environ, prefs, pool, wrote, ops, faults, history>>

\* merge_named_csv, merge_id_csv, merge_tools_json: one entry more, the others as read.
Entered(x, file) ==
    CASE x.key = "line" -> [file EXCEPT !.line[x.n] = x.c]
      [] x.key \in {"memory", "capture"} -> [file EXCEPT ![x.key] = @ \cup {x.c}]
      [] x.key \in {"tools", "token"} -> [file EXCEPT ![x.key] = TRUE]
      [] x.key = "inbox" -> [file EXCEPT !.inbox = x.c]

Saved(x, file) == Entered(x, file)

SaveEnv(t) ==
    /\ At(t, "save")
    /\ env' = Saved(Now(t), seen[t].file)
    /\ wrote' = Entered(Now(t), wrote)
    /\ history' = history \cup (IF env # seen[t].file THEN {"envCrossed"} ELSE {})
    /\ Step(t)
    /\ UNCHANGED <<rows, exported, environ, prefs, seen, pool, ops, faults>>

\* Mutant of ClearIf: the inbox of another channel is closed too.
ClearIfAny(t) == TRUE

ClearIf(t) == inbox.chan = Now(t).c

SetPref(t) ==
    /\ \/ /\ At(t, "pref") /\ stored' = Now(t).on /\ UNCHANGED <<inbox, flag>> /\ Step(t)
       \/ /\ At(t, "flag") /\ flag' = Now(t).on /\ UNCHANGED <<inbox, stored>> /\ Step(t)
       \/ /\ At(t, "inbox") /\ inbox' = [inbox EXCEPT !.chan = Now(t).c]
          /\ UNCHANGED <<stored, flag>> /\ Step(t)
       \/ /\ At(t, "since") /\ inbox' = [inbox EXCEPT !.since = Now(t).at]
          /\ UNCHANGED <<stored, flag>> /\ Step(t)
       \/ /\ At(t, "inboxIf") /\ UNCHANGED prefs
          /\ IF ClearIf(t) THEN Step(t) ELSE todo' = [todo EXCEPT ![t] = <<>>]
       \/ /\ At(t, "inboxOff") /\ inbox' = [inbox EXCEPT !.chan = None]
          /\ UNCHANGED <<stored, flag>> /\ Step(t)
    /\ history' = history \cup
         (IF Now(t).do \in {"inbox", "since", "inboxIf", "inboxOff"}
             /\ \E u \in Threads \ {t} :
                  ~Ready(u) /\ Now(u).do \in {"inbox", "since", "inboxIf", "inboxOff"}
          THEN {"inboxCrossed"} ELSE {})
    /\ UNCHANGED <<rows, files, exported, environ, seen, pool, ops, faults>>

\* sync_feature_env at every poll of the loop.
Sync ==
    /\ Ready("loop") /\ stored # None
    /\ todo' = [todo EXCEPT !["loop"] = << [do |-> "flag", on |-> stored] >>]
    /\ UNCHANGED <<rows, files, exported, environ, prefs, seen, pool, ops, faults, history>>

-----------------------------------------------------------------------------
(* The asks of a channel: resolve_run_checkout for the lock, then again for *)
(* the cook.                                                               *)

Submit(c) ==
    /\ c \in Listened /\ jobs[c] = {}
    /\ jobs' = [jobs EXCEPT ![c] = {Tree(binding[c])}]
    /\ UNCHANGED <<rows, files, exported, environ, prefs, todo, seen, cooked, ops, faults, history>>

CookWith(c, bound) ==
    /\ jobs[c] # {}
    /\ jobs' = [jobs EXCEPT ![c] = {}]
    /\ cooked' = [c |-> c, lock |-> jobs[c], tree |-> Tree(binding[c]),
                  where |-> Route(c, bound), asked |-> told[c].host]
    /\ UNCHANGED <<rows, files, exported, environ, prefs, todo, seen, ops>>

Cook(c) == CookWith(c, binding[c].host) /\ UNCHANGED <<faults, history>>

\* _bound_host_id takes a row it cannot read for a channel without a host.
CookUnread(c) ==
    /\ Fault /\ binding[c].host # None
    /\ CookWith(c, None)
    /\ history' = history \cup {"unread"}

-----------------------------------------------------------------------------
(* Restarts, kills, edits by hand.                                         *)

\* seed_channel_realms and seed_memory_channels: the line that comes last names the
\* repo, the last one with a checkout the cwd.
Seeds(c, e) ==
    LET lines == {n \in AllNames : e.line[n] = c}
        mem   == [memory |-> binding[c].memory \/ c \in e.memory]
    IN  IF lines = {} THEN {Over(mem, binding[c])}
        ELSE {Over([repo |-> n, cwd |-> k], Over(mem, binding[c])) : n \in lines,
              k \in IF lines \cap Names = {} THEN {binding[c].cwd} ELSE lines \cap Names}

Seeded(c, e) == {r \in Seeds(c, e) : r.repo \in Names => r.cwd = r.repo}

Restart ==
    /\ Fault
    /\ environ' = IF exported THEN env ELSE NoEnv
    /\ \E next \in [Chans -> UNION {Seeded(c, environ') : c \in Chans}] :
         /\ \A c \in Chans : next[c] \in Seeded(c, environ')
         /\ binding' = next
    /\ history' = history \cup (IF binding' # binding THEN {"seeded"} ELSE {})
                          \cup (IF Ready("gate") /\ Ready("loop") THEN {} ELSE {"killed"})
    /\ todo' = [t \in Threads |-> IF t \in Clis THEN todo[t] ELSE <<>>]
    /\ flag' = FALSE
    /\ jobs' = [c \in Chans |-> {}]
    /\ UNCHANGED <<files, exported, inbox, stored, seen, cooked, told, ops>>

\* write_text truncates the file before it writes.
Kill(t) ==
    /\ ~Ready(t) /\ Fault
    /\ todo' = [todo EXCEPT ![t] = <<>>]
    /\ env' = IF At(t, "save") THEN NoEnv ELSE env
    /\ history' = history \cup {"killed"}
    /\ UNCHANGED <<rows, exported, environ, prefs, seen, pool, wrote, ops>>

EditHosts ==
    /\ Fault
    /\ \E h \in Hosts :
         /\ env' = [env EXCEPT !.hosts = IF h \in @ THEN @ \ {h} ELSE @ \cup {h}]
         /\ wrote' = [wrote EXCEPT !.hosts = IF h \in @ THEN @ \ {h} ELSE @ \cup {h}]
    /\ UNCHANGED <<rows, exported, environ, prefs, todo, seen, pool, ops, history>>

Work(t) == Read(t) \/ Write(t) \/ ReadEnv(t) \/ SaveEnv(t) \/ SetPref(t)

Next ==
    \/ \E t \in {"loop", "gate"}, c \in Chans :
         \/ \E n \in AllNames : BindRealm(t, c, n)
         \/ BindMemory(t, c)
         \/ \E h \in Hosts : BindHost(t, c, h) \/ BindHostDenied(t, c, h)
    \/ \E t \in Clis, c \in Chans :
         \/ \E n \in AllNames : CliRealm(t, c, n) \/ CliDeskPack(t, c, n)
         \/ CliMemory(t, c) \/ CliCapture(t, c)
    \/ \E t \in Clis : CliTool(t) \/ CliWiki(t)
    \/ \E t \in {"gate"} \cup Clis :
         \/ \E on \in BOOLEAN : ToggleHost(t, on)
         \/ \E c \in Chans : InboxOn(t, c) \/ InboxOff(t, c)
         \/ \E c \in Chans, on \in BOOLEAN : ToggleCapture(t, c, on)
    \/ \E t \in Threads : Work(t)
    \/ Sync
    \/ \E c \in Chans : Submit(c) \/ Cook(c) \/ CookUnread(c)
    \/ Restart \/ EditHosts \/ \E t \in Clis : Kill(t)

Spec == Init /\ [][Next]_vars

\* The loop polls for as long as the host runs, a command ends.
FairSpec == Spec /\ WF_vars(Sync) /\ \A t \in Threads : WF_vars(Work(t))

-----------------------------------------------------------------------------
(* What it promises.                                                       *)

TypeOK ==
    /\ binding \in [Chans -> [repo : AllNames \cup {None}, cwd : Names \cup {None},
                             host : Hosts \cup {None}, memory : BOOLEAN, capture : BOOLEAN]]
    /\ env \in [line : [AllNames -> Chans \cup {None}], memory : SUBSET Chans,
                 capture : SUBSET Chans, tools : BOOLEAN, token : BOOLEAN,
                 inbox : Chans \cup {None}, hosts : SUBSET Hosts]
    /\ inbox \in [chan : Chans \cup {None}, since : 0..MaxOps]
    /\ stored \in BOOLEAN \cup {None} /\ flag \in BOOLEAN
    /\ \A c \in Chans : jobs[c] \subseteq Names \cup {None}

AllReady == \A t \in Threads : Ready(t)
Off(why) == history \cap why # {}

\* "Bound <realm>": once the commands have ended, the checkout of a channel is the
\* realm its people were told last, unless two writers of the row crossed, a restart
\* seeded the row from .env, a command was killed or somebody bound a name without a
\* checkout, which leaves the cwd of the name before.
BoundAsTold ==
    AllReady /\ ~Off({"crossed", "seeded", "unknown", "killed"}) =>
        \A c \in Chans : told[c].repo # None => Tree(binding[c]) = told[c].repo

\* "never silent local cook" (host/runners.py:83): a channel that was told of its
\* host cooks there or is denied, whatever else is bound, seeded or dropped from the
\* allowlist, unless two writers of the row crossed or it could not be read.
NeverSilentlyLocal ==
    cooked # None /\ ~Off({"crossed", "unread", "killed"}) =>
        (cooked.asked # None => cooked.where \in {cooked.asked, "deny"})

\* "Preserve comments and other keys" (host/add.py:55): .env holds what the commands
\* that ended wrote, unless one wrote another file than .env was by then (two crossed,
\* or a list .env had lost was taken from the shell) or was killed while it wrote.
EnvKept == ~Off({"envCrossed", "killed"}) => env = wrote

\* The inbox stays where it was opened last when another channel's is closed.
InboxHeld ==
    AllReady /\ ~Off({"inboxCrossed", "killed"}) =>
        \A c \in Chans : told[c].inbox > 0 =>
            inbox.chan = c /\ inbox.since = told[c].inbox

\* "/features toggles from Discord or the CLI land here, no restart"
\* (orchestration/listen.py:1030): the variable settles on the preference.
FlagFollows == stored # None => flag = stored
FlagSettles == <>[]FlagFollows
=============================================================================
