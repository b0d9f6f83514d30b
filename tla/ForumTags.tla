------------------------------ MODULE ForumTags ------------------------------
(***************************************************************************)
(* A Discord forum as a realm (host/forum_realm.py): the bind that marks a *)
(* forum and caches which of its tags name a job status, the poll that     *)
(* finds its posts and remembers their tags, and the cook that moves the   *)
(* status tag of its post as its run starts and ends.                      *)
(*                                                                         *)
(* A cook syncs its last tag after it has released the thread, so the next *)
(* run of the post can already be syncing its first.  The tags of a post   *)
(* are replaced whole, from what the host remembers of them, and a binding *)
(* is read, changed and written back without a transaction.                *)
(***************************************************************************)
EXTENDS Naturals, FiniteSets

CONSTANTS
    Cooks,      \* runs in the post's thread
    UserTags,   \* tags that people put on posts
    Cap,        \* MAX_APPLIED_TAGS
    MaxMoves,   \* bound of the model: tags put on, taken off or made
    MaxBinds,   \* bound of the model: binds and refreshes of the tag map
    MaxFaults,  \* bound of the model: refused calls and restarts
    None        \* nothing remembered

Statuses == {"running", "completed", "failed", "cancelled"}
Binders  == {"loop", "cli"}
Threads  == Binders \cup Cooks

VARIABLES
    isForum,   \* the channel is a forum in Discord
    avail,     \* the status tags its owner made
    tags,      \* the tags of the post
    forum,     \* binding of the channel: marked as a forum, the cached status tags
    row,       \* binding of the post: the tags the host remembers
    runs,      \* the run of each cook
    last,      \* the cook that started last
    op,        \* what each thread is doing
    known,     \* user tags the host saw last
    moves, binds, faults,
    history    \* why a tag may be off: refused, unmapped, crossed, outdated, restarted,
               \* emptied, capped, blind

vars == <<isForum, avail, tags, forum, row, runs, last, op, known, moves, binds, faults, history>>

world  == <<isForum, avail>>
counts == <<moves, binds, faults>>

-----------------------------------------------------------------------------
Idle == [step |-> "idle", for |-> None, map |-> {}, tags |-> {}, next |-> "idle"]

Ready(t)    == op[t].step = "idle"
At(t, s)    == op[t].step = s
Go(t, o)    == op' = [op EXCEPT ![t] = o]
Leave(t)    == Go(t, Idle)
Fault       == faults < MaxFaults /\ faults' = faults + 1
Excuse(why) == history' = history \cup {why}

\* Another thread is between reading a binding or a post and writing it back.
Crossing(t) == \E u \in Threads \ {t} : ~Ready(u)

Remembered == IF row = None THEN {} ELSE row.tags

Init ==
    /\ isForum \in BOOLEAN
    /\ avail \in {{}, {"running", "completed"}, Statuses}
    /\ tags \in SUBSET UserTags /\ Cardinality(tags) <= Cap
    /\ forum = [mark |-> FALSE, map |-> {}] /\ row = None
    /\ runs = [c \in Cooks |-> "none"] /\ last = None
    /\ op = [t \in Threads |-> Idle]
    /\ known = {}
    /\ moves = 0 /\ binds = 0 /\ faults = 0
    /\ history = {}

-----------------------------------------------------------------------------
(* People: tags of the post, tags of the forum.                            *)

PutTag ==
    /\ moves < MaxMoves /\ moves' = moves + 1
    /\ \E x \in UserTags :
         \/ x \in tags /\ tags' = tags \ {x}
         \/ x \notin tags /\ Cardinality(tags) < Cap /\ tags' = tags \cup {x}
    /\ UNCHANGED <<world, forum, row, runs, last, op, known, binds, faults, history>>

MakeTag ==
    /\ moves < MaxMoves /\ moves' = moves + 1
    /\ \E s \in Statuses \ avail : avail' = avail \cup {s}
    /\ UNCHANGED <<isForum, tags, forum, row, runs, last, op, known, binds, faults, history>>

-----------------------------------------------------------------------------
(* Binding the channel.                                                    *)

\* "bind" typed in the channel, discord-os add realm --forum, add forum-tags: the
\* first two probe and mark, the third only caches the map.
Bind(t) ==
    /\ Ready(t) /\ binds < MaxBinds /\ binds' = binds + 1
    /\ \E next \in IF t = "cli" THEN {"probe", "cacheRead"} ELSE {"probe"} :
         Go(t, [Idle EXCEPT !.step = "fetch", !.next = next])
    /\ UNCHANGED <<world, tags, forum, row, runs, last, known, moves, faults, history>>

\* fetch_channel: a text channel loses a mark it had, a refused call changes nothing.
Fetch(t) ==
    /\ At(t, "fetch")
    /\ IF isForum
       THEN Go(t, [op[t] EXCEPT !.map = avail, !.step = op[t].next]) /\ UNCHANGED forum
       ELSE Leave(t) /\ forum' = [forum EXCEPT !.mark = FALSE]
    /\ UNCHANGED <<world, tags, row, runs, last, known, counts, history>>

FetchRefused(t) ==
    /\ op[t].step \in {"fetch", "probe"} /\ Fault
    /\ Leave(t)
    /\ UNCHANGED <<world, tags, forum, row, runs, last, known, moves, binds, history>>

\* _list_forum_threads proves that the posts can be listed.
Probe(t) ==
    /\ At(t, "probe")
    /\ Go(t, [op[t] EXCEPT !.step = "mark"])
    /\ UNCHANGED <<world, tags, forum, row, runs, last, known, counts, history>>

Mark(t) ==
    /\ At(t, "mark")
    /\ forum' = [forum EXCEPT !.mark = TRUE]
    /\ Go(t, [op[t] EXCEPT !.step = "cacheRead"])
    /\ UNCHANGED <<world, tags, row, runs, last, known, counts, history>>

\* merge_binding_metadata reads the row ...
CacheRead(t) ==
    /\ At(t, "cacheRead")
    /\ Go(t, [op[t] EXCEPT !.for = forum.mark, !.step = "cacheWrite"])
    /\ UNCHANGED <<world, tags, forum, row, runs, last, known, counts, history>>

\* ... and upsert_binding writes all of it, be it an older map over a newer one.
CacheWrite(t) ==
    /\ At(t, "cacheWrite")
    /\ forum' = [mark |-> op[t].for, map |-> op[t].map]
    /\ history' = history \cup (IF forum.map \subseteq op[t].map THEN {} ELSE {"outdated"})
    /\ Leave(t)
    /\ UNCHANGED <<world, tags, row, runs, last, known, counts>>

-----------------------------------------------------------------------------
(* The poll: collect_forum_thread_dests.                                   *)

\* discover_forum_post_rows.
Discover ==
    /\ Ready("loop") /\ forum.mark /\ isForum
    /\ Go("loop", [Idle EXCEPT !.step = "remember", !.tags = tags])
    /\ UNCHANGED <<world, tags, forum, row, runs, last, known, counts, history>>

\* Mutant of Remember: a post that is known keeps the tags it was found with.
RememberFirst ==
    /\ At("loop", "remember")
    /\ row' = IF row = None THEN [tags |-> op["loop"].tags] ELSE row
    /\ known' = op["loop"].tags \cap UserTags
    /\ Leave("loop")
    /\ UNCHANGED <<world, tags, forum, runs, last, counts, history>>

\* remember_forum_thread_parent leaves the tags alone when the post has none.
Remember ==
    /\ At("loop", "remember")
    /\ row' = IF op["loop"].tags = {} THEN [tags |-> Remembered] ELSE [tags |-> op["loop"].tags]
    /\ history' = history \cup (IF op["loop"].tags = {} /\ Remembered # {} THEN {"emptied"} ELSE {})
                          \cup (IF Crossing("loop") THEN {"crossed"} ELSE {})
    /\ known' = op["loop"].tags \cap UserTags
    /\ Leave("loop")
    /\ UNCHANGED <<world, tags, forum, runs, last, counts>>

\* The write raises: this round of the poll has no forum posts.
RememberFails ==
    /\ At("loop", "remember") /\ Fault
    /\ Leave("loop")
    /\ UNCHANGED <<world, tags, forum, row, runs, last, known, moves, binds, history>>

-----------------------------------------------------------------------------
(* The cook: _sync_forum_ticket_tags at its start and at its end.          *)

Live == {c \in Cooks : runs[c] = "running"}

CookStarts(c) ==
    /\ runs[c] = "none" /\ Live = {}
    /\ c = CHOOSE d \in Cooks : runs[d] = "none"    \* they differ in name only
    /\ runs' = [runs EXCEPT ![c] = "running"] /\ last' = c
    /\ Go(c, [Idle EXCEPT !.step = "sync", !.for = "running"])
    /\ UNCHANGED <<world, tags, forum, row, known, counts, history>>

\* The thread is released, then _react_terminal.
CookEnds(c) ==
    /\ runs[c] = "running" /\ Ready(c)
    /\ \E s \in Statuses \ {"running"} :
         /\ runs' = [runs EXCEPT ![c] = s]
         /\ Go(c, [Idle EXCEPT !.step = "sync", !.for = s])
    /\ UNCHANGED <<world, tags, forum, row, last, known, counts, history>>

\* maybe_sync_forum_ticket_tags: the mark, the map and the remembered tags.
SyncRead(c) ==
    /\ At(c, "sync")
    /\ IF forum.mark /\ op[c].for \in forum.map
       THEN /\ Go(c, [op[c] EXCEPT !.step = "patch", !.map = forum.map, !.tags = Remembered])
            /\ UNCHANGED history
       ELSE Leave(c) /\ Excuse("unmapped")
    /\ UNCHANGED <<world, tags, forum, row, runs, last, known, counts>>

\* A binding that cannot be read is no mark and no map, and a post whose row cannot
\* be read is taken for a post without tags.
SyncBlind(c) ==
    /\ At(c, "sync") /\ Fault
    /\ \/ Leave(c) /\ Excuse("unmapped")
       \/ /\ forum.mark /\ op[c].for \in forum.map
          /\ Go(c, [op[c] EXCEPT !.step = "patch", !.map = forum.map])
          /\ Excuse("blind")
    /\ UNCHANGED <<world, tags, forum, row, runs, last, known, moves, binds>>

\* merge_applied_tags_for_status: the status, then what is no status, up to the cap.
Merged(o) ==
    LET others == o.tags \ (o.map \cup {o.for})
    IN  {{o.for} \cup keep : keep \in {k \in SUBSET others :
            \/ Cardinality(k) = Cap - 1
            \/ k = others /\ Cardinality(k) < Cap}}

Patch(c) ==
    /\ At(c, "patch")
    /\ tags' \in Merged(op[c])
    /\ history' = history \cup (IF Crossing(c) THEN {"crossed"} ELSE {})
                          \cup (IF Cardinality(op[c].tags \ op[c].map) >= Cap THEN {"capped"}
                                ELSE {})
    /\ Go(c, [op[c] EXCEPT !.step = "note", !.tags = tags'])
    /\ UNCHANGED <<world, forum, row, runs, last, known, counts>>

\* The thread hears the Need; nothing tries again.
PatchRefused(c) ==
    /\ At(c, "patch") /\ Fault
    /\ Excuse("refused")
    /\ Leave(c)
    /\ UNCHANGED <<world, tags, forum, row, runs, last, known, moves, binds>>

Note(c) ==
    /\ At(c, "note")
    /\ row' = [tags |-> op[c].tags]
    /\ known' = op[c].tags \cap UserTags
    /\ history' = history \cup (IF Crossing(c) THEN {"crossed"} ELSE {})
    /\ Leave(c)
    /\ UNCHANGED <<world, tags, forum, runs, last, counts>>

\* The tags are on the post, and the host goes on with the ones it remembered before.
NoteFails(c) ==
    /\ At(c, "note") /\ Fault
    /\ Leave(c)
    /\ UNCHANGED <<world, tags, forum, row, runs, last, known, moves, binds, history>>

\* The host dies; fail_stale_runs of the next one moves no tag.
Restart ==
    /\ Fault
    /\ runs' = [c \in Cooks |-> IF c \in Live THEN "failed" ELSE runs[c]]
    /\ op' = [t \in Threads |-> IF t = "cli" THEN op[t] ELSE Idle]
    /\ Excuse("restarted")
    /\ UNCHANGED <<world, tags, forum, row, last, known, moves, binds>>

CookStep(c)  == SyncRead(c) \/ Patch(c) \/ Note(c)
CookFault(c) == SyncBlind(c) \/ PatchRefused(c) \/ NoteFails(c)

Next ==
    \/ PutTag \/ MakeTag
    \/ \E t \in Binders :
         \/ Bind(t) \/ Fetch(t) \/ FetchRefused(t) \/ Probe(t) \/ Mark(t)
         \/ CacheRead(t) \/ CacheWrite(t)
    \/ Discover \/ Remember \/ RememberFails
    \/ \E c \in Cooks : CookStarts(c) \/ CookEnds(c) \/ CookStep(c) \/ CookFault(c)
    \/ Restart

Spec == Init /\ [][Next]_vars

-----------------------------------------------------------------------------
(* What it promises.                                                       *)

TypeOK ==
    /\ avail \in SUBSET Statuses
    /\ tags \in SUBSET (Statuses \cup UserTags) /\ Cardinality(tags) <= Cap
    /\ forum \in [mark : BOOLEAN, map : SUBSET Statuses]
    /\ row \in {None} \cup [tags : SUBSET (Statuses \cup UserTags)]
    /\ runs \in [Cooks -> {"none"} \cup Statuses]
    /\ last \in Cooks \cup {None}
    /\ \A t \in Threads : op[t].tags \in SUBSET (Statuses \cup UserTags)

Off(why) == history \cap why # {}

\* tags-as-tickets: once the cooks of a post rest, its one status tag is the status of
\* the run that started last, unless Discord refused it, the forum had no such tag or
\* its binding could not be read, two cooks or a poll crossed, of two binds the older
\* was written last, or the host was restarted.
TagTrue ==
    (\A c \in Cooks : Ready(c)) /\ last # None
    /\ ~Off({"refused", "unmapped", "crossed", "outdated", "restarted"}) =>
        tags \cap Statuses = {runs[last]}

\* "keep non-status tags" (forum_realm.py:543): a sync takes off or puts back a tag of
\* somebody's only if it was moved after the host last looked, unless the post was
\* full or empty, its row could not be read (forum_realm.py:767), or two threads crossed.
AsSeen ==
    \A c \in Cooks, x \in UserTags :
        At(c, "patch") /\ op'[c].step = "note" /\ (x \in tags) # (x \in tags') =>
            \/ (x \in tags) # (x \in known)
            \/ history' \cap {"crossed", "capped", "emptied", "blind"} # {}
TagsAsSeen == [][AsSeen]_vars
=============================================================================
