-------------------------------- MODULE Panel --------------------------------
(***************************************************************************)
(* The HOST panel as a message: what it shows, the prompts it turns into,  *)
(* the failed Needs it clears, the Ask a Continue has aimed, and how it is *)
(* found again when its message is gone (host/panel.py, publish_host_card  *)
(* of listen.py, clear_failed_needs and _dismiss_failed_need).  Who may    *)
(* tap, and the row that On and Off write, are Desk's.                     *)
(*                                                                         *)
(* The gateway thread serves one tap at a time; the listen loop publishes  *)
(* the same panel after its text verbs, and discord-os clear-needs is a    *)
(* process of its own.  A paint reads the store, then edits a message.     *)
(***************************************************************************)
EXTENDS Naturals, Sequences, FiniteSets

CONSTANTS
    Runs,       \* the latest runs of the channel's jobs
    Users,      \* operators
    MaxPanels,  \* bound of the model: panel messages ever posted
    MaxTaps,    \* bound of the model: taps, verbs and commands; picks and Continues are free
    MaxMoves,   \* bound of the model: runs that start, fail, end or ask for attention
    MaxFaults,  \* bound of the model: failed calls and deleted messages
    None        \* no message, no run

Threads == {"gateway", "loop", "cli"}

VARIABLES
    jobs,      \* status of each run
    attn,      \* runs whose GitHub attention is "need"
    power,     \* armed, halted and gated as the store has them
    panels,    \* the panel messages of the channel and what they show; None: no such message
    card,      \* host_control.card_message_id
    down,      \* Discord answers no call
    need,      \* the stale-panel preference, and whether the notice is newer than the panel
    pending,   \* the run the next Ask continues
    forms,     \* what each user's open form said: an Ask, or the Gate menu
    picked,    \* the job picked last and the status its answer showed
    op,        \* what each thread is doing
    taps, moves, faults,
    history    \* paints that crossed or failed, a Halt nobody painted, a Continue still
               \* owed, aims nobody gave

vars == <<jobs, attn, power, panels, card, down, need, pending, forms, picked, op, taps,
          moves, faults, history>>

store  == <<jobs, attn, power>>
chat   == <<panels, card, down, need>>
aims   == <<pending, forms, picked>>
counts == <<taps, moves, faults>>

-----------------------------------------------------------------------------
Idle == [todo |-> <<>>, view |-> "plain", on |-> None, mid |-> None, list |-> {},
         snap |-> None]

Ready(t)   == op[t].todo = <<>>
At(t, s)   == op[t].todo # <<>> /\ Head(op[t].todo) = s
Done(o)    == IF Len(o.todo) = 1 THEN Idle ELSE [o EXCEPT !.todo = Tail(@)]
Fault      == faults < MaxFaults /\ faults' = faults + 1
Tap        == taps < MaxTaps /\ taps' = taps + 1
Move       == moves < MaxMoves /\ moves' = moves + 1
Crossing(t) == \E u \in Threads \ {t} : ~Ready(u)

\* list_dismissable_needs: failed runs, and runs GitHub wants somebody to look at.
Needs == {r \in Runs : jobs[r] = "failed" \/ r \in attn}

\* What host_panel_payload would show: the power, the Needs, a prompt or none.
Now(view) == [view |-> view, power |-> power, needs |-> Needs]

Posted   == {m \in 1..MaxPanels : panels[m] # None}
Shows(m) == m \in Posted
Takes(m) == Shows(m) /\ ~down     \* an edit of m succeeds
Free     == (1..MaxPanels) \ Posted

\* The ephemeral Gate menu, when it is taken for the panel.
Menu == 0

\* The thread's next step is done, or it goes on with another in its place.
Goes(t, o)      == op' = [op EXCEPT ![t] = Done(o)]
Turns(t, steps) == op' = [op EXCEPT ![t].todo = steps \o Tail(@)]

Starts(t, todo, view, m) ==
    op' = [op EXCEPT ![t] = [Idle EXCEPT !.todo = todo, !.view = view, !.on = m]]

Init ==
    /\ jobs = [r \in Runs |-> "none"] /\ attn = {}
    /\ power = [armed |-> TRUE, halted |-> FALSE, gated |-> FALSE]
    /\ \E shown \in BOOLEAN :
         /\ panels = [m \in 1..MaxPanels |-> IF m = 1 /\ shown THEN Now("plain") ELSE None]
         /\ card \in IF shown THEN {1, None} ELSE {None}
    /\ down = FALSE /\ need = FALSE
    /\ pending = None
    /\ forms = [u \in Users |-> None] /\ picked = None
    /\ op = [t \in Threads |-> Idle]
    /\ taps = 0 /\ moves = 0 /\ faults = 0
    /\ history = [crossed |-> FALSE, failed |-> FALSE, mute |-> FALSE, gate |-> FALSE,
                  spent |-> FALSE, owed |-> FALSE, hidden |-> FALSE]

-----------------------------------------------------------------------------
(* The jobs and the channel.                                               *)

JobMoves ==
    /\ Move
    /\ \E r \in Runs :
         \/ /\ jobs[r] = "none" /\ jobs' = [jobs EXCEPT ![r] = "live"] /\ UNCHANGED attn
         \/ /\ jobs[r] = "live" /\ UNCHANGED attn
            /\ \E s \in {"failed", "done"} : jobs' = [jobs EXCEPT ![r] = s]
         \/ /\ jobs[r] \in {"live", "done"} /\ attn' = attn \cup {r} /\ UNCHANGED jobs
    /\ UNCHANGED <<power, chat, aims, op, taps, faults, history>>

\* A cook records what it spent and is over the cap, or discord-os spend halts,
\* resumes or moves the cap: nobody paints the panel after it.
SpendMoves ==
    /\ Move
    /\ power' = [power EXCEPT !.halted = ~@]
    /\ history' = [history EXCEPT !.spent = TRUE]
    /\ UNCHANGED <<jobs, attn, chat, aims, op, taps, faults>>

\* Somebody deletes a panel message.
PanelDeleted ==
    /\ Fault
    /\ \E m \in Posted : panels' = [panels EXCEPT ![m] = None]
    /\ UNCHANGED <<store, card, down, need, aims, op, taps, moves, history>>

DiscordDown ==
    /\ ~down /\ down' = TRUE /\ Fault
    /\ UNCHANGED <<store, panels, card, need, aims, op, taps, moves, history>>

DiscordBack ==
    /\ down /\ down' = FALSE
    /\ UNCHANGED <<store, panels, card, need, aims, op, counts, history>>

-----------------------------------------------------------------------------
(* handle_gateway_interaction: taps on the panel, each ACKed first.        *)

\* A tap of an operator on panel m while it shows the view that has the button.
TapOn(m, view) == Ready("gateway") /\ Tap /\ Shows(m) /\ panels[m].view = view

\* Mutant of Switch: the panel is not painted after it.
SwitchUnpainted(m) ==
    /\ \/ TapOn(m, "plain") /\ power' \in {[power EXCEPT !.halted = b] : b \in BOOLEAN}
       \/ TapOn(m, "off") /\ power' = [power EXCEPT !.armed = FALSE]
    /\ UNCHANGED <<jobs, attn, chat, aims, op, moves, faults, history>>

\* On, Halt and Resume of the panel, and Off once it is confirmed, write and then
\* paint.
Switch(m) ==
    /\ \/ TapOn(m, "plain") /\ power' \in {[power EXCEPT !.armed = TRUE],
                                          [power EXCEPT !.halted = TRUE],
                                          [power EXCEPT !.halted = FALSE]}
       \/ TapOn(m, "off") /\ power' = [power EXCEPT !.armed = FALSE]
    /\ Starts("gateway", <<"read", "paint">>, "plain", m)
    /\ history' = [history EXCEPT !.spent = FALSE]
    /\ UNCHANGED <<jobs, attn, chat, aims, moves, faults>>

\* Off only asks; Cancel of either prompt paints the plain panel again.
OffOrCancel(m) ==
    /\ \/ TapOn(m, "plain") /\ Starts("gateway", <<"read", "paint">>, "off", m)
       \/ /\ \E view \in {"off", "clear"} : TapOn(m, view)
          /\ Starts("gateway", <<"read", "paint">>, "plain", m)
    /\ UNCHANGED <<store, chat, aims, moves, faults, history>>

\* Clear failed Needs counts them, and asks when there are any.
TapClear(m) ==
    /\ TapOn(m, "plain")
    /\ Starts("gateway", <<"read", "paint">>, IF Needs = {} THEN "plain" ELSE "clear", m)
    /\ UNCHANGED <<store, chat, aims, moves, faults, history>>

\* Its Confirm lists them anew, dismisses each, publishes, refreshes and paints.
ConfirmClear(m) ==
    /\ TapOn(m, "clear")
    /\ Starts("gateway", <<"list", "dismiss", "read", "publish", "find", "read", "refresh",
                           "read", "paint">>, "plain", m)
    /\ UNCHANGED <<store, chat, aims, moves, faults, history>>

\* Gate opens an ephemeral menu that names the change ...
TapGate(m, u) ==
    /\ TapOn(m, "plain") /\ forms[u] = None
    /\ forms' = [forms EXCEPT ![u] = [kind |-> "gate", to |-> ~power.gated]]
    /\ UNCHANGED <<store, chat, pending, picked, op, moves, faults, history>>

\* ... and its Confirm toggles, whatever the menu named.  The message of this tap is
\* the menu: it is remembered as the panel, and the edit by its id fails.
ConfirmGate(u) ==
    /\ Ready("gateway") /\ Tap
    /\ forms[u] # None /\ forms[u].kind = "gate"
    /\ forms' = [forms EXCEPT ![u] = None]
    /\ power' = [power EXCEPT !.gated = ~@]
    /\ card' = Menu
    /\ history' = [history EXCEPT !.gate = TRUE]
    /\ UNCHANGED <<jobs, attn, panels, down, need, pending, picked, op, moves, faults>>

-----------------------------------------------------------------------------
(* Jobs: pick one, dismiss it, continue it, ask.                           *)

\* _answer_job_pick: an ephemeral summary with the buttons of that status.
PickJob(r) ==
    /\ Ready("gateway") /\ jobs[r] # "none"
    /\ \E m \in Posted : panels[m].view # "off"
    /\ picked' = [run |-> r, status |-> jobs[r]]
    /\ UNCHANGED <<store, chat, pending, forms, op, counts, history>>

\* Dismiss re-reads the run; the rank of the jobs may change, so the panel follows.
TapDismiss ==
    /\ Ready("gateway") /\ Tap
    /\ picked # None /\ picked.status = "failed"
    /\ op' = [op EXCEPT !["gateway"] =
                [Idle EXCEPT !.list = {picked.run},
                             !.todo = <<"dismiss", "read", "publish", "find", "read",
                                        "refresh">>]]
    /\ UNCHANGED <<store, chat, aims, moves, faults, history>>

\* Continue aims the next Ask of the channel; an aim that cannot be stored is none.
TapContinue ==
    /\ Ready("gateway")
    /\ picked # None /\ picked.status # "live"
    /\ pending' = picked.run
    /\ history' = [history EXCEPT !.owed = TRUE]
    /\ UNCHANGED <<store, chat, forms, picked, op, counts>>

\* The Ask form names the job it will continue, when there is one.
TapAsk(m, u) ==
    /\ TapOn(m, "plain") /\ panels[m].power.armed /\ forms[u] = None
    /\ forms' = [forms EXCEPT ![u] = [kind |-> "ask", to |-> pending]]
    /\ UNCHANGED <<store, chat, pending, picked, op, moves, faults, history>>

\* on_ask_here: an aimed Ask continues that run and uses up the aim, any other is
\* queued.  When the aim cannot be cleared, the Ask continues the run all the same
\* and the next one will.
Lands ==
    \/ /\ pending' = None
       /\ history' = [history EXCEPT !.hidden = @ \/ (pending # None /\ ~history.owed),
                                     !.owed = FALSE]
       /\ UNCHANGED faults
    \/ /\ pending # None /\ Fault
       /\ history' = [history EXCEPT !.hidden = @ \/ ~history.owed]
       /\ UNCHANGED pending

SubmitAsk(u) ==
    /\ Ready("gateway") /\ Tap
    /\ forms[u] # None /\ forms[u].kind = "ask"
    /\ forms' = [forms EXCEPT ![u] = None]
    /\ Lands
    /\ UNCHANGED <<store, chat, picked, op, moves>>

\* The Cook button of a CI wake or a morning card goes the same way.
TapCook ==
    /\ Ready("gateway") /\ Tap
    /\ Lands
    /\ UNCHANGED <<store, chat, forms, picked, op, moves>>

-----------------------------------------------------------------------------
(* The loop's verbs and the command line.                                  *)

\* On and Off of the text verbs; bind and the other verbs only publish.
LoopPower ==
    /\ Ready("loop") /\ Tap
    /\ \E b \in BOOLEAN : power' = [power EXCEPT !.armed = b]
    /\ Starts("loop", <<"read", "publish">>, "plain", None)
    /\ UNCHANGED <<jobs, attn, chat, aims, moves, faults, history>>

LoopBind ==
    /\ Ready("loop") /\ Tap
    /\ Starts("loop", <<"read", "publish">>, "plain", None)
    /\ UNCHANGED <<store, chat, aims, moves, faults, history>>

CliClear ==
    /\ Ready("cli") /\ Tap
    /\ Starts("cli", <<"list", "dismiss", "read", "publish", "find", "read", "refresh">>,
              "plain", None)
    /\ UNCHANGED <<store, chat, aims, moves, faults, history>>

-----------------------------------------------------------------------------
(* The steps they are made of.                                             *)

List(t) ==
    /\ At(t, "list")
    /\ Goes(t, [op[t] EXCEPT !.list = Needs])
    /\ UNCHANGED <<store, chat, aims, counts, history>>

\* _dismiss_failed_need: a failed run is cancelled, attention is cleared, anything
\* else is left alone.
Dismissed(r) ==
    /\ jobs' = [jobs EXCEPT ![r] = IF @ = "failed" THEN "cancelled" ELSE @]
    /\ attn' = attn \ {r}

Dismiss(t) ==
    /\ At(t, "dismiss")
    /\ IF op[t].list = {}
       THEN Goes(t, op[t]) /\ UNCHANGED <<jobs, attn>>
       ELSE \E r \in op[t].list :
              /\ Dismissed(r)
              /\ op' = [op EXCEPT ![t].list = @ \ {r}]
    /\ UNCHANGED <<power, chat, aims, counts, history>>

Read(t) ==
    /\ At(t, "read")
    /\ Goes(t, [op[t] EXCEPT !.snap = Now(op[t].view)])
    /\ history' = [history EXCEPT !.crossed = @ \/ Crossing(t)]
    /\ UNCHANGED <<store, chat, aims, counts>>

\* The preferences cannot be read: the panel shows neither Halt nor the gate.
ReadBlind(t) ==
    /\ At(t, "read") /\ Fault
    /\ Goes(t, [op[t] EXCEPT !.snap = [Now(op[t].view) EXCEPT !.power.halted = FALSE,
                                                             !.power.gated = FALSE]])
    /\ history' = [history EXCEPT !.crossed = @ \/ Crossing(t), !.failed = TRUE]
    /\ UNCHANGED <<store, chat, aims, taps, moves>>

\* The message m now shows what the thread read.
Paints(t, m) ==
    /\ panels' = [panels EXCEPT ![m] = op[t].snap]
    /\ UNCHANGED <<store, aims, counts, down>>

Nothing == UNCHANGED <<store, panels, card, down, aims, counts>>

\* publish_host_card edits the card it knows ...
Publish(t) ==
    /\ At(t, "publish") /\ Takes(card)
    /\ Paints(t, card)
    /\ Goes(t, op[t])
    /\ UNCHANGED <<card, need, history>>

\* ... or posts another when that fails.
PublishAnew(t) ==
    /\ At(t, "publish") /\ ~Takes(card)
    /\ Turns(t, <<"post">>)
    /\ Nothing /\ UNCHANGED <<need, history>>

\* A new panel is posted, and is the card from now on.
CanPost  == Free # {} /\ ~down
Posts(t) == CanPost /\ \E m \in Free : Paints(t, m) /\ card' = m

Post(t) ==
    /\ At(t, "post")
    /\ \/ Posts(t) /\ UNCHANGED history
       \/ ~CanPost /\ Nothing /\ history' = [history EXCEPT !.failed = TRUE]
    /\ Goes(t, op[t])
    /\ UNCHANGED need

\* _recover_host_panel_message_id, when no card is known.
Find(t) ==
    /\ At(t, "find")
    /\ IF card = None /\ Posted # {} /\ ~down
       THEN \E m \in Posted : Goes(t, [op[t] EXCEPT !.mid = m]) /\ card' = m
       ELSE Goes(t, [op[t] EXCEPT !.mid = card]) /\ UNCHANGED card
    /\ UNCHANGED <<store, panels, down, need, aims, counts, history>>

\* refresh_host_jobs_panel edits that message and takes the notice back ...
Refresh(t) ==
    /\ At(t, "refresh") /\ Takes(op[t].mid)
    /\ Paints(t, op[t].mid)
    /\ need' = FALSE
    /\ Goes(t, op[t])
    /\ UNCHANGED <<card, history>>

RefreshFails(t) ==
    /\ At(t, "refresh") /\ ~Takes(op[t].mid)
    /\ Turns(t, <<"repost">>)
    /\ Nothing /\ UNCHANGED <<need, history>>

\* ... posts a fresh panel when it cannot ...
Repost(t) ==
    /\ At(t, "repost")
    /\ \/ Posts(t) /\ need' = FALSE /\ Goes(t, op[t])
       \/ ~CanPost /\ Nothing /\ UNCHANGED need /\ Turns(t, <<"speak">>)
    /\ UNCHANGED history

\* ... and says so once when that fails too.  A channel that takes no panel may yet
\* take a line of text.
Speak(t) ==
    /\ At(t, "speak")
    /\ \/ need' = TRUE /\ UNCHANGED history
       \/ ~need /\ down /\ history' = [history EXCEPT !.mute = TRUE] /\ UNCHANGED need
    /\ Goes(t, op[t])
    /\ Nothing

\* _paint_after_ack edits the message that was tapped and remembers it as the panel.
Paint(t) ==
    /\ At(t, "paint")
    /\ IF Takes(op[t].on)
       THEN Paints(t, op[t].on) /\ card' = op[t].on /\ UNCHANGED history
       ELSE Nothing /\ history' = [history EXCEPT !.failed = TRUE]
    /\ Goes(t, op[t])
    /\ UNCHANGED need

Step(t) ==
    \/ List(t) \/ Dismiss(t) \/ Read(t) \/ Publish(t) \/ PublishAnew(t) \/ Post(t)
    \/ Find(t) \/ Refresh(t) \/ RefreshFails(t) \/ Repost(t) \/ Speak(t) \/ Paint(t)

Next ==
    \/ JobMoves \/ SpendMoves \/ PanelDeleted \/ DiscordDown \/ DiscordBack
    \/ \E m \in 1..MaxPanels :
         \/ Switch(m) \/ OffOrCancel(m) \/ TapClear(m) \/ ConfirmClear(m)
         \/ \E u \in Users : TapGate(m, u) \/ TapAsk(m, u)
    \/ \E u \in Users : ConfirmGate(u) \/ SubmitAsk(u)
    \/ \E r \in Runs : PickJob(r)
    \/ TapDismiss \/ TapContinue \/ TapCook
    \/ LoopPower \/ LoopBind \/ CliClear
    \/ \E t \in Threads : Step(t) \/ ReadBlind(t)

Spec == Init /\ [][Next]_vars

-----------------------------------------------------------------------------
(* What it promises.                                                       *)

Panels == {None} \cup
          [view : {"plain", "off", "clear"}, needs : SUBSET Runs,
           power : [armed : BOOLEAN, halted : BOOLEAN, gated : BOOLEAN]]

TypeOK ==
    /\ jobs \in [Runs -> {"none", "live", "failed", "done", "cancelled"}] /\ attn \in SUBSET Runs
    /\ panels \in [1..MaxPanels -> Panels]
    /\ card \in 0..MaxPanels \cup {None}
    /\ need \in BOOLEAN
    /\ pending \in Runs \cup {None}
    /\ \A t \in Threads : op[t].snap \in Panels

AllReady == \A t \in Threads : Ready(t)

\* "If recovery/repaint is impossible, speak Need once - never silent lag forever"
\* (panel.py:2126): once every thread is done, the card does not show as a Need a run
\* that was dismissed, unless the notice stands, two threads crossed, or Discord
\* refused the panel and the notice both.
LagTold ==
    AllReady /\ Shows(card) /\ ~history.crossed /\ ~history.mute =>
        need \/ \A r \in panels[card].needs : jobs[r] # "cancelled"

\* The panel that the host knows shows the power the store has, once every thread is
\* done and no paint failed.  Excused is a Confirm in a Gate menu, whose message the host
\* takes for its panel (host/panel.py:1176); and for Halt alone a cap that was reached
\* or moved since one of the panel's own switches was tapped.
PowerShown ==
    AllReady /\ Shows(card) /\ ~history.crossed /\ ~history.failed /\ ~history.gate =>
        /\ panels[card].power.armed = power.armed /\ panels[card].power.gated = power.gated
        /\ history.spent \/ panels[card].power.halted = power.halted

\* "Only an explicit Continue tap arms this" (panel.py:1406): an Ask lands on an old
\* job at most once for each Continue whose aim could be cleared.
NoHiddenContinue == ~history.hidden

\* Clearing Needs never cancels a run that lives, though its attention is a Need.
Spares == \A r \in Runs : jobs[r] \in {"live", "done"} => jobs'[r] # "cancelled"
SparesLive == [][Spares]_vars
=============================================================================
