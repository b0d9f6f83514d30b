--------------------------- MODULE GateHoldProofs ---------------------------
(***************************************************************************)
(* Proofs about GateHold for any requests, calls and tools, and any number *)
(* of taps and host crashes.                                               *)
(*                                                                         *)
(* FailClosed and DenyHolds are not inductive: an allow reaches a hook     *)
(* over the operation of an actor, the task's metadata and a result file.  *)
(* HoldInv follows it there.  Its root is CardOnce: once a run has raised  *)
(* a card, either that card waits or the run has its answer, so the card   *)
(* is never replaced and an allow in flight was tapped on it.              *)
(***************************************************************************)
EXTENDS GateHold, TLAPS

\* Someone tapped Allow on the card of the run.
CardAllowed == card # None /\ "allow" \in tapped[card]

CardOnce == card # None => gate.awaiting \/ gate.result # None

\* Only the card of the run is tapped.
TapsOnCard == \A r \in Reqs : tapped[r] # {} => r = card

\* An allow in the metadata, or on its way there, was tapped.
AllowTapped ==
    /\ gate.result \in Approvals => CardAllowed
    /\ \A a \in Actors : op[a].answer \in Approvals => CardAllowed

\* An allow on file was tapped, or the drain decided it without a card.
Cleared(r) == CardAllowed \/ (hook[r] # "idle" /\ r # card /\ AutoAllowed(r))
AllowCleared ==
    \A r \in Reqs : result[r] \in Approvals \/ said[r] \in Approvals => Cleared(r)

\* A hook that printed its decision leaves a result file.
SaidOnFile == \A r \in Reqs : said[r] # None => result[r] # None

HoldInv ==
    /\ ConstantsOK /\ TypeOK /\ CardOnce /\ TapsOnCard /\ AllowTapped /\ AllowCleared
    /\ SaidOnFile

-----------------------------------------------------------------------------
(* AnswerType: a tap stands for an answer; Always is remembered only of a    *)
(* rememberable tool, and only Deny stands for a deny.                       *)
LEMMA AnswerType ==
    ASSUME ConstantsOK, NEW verb \in Verbs
    PROVE  /\ AnswerOf(verb) \in Answers
           /\ AnswerOf(verb) \in Approvals => verb # "deny"
           /\ AnswerOf(verb) = "always" /\ gate.kind = "tool" => gate.tool \in Tools
  BY DEF ConstantsOK, AnswerOf, Answers, Approvals, Verbs

(* RaisedType: raising a request parks a card of its kind.                   *)
LEMMA RaisedType ==
    ASSUME ConstantsOK, TypeOK, NEW r \in Reqs, hook[r] # "idle"
    PROVE  /\ Raised(r) \in [awaiting : BOOLEAN, approval : BOOLEAN,
                              kind : Kinds \cup {None}, tool : Tools \cup {None},
                              live : BOOLEAN, req : Reqs \cup {None},
                              result : Answers \cup {None}, aged : BOOLEAN]
           /\ Raised(r).awaiting
           /\ Raised(r).result = None
<1>1. call[r].kind \in Kinds /\ call[r].tool \in Tools
  BY DEF ConstantsOK, TypeOK, CallRecords
<1>2. QED
  BY <1>1 DEF TypeOK, Raised

(* GotoType, LeaveType: an operation goes on only with an answer to write   *)
(* and a request to file it for.                                            *)
OpsOK ==
    /\ op \in [Actors -> [step : {"idle", "merge", "file", "run", "deny", "denyrun",
                                  "expire", "park"},
                          answer : Answers \cup {None}, live : BOOLEAN,
                          req : Reqs \cup {None}]]
    /\ \A a \in Actors : /\ op[a].step \in {"merge", "file", "run"} => op[a].answer \in Answers
                         /\ op[a].step = "file" => op[a].req \in Reqs

LEMMA GotoType ==
    ASSUME OpsOK, NEW a \in Actors,
           NEW s \in {"idle", "merge", "file", "run", "deny", "denyrun", "expire", "park"},
           Goto(a, s),
           s \in {"merge", "file", "run"} => op[a].answer \in Answers,
           s = "file" => op[a].req \in Reqs
    PROVE  OpsOK'
<1>1. op' = [op EXCEPT ![a] = [op[a] EXCEPT !.step = s]]
  BY DEF Goto, OpsOK
<1>2. [op[a] EXCEPT !.step = s] =
        [step |-> s, answer |-> op[a].answer, live |-> op[a].live, req |-> op[a].req]
  BY DEF OpsOK
<1>3. QED
  BY <1>1, <1>2 DEF OpsOK

LEMMA LeaveType == ASSUME OpsOK, NEW a \in Actors, Leave(a) PROVE OpsOK'
  BY DEF Leave, IdleOp, OpsOK

(* HoldInit: a run that starts has no request, no card and no answer.        *)
LEMMA HoldInit == ConstantsOK /\ Init => HoldInv
<1> SUFFICES ASSUME ConstantsOK, Init PROVE HoldInv
  OBVIOUS
<1>1. TypeOK
  <2>1. gate.awaiting = FALSE /\ gate \in [awaiting : BOOLEAN, approval : BOOLEAN,
                kind : Kinds \cup {None}, tool : Tools \cup {None}, live : BOOLEAN,
                req : Reqs \cup {None}, result : Answers \cup {None}, aged : BOOLEAN]
    BY DEF Init, NoGate
  <2>2. OpsOK
    BY DEF Init, OpsOK, IdleOp
  <2>3. taps \in 0..MaxTaps /\ crashes \in 0..MaxCrashes /\ remembered \subseteq Tools
    BY DEF ConstantsOK, Init
  <2>4. QED
    BY <2>1, <2>2, <2>3 DEF Init, TypeOK, OpsOK, NoCall
<1>2. CardOnce /\ TapsOnCard /\ AllowTapped /\ AllowCleared /\ SaidOnFile
  BY DEF ConstantsOK, Init, CardOnce, TapsOnCard, AllowTapped, AllowCleared, SaidOnFile,
         NoGate, IdleOp, Approvals, Answers
<1>3. QED
  BY <1>1, <1>2 DEF HoldInv

-----------------------------------------------------------------------------
(* TypeStep: no step of a hook, an actor or the run leaves the types; an     *)
(* operation that will file an answer has an answer and a request.           *)
LEMMA TypeStep == ConstantsOK /\ TypeOK /\ [Next]_vars => TypeOK'
<1> SUFFICES ASSUME ConstantsOK, TypeOK, [Next]_vars PROVE TypeOK'
  OBVIOUS
<1> USE DEF TypeOK, cardVars, hookVars, runVars, hostVars
<1>1. ASSUME NEW r \in Reqs, HookStep(r) PROVE TypeOK'
  <2>1. ASSUME NEW c \in Calls, HookCall(r, c) PROVE TypeOK'
    BY <2>1 DEF HookCall
  <2>2. CASE HookRead(r)
    BY <2>2 DEF HookRead
  <2>3. CASE HookTimeout(r)
    BY <2>3 DEF HookTimeout, Answers
  <2>4. CASE AgeRequest(r)
    BY <2>4 DEF AgeRequest
  <2>5. QED
    BY <1>1, <2>1, <2>2, <2>3, <2>4 DEF HookStep
<1>2. ASSUME NEW r \in Reqs, DrainStep(r) PROVE TypeOK'
  <2>1. CASE DrainResolve(r)
    BY <2>1 DEF DrainResolve
  <2>2. CASE DrainAged(r)
    BY <2>2 DEF DrainAged, Answers, Goto, Actors
  <2>3. CASE DrainAllow(r)
    BY <2>3 DEF DrainAllow, Answers, Approvals
  <2>4. CASE DrainRaise(r)
    <3>1. hook[r] # "idle"
      BY <2>4 DEF DrainRaise, Drainable, Unanswered
    <3>2. QED
      BY <2>4, <3>1, RaisedType DEF DrainRaise, Goto, Actors
  <2>5. CASE DrainParkFails(r)
    BY <2>5 DEF DrainParkFails, Answers
  <2>6. QED
    BY <1>2, <2>1, <2>2, <2>3, <2>4, <2>5 DEF DrainStep
<1>3. ASSUME NEW a \in Actors, ActorStep(a) PROVE TypeOK'
  <2>1. ASSUME NEW verb \in Verbs, Tap(a, verb) PROVE TypeOK'
    <3>1. taps' \in 0..MaxTaps
      BY <2>1 DEF ConstantsOK, Tap
    <3>2. remembered' \subseteq Tools
      BY <2>1, AnswerType DEF Tap
    <3>3. tapped' \in [Reqs -> SUBSET {"allow", "deny"}]
      BY <2>1 DEF Tap
    <3>4. op' = [op EXCEPT ![a] = [step |-> "merge", answer |-> AnswerOf(verb),
                                   live |-> gate.live, req |-> gate.req]]
      BY <2>1 DEF Tap, BeginFinish
    <3>5. AnswerOf(verb) \in Answers
      BY AnswerType
    <3>6. QED
      BY <2>1, <3>1, <3>2, <3>3, <3>4, <3>5 DEF Tap
  <2>2. CASE MergeAnswer(a)
    <3>1. OpsOK'
      <4>1. op[a].answer \in Answers /\ op[a].req \in Reqs \cup {None}
        BY <2>2 DEF MergeAnswer, Step
      <4>2. QED
        BY <2>2, <4>1, GotoType DEF MergeAnswer, OpsOK
    <3>2. gate' \in [awaiting : BOOLEAN, approval : BOOLEAN, kind : Kinds \cup {None},
                     tool : Tools \cup {None}, live : BOOLEAN, req : Reqs \cup {None},
                     result : Answers \cup {None}, aged : BOOLEAN]
          /\ gate'.awaiting = FALSE
      BY <2>2 DEF MergeAnswer
    <3>3. QED
      BY <2>2, <3>1, <3>2 DEF MergeAnswer, OpsOK
  <2>3. CASE FileAnswer(a)
    <3>1. op[a].answer \in Answers /\ op[a].req \in Reqs
      BY <2>3 DEF FileAnswer, Step
    <3>2. OpsOK'
      BY <2>3, <3>1, GotoType DEF FileAnswer, OpsOK
    <3>3. result' \in [Reqs -> Answers \cup {None}]
      BY <2>3, <3>1 DEF FileAnswer
    <3>4. QED
      BY <2>3, <3>2, <3>3 DEF FileAnswer, OpsOK
  <2>4. CASE RunAnswer(a)
    BY <2>4 DEF RunAnswer, Leave, IdleOp
  <2>5. CASE DenyMerge(a)
    <3>1. OpsOK'
      BY <2>5, GotoType DEF DenyMerge, OpsOK
    <3>2. QED
      BY <2>5, <3>1 DEF DenyMerge, OpsOK
  <2>6. CASE DenyRun(a)
    BY <2>6 DEF DenyRun, Leave, IdleOp
  <2>7. QED
    BY <1>3, <2>1, <2>2, <2>3, <2>4, <2>5, <2>6 DEF ActorStep
<1>4. CASE AgeCard
  BY <1>4 DEF AgeCard
<1>5. CASE TapLateDeny
  BY <1>5 DEF ConstantsOK, TapLateDeny, Goto, Actors
<1>6. CASE ExpireParked
  BY <1>6 DEF ExpireParked, Goto, Actors
<1>7. CASE ExpireCard
  BY <1>7 DEF ExpireCard, BeginFinish, Goto, Actors, Answers
<1>8. CASE ParkRun
  BY <1>8 DEF ParkRun, Leave, IdleOp, Actors
<1>9. CASE RunStep
  <2>1. ASSUME KillHooks
        PROVE  /\ hook' \in [Reqs -> {"idle", "waiting", "done", "killed"}]
               /\ \A r \in Reqs : hook'[r] # "idle" => hook[r] # "idle"
    BY <2>1 DEF KillHooks
  <2>2. CASE CancelCook
    BY <2>1, <2>2 DEF CancelCook
  <2>3. CASE WorkerReturn
    BY <2>1, <2>3 DEF WorkerReturn
  <2>4. CASE Settle
    BY <2>4 DEF Settle
  <2>5. CASE HostDie
    <3>1. OpsOK'
      BY <2>5 DEF HostDie, OpsOK, IdleOp
    <3>2. crashes' \in 0..MaxCrashes
      BY <2>5 DEF ConstantsOK, HostDie
    <3>3. QED
      BY <2>5, <3>1, <3>2 DEF HostDie, OpsOK
  <2>6. ASSUME NEW reaped \in BOOLEAN, HostStart(reaped) PROVE TypeOK'
    <3>1. /\ hook' \in [Reqs -> {"idle", "waiting", "done", "killed"}]
          /\ \A r \in Reqs : hook'[r] # "idle" => hook[r] # "idle"
      BY <2>1, <2>6 DEF HostStart
    <3>2. QED
      BY <2>6, <3>1 DEF HostStart
  <2>7. CASE OrphanEnd
    BY <2>1, <2>7 DEF OrphanEnd
  <2>8. QED
    BY <1>9, <2>2, <2>3, <2>4, <2>5, <2>6, <2>7 DEF RunStep
<1>10. CASE UNCHANGED vars
  BY <1>10 DEF vars
<1>11. QED
  BY <1>1, <1>2, <1>3, <1>4, <1>5, <1>6, <1>7, <1>8, <1>9, <1>10 DEF Next

-----------------------------------------------------------------------------
(* ClearedKept: a clearance lasts while the card stays and taps only add up. *)
LEMMA ClearedKept ==
    ASSUME TypeOK, NEW r \in Reqs, Cleared(r),
           card' = card,
           \A q \in Reqs : tapped[q] \subseteq tapped'[q],
           remembered \subseteq remembered',
           hook[r] # "idle" => hook'[r] # "idle" /\ call'[r] = call[r]
    PROVE  Cleared(r)'
  BY DEF Cleared, CardAllowed, AutoAllowed, TypeOK

(* AllowKept: an Allow tapped on the run's card stays tapped.                *)
LEMMA AllowKept ==
    ASSUME TypeOK, CardAllowed, card' = card,
           \A q \in Reqs : tapped[q] \subseteq tapped'[q]
    PROVE  CardAllowed'
  BY DEF CardAllowed, TypeOK

(* NoCardYet: as long as a request can be drained, the run has had no card   *)
(* and no operation carries an allow: this is why there is only one card.    *)
LEMMA NoCardYet ==
    ASSUME HoldInv, NEW r \in Reqs, Drainable(r)
    PROVE  /\ card = None /\ ~CardAllowed
           /\ result[r] = None /\ said[r] = None /\ hook[r] # "idle"
           /\ gate.result \notin Approvals
           /\ \A a \in Actors : op[a].answer \notin Approvals
  BY DEF HoldInv, CardOnce, AllowTapped, SaidOnFile, Drainable, Unanswered, CardAllowed

(* TapStep: a tap on the parked card keeps the invariant: the answer put on  *)
(* its way is an allow only if the tap on this very card was not Deny.       *)
LEMMA TapStep ==
    ASSUME HoldInv, NEW a \in Actors, NEW verb \in Verbs, Tap(a, verb)
    PROVE  /\ CardOnce' /\ TapsOnCard' /\ AllowTapped' /\ AllowCleared' /\ SaidOnFile'
<1> USE DEF HoldInv
<1>1. card \in Reqs /\ card' = card /\ gate' = gate /\ gate.awaiting
  BY DEF Tap, TypeOK
<1>2. tapped' = [tapped EXCEPT ![card] = @ \cup {IF verb = "deny" THEN "deny" ELSE "allow"}]
  BY DEF Tap
<1>3. \A q \in Reqs : tapped[q] \subseteq tapped'[q]
  BY <1>2 DEF TypeOK
<1>4. remembered \subseteq remembered'
  BY DEF Tap
<1>5. verb # "deny" => CardAllowed'
  BY <1>1, <1>2 DEF ConstantsOK, CardAllowed, TypeOK
<1>6. op' = [op EXCEPT ![a] = [step |-> "merge", answer |-> AnswerOf(verb),
                               live |-> gate.live, req |-> gate.req]]
  BY DEF Tap, BeginFinish
<1>7. CardOnce'
  BY <1>1 DEF CardOnce
<1>8. TapsOnCard'
  BY <1>1, <1>2 DEF TapsOnCard, TypeOK
<1>9. AllowTapped'
  <2>1. gate'.result \in Approvals => CardAllowed'
    BY <1>1, <1>3, AllowKept DEF AllowTapped
  <2>2. ASSUME NEW b \in Actors, op'[b].answer \in Approvals PROVE CardAllowed'
    <3>1. CASE b = a
      <4>1. op'[b].answer = AnswerOf(verb)
        BY <1>6, <3>1 DEF TypeOK
      <4>2. QED
        BY <2>2, <4>1, <1>5, AnswerType
    <3>2. CASE b # a
      <4>1. op'[b] = op[b]
        BY <1>6, <3>2 DEF TypeOK
      <4>2. QED
        BY <2>2, <4>1, <1>1, <1>3, AllowKept DEF AllowTapped
    <3>3. QED
      BY <3>1, <3>2
  <2>3. QED
    BY <2>1, <2>2 DEF AllowTapped
<1>10. AllowCleared'
  BY <1>1, <1>3, <1>4, ClearedKept DEF Tap, AllowCleared, hookVars
<1>11. SaidOnFile'
  BY DEF Tap, SaidOnFile, hookVars
<1>12. QED
  BY <1>7, <1>8, <1>9, <1>10, <1>11

(* DrainStepInv: the drain files an allow only if it was tapped or needs no *)
(* card, and raises a card only if the run had none.                        *)
LEMMA DrainStepInv ==
    ASSUME HoldInv, NEW r \in Reqs, DrainStep(r)
    PROVE  /\ CardOnce' /\ TapsOnCard' /\ AllowTapped' /\ AllowCleared' /\ SaidOnFile'
<1> USE DEF HoldInv
<1>1. ASSUME card' = card, gate' = gate, tapped' = tapped, remembered' = remembered,
             UNCHANGED hookVars,
             \A a \in Actors : op'[a].answer = op[a].answer,
             NEW v \in Answers, result' = [result EXCEPT ![r] = v],
             v \in Approvals => Cleared(r)
      PROVE  /\ CardOnce' /\ TapsOnCard' /\ AllowTapped' /\ AllowCleared' /\ SaidOnFile'
  <2>1. CardOnce' /\ TapsOnCard' /\ AllowTapped'
    BY <1>1 DEF CardOnce, TapsOnCard, AllowTapped, CardAllowed
  <2>2. AllowCleared'
    <3>1. \A q \in Reqs : Cleared(q) => Cleared(q)'
      BY <1>1, ClearedKept DEF hookVars
    <3>2. QED
      BY <1>1, <3>1 DEF AllowCleared, hookVars, TypeOK
  <2>3. SaidOnFile'
    BY <1>1 DEF ConstantsOK, SaidOnFile, hookVars, TypeOK
  <2>4. QED
    BY <2>1, <2>2, <2>3
<1>2. CASE DrainResolve(r)
  <2>1. gate.result \in Answers
    BY <1>2 DEF DrainResolve, TypeOK
  <2>2. gate.result \in Approvals => Cleared(r)
    BY DEF AllowTapped, Cleared
  <2>3. QED
    BY <1>1, <1>2, <2>1, <2>2 DEF DrainResolve, cardVars
<1>3. CASE DrainAged(r)
  <2>1. \A a \in Actors : op'[a].answer = op[a].answer
    BY <1>3 DEF DrainAged, Goto, TypeOK, Actors
  <2>2. "deny" \in Answers /\ "deny" \notin Approvals
    BY DEF Answers, Approvals
  <2>3. QED
    BY <1>1, <1>3, <2>1, <2>2 DEF DrainAged, cardVars
<1>4. CASE DrainAllow(r)
  <2>1. Cleared(r)
    BY <1>4, NoCardYet DEF ConstantsOK, DrainAllow, Cleared
  <2>2. "allow" \in Answers
    BY DEF Answers, Approvals
  <2>3. QED
    BY <1>1, <1>4, <2>1, <2>2 DEF DrainAllow, cardVars
<1>5. CASE DrainRaise(r)
  <2>1. /\ card = None /\ ~CardAllowed
        /\ result[r] = None /\ said[r] = None /\ hook[r] # "idle"
        /\ \A a \in Actors : op[a].answer \notin Approvals
    BY <1>5, NoCardYet DEF DrainRaise
  <2>2. /\ card' = r /\ gate' = Raised(r) /\ tapped' = tapped /\ result' = result
        /\ remembered' = remembered /\ UNCHANGED hookVars
    BY <1>5 DEF DrainRaise
  <2>3. gate'.awaiting /\ gate'.result = None
    BY <2>1, <2>2, RaisedType
  <2>4. CardOnce'
    BY <2>3 DEF CardOnce
  <2>5. TapsOnCard'
    <3>1. \A q \in Reqs : tapped[q] = {}
      BY <2>1 DEF ConstantsOK, TapsOnCard
    <3>2. QED
      BY <2>2, <3>1 DEF TapsOnCard
  <2>6. AllowTapped'
    <3>1. \A a \in Actors : op'[a].answer = op[a].answer
      BY <1>5 DEF DrainRaise, Goto, TypeOK, Actors
    <3>2. None \notin Approvals
      BY DEF ConstantsOK, Answers
    <3>3. QED
      BY <2>1, <2>3, <3>1, <3>2 DEF AllowTapped
  <2>7. AllowCleared'
    <3> SUFFICES ASSUME NEW q \in Reqs, (result[q] \in Approvals \/ said[q] \in Approvals)
                 PROVE  Cleared(q)'
      BY <2>2 DEF AllowCleared, hookVars
    <3>1. hook[q] # "idle" /\ AutoAllowed(q)
      BY <2>1 DEF AllowCleared, Cleared
    <3>2. q # r
      BY <2>1 DEF ConstantsOK, Answers
    <3>3. QED
      BY <3>1, <3>2, <2>2 DEF Cleared, AutoAllowed, hookVars
  <2>8. SaidOnFile'
    BY <2>2 DEF SaidOnFile, hookVars
  <2>9. QED
    BY <2>4, <2>5, <2>6, <2>7, <2>8
<1>6. CASE DrainParkFails(r)
  <2>1. "deny" \in Answers /\ "deny" \notin Approvals
    BY DEF Answers, Approvals
  <2>2. QED
    BY <1>1, <1>6, <2>1 DEF DrainParkFails, cardVars
<1>7. QED
  BY <1>2, <1>3, <1>4, <1>5, <1>6 DEF DrainStep

(* QuietStep: a step that leaves the card, the answers and the files alone   *)
(* keeps the invariant, whatever it does to the run and its workers.         *)
LEMMA QuietStep ==
    ASSUME HoldInv, UNCHANGED <<card, tapped, remembered, result, said>>,
           gate'.result = gate.result, gate'.awaiting = gate.awaiting,
           \A r \in Reqs : hook[r] # "idle" => hook'[r] # "idle" /\ call'[r] = call[r],
           \A a \in Actors : op'[a].answer \in {op[a].answer, None, "deny"}
    PROVE  /\ CardOnce' /\ TapsOnCard' /\ AllowTapped' /\ AllowCleared' /\ SaidOnFile'
<1> USE DEF HoldInv
<1>1. CardOnce' /\ TapsOnCard' /\ SaidOnFile'
  BY DEF CardOnce, TapsOnCard, SaidOnFile
<1>2. AllowTapped'
  <2>1. None \notin Approvals /\ "deny" \notin Approvals
    BY DEF ConstantsOK, Answers, Approvals
  <2>2. CardAllowed' <=> CardAllowed
    BY DEF CardAllowed
  <2>3. QED
    BY <2>1, <2>2 DEF AllowTapped
<1>3. AllowCleared'
  BY ClearedKept DEF AllowCleared
<1>4. QED
  BY <1>1, <1>2, <1>3

(* HookStepInv: a hook prints what is on file, or a deny.                    *)
LEMMA HookStepInv ==
    ASSUME HoldInv, NEW r \in Reqs, HookStep(r)
    PROVE  /\ CardOnce' /\ TapsOnCard' /\ AllowTapped' /\ AllowCleared' /\ SaidOnFile'
<1> USE DEF HoldInv
<1>1. ASSUME NEW c \in Calls, HookCall(r, c)
      PROVE  /\ CardOnce' /\ TapsOnCard' /\ AllowTapped' /\ AllowCleared' /\ SaidOnFile'
  BY <1>1, QuietStep DEF cardVars, HookCall, TypeOK
<1>2. CASE AgeRequest(r)
  BY <1>2, QuietStep DEF cardVars, AgeRequest
<1>3. ASSUME HookRead(r) \/ HookTimeout(r)
      PROVE  /\ CardOnce' /\ TapsOnCard' /\ AllowTapped' /\ AllowCleared' /\ SaidOnFile'
  <2>1. /\ UNCHANGED <<gate, cardVars, op>> /\ call' = call
        /\ hook[r] = "waiting" /\ hook' = [hook EXCEPT ![r] = "done"]
    BY <1>3 DEF HookRead, HookTimeout
  <2>2. CardOnce' /\ TapsOnCard' /\ AllowTapped'
    BY <2>1 DEF CardOnce, TapsOnCard, AllowTapped, CardAllowed, cardVars
  <2>3. \A q \in Reqs : Cleared(q) => Cleared(q)'
    BY <2>1, ClearedKept DEF cardVars, TypeOK
  <2>4. \A q \in Reqs : /\ result'[q] \in {result[q], "deny"}
                        /\ said'[q] \in {said[q], result[q], "deny"}
    BY <1>3 DEF HookRead, HookTimeout, TypeOK
  <2>5. "deny" \notin Approvals
    BY DEF Approvals
  <2>6. AllowCleared'
    BY <2>3, <2>4, <2>5 DEF AllowCleared
  <2>7. SaidOnFile'
    BY <1>3 DEF ConstantsOK, SaidOnFile, HookRead, HookTimeout, TypeOK, Answers
  <2>8. QED
    BY <2>2, <2>6, <2>7
<1>4. QED
  BY <1>1, <1>2, <1>3 DEF HookStep

(* FinishStepInv: the three steps of _finish_gate carry the answer of the    *)
(* card to the metadata and the result file unchanged.                       *)
LEMMA FinishStepInv ==
    ASSUME HoldInv, NEW a \in Actors,
           MergeAnswer(a) \/ FileAnswer(a) \/ RunAnswer(a) \/ DenyMerge(a) \/ DenyRun(a)
    PROVE  /\ CardOnce' /\ TapsOnCard' /\ AllowTapped' /\ AllowCleared' /\ SaidOnFile'
<1> USE DEF HoldInv
<1>1. ASSUME NEW s, Goto(a, s)
      PROVE  \A b \in Actors : op'[b].answer = op[b].answer
  BY <1>1 DEF Goto, TypeOK
<1>2. ASSUME Leave(a)
      PROVE  \A b \in Actors : op'[b].answer \in {op[b].answer, None}
  BY <1>2 DEF Leave, IdleOp, TypeOK
<1>3. CASE MergeAnswer(a)
  <2>1. \A b \in Actors : op'[b].answer = op[b].answer
    BY <1>1, <1>3 DEF MergeAnswer
  <2>2. op[a].answer \in Answers
    BY <1>3 DEF MergeAnswer, Step, TypeOK
  <2>3. gate'.result = op[a].answer
    BY <1>3 DEF MergeAnswer, TypeOK
  <2>4. UNCHANGED <<cardVars, hookVars, result>>
    BY <1>3 DEF MergeAnswer
  <2>5. CardOnce'
    BY <2>2, <2>3 DEF ConstantsOK, CardOnce
  <2>6. AllowTapped'
    BY <2>1, <2>3, <2>4 DEF AllowTapped, CardAllowed, cardVars
  <2>7. TapsOnCard' /\ SaidOnFile'
    BY <2>4 DEF TapsOnCard, SaidOnFile, cardVars, hookVars
  <2>8. AllowCleared'
    BY <2>4, ClearedKept DEF AllowCleared, cardVars, hookVars
  <2>9. QED
    BY <2>5, <2>6, <2>7, <2>8
<1>4. CASE FileAnswer(a)
  <2>1. \A b \in Actors : op'[b].answer = op[b].answer
    BY <1>1, <1>4 DEF FileAnswer
  <2>2. op[a].answer \in Answers /\ result' = [result EXCEPT ![op[a].req] = op[a].answer]
    BY <1>4 DEF FileAnswer, Step, TypeOK
  <2>3. UNCHANGED <<cardVars, hookVars, gate>>
    BY <1>4 DEF FileAnswer
  <2>4. CardOnce' /\ TapsOnCard' /\ AllowTapped'
    BY <2>1, <2>3 DEF CardOnce, TapsOnCard, AllowTapped, CardAllowed, cardVars
  <2>5. SaidOnFile'
    BY <2>2, <2>3 DEF ConstantsOK, SaidOnFile, hookVars, TypeOK
  <2>6. AllowCleared'
    <3>1. \A q \in Reqs : result'[q] \in {result[q], op[a].answer}
      BY <2>2 DEF TypeOK
    <3>2. \A q \in Reqs : Cleared(q) => Cleared(q)'
      BY <2>3, ClearedKept DEF cardVars, hookVars
    <3>3. op[a].answer \in Approvals => \A q \in Reqs : Cleared(q)
      BY DEF AllowTapped, Cleared
    <3>4. QED
      BY <2>3, <3>1, <3>2, <3>3 DEF AllowCleared, hookVars
  <2>7. QED
    BY <2>4, <2>5, <2>6
<1>5. CASE DenyMerge(a)
  <2>1. gate'.result = gate.result /\ gate'.awaiting = gate.awaiting
    BY <1>5 DEF DenyMerge, TypeOK
  <2>2. QED
    BY <1>1, <1>5, <2>1, QuietStep DEF cardVars, DenyMerge, hookVars
<1>6. CASE RunAnswer(a) \/ DenyRun(a)
  BY <1>2, <1>6, QuietStep DEF cardVars, RunAnswer, DenyRun, hookVars
<1>7. QED
  BY <1>3, <1>4, <1>5, <1>6

-----------------------------------------------------------------------------
(* HoldStep: every step keeps the invariant.                                 *)
LEMMA HoldStep == HoldInv /\ [Next]_vars => HoldInv'
<1> SUFFICES ASSUME HoldInv, [Next]_vars PROVE HoldInv'
  OBVIOUS
<1>0. ConstantsOK' /\ TypeOK'
  BY TypeStep DEF HoldInv, ConstantsOK, Answers, CallRecords, Kinds
<1> DEFINE Rest == CardOnce /\ TapsOnCard /\ AllowTapped /\ AllowCleared /\ SaidOnFile
<1>1. SUFFICES Rest'
  BY <1>0 DEF HoldInv
<1>2. CASE \E r \in Reqs : HookStep(r) \/ DrainStep(r)
  BY <1>2, HookStepInv, DrainStepInv
<1>3. CASE \E a \in Actors : ActorStep(a)
  BY <1>3, TapStep, FinishStepInv DEF ActorStep
<1>4. CASE AgeCard
  <2>1. gate'.result = gate.result /\ gate'.awaiting = gate.awaiting
    BY <1>4 DEF AgeCard, HoldInv, TypeOK
  <2>2. QED
    BY <1>4, <2>1, QuietStep DEF cardVars, AgeCard, hookVars
<1>5. CASE TapLateDeny \/ ExpireParked \/ ExpireCard \/ ParkRun
  <2>1. \A a \in Actors : op'[a].answer \in {op[a].answer, None, "deny"}
    <3>1. op \in [Actors -> [step : {"idle", "merge", "file", "run", "deny", "denyrun",
                                    "expire", "park"},
                             answer : Answers \cup {None}, live : BOOLEAN,
                             req : Reqs \cup {None}]]
      BY DEF HoldInv, TypeOK
    <3>2. QED
      BY <1>5, <3>1 DEF TapLateDeny, ExpireParked, ExpireCard, ParkRun, BeginFinish, Goto,
                        Leave, IdleOp
  <2>2. QED
    BY <1>5, <2>1, QuietStep
       DEF TapLateDeny, ExpireParked, ExpireCard, ParkRun, hookVars, cardVars
<1>6. CASE RunStep
  <2>1. UNCHANGED <<cardVars, result, said, gate, call>>
    BY <1>6 DEF RunStep, CancelCook, WorkerReturn, Settle, HostDie, HostStart, OrphanEnd,
                hookVars
  <2>2. KillHooks \/ hook' = hook
    BY <1>6 DEF RunStep, CancelCook, WorkerReturn, Settle, HostDie, HostStart, OrphanEnd,
                hookVars
  <2>3. \A r \in Reqs : hook[r] # "idle" => hook'[r] # "idle"
    BY <2>2 DEF KillHooks
  <2>4. \A a \in Actors : op'[a].answer \in {op[a].answer, None}
    BY <1>6 DEF RunStep, CancelCook, WorkerReturn, Settle, HostDie, HostStart, OrphanEnd,
                IdleOp
  <2>5. QED
    BY <2>1, <2>3, <2>4, QuietStep DEF cardVars
<1>7. CASE UNCHANGED vars
  BY <1>7, QuietStep DEF cardVars, vars, hookVars
<1>8. QED
  BY <1>2, <1>3, <1>4, <1>5, <1>6, <1>7 DEF Next

(* HoldHolds: the invariant holds in every state of the hold.                *)
THEOREM HoldHolds == ASSUME ConstantsOK PROVE Spec => []HoldInv
<1>1. QED
  BY HoldInit, HoldStep, PTL DEF Spec

(* HoldTypes: the files, the card and the run keep their types.              *)
THEOREM HoldTypes == ASSUME ConstantsOK PROVE Spec => []TypeOK
<1>1. HoldInv => TypeOK
  BY DEF HoldInv
<1>2. QED
  BY <1>1, HoldHolds, PTL

(* HoldFailsClosed: for any number of requests, taps and crashes a worker is *)
(* told to go on only after a tap of Allow or without needing a card.        *)
THEOREM HoldFailsClosed == ASSUME ConstantsOK PROVE Spec => []FailClosed
<1>1. HoldInv => FailClosed
  BY DEF HoldInv, AllowCleared, Cleared, CardAllowed, FailClosed, SomeoneApproved, TypeOK
<1>2. QED
  BY <1>1, HoldHolds, PTL

(* DenyIsFinal: a request whose own card was only ever denied is not        *)
(* allowed, by the drain, an expiry or another request's answer.            *)
THEOREM DenyIsFinal == ASSUME ConstantsOK PROVE Spec => []DenyHolds
<1>1. ASSUME HoldInv PROVE DenyHolds
  <2> SUFFICES ASSUME NEW r \in Reqs, tapped[r] = {"deny"}, said[r] \in Approvals
               PROVE  FALSE
    BY DEF DenyHolds
  <2>1. r = card
    BY <1>1 DEF HoldInv, TapsOnCard
  <2>2. "allow" \in tapped[card]
    BY <1>1, <2>1 DEF HoldInv, AllowCleared, Cleared, CardAllowed
  <2>3. QED
    BY <2>1, <2>2
<1>2. QED
  BY <1>1, HoldHolds, PTL

(* A deny on its way to the card of the run, or on file for it, was tapped   *)
(* on that card or comes after a call of the run had waited its time.        *)
CardDenied == card # None /\ ("deny" \in tapped[card] \/ ClockRan)

DenyTraced ==
    /\ gate.result = "deny" => CardDenied
    /\ \A a \in Actors : op[a].answer = "deny" => CardDenied
    /\ op["loop"].step = "expire" => ClockRan
    /\ gate.aged => ClockRan
    /\ card # None => (result[card] = "deny" => CardDenied)

(* DenyCarried: a step that leaves the card and the clocks' verdict alone    *)
(* and hands on only answers that are there already keeps DenyTraced.        *)
LEMMA DenyCarried ==
    ASSUME HoldInv, DenyTraced, card' = card,
           CardDenied => CardDenied',
           ClockRan => ClockRan',
           gate'.result = "deny" => gate.result = "deny" \/ CardDenied',
           gate'.aged => gate.aged \/ ClockRan',
           op'["loop"].step = "expire" => op["loop"].step = "expire" \/ ClockRan',
           \A a \in Actors : op'[a].answer = "deny" => op[a].answer = "deny" \/ CardDenied',
           \A r \in Reqs : result'[r] = "deny" => result[r] = "deny" \/ CardDenied'
                                                 \/ r # card
    PROVE  DenyTraced'
<1>1. card # None => card \in Reqs
  BY DEF HoldInv, TypeOK
<1>2. QED
  BY <1>1 DEF DenyTraced

(* DeniedStays: taps are not taken back and the clocks do not run backwards. *)
LEMMA DeniedStays ==
    ASSUME TypeOK, card' = card, \A r \in Reqs : tapped[r] \subseteq tapped'[r],
           \A r \in Reqs : age[r] # "fresh" => age'[r] # "fresh"
    PROVE  (CardDenied => CardDenied') /\ (ClockRan => ClockRan')
  BY DEF CardDenied, ClockRan, TypeOK

(* DenyHook, DenyDrain, DenyActor: the steps of the hooks, of the drain and  *)
(* of an operation on the card keep DenyTraced.                              *)
LEMMA DenyHook ==
    ASSUME HoldInv, DenyTraced, NEW r \in Reqs, HookStep(r)
    PROVE  DenyTraced'
<1>1. UNCHANGED <<gate, card, tapped, op>>
  BY DEF HookStep, HookCall, HookRead, HookTimeout, AgeRequest, cardVars
<1>2. \A q \in Reqs : age[q] # "fresh" => age'[q] # "fresh"
  BY DEF HoldInv, TypeOK, HookStep, HookCall, HookRead, HookTimeout, AgeRequest
<1>3. (CardDenied => CardDenied') /\ (ClockRan => ClockRan')
  BY <1>1, <1>2, DeniedStays DEF HoldInv
<1>4. \A q \in Reqs : result'[q] = "deny" => result[q] = "deny" \/ CardDenied' \/ q # card
  <2>1. CASE HookTimeout(r)
    <3>1. age'[r] = "over"
      BY <2>1 DEF HookTimeout
    <3>2. ClockRan'
      BY <3>1 DEF ClockRan
    <3>3. \A q \in Reqs : q # r => result'[q] = result[q]
      BY <2>1 DEF HookTimeout, HoldInv, TypeOK
    <3>4. r = card => CardDenied'
      BY <1>1, <3>2 DEF CardDenied, HoldInv, ConstantsOK
    <3>5. QED
      BY <3>3, <3>4
  <2>2. CASE UNCHANGED result
    BY <2>2
  <2>3. QED
    BY <2>1, <2>2 DEF HookStep, HookCall, HookRead, AgeRequest
<1>5. QED
  BY <1>1, <1>3, <1>4, DenyCarried

LEMMA DenyDrain ==
    ASSUME HoldInv, DenyTraced, NEW r \in Reqs, DrainStep(r)
    PROVE  DenyTraced'
<1>1. age' = age
  BY DEF DrainStep, DrainResolve, DrainAged, DrainAllow, DrainRaise, DrainParkFails, hookVars
<1>2. ASSUME card' = card, tapped' = tapped
      PROVE  (CardDenied => CardDenied') /\ (ClockRan => ClockRan')
  BY <1>1, <1>2, DeniedStays DEF HoldInv
<1>3. CASE DrainResolve(r)
  <2>1. UNCHANGED <<gate, op, card, tapped>> /\ result' = [result EXCEPT ![r] = gate.result]
    BY <1>3 DEF DrainResolve, cardVars
  <2>2. \A q \in Reqs : result'[q] = "deny" => result[q] = "deny" \/ CardDenied'
    BY <1>2, <2>1 DEF HoldInv, TypeOK, DenyTraced
  <2>3. QED
    BY <1>2, <2>1, <2>2, DenyCarried
<1>4. CASE DrainAged(r)
  <2>1. UNCHANGED <<gate, card, tapped>> /\ result' = [result EXCEPT ![r] = "deny"]
    BY <1>4 DEF DrainAged, cardVars
  <2>2. ClockRan /\ ClockRan'
    BY <1>1, <1>4 DEF DrainAged, ClockRan
  <2>3. \A a \in Actors : op'[a].answer = op[a].answer
    BY <1>4 DEF DrainAged, Goto, HoldInv, TypeOK
  <2>4. r = card => CardDenied'
    BY <2>1, <2>2 DEF CardDenied, HoldInv, ConstantsOK
  <2>5. \A q \in Reqs : q # r => result'[q] = result[q]
    BY <2>1 DEF HoldInv, TypeOK
  <2>6. QED
    BY <1>2, <2>1, <2>2, <2>3, <2>4, <2>5, DenyCarried
<1>5. CASE DrainAllow(r)
  <2>1. UNCHANGED <<gate, op, card, tapped>> /\ result' = [result EXCEPT ![r] = "allow"]
    BY <1>5 DEF DrainAllow, cardVars
  <2>2. \A q \in Reqs : result'[q] = "deny" => result[q] = "deny"
    BY <2>1 DEF HoldInv, TypeOK
  <2>3. QED
    BY <1>2, <2>1, <2>2, DenyCarried
<1>6. CASE DrainParkFails(r)
  <2>1. UNCHANGED <<gate, op, card, tapped>> /\ result' = [result EXCEPT ![r] = "deny"]
    BY <1>6 DEF DrainParkFails, cardVars
  <2>2. card = None
    BY <1>6, NoCardYet DEF DrainParkFails
  <2>3. r # card
    BY <2>2 DEF HoldInv, ConstantsOK
  <2>4. \A q \in Reqs : q # r => result'[q] = result[q]
    BY <2>1 DEF HoldInv, TypeOK
  <2>5. QED
    BY <1>2, <2>1, <2>3, <2>4, DenyCarried
<1>7. CASE DrainRaise(r)
  <2>1. card = None /\ result[r] = None /\ hook[r] # "idle"
    BY <1>7, NoCardYet DEF DrainRaise
  <2>2. card' = r /\ gate' = Raised(r) /\ UNCHANGED <<result, tapped>>
    BY <1>7 DEF DrainRaise
  <2>3. gate'.result = None /\ gate'.aged = FALSE
    BY <2>2 DEF Raised, HoldInv, TypeOK
  <2>4. None # "deny"
    BY DEF HoldInv, ConstantsOK, Answers
  <2>5. op'["loop"].step = "park" /\ \A a \in Actors : op'[a].answer = op[a].answer
    BY <1>7 DEF DrainRaise, Goto, HoldInv, TypeOK, Actors
  <2>6. \A a \in Actors : op[a].answer # "deny"
    BY <2>1 DEF DenyTraced, CardDenied
  <2>7. QED
    BY <2>1, <2>2, <2>3, <2>4, <2>5, <2>6 DEF DenyTraced
<1>8. QED
  BY <1>3, <1>4, <1>5, <1>6, <1>7 DEF DrainStep

LEMMA DenyActor ==
    ASSUME HoldInv, DenyTraced, NEW a \in Actors, ActorStep(a)
    PROVE  DenyTraced'
<1>1. age' = age /\ card' = card /\ \A r \in Reqs : tapped[r] \subseteq tapped'[r]
  BY DEF ActorStep, Tap, MergeAnswer, FileAnswer, RunAnswer, DenyMerge, DenyRun, hookVars,
         cardVars, HoldInv, TypeOK
<1>2. (CardDenied => CardDenied') /\ (ClockRan => ClockRan')
  BY <1>1, DeniedStays DEF HoldInv
<1>3. None # "deny"
  BY DEF HoldInv, ConstantsOK, Answers
<1>4. ASSUME NEW verb \in Verbs, Tap(a, verb) PROVE DenyTraced'
  <2>1. /\ op' = [op EXCEPT ![a] = [step |-> "merge", answer |-> AnswerOf(verb),
                                    live |-> gate.live, req |-> gate.req]]
        /\ UNCHANGED <<gate, result>> /\ gate.awaiting
        /\ tapped' = [tapped EXCEPT ![card] = @ \cup {IF verb = "deny" THEN "deny" ELSE "allow"}]
    BY <1>4 DEF Tap, BeginFinish
  <2>2. card \in Reqs
    BY <2>1 DEF HoldInv, TypeOK
  <2>3. AnswerOf(verb) = "deny" => verb = "deny"
    BY DEF AnswerOf, Verbs
  <2>4. AnswerOf(verb) = "deny" => CardDenied'
    BY <1>1, <2>1, <2>2, <2>3 DEF CardDenied, HoldInv, ConstantsOK, TypeOK
  <2>5. /\ op'["loop"].step = "expire" => op["loop"].step = "expire"
        /\ \A b \in Actors : op'[b].answer = "deny" => op[b].answer = "deny" \/ CardDenied'
    BY <2>1, <2>4 DEF HoldInv, TypeOK
  <2>6. QED
    BY <1>1, <1>2, <2>1, <2>5, DenyCarried
<1>5. CASE MergeAnswer(a) \/ FileAnswer(a) \/ RunAnswer(a) \/ DenyMerge(a) \/ DenyRun(a)
  <2>1. /\ \A b \in Actors : op'[b].answer \in {op[b].answer, None}
        /\ op'["loop"].step # "expire" \/ op'["loop"] = op["loop"]
    BY <1>5 DEF MergeAnswer, FileAnswer, RunAnswer, DenyMerge, DenyRun, Goto, Leave, IdleOp,
                Step, Actors, HoldInv, TypeOK
  <2>2. gate'.result \in {gate.result, op[a].answer} /\ gate'.aged = gate.aged
    BY <1>5 DEF MergeAnswer, FileAnswer, RunAnswer, DenyMerge, DenyRun, HoldInv, TypeOK
  <2>3. \A r \in Reqs : result'[r] \in {result[r], op[a].answer}
    BY <1>5 DEF MergeAnswer, FileAnswer, RunAnswer, DenyMerge, DenyRun, HoldInv, TypeOK
  <2>4. op[a].answer = "deny" => CardDenied'
    BY <1>2 DEF DenyTraced
  <2>5. QED
    BY <1>1, <1>2, <1>3, <2>1, <2>2, <2>3, <2>4, DenyCarried
<1>6. QED
  BY <1>4, <1>5 DEF ActorStep

LEMMA DenyStep == HoldInv /\ DenyTraced /\ [Next]_vars => DenyTraced'
<1> SUFFICES ASSUME HoldInv, DenyTraced, [Next]_vars PROVE DenyTraced'
  OBVIOUS
<1>1. ASSUME UNCHANGED <<age, card, tapped, result>>,
             gate'.result = gate.result, gate'.aged => gate.aged \/ ClockRan,
             op'["loop"].step = "expire" => op["loop"].step = "expire" \/ ClockRan,
             \A a \in Actors : op'[a].answer = "deny" => op[a].answer = "deny" \/ CardDenied
      PROVE  DenyTraced'
  <2>1. (CardDenied => CardDenied') /\ (ClockRan => ClockRan')
    BY <1>1, DeniedStays DEF HoldInv
  <2>2. QED
    BY <1>1, <2>1, DenyCarried
<1>2. None # "deny"
  BY DEF HoldInv, ConstantsOK, Answers
<1>3. CASE AgeCard
  <2>1. card \in Reqs /\ ClockRan
    BY <1>3 DEF AgeCard, ClockRan, HoldInv, TypeOK
  <2>2. gate'.result = gate.result
    BY <1>3 DEF AgeCard, HoldInv, TypeOK
  <2>3. QED
    BY <1>1, <1>3, <2>1, <2>2 DEF AgeCard, hookVars, cardVars
<1>4. CASE TapLateDeny \/ ParkRun
  <2>1. /\ UNCHANGED <<age, card, tapped, result, gate>>
        /\ op'["loop"].step = "expire" => op["loop"].step = "expire"
        /\ \A a \in Actors : op'[a].answer \in {op[a].answer, None}
    BY <1>4 DEF TapLateDeny, ParkRun, Goto, Leave, IdleOp, Idle, Step, hookVars, cardVars,
                Actors, HoldInv, TypeOK
  <2>2. QED
    BY <1>1, <1>2, <2>1
<1>5. CASE ExpireParked
  <2>1. ClockRan
    BY <1>5 DEF ExpireParked, DenyTraced
  <2>2. \A a \in Actors : op'[a].answer = op[a].answer
    BY <1>5 DEF ExpireParked, Goto, HoldInv, TypeOK
  <2>3. QED
    BY <1>1, <1>5, <2>1, <2>2 DEF ExpireParked, hookVars, cardVars
<1>6. CASE ExpireCard
  <2>1. ClockRan
    BY <1>6 DEF ExpireCard, Step, DenyTraced
  <2>2. gate.awaiting => CardDenied
    BY <2>1 DEF CardDenied, HoldInv, ConstantsOK, TypeOK
  <2>3. \A a \in Actors : op'[a].answer = "deny" => op[a].answer = "deny" \/ CardDenied
    BY <1>6, <2>2 DEF ExpireCard, BeginFinish, Goto, HoldInv, TypeOK
  <2>4. QED
    BY <1>1, <1>6, <2>1, <2>3 DEF ExpireCard, hookVars, cardVars
<1>7. CASE RunStep
  <2>1. UNCHANGED <<age, card, tapped, result, gate>>
    BY <1>7 DEF RunStep, CancelCook, WorkerReturn, Settle, HostDie, HostStart, OrphanEnd,
                hookVars, cardVars
  <2>2. op' = op \/ op' = [a \in Actors |-> IdleOp]
    BY <1>7 DEF RunStep, CancelCook, WorkerReturn, Settle, HostDie, HostStart, OrphanEnd
  <2>3. /\ op'["loop"].step = "expire" => op["loop"].step = "expire"
        /\ \A a \in Actors : op'[a].answer \in {op[a].answer, None}
    BY <2>2 DEF IdleOp, Actors
  <2>4. QED
    BY <1>1, <1>2, <2>1, <2>3
<1>8. CASE UNCHANGED vars
  BY <1>1, <1>8 DEF vars, hookVars, cardVars
<1>9. QED
  BY <1>3, <1>4, <1>5, <1>6, <1>7, <1>8, DenyHook, DenyDrain, DenyActor DEF Next

(* AllowIsFinal: for any number of calls, taps and crashes a call whose own  *)
(* card was only ever allowed is denied by a clock alone: not by the drain,  *)
(* a park that fails, a Cancel of the run or the answer of another call.     *)
THEOREM AllowIsFinal == ASSUME ConstantsOK PROVE Spec => []AllowHolds
<1>1. Init => DenyTraced
  BY DEF Init, DenyTraced, NoGate, IdleOp, ConstantsOK, Answers, Actors
<1>2. ASSUME HoldInv, DenyTraced PROVE AllowHolds
  <2> SUFFICES ASSUME NEW r \in Reqs, tapped[r] = {"allow"}, result[r] = "deny"
               PROVE  ClockRan
    BY DEF AllowHolds
  <2>1. r = card /\ card # None
    BY <1>2 DEF HoldInv, ConstantsOK, TapsOnCard
  <2>2. CardDenied
    BY <1>2, <2>1 DEF DenyTraced
  <2>3. QED
    BY <2>1, <2>2 DEF CardDenied
<1>3. QED
  BY <1>1, <1>2, HoldHolds, DenyStep, PTL DEF Spec

-----------------------------------------------------------------------------
(* ApprovedByTap: an allow on the run's card is someone's approval.          *)
LEMMA ApprovedByTap == ASSUME TypeOK, CardAllowed PROVE SomeoneApproved
  BY DEF TypeOK, CardAllowed, SomeoneApproved

(* QuietHold: what a worker sees of its holds follows from the hooks, their  *)
(* calls, the taps and the remembered tools alone.                           *)
LEMMA QuietHold ==
    ASSUME UNCHANGED <<hook, call, said, tapped, remembered>>
    PROVE  UNCHANGED Queue!vars
  BY DEF Queue!vars, HoldOf, Consented, SomeoneApproved, AutoAllowed

(* HookHold: a hook asks, and is decided once: allowed with consent only.    *)
LEMMA HookHold ==
    ASSUME HoldInv, NEW r \in Reqs, HookStep(r)
    PROVE  [Queue!Next]_Queue!vars
<1> USE DEF HoldInv
<1>1. ASSUME NEW c \in Calls, HookCall(r, c) PROVE Queue!Hold(r)
  <2>1. /\ hook[r] = "idle" /\ hook' = [hook EXCEPT ![r] = "waiting"]
        /\ call' = [call EXCEPT ![r] = c] /\ UNCHANGED <<said, tapped, remembered>>
    BY <1>1 DEF HookCall, cardVars
  <2>2. HoldOf(r) = "none" /\ HoldOf(r)' = "held"
    BY <2>1 DEF HoldOf, TypeOK
  <2>3. \A q \in Reqs \ {r} : HoldOf(q)' = HoldOf(q) /\ (Consented(q) => Consented(q)')
    BY <2>1 DEF HoldOf, Consented, SomeoneApproved, AutoAllowed, TypeOK
  <2>4. ~Consented(r)
    BY <2>1 DEF Consented
  <2>5. QED
    BY <2>2, <2>3, <2>4 DEF Queue!Hold
<1>2. ASSUME HookRead(r) \/ HookTimeout(r) PROVE Queue!Allow(r) \/ Queue!Deny(r)
  <2>1. /\ hook[r] = "waiting" /\ hook' = [hook EXCEPT ![r] = "done"]
        /\ UNCHANGED <<call, tapped, remembered>>
        /\ \A q \in Reqs \ {r} : said'[q] = said[q]
    BY <1>2 DEF HookRead, HookTimeout, cardVars, TypeOK
  <2>2. {q \in Reqs : Consented(q)}' = {q \in Reqs : Consented(q)}
    BY <2>1 DEF Consented, SomeoneApproved, AutoAllowed, TypeOK
  <2>3. HoldOf(r) = "held" /\ \A q \in Reqs \ {r} : HoldOf(q)' = HoldOf(q)
    BY <2>1 DEF HoldOf, TypeOK
  <2>4. CASE said'[r] \in Approvals
    <3>1. result[r] \in Approvals
      BY <1>2, <2>4 DEF HookRead, HookTimeout, Approvals, TypeOK
    <3>2. Consented(r)
      BY <2>1, <3>1, ApprovedByTap DEF AllowCleared, Cleared, Consented
    <3>3. HoldOf(r)' = "allowed"
      BY <2>1, <2>4 DEF HoldOf, TypeOK
    <3>4. QED
      BY <2>2, <2>3, <3>2, <3>3 DEF Queue!Allow
  <2>5. CASE said'[r] \notin Approvals
    <3>1. HoldOf(r)' = "denied"
      BY <2>1, <2>5 DEF HoldOf, TypeOK
    <3>2. QED
      BY <2>2, <2>3, <3>1 DEF Queue!Deny
  <2>6. QED
    BY <2>4, <2>5
<1>3. CASE AgeRequest(r)
  BY <1>3, QuietHold DEF AgeRequest, cardVars
<1>4. QED
  BY <1>1, <1>2, <1>3 DEF HookStep, Queue!Next

(* TapHold: a tap adds consent and takes none back.                          *)
LEMMA TapHold ==
    ASSUME HoldInv, NEW a \in Actors, NEW verb \in Verbs, Tap(a, verb)
    PROVE  Queue!Consent
<1>1. UNCHANGED <<hook, call, said>>
  BY DEF Tap, hookVars
<1>2. remembered \subseteq remembered' /\ \A q \in Reqs : tapped[q] \subseteq tapped'[q]
  BY DEF Tap, HoldInv, TypeOK
<1>3. \A q \in Reqs : HoldOf(q)' = HoldOf(q) /\ (Consented(q) => Consented(q)')
  BY <1>1, <1>2 DEF HoldOf, Consented, SomeoneApproved, AutoAllowed
<1>4. QED
  BY <1>3 DEF Queue!Consent

(* KillHold: the end of a worker, or of its host, only ends holds.           *)
LEMMA KillHold ==
    ASSUME HoldInv, RunStep
    PROVE  [Queue!Next]_Queue!vars
<1>1. UNCHANGED <<call, said, tapped, remembered>> /\ (KillHooks \/ hook' = hook)
  BY DEF RunStep, CancelCook, WorkerReturn, Settle, HostDie, HostStart, OrphanEnd, hookVars,
         cardVars
<1>2. CASE hook' = hook
  BY <1>1, <1>2, QuietHold
<1>3. CASE KillHooks
  <2>1. \A q \in Reqs : HoldOf(q)' = IF HoldOf(q) = "held" THEN "gone" ELSE HoldOf(q)
    BY <1>1, <1>3 DEF KillHooks, HoldOf, HoldInv, TypeOK
  <2>2. \A q \in Reqs : Consented(q)' <=> Consented(q)
    BY <1>1, <1>3 DEF KillHooks, Consented, SomeoneApproved, AutoAllowed
  <2>3. Queue!Kill
    BY <2>1, <2>2 DEF Queue!Kill
  <2>4. QED
    BY <2>3 DEF Queue!Next
<1>4. QED
  BY <1>1, <1>2, <1>3

(* HoldImplementsQueue: for any worker, taps, clocks and crashes the hold of *)
(* tool calls is a GateQueue: a call goes on only with consent, a decision   *)
(* is final, and what is not decided ends with its worker.                   *)
THEOREM HoldImplementsQueue == ASSUME ConstantsOK PROVE Spec => ImplementsQueue
<1>1. Init => Queue!Init
  BY DEF Init, Queue!Init, HoldOf
<1>2. ASSUME HoldInv, [Next]_vars PROVE [Queue!Next]_Queue!vars
  <2>1. ASSUME NEW r \in Reqs, DrainStep(r) PROVE UNCHANGED Queue!vars
    BY <2>1, QuietHold DEF DrainStep, DrainResolve, DrainAged, DrainAllow, DrainRaise,
          DrainParkFails, hookVars, cardVars
  <2>2. ASSUME NEW a \in Actors, ActorStep(a) PROVE [Queue!Next]_Queue!vars
    <3>1. CASE \E verb \in Verbs : Tap(a, verb)
      BY <1>2, <3>1, TapHold DEF Queue!Next
    <3>2. CASE MergeAnswer(a) \/ FileAnswer(a) \/ RunAnswer(a) \/ DenyMerge(a) \/ DenyRun(a)
      BY <3>2, QuietHold DEF MergeAnswer, FileAnswer, RunAnswer, DenyMerge, DenyRun,
            hookVars, cardVars
    <3>3. QED
      BY <2>2, <3>1, <3>2 DEF ActorStep
  <2>3. CASE AgeCard \/ TapLateDeny \/ ExpireParked \/ ExpireCard \/ ParkRun
    BY <2>3, QuietHold DEF AgeCard, TapLateDeny, ExpireParked, ExpireCard, ParkRun, hookVars,
          cardVars
  <2>4. CASE UNCHANGED vars
    BY <2>4, QuietHold DEF vars, hookVars, cardVars
  <2>5. QED
    BY <1>2, <2>1, <2>2, <2>3, <2>4, HookHold, KillHold DEF Next
<1>3. QED
  BY <1>1, <1>2, HoldHolds, PTL DEF Spec, ImplementsQueue, Queue!Safe
=============================================================================
