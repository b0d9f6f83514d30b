----------------------------- MODULE PartsProofs -----------------------------
(***************************************************************************)
(* What the proof modules of the components prove of them holds in every   *)
(* behaviour of MCRunParts, MCHostParts, MCDeskParts and MCWireParts.      *)
(*                                                                         *)
(* The part is picked by the initial state and never changes, and every    *)
(* step of a behaviour whose part is a component's is a step of that       *)
(* component.  So such a behaviour meets the component's own               *)
(* specification, with the values the MC module gives its constants, and   *)
(* the component's theorems speak of it.  MCRunParts and MCWireParts take  *)
(* their components from the modules that prove about them, and            *)
(* MCDeskParts its run desk; the others of MCHostParts and MCDeskParts     *)
(* stand in Host here, once more and with their theorems, and are the same *)
(* definitions over the same places.                                       *)
(***************************************************************************)
EXTENDS MCRunParts, MCHostParts, MCDeskParts, MCWireParts, TLAPS

OfIntake == part = "intake"
OfCook == part = "cook"
OfDesk == part = "desk"
OfHold == part = "hold"
OfLive == part = "live"
OfGateway == part = "gateway"
OfRest == part = "rest"
OfInbox == part = "inbox"
OfWake == part = "wake"
OfSchedules == part = "schedules"
OfAsk == part = "ask"
OfWiring == part \in {"wiring", "faults"}
OfSlash == part = "slash"
OfRegister == part = "register"

-----------------------------------------------------------------------------
(* MCRunParts.                                                             *)

(* PartStays: a behaviour never leaves its part.                             *)
LEMMA PartStays == [RunNext]_vars => part' = part
  BY DEF RunNext, vars, IntakeStep, PoolStep, CookStep, RunDeskStep, HoldStep, LiveStep, AskStep,
         IntakeDoes, PoolDoes, CookDoes, RunDeskDoes, HoldDoes, LiveDoes, AskDoes

(* IntakeSteps: in that part a step is a step of Intake.                    *)
LEMMA IntakeSteps == OfIntake /\ [RunNext]_vars => [Intake!Next]_(Intake!vars) /\ OfIntake'
<1> SUFFICES ASSUME part = "intake", [RunNext]_vars
             PROVE  [Intake!Next]_(Intake!vars) /\ part' = "intake"
  BY DEF OfIntake
<1>1. Intake!Next \/ UNCHANGED Intake!vars
  BY DEF RunNext, vars, IntakeStep, PoolStep, CookStep, RunDeskStep, HoldStep, LiveStep, AskStep,
         IntakeDoes, PoolDoes, CookDoes, RunDeskDoes, HoldDoes, LiveDoes, AskDoes, Intake!vars,
         Intake!storeVars, Intake!memVars, Intake!histVars
<1>2. QED
  BY <1>1, PartStays

(* IntakeBehaves: and a behaviour is one of Intake.                         *)
LEMMA IntakeBehaves == RunSpec /\ OfIntake => Intake!Spec
<1>1. RunInit /\ OfIntake => Intake!Init
  BY DEF RunInit, OfIntake
<1>2. QED
  BY <1>1, IntakeSteps, PTL DEF RunSpec, Intake!Spec

(* NoAskTwice: no message whose claim never raised is cooked twice, as long  *)
(* as no host is started while another is up, and never do two hosts read    *)
(* the channel.                                                              *)
THEOREM NoAskTwice == ASSUME None \notin Nat \cup {"h1", "h2"} PROVE RunSpec => []CookOnce
<1>1. Intake!ConstantsOK
  BY DEF Intake!ConstantsOK, Intake!AllKinds
<1>2. Intake!Spec => [](Intake!CookOnce /\ Intake!OneListener)
  BY <1>1, Intake!CookedOnce, Intake!OneReader, PTL
<1>3. (Intake!CookOnce /\ Intake!OneListener) \/ ~OfIntake => CookOnce
  BY DEF CookOnce, OfIntake
<1>4. ~OfIntake /\ [RunNext]_vars => ~OfIntake'
  BY PartStays DEF OfIntake
<1>5. QED
  BY <1>2, <1>3, <1>4, IntakeBehaves, PTL DEF RunSpec

(* CookSteps: in that part a step is a step of Cook.                        *)
LEMMA CookSteps == OfCook /\ [RunNext]_vars => [Live!Cook!Next]_(Live!Cook!vars) /\ OfCook'
<1> SUFFICES ASSUME part = "cook", [RunNext]_vars PROVE [Live!Cook!Next]_(Live!Cook!vars) /\ part' = "cook"
  BY DEF OfCook
<1>1. Live!Cook!Next \/ UNCHANGED Live!Cook!vars
  BY DEF RunNext, vars, IntakeStep, PoolStep, CookStep, RunDeskStep, HoldStep, LiveStep, AskStep,
         IntakeDoes, PoolDoes, CookDoes, RunDeskDoes, HoldDoes, LiveDoes, AskDoes, Live!Cook!vars
<1>2. QED
  BY <1>1, PartStays

(* CookBehaves: and a behaviour is one of Cook.                             *)
LEMMA CookBehaves == RunSpec /\ OfCook => Live!Cook!Spec
<1>1. RunInit /\ OfCook => Live!Cook!Init
  BY DEF RunInit, OfCook
<1>2. QED
  BY <1>1, CookSteps, PTL DEF RunSpec, Live!Cook!Spec

(* NoneLeft: no worker is left in the checkout of a run that has settled or  *)
(* whose host was restarted, but one that outlived its kill, was never filed *)
(* or was passed over by the reap.                                           *)
THEOREM NoneLeft == RunSpec => []NoWorkerLeft
<1>1. Live!CookBounds
  BY DEF Live!CookBounds
<1>2. Live!Cook!Spec => [](Live!Cook!StoppedWhenSettled /\ Live!Cook!OrphanReaped)
  BY <1>1, Live!NoWorkerAfterRun, Live!NoOrphanAfterBoot, PTL
<1>3. (Live!Cook!StoppedWhenSettled /\ Live!Cook!OrphanReaped) \/ ~OfCook => NoWorkerLeft
  BY DEF NoWorkerLeft, OfCook
<1>4. ~OfCook /\ [RunNext]_vars => ~OfCook'
  BY PartStays DEF OfCook
<1>5. QED
  BY <1>2, <1>3, <1>4, CookBehaves, PTL DEF RunSpec

(* StoriesAgree: at rest a run's row, mark and card say the same, as long as *)
(* the row and the card could be written.                                    *)
THEOREM StoriesAgree == RunSpec => []OneStory
<1>1. Live!CookBounds
  BY DEF Live!CookBounds
<1>2. Live!Cook!Spec => []Live!Cook!OneStory
  BY <1>1, Live!StoriesAgree
<1>3. Live!Cook!OneStory \/ ~OfCook => OneStory
  BY DEF OneStory, OfCook
<1>4. ~OfCook /\ [RunNext]_vars => ~OfCook'
  BY PartStays DEF OfCook
<1>5. QED
  BY <1>2, <1>3, <1>4, CookBehaves, PTL DEF RunSpec

(* RunDeskSteps: in that part a step is a step of RunDesk.                     *)
LEMMA RunDeskSteps == OfDesk /\ [RunNext]_vars => [RunDesk!Next]_(RunDesk!vars) /\ OfDesk'
<1> SUFFICES ASSUME part = "desk", [RunNext]_vars PROVE [RunDesk!Next]_(RunDesk!vars) /\ part' = "desk"
  BY DEF OfDesk
<1>1. RunDesk!Next \/ UNCHANGED RunDesk!vars
  BY DEF RunNext, vars, IntakeStep, PoolStep, CookStep, RunDeskStep, HoldStep, LiveStep, AskStep,
         IntakeDoes, PoolDoes, CookDoes, RunDeskDoes, HoldDoes, LiveDoes, AskDoes, RunDesk!vars
<1>2. QED
  BY <1>1, PartStays

(* RunDeskBehaves: and a behaviour is one of RunDesk.                          *)
LEMMA RunDeskBehaves == RunSpec /\ OfDesk => RunDesk!Spec
<1>1. RunInit /\ OfDesk => RunDesk!Init
  BY DEF RunInit, OfDesk
<1>2. QED
  BY <1>1, RunDeskSteps, PTL DEF RunSpec, RunDesk!Spec

(* NoWriteUnasked: a parked write starts after an Allow or a standing grant  *)
(* only, and once.                                                           *)
THEOREM NoWriteUnasked == ASSUME None \notin Nat PROVE RunSpec => []WritesAllowed
<1>1. RunDesk!ConstantsOK
  BY DEF RunDesk!ConstantsOK, RunDesk!Runs
<1>2. RunDesk!Spec => [](RunDesk!AllowedWrites /\ RunDesk!StartOnce)
  BY <1>1, RunDesk!WritesAllowed, RunDesk!StartedOnce, PTL
<1>3. (RunDesk!AllowedWrites /\ RunDesk!StartOnce) \/ ~OfDesk => WritesAllowed
  BY DEF WritesAllowed, OfDesk
<1>4. ~OfDesk /\ [RunNext]_vars => ~OfDesk'
  BY PartStays DEF OfDesk
<1>5. QED
  BY <1>2, <1>3, <1>4, RunDeskBehaves, PTL DEF RunSpec

(* HoldSteps: in that part a step is a step of GateHold.                    *)
LEMMA HoldSteps == OfHold /\ [RunNext]_vars => [Hold!Next]_(Hold!vars) /\ OfHold'
<1> SUFFICES ASSUME part = "hold", [RunNext]_vars PROVE [Hold!Next]_(Hold!vars) /\ part' = "hold"
  BY DEF OfHold
<1>1. Hold!Next \/ UNCHANGED Hold!vars
  BY DEF RunNext, vars, IntakeStep, PoolStep, CookStep, RunDeskStep, HoldStep, LiveStep, AskStep,
         IntakeDoes, PoolDoes, CookDoes, RunDeskDoes, HoldDoes, LiveDoes, AskDoes, Hold!vars,
         Hold!hookVars, Hold!cardVars, Hold!runVars, Hold!hostVars
<1>2. QED
  BY <1>1, PartStays

(* HoldBehaves: and a behaviour is one of GateHold.                         *)
LEMMA HoldBehaves == RunSpec /\ OfHold => Hold!Spec
<1>1. RunInit /\ OfHold => Hold!Init
  BY DEF RunInit, OfHold
<1>2. QED
  BY <1>1, HoldSteps, PTL DEF RunSpec, Hold!Spec

(* HoldQueues: to its worker the hold of a tool call is a GateQueue: only a  *)
(* call with consent goes on, and what is decided stays so.                  *)
THEOREM HoldQueues ==
    ASSUME None \notin {"r", "allow", "always", "deny"} PROVE RunSpec => HoldIsQueue
<1>1. Hold!ConstantsOK
  BY DEF Hold!ConstantsOK, Hold!Answers, Hold!Approvals, Hold!CallRecords, Hold!Kinds,
         CompoundCall
<1>2. Hold!Spec => Hold!Queue!Init /\ [][Hold!Queue!Next]_(Hold!Queue!vars)
  BY <1>1, Hold!HoldImplementsQueue DEF Hold!ImplementsQueue, Hold!Queue!Safe
<1>3. [Hold!Queue!Next]_(Hold!Queue!vars) =>
        [part = "hold" => Hold!Queue!Next \/ UNCHANGED Hold!Queue!vars]_vars
  OBVIOUS
<1>4. ~OfHold => [part = "hold" => Hold!Queue!Next \/ UNCHANGED Hold!Queue!vars]_vars
  BY DEF OfHold
<1>5. OfHold \/ ~(part = "hold")
  BY DEF OfHold
<1>6. ~OfHold /\ [RunNext]_vars => ~OfHold'
  BY PartStays DEF OfHold
<1>7. QED
  BY <1>2, <1>3, <1>4, <1>5, <1>6, HoldBehaves, PTL DEF RunSpec, HoldIsQueue

(* LiveSteps: in that part a step is a step of LiveThread.                  *)
LEMMA LiveSteps == OfLive /\ [RunNext]_vars => [Live!Next]_(Live!vars) /\ OfLive'
<1> SUFFICES ASSUME part = "live", [RunNext]_vars PROVE [Live!Next]_(Live!vars) /\ part' = "live"
  BY DEF OfLive
<1>1. Live!Next \/ UNCHANGED Live!vars
  BY DEF RunNext, vars, IntakeStep, PoolStep, CookStep, RunDeskStep, HoldStep, LiveStep, AskStep,
         IntakeDoes, PoolDoes, CookDoes, RunDeskDoes, HoldDoes, LiveDoes, AskDoes, Live!vars,
         Live!histVars, Live!markVars, Live!runVars
<1>2. QED
  BY <1>1, PartStays

(* LiveBehaves: and a behaviour is one of LiveThread.                       *)
LEMMA LiveBehaves == RunSpec /\ OfLive => Live!Spec
<1>1. RunInit /\ OfLive => Live!Init
  BY DEF RunInit, OfLive
<1>2. QED
  BY <1>1, LiveSteps, PTL DEF RunSpec, Live!Spec

(* NoFollowUpTwice: a thread has one run at a time, and in the life of one   *)
(* host a follow-up whose mark was written is taken once, and one is lost    *)
(* only if it comes late.                                                    *)
THEOREM NoFollowUpTwice == ASSUME None \notin Nat PROVE RunSpec => []FollowUpOnce
<1>1. Live!ConstantsOK
  BY DEF Live!ConstantsOK, Live!Runs, Live!Msgs
<1>2. Live!Spec => [](Live!OneRun /\ Live!TakenOnce /\ Live!LostOnlyLate)
  BY <1>1, Live!NoSibling, Live!SteeredOrCooked, Live!NoneLost, PTL
<1>3. (Live!OneRun /\ Live!TakenOnce /\ Live!LostOnlyLate) \/ ~OfLive => FollowUpOnce
  BY DEF FollowUpOnce, OfLive
<1>4. ~OfLive /\ [RunNext]_vars => ~OfLive'
  BY PartStays DEF OfLive
<1>5. QED
  BY <1>2, <1>3, <1>4, LiveBehaves, PTL DEF RunSpec

-----------------------------------------------------------------------------
(* MCWireParts.                                                            *)

(* WireStays: a behaviour of MCWireParts never leaves its part.              *)
LEMMA WireStays == [WireNext]_vars => part' = part
  BY DEF WireNext, vars, BindingsStep, FaultsStep, MenuStep, RegisterStep, LineageStep,
     BindingsDoes, FaultsDoes, MenuDoes, RegisterDoes, LineageDoes

(* WiringSteps: in that part a step is a step of Wiring.                     *)
LEMMA WiringSteps ==
    OfWiring /\ [WireNext]_vars => [Wired!Wiring!Next]_(Wired!Wiring!vars) /\ OfWiring'
<1> SUFFICES ASSUME part \in {"wiring", "faults"}, [WireNext]_vars
             PROVE  [Wired!Wiring!Next]_(Wired!Wiring!vars) /\ part' \in {"wiring", "faults"}
  BY DEF OfWiring
<1>1. Wired!Wiring!Next \/ UNCHANGED Wired!Wiring!vars
  BY DEF WireNext, vars, BindingsStep, FaultsStep, MenuStep, RegisterStep, LineageStep,
     BindingsDoes, FaultsDoes, MenuDoes, RegisterDoes, LineageDoes,
     Wired!Wiring!vars
<1>2. QED
  BY <1>1, WireStays

(* WiringBehaves: and a behaviour is one of Wiring.                          *)
LEMMA WiringBehaves == WireSpec /\ OfWiring => Wired!Wiring!Spec
<1>1. WireInit /\ OfWiring => Wired!Wiring!Init
  BY DEF WireInit, OfWiring
<1>2. QED
  BY <1>1, WiringSteps, PTL DEF WireSpec, Wired!Wiring!Spec

(* SlashSteps: in that part a step is a step of Slash.                       *)
LEMMA SlashSteps ==
    OfSlash /\ [WireNext]_vars => [Wired!Slash!Next]_(Wired!Slash!vars) /\ OfSlash'
<1> SUFFICES ASSUME part = "slash", [WireNext]_vars
             PROVE  [Wired!Slash!Next]_(Wired!Slash!vars) /\ part' = "slash"
  BY DEF OfSlash
<1>1. Wired!Slash!Next \/ UNCHANGED Wired!Slash!vars
  BY DEF WireNext, vars, BindingsStep, FaultsStep, MenuStep, RegisterStep, LineageStep,
     BindingsDoes, FaultsDoes, MenuDoes, RegisterDoes, LineageDoes,
     Wired!Slash!vars
<1>2. QED
  BY <1>1, WireStays

(* SlashBehaves: and a behaviour is one of Slash.                            *)
LEMMA SlashBehaves == WireSpec /\ OfSlash => Wired!Slash!Spec
<1>1. WireInit /\ OfSlash => Wired!Slash!Init
  BY DEF WireInit, OfSlash
<1>2. QED
  BY <1>1, SlashSteps, PTL DEF WireSpec, Wired!Slash!Spec

(* RegistrationSteps: in that part a step is a step of SlashRegistration.    *)
LEMMA RegistrationSteps ==
    OfRegister /\ [WireNext]_vars => [Wired!Registration!Next]_(Wired!Registration!vars) /\ OfRegister'
<1> SUFFICES ASSUME part = "register", [WireNext]_vars
             PROVE  [Wired!Registration!Next]_(Wired!Registration!vars) /\ part' = "register"
  BY DEF OfRegister
<1>1. Wired!Registration!Next \/ UNCHANGED Wired!Registration!vars
  BY DEF WireNext, vars, BindingsStep, FaultsStep, MenuStep, RegisterStep, LineageStep,
     BindingsDoes, FaultsDoes, MenuDoes, RegisterDoes, LineageDoes,
     Wired!Registration!vars
<1>2. QED
  BY <1>1, WireStays

(* RegistrationBehaves: and a behaviour is one of SlashRegistration.         *)
LEMMA RegistrationBehaves == WireSpec /\ OfRegister => Wired!Registration!Spec
<1>1. WireInit /\ OfRegister => Wired!Registration!Init
  BY DEF WireInit, OfRegister
<1>2. QED
  BY <1>1, RegistrationSteps, PTL DEF WireSpec, Wired!Registration!Spec

(* CommandsHold: a command does what its reply tells and only for one who    *)
(* may: a channel cooks where its people were told, an ask answered "On it." *)
(* lands once where its realm is bound, nothing is done or shown for one who *)
(* was never paired while the desk was owned, and the stamp of the slash     *)
(* commands is true.                                                         *)
THEOREM CommandsHold == ASSUME None \notin {"g1", "g2"}, None # "done" PROVE WireSpec => []CommandsTrue
<1> DEFINE Bound == /\ Wired!Wiring!BoundAsTold /\ Wired!Wiring!NeverSilentlyLocal
                    /\ Wired!Wiring!EnvKept /\ Wired!Wiring!InboxHeld
           Replied == Wired!Slash!ReplyTrue /\ Wired!Slash!LandsBound
           Registered == Wired!Registration!StampTrue
<1>1. "u" \notin {"r1"} /\ {"c1", "c2"} # {} /\ {"u1", "u2"} # {}
  OBVIOUS
<1>2. Wired!Wiring!Spec => []Bound
  BY <1>1, Wired!WiredAsTold
<1>3. Wired!Slash!Spec => []Replied
  BY <1>1, Wired!RepliesTrue
<1>4. Wired!Registration!Spec => []Registered
  BY Wired!StampsTrue
<1>5. (Bound \/ ~OfWiring) /\ (Replied \/ ~OfSlash) /\ (Registered \/ ~OfRegister)
      => CommandsTrue
  BY DEF CommandsTrue, OfWiring, OfSlash, OfRegister
<1> HIDE DEF Bound, Replied, Registered
<1>6. /\ ~OfWiring /\ [WireNext]_vars => ~OfWiring'
      /\ ~OfSlash /\ [WireNext]_vars => ~OfSlash'
      /\ ~OfRegister /\ [WireNext]_vars => ~OfRegister'
  BY WireStays DEF OfWiring, OfSlash, OfRegister
<1>7. WireSpec => [](Bound \/ ~OfWiring)
  BY <1>2, <1>6, WiringBehaves, PTL DEF WireSpec
<1>8. WireSpec => [](Replied \/ ~OfSlash)
  BY <1>3, <1>6, SlashBehaves, PTL DEF WireSpec
<1>9. WireSpec => [](Registered \/ ~OfRegister)
  BY <1>4, <1>6, RegistrationBehaves, PTL DEF WireSpec
<1>10. QED
  BY <1>5, <1>7, <1>8, <1>9, PTL

-----------------------------------------------------------------------------
(* The run desk of MCDeskParts.                                            *)

(* DeskStays: a behaviour of MCDeskParts never leaves its part.             *)
LEMMA DeskStays == [DeskNext]_vars => part' = part
  BY DEF DeskNext, vars, TapDeskStep, TapAskStep, DigestStep, PanelStep, TagsStep,
     TapDeskDoes, TapAskDoes, DigestDoes, PanelDoes, TagsDoes

(* TapDeskSteps: in that part a step is a step of RunDesk.                  *)
LEMMA TapDeskSteps == OfDesk /\ [DeskNext]_vars => [TapDesk!Next]_(TapDesk!vars) /\ OfDesk'
<1> SUFFICES ASSUME part = "desk", [DeskNext]_vars
             PROVE  [TapDesk!Next]_(TapDesk!vars) /\ part' = "desk"
  BY DEF OfDesk
<1>1. TapDesk!Next \/ UNCHANGED TapDesk!vars
  BY DEF DeskNext, vars, TapDeskStep, TapAskStep, DigestStep, PanelStep, TagsStep,
     TapDeskDoes, TapAskDoes, DigestDoes, PanelDoes, TagsDoes, TapDesk!vars
<1>2. QED
  BY <1>1, DeskStays

(* TapDeskBehaves: and a behaviour is one of RunDesk.                       *)
LEMMA TapDeskBehaves == DeskSpec /\ OfDesk => TapDesk!Spec
<1>1. DeskInit /\ OfDesk => TapDesk!Init
  BY DEF DeskInit, OfDesk
<1>2. QED
  BY <1>1, TapDeskSteps, PTL DEF DeskSpec, TapDesk!Spec

(* NoTapUnasked: three taps let no write start that nobody allowed, and no   *)
(* run start twice.                                                         *)
THEOREM NoTapUnasked == ASSUME None \notin Nat PROVE DeskSpec => []TappedWrites
<1>1. TapDesk!ConstantsOK
  BY DEF TapDesk!ConstantsOK, TapDesk!Runs
<1>2. TapDesk!Spec => [](TapDesk!AllowedWrites /\ TapDesk!StartOnce)
  BY <1>1, TapDesk!WritesAllowed, TapDesk!StartedOnce, PTL
<1>3. (TapDesk!AllowedWrites /\ TapDesk!StartOnce) \/ ~OfDesk => TappedWrites
  BY DEF TappedWrites, OfDesk
<1>4. ~OfDesk /\ [DeskNext]_vars => ~OfDesk'
  BY DeskStays DEF OfDesk
<1>5. QED
  BY <1>2, <1>3, <1>4, TapDeskBehaves, PTL DEF DeskSpec

-----------------------------------------------------------------------------
(* MCHostParts, and the ask of MCDeskParts.                                *)

\* The components of HostProofs at their places in MCHostParts, AskHold at its
\* places in MCDeskParts.
Host == INSTANCE HostProofs WITH
    bridge <- x1, pc <- x2, ssh <- x3, remote <- x4, hold <- x5, sent <- x6,
    pipe <- x7, line <- x8, listed <- x9, pid <- x10, sidecar <- x11,
    known <- x12, mirrored <- x13, answer <- x14, written <- x15, push <- x16,
    requested <- x17, status <- x18, tap <- x19, answers <- x20, faults <- x21,
    crashes <- x22, history <- x23, Reqs <- {"r"}, MaxAnswers <- 1,
    MaxFaults <- 1, MaxCrashes <- 1,
    pm <- x1, old <- x2, row <- x3, cards <- x4, shows <- x5, replies <- x6,
    claimed <- x7, steered <- x8, tick <- x9, breaks <- x10, restarts <- x11,
    lapsed <- x12, Jobs <- {"j"}, MaxMoves <- 3, MaxReplies <- 2,
    pr <- x1, changes <- x2, rule <- x3, bound <- x4, place <- x5,
    attention <- x6, marked <- x7, done <- x8, poll <- x9, misses <- x10,
    waived <- x11,
    MaxPushes <- 1, MaxChecks <- 1, MaxComments <- 1,
    call <- x1, left <- x2, ahead <- x3, cool <- x4, room <- x5, shown <- x6,
    painted <- x7, calls <- x8, errors <- x9, Callers <- {"a", "b"},
    Chunks <- 2, RateRetries <- 1, Transients <- 1, Cap <- 1, MaxCalls <- 1,
    armed <- x1, operators <- x2, roleOn <- x3, gated <- x4, halted <- x5,
    grants <- x6, pending <- x7, asks <- x8, press <- x9, said <- x10,
    cooks <- x11, taps <- x12, snags <- x13, reboots <- x14,
    Users <- {"ann", "bob"}, Holders <- {"bob"}, Grants <- {"write", "tool"},
    Require <- FALSE, MaxTaps <- 2, MaxSnags <- 1, MaxReboots <- 0,
    now <- x1, running <- x2, stopped <- x3, allowed <- x4, nextMs <- x5,
    fired <- x6, untold <- x7, mark <- x8, briefs <- x9, sweep <- x10,
    verbs <- x11, slips <- x12, excused <- x13, Every <- 2, Day <- 2, Hour <- 1,
    Week <- 2, MaxTime <- 4, MaxVerbs <- 1,
    ask <- x1, heard <- x2, file <- x3, gate <- x4, standing <- x5, card <- x6,
    op <- x7, touches <- x8, past <- x9,
    Kinds <- {"tool", "ask", "multi", "plan"}, MaxHolds <- 1, MaxTouches <- 2,
    phase <- x1, session <- x2, readied <- x3, resuming <- x4, greeted <- x5,
    ready <- x6, health <- x7, attempt <- x8, wire <- x9, attached <- x10,
    owes <- x11, silent <- x12, discord <- x13, urlDead <- x14, got <- x15,
    buttons <- x16, cuts <- x17, MaxButtons <- 2, MaxCuts <- 3, AttemptCap <- 2

(* HostStays: a behaviour of MCHostParts never leaves its part.             *)
LEMMA HostStays == [HostNext]_vars => part' = part
  BY DEF HostNext, vars, SshStep, GatewayStep, RestStep, DeskStep, InboxStep, WakeStep,
     StatusStep, WiringStep, SlashStep, CommandsStep, SchedulesStep, SshDoes, GatewayDoes,
     RestDoes, DeskDoes, InboxDoes, WakeDoes, StatusDoes, WiringDoes, SlashDoes,
     CommandsDoes, SchedulesDoes

(* GatewaySteps: in that part a step is a step of Gateway.                  *)
LEMMA GatewaySteps ==
    OfGateway /\ [HostNext]_vars => [Host!Gateway!Next]_(Host!Gateway!vars) /\ OfGateway'
<1> SUFFICES ASSUME part = "gateway", [HostNext]_vars
             PROVE  [Host!Gateway!Next]_(Host!Gateway!vars) /\ part' = "gateway"
  BY DEF OfGateway
<1>1. Gateway!Next \/ UNCHANGED Host!Gateway!vars
  BY DEF HostNext, vars, SshStep, GatewayStep, RestStep, DeskStep, InboxStep, WakeStep,
     StatusStep, WiringStep, SlashStep, CommandsStep, SchedulesStep, SshDoes, GatewayDoes,
     RestDoes, DeskDoes, InboxDoes, WakeDoes, StatusDoes, WiringDoes, SlashDoes,
     CommandsDoes, SchedulesDoes, Host!Gateway!vars
<1>2. ASSUME Gateway!Next PROVE Host!Gateway!Next
  BY <1>2 DEF Gateway!Next, Gateway!HostGone, Gateway!linkVars, Gateway!socketVars,
     Gateway!Fault, Gateway!Forget, Gateway!FallSilent, Gateway!serverVars, Gateway!Shove,
     Gateway!Message, Gateway!Send, Gateway!PhoneTaps, Gateway!Resume, Gateway!Identify,
     Gateway!SocketDrops, Gateway!Unlink, Gateway!ConnectFails, Gateway!CanResume,
     Gateway!AckAges, Gateway!ReadyDeadline, Gateway!Idle, Gateway!ClientStep,
     Gateway!Backoff, Gateway!AckStale, Gateway!TakeFatal, Gateway!NoSession,
     Gateway!Receives, Gateway!TakeReidentify, Gateway!TakeMove, Gateway!TakeInvalid,
     Gateway!TakeTap, Gateway!TakeResumed, Gateway!BecomeReady, Gateway!TakeReady,
     Gateway!TakeHello, Gateway!Connect, Host!Gateway!Next, Host!Gateway!HostGone,
     Host!Gateway!linkVars, Host!Gateway!socketVars, Host!Gateway!Fault,
     Host!Gateway!Forget, Host!Gateway!FallSilent, Host!Gateway!serverVars,
     Host!Gateway!Shove, Host!Gateway!Message, Host!Gateway!Send, Host!Gateway!PhoneTaps,
     Host!Gateway!Resume, Host!Gateway!Identify, Host!Gateway!SocketDrops,
     Host!Gateway!Unlink, Host!Gateway!ConnectFails, Host!Gateway!CanResume,
     Host!Gateway!AckAges, Host!Gateway!ReadyDeadline, Host!Gateway!Idle,
     Host!Gateway!ClientStep, Host!Gateway!Backoff, Host!Gateway!AckStale,
     Host!Gateway!TakeFatal, Host!Gateway!NoSession, Host!Gateway!Receives,
     Host!Gateway!TakeReidentify, Host!Gateway!TakeMove, Host!Gateway!TakeInvalid,
     Host!Gateway!TakeTap, Host!Gateway!TakeResumed, Host!Gateway!BecomeReady,
     Host!Gateway!TakeReady, Host!Gateway!TakeHello, Host!Gateway!Connect
<1>3. QED
  BY <1>1, <1>2, HostStays

(* GatewayBehaves: and a behaviour is one of Gateway.                       *)
LEMMA GatewayBehaves == HostSpec /\ OfGateway => Host!Gateway!Spec
<1>1. HostInit /\ OfGateway => Host!Gateway!Init
  BY DEF HostInit, OfGateway, Gateway!Init, Gateway!NoSession, Host!Gateway!Init,
     Host!Gateway!NoSession
<1>2. QED
  BY <1>1, GatewaySteps, PTL DEF HostSpec, Host!Gateway!Spec

(* TapsOnce: over drops, closes, resumes and replays a tap is neither lost  *)
(* nor obeyed twice, and taps arrive in their order.                        *)
THEOREM TapsOnce == HostSpec => []OnceInOrder
<1>1. Host!Gateway!Spec => []Host!Gateway!OnceInOrder
  BY Host!TapsInOrder, PTL
<1>2. Host!Gateway!OnceInOrder \/ ~OfGateway => OnceInOrder
  BY DEF OnceInOrder, OfGateway, Gateway!OnceInOrder, Gateway!Before,
     Host!Gateway!OnceInOrder, Host!Gateway!Before
<1>3. ~OfGateway /\ [HostNext]_vars => ~OfGateway'
  BY HostStays DEF OfGateway
<1>4. QED
  BY <1>1, <1>2, <1>3, GatewayBehaves, PTL DEF HostSpec

(* InboxSteps: in that part a step is a step of PmInbox.                    *)
LEMMA InboxSteps ==
    OfInbox /\ [HostNext]_vars => [Host!Inbox!Next]_(Host!Inbox!vars) /\ OfInbox'
<1> SUFFICES ASSUME part = "inbox", [HostNext]_vars
             PROVE  [Host!Inbox!Next]_(Host!Inbox!vars) /\ part' = "inbox"
  BY DEF OfInbox
<1>1. Inbox!Next \/ UNCHANGED Host!Inbox!vars
  BY DEF HostNext, vars, SshStep, GatewayStep, RestStep, DeskStep, InboxStep, WakeStep,
     StatusStep, WiringStep, SlashStep, CommandsStep, SchedulesStep, SshDoes, GatewayDoes,
     RestDoes, DeskDoes, InboxDoes, WakeDoes, StatusDoes, WiringDoes, SlashDoes,
     CommandsDoes, SchedulesDoes, Host!Inbox!vars
<1>2. ASSUME Inbox!Next PROVE Host!Inbox!Next
  BY <1>2 DEF Inbox!Next, Inbox!Reply, Inbox!boundVars, Inbox!cardVars, Inbox!jobVars,
     Inbox!Tap, Inbox!threadVars, Inbox!JobMoves, Inbox!HostDies, Inbox!Idle, Inbox!NoRow,
     Inbox!Excuse, Inbox!Lapse, Inbox!TickRaises, Inbox!Fault, Inbox!SteerFails,
     Inbox!ReadFails, Inbox!EditFails, Inbox!Goto, Inbox!PostFails, Inbox!DateFails,
     Inbox!TickStep, Inbox!TickEnds, Inbox!Anchor, Inbox!Steer, Inbox!Claim,
     Inbox!ReadThread, Inbox!Unread, Inbox!ListThreads, Inbox!Note, Inbox!Edit,
     Inbox!Record, Inbox!Post, Inbox!CheckDate, Inbox!LookUp, Inbox!Tick, Host!Inbox!Next,
     Host!Inbox!Reply, Host!Inbox!boundVars, Host!Inbox!cardVars, Host!Inbox!jobVars,
     Host!Inbox!Tap, Host!Inbox!threadVars, Host!Inbox!JobMoves, Host!Inbox!HostDies,
     Host!Inbox!Idle, Host!Inbox!NoRow, Host!Inbox!Excuse, Host!Inbox!Lapse,
     Host!Inbox!TickRaises, Host!Inbox!Fault, Host!Inbox!SteerFails, Host!Inbox!ReadFails,
     Host!Inbox!EditFails, Host!Inbox!Goto, Host!Inbox!PostFails, Host!Inbox!DateFails,
     Host!Inbox!TickStep, Host!Inbox!TickEnds, Host!Inbox!Anchor, Host!Inbox!Steer,
     Host!Inbox!Claim, Host!Inbox!ReadThread, Host!Inbox!Unread, Host!Inbox!ListThreads,
     Host!Inbox!Note, Host!Inbox!Edit, Host!Inbox!Record, Host!Inbox!Post,
     Host!Inbox!CheckDate, Host!Inbox!LookUp, Host!Inbox!Tick
<1>3. QED
  BY <1>1, <1>2, HostStays

(* InboxBehaves: and a behaviour is one of PmInbox.                         *)
LEMMA InboxBehaves == HostSpec /\ OfInbox => Host!Inbox!Spec
<1>1. HostInit /\ OfInbox => Host!Inbox!Init
  BY DEF HostInit, OfInbox, Inbox!Init, Inbox!Idle, Inbox!NoRow, Host!Inbox!Init,
     Host!Inbox!Idle, Host!Inbox!NoRow
<1>2. QED
  BY <1>1, InboxSteps, PTL DEF HostSpec, Host!Inbox!Spec

(* RepliesOnce: over broken ticks, re-read pages (newest reply first) and   *)
(* restarts a reply steers once and is not lost, and a new job has one      *)
(* card.                                                                    *)
THEOREM RepliesOnce == HostSpec => []InboxOnce
<1>1. Host!Inbox!Spec => [](Host!Inbox!SteerOnce /\ Host!Inbox!OneCardNewJobs)
  BY Host!OneSteer, Host!OneCard, PTL
<1>2. (Host!Inbox!SteerOnce /\ Host!Inbox!OneCardNewJobs) \/ ~OfInbox => InboxOnce
  BY DEF InboxOnce, OfInbox, Inbox!OneCardNewJobs, Inbox!SteerOnce,
     Host!Inbox!OneCardNewJobs, Host!Inbox!SteerOnce
<1>3. ~OfInbox /\ [HostNext]_vars => ~OfInbox'
  BY HostStays DEF OfInbox
<1>4. QED
  BY <1>1, <1>2, <1>3, InboxBehaves, PTL DEF HostSpec

(* WakeSteps: in that part a step is a step of Wake.                        *)
LEMMA WakeSteps ==
    OfWake /\ [HostNext]_vars => [Host!Wake!Next]_(Host!Wake!vars) /\ OfWake'
<1> SUFFICES ASSUME part = "wake", [HostNext]_vars
             PROVE  [Host!Wake!Next]_(Host!Wake!vars) /\ part' = "wake"
  BY DEF OfWake
<1>1. Wake!Next \/ UNCHANGED Host!Wake!vars
  BY DEF HostNext, vars, SshStep, GatewayStep, RestStep, DeskStep, InboxStep, WakeStep,
     StatusStep, WiringStep, SlashStep, CommandsStep, SchedulesStep, SshDoes, GatewayDoes,
     RestDoes, DeskDoes, InboxDoes, WakeDoes, StatusDoes, WiringDoes, SlashDoes,
     CommandsDoes, SchedulesDoes, Host!Wake!vars
<1>2. ASSUME Wake!Next PROVE Host!Wake!Next
  BY <1>2 DEF Wake!Next, Wake!HostDies, Wake!hubVars, Wake!Idle, Wake!Opened,
     Wake!Lapse, Wake!RuleRed, Wake!CiRed, Wake!Fault, Wake!PostHeadFails,
     Wake!ClaimHeadFails, Wake!AdoptFails, Wake!Red, Wake!OpenFails, Wake!Goto,
     Wake!AnswerFails, Wake!RuleClaimRaises, Wake!PostFails, Wake!Posts,
     Wake!ClaimRaises, Wake!Attention, Wake!Waiting, Wake!PollFails, Wake!Discover,
     Wake!Merge, Wake!Comment, Wake!CheckRuns, Wake!Push, Wake!HostStep, Wake!PostHead,
     Wake!Did, Wake!ClaimHead, Wake!Adopt, Wake!Open, Wake!Answer, Wake!MatchRule,
     Wake!EventsEnd, Wake!Post, Wake!Claim, Wake!Poll, Wake!Events, Wake!Merged,
     Wake!Review, Wake!Green, Wake!jobVars, Wake!AttentionFails, Wake!OwnerFails,
     Wake!OpenThreadless, Host!Wake!Next, Host!Wake!HostDies, Host!Wake!hubVars,
     Host!Wake!Idle, Host!Wake!Opened, Host!Wake!Lapse, Host!Wake!RuleRed,
     Host!Wake!CiRed, Host!Wake!Fault, Host!Wake!PostHeadFails,
     Host!Wake!ClaimHeadFails, Host!Wake!AdoptFails, Host!Wake!Red, Host!Wake!OpenFails,
     Host!Wake!Goto, Host!Wake!AnswerFails, Host!Wake!RuleClaimRaises,
     Host!Wake!PostFails, Host!Wake!Posts, Host!Wake!ClaimRaises, Host!Wake!Attention,
     Host!Wake!Waiting, Host!Wake!PollFails, Host!Wake!Discover, Host!Wake!Merge,
     Host!Wake!Comment, Host!Wake!CheckRuns, Host!Wake!Push, Host!Wake!HostStep,
     Host!Wake!PostHead, Host!Wake!Did, Host!Wake!ClaimHead, Host!Wake!Adopt,
     Host!Wake!Open, Host!Wake!Answer, Host!Wake!MatchRule, Host!Wake!EventsEnd,
     Host!Wake!Post, Host!Wake!Claim, Host!Wake!Poll, Host!Wake!Events,
     Host!Wake!Merged, Host!Wake!Review, Host!Wake!Green, Host!Wake!jobVars,
     Host!Wake!AttentionFails, Host!Wake!OwnerFails, Host!Wake!OpenThreadless
<1>3. QED
  BY <1>1, <1>2, HostStays

(* WakeBehaves: and a behaviour is one of Wake.                             *)
LEMMA WakeBehaves == HostSpec /\ OfWake => Host!Wake!Spec
<1>1. HostInit /\ OfWake => Host!Wake!Init
  BY DEF HostInit, OfWake, Wake!Init, Wake!Idle, Wake!Ids, Wake!CiRed, Wake!Review,
     Wake!Opened, Wake!RuleRed, Wake!Merged, Wake!Waiting, Wake!Green, Wake!Red,
     Host!Wake!Init, Host!Wake!Idle, Host!Wake!Ids, Host!Wake!CiRed, Host!Wake!Review,
     Host!Wake!Opened, Host!Wake!RuleRed, Host!Wake!Merged, Host!Wake!Waiting,
     Host!Wake!Green, Host!Wake!Red
<1>2. QED
  BY <1>1, WakeSteps, PTL DEF HostSpec, Host!Wake!Spec

(* CommentsOnce: over polls, followers and restarts a comment or a failing  *)
(* check is posted once and a rule acts once.                               *)
THEOREM CommentsOnce == HostSpec => []WakesOnce
<1>1. Host!Wake!Spec => []Host!Wake!WakesOnce
  BY Host!OneWake, PTL
<1>2. Host!Wake!WakesOnce \/ ~OfWake => WakesOnce
  BY DEF WakesOnce, OfWake, Wake!WakesOnce, Wake!Ids, Wake!CiRed, Wake!Review, Wake!Opened,
     Wake!RuleRed, Wake!Merged, Wake!Waiting, Wake!Green, Wake!Red, Host!Wake!WakesOnce,
     Host!Wake!Ids, Host!Wake!CiRed, Host!Wake!Review, Host!Wake!Opened, Host!Wake!RuleRed,
     Host!Wake!Merged, Host!Wake!Waiting, Host!Wake!Green, Host!Wake!Red
<1>3. ~OfWake /\ [HostNext]_vars => ~OfWake'
  BY HostStays DEF OfWake
<1>4. QED
  BY <1>1, <1>2, <1>3, WakeBehaves, PTL DEF HostSpec

(* RestSteps: in that part a step is a step of Rest.                        *)
LEMMA RestSteps ==
    OfRest /\ [HostNext]_vars => [Host!Rest!Next]_(Host!Rest!vars) /\ OfRest'
<1> SUFFICES ASSUME part = "rest", [HostNext]_vars
             PROVE  [Host!Rest!Next]_(Host!Rest!vars) /\ part' = "rest"
  BY DEF OfRest
<1>1. Rest!Next \/ UNCHANGED Host!Rest!vars
  BY DEF HostNext, vars, SshStep, GatewayStep, RestStep, DeskStep, InboxStep, WakeStep,
     StatusStep, WiringStep, SlashStep, CommandsStep, SchedulesStep, SshDoes, GatewayDoes,
     RestDoes, DeskDoes, InboxDoes, WakeDoes, StatusDoes, WiringDoes, SlashDoes,
     CommandsDoes, SchedulesDoes, Host!Rest!vars
<1>2. ASSUME Rest!Next PROVE Host!Rest!Next
  BY <1>2 DEF Rest!Next, Rest!CooldownPasses, Rest!discord, Rest!Passed, Rest!WindowPasses,
     Rest!Routes, Rest!DiscordStep, Rest!Fail, Rest!limiter, Rest!Apply, Rest!Met,
     Rest!Faulty, Rest!Limit, Rest!Serve, Rest!ThreadStep, Rest!Failed, Rest!Return,
     Rest!Replay, Rest!NotSent, Rest!Idempotent, Rest!RateLimited, Rest!Answered,
     Rest!Attempt, Rest!Wake, Rest!Bucket, Rest!Goto, Rest!Acquire, Rest!Begin, Rest!Idle,
     Host!Rest!Next, Host!Rest!CooldownPasses, Host!Rest!discord, Host!Rest!Passed,
     Host!Rest!WindowPasses, Host!Rest!Routes, Host!Rest!DiscordStep, Host!Rest!Fail,
     Host!Rest!limiter, Host!Rest!Apply, Host!Rest!Met, Host!Rest!Faulty, Host!Rest!Limit,
     Host!Rest!Serve, Host!Rest!ThreadStep, Host!Rest!Failed, Host!Rest!Return,
     Host!Rest!Replay, Host!Rest!NotSent, Host!Rest!Idempotent, Host!Rest!RateLimited,
     Host!Rest!Answered, Host!Rest!Attempt, Host!Rest!Wake, Host!Rest!Bucket,
     Host!Rest!Goto, Host!Rest!Acquire, Host!Rest!Begin, Host!Rest!Idle
<1>3. QED
  BY <1>1, <1>2, HostStays

(* RestBehaves: and a behaviour is one of Rest.                             *)
LEMMA RestBehaves == HostSpec /\ OfRest => Host!Rest!Spec
<1>1. HostInit /\ OfRest => Host!Rest!Init
  BY DEF HostInit, OfRest, Rest!Init, Rest!Routes, Rest!Idle, Host!Rest!Init,
     Host!Rest!Routes, Host!Rest!Idle
<1>2. QED
  BY <1>1, RestSteps, PTL DEF HostSpec, Host!Rest!Spec

(* ChunksOnce: no retry posts a chunk of a text twice or leaves a gap.      *)
THEOREM ChunksOnce == HostSpec => []OncePerChunk
<1>1. Host!Rest!Spec => []Host!Rest!OncePerChunk
  <2>1. 2 \in Nat \ {0}
    OBVIOUS
  <2>2. QED
    BY <2>1, Host!NoDoublePost
<1>2. Host!Rest!OncePerChunk \/ ~OfRest => OncePerChunk
  BY DEF OncePerChunk, OfRest, Rest!OncePerChunk, Host!Rest!OncePerChunk
<1>3. ~OfRest /\ [HostNext]_vars => ~OfRest'
  BY HostStays DEF OfRest
<1>4. QED
  BY <1>1, <1>2, <1>3, RestBehaves, PTL DEF HostSpec

(* DeskSteps: in that part a step is a step of Desk.                        *)
LEMMA DeskSteps ==
    OfDesk /\ [HostNext]_vars => [Host!Desk!Next]_(Host!Desk!vars) /\ OfDesk'
<1> SUFFICES ASSUME part = "desk", [HostNext]_vars
             PROVE  [Host!Desk!Next]_(Host!Desk!vars) /\ part' = "desk"
  BY DEF OfDesk
<1>1. Desk!Next \/ UNCHANGED Host!Desk!vars
  BY DEF HostNext, vars, SshStep, GatewayStep, RestStep, DeskStep, InboxStep, WakeStep,
     StatusStep, WiringStep, SlashStep, CommandsStep, SchedulesStep, SshDoes, GatewayDoes,
     RestDoes, DeskDoes, InboxDoes, WakeDoes, StatusDoes, WiringDoes, SlashDoes,
     CommandsDoes, SchedulesDoes, Host!Desk!vars
<1>2. ASSUME Desk!Next PROVE Host!Desk!Next
  BY <1>2 DEF Desk!Next, Desk!HostDies, Desk!prefs, Desk!acl, Desk!Idle, Desk!Threads,
     Desk!Drain, Desk!GrantEnds, Desk!queue, Desk!ThreadStep, Desk!Ask, Desk!Continue,
     Desk!HaltOrResume, Desk!Goto, Desk!Roles, Desk!Gate, Desk!Always, Desk!Revoke,
     Desk!ListGrants, Desk!PaintOnly, Desk!WriteCard, Desk!WritePower, Desk!ReadRow,
     Desk!Check, Desk!MayOperate, Desk!IsOperator, Desk!SeedInserts, Desk!SeedReads,
     Desk!Tap, Desk!Acts, Desk!LoopActs, Desk!MayDispatch, Desk!Checked, Desk!Asked,
     Desk!FaultStep, Desk!SeedFails, Desk!Fault, Desk!CheckBlind, Desk!CheckFails,
     Desk!ListFails, Desk!RevokeFails, Desk!AskStaysAimed, Host!Desk!Next,
     Host!Desk!HostDies, Host!Desk!prefs, Host!Desk!acl, Host!Desk!Idle,
     Host!Desk!Threads, Host!Desk!Drain, Host!Desk!GrantEnds, Host!Desk!queue,
     Host!Desk!ThreadStep, Host!Desk!Ask, Host!Desk!Continue, Host!Desk!HaltOrResume,
     Host!Desk!Goto, Host!Desk!Roles, Host!Desk!Gate, Host!Desk!Always,
     Host!Desk!Revoke, Host!Desk!ListGrants, Host!Desk!PaintOnly, Host!Desk!WriteCard,
     Host!Desk!WritePower, Host!Desk!ReadRow, Host!Desk!Check, Host!Desk!MayOperate,
     Host!Desk!IsOperator, Host!Desk!SeedInserts, Host!Desk!SeedReads, Host!Desk!Tap,
     Host!Desk!Acts, Host!Desk!LoopActs, Host!Desk!MayDispatch, Host!Desk!Checked,
     Host!Desk!Asked, Host!Desk!FaultStep, Host!Desk!SeedFails, Host!Desk!Fault,
     Host!Desk!CheckBlind, Host!Desk!CheckFails, Host!Desk!ListFails,
     Host!Desk!RevokeFails, Host!Desk!AskStaysAimed
<1>3. QED
  BY <1>1, <1>2, HostStays

(* DeskBehaves: and a behaviour is one of Desk.                             *)
LEMMA DeskBehaves == HostSpec /\ OfDesk => Host!Desk!Spec
<1>1. HostInit /\ OfDesk => Host!Desk!Init
  BY DEF HostInit, OfDesk, Desk!Init, Desk!Idle, Desk!Threads, Host!Desk!Init,
     Host!Desk!Idle, Host!Desk!Threads
<1>2. QED
  BY <1>1, DeskSteps, PTL DEF HostSpec, Host!Desk!Spec

(* ShutOut: stranger, unpaired and Off stay shut out, whatever taps and     *)
(* verbs cross, but where the operators or the grants could not be listed   *)
(* or a grant not be cleared.                                               *)
THEOREM ShutOut == HostSpec => []DeskHolds
<1>1. Host!Desk!Spec => []Host!Desk!DeskHolds
  BY Host!DeskShut, PTL
<1>2. Host!Desk!DeskHolds \/ ~OfDesk => DeskHolds
  BY DEF DeskHolds, OfDesk, Desk!DeskHolds, Desk!Threads, Host!Desk!DeskHolds,
     Host!Desk!Threads
<1>3. ~OfDesk /\ [HostNext]_vars => ~OfDesk'
  BY HostStays DEF OfDesk
<1>4. QED
  BY <1>1, <1>2, <1>3, DeskBehaves, PTL DEF HostSpec

(* SchedulesSteps: in that part a step is a step of Schedules.              *)
LEMMA SchedulesSteps ==
    OfSchedules /\ [HostNext]_vars => [Host!Schedules!Next]_(Host!Schedules!vars) /\ OfSchedules'
<1> SUFFICES ASSUME part = "schedules", [HostNext]_vars
             PROVE  [Host!Schedules!Next]_(Host!Schedules!vars) /\ part' = "schedules"
  BY DEF OfSchedules
<1>1. Schedules!Next \/ UNCHANGED Host!Schedules!vars
  BY DEF HostNext, vars, SshStep, GatewayStep, RestStep, DeskStep, InboxStep, WakeStep,
     StatusStep, WiringStep, SlashStep, CommandsStep, SchedulesStep, SshDoes, GatewayDoes,
     RestDoes, DeskDoes, InboxDoes, WakeDoes, StatusDoes, WiringDoes, SlashDoes,
     CommandsDoes, SchedulesDoes, Host!Schedules!vars
<1>2. ASSUME Schedules!Next PROVE Host!Schedules!Next
  BY <1>2 DEF Schedules!Next, Schedules!HostDies, Schedules!cardVars, Schedules!rowVars,
     Schedules!hostVars, Schedules!Idle, Schedules!Lapse, Schedules!Fault,
     Schedules!PostFails, Schedules!Goto, Schedules!MarkFails, Schedules!BriefFails,
     Schedules!SkipFails, Schedules!BumpFails, Schedules!FireFails, Schedules!TapHalt,
     Schedules!TapOnOff, Schedules!Time, Schedules!HostStep, Schedules!PollEnds,
     Schedules!Post, Schedules!Period, Schedules!Mark, Schedules!Report,
     Schedules!CardDue, Schedules!Brief, Schedules!Skip, Schedules!Bump, Schedules!Fire,
     Schedules!Poll, Schedules!Kinds, Schedules!ReportBlind, Host!Schedules!Next,
     Host!Schedules!HostDies, Host!Schedules!cardVars, Host!Schedules!rowVars,
     Host!Schedules!hostVars, Host!Schedules!Idle, Host!Schedules!Lapse,
     Host!Schedules!Fault, Host!Schedules!PostFails, Host!Schedules!Goto,
     Host!Schedules!MarkFails, Host!Schedules!BriefFails, Host!Schedules!SkipFails,
     Host!Schedules!BumpFails, Host!Schedules!FireFails, Host!Schedules!TapHalt,
     Host!Schedules!TapOnOff, Host!Schedules!Time, Host!Schedules!HostStep,
     Host!Schedules!PollEnds, Host!Schedules!Post, Host!Schedules!Period,
     Host!Schedules!Mark, Host!Schedules!Report, Host!Schedules!CardDue,
     Host!Schedules!Brief, Host!Schedules!Skip, Host!Schedules!Bump,
     Host!Schedules!Fire, Host!Schedules!Poll, Host!Schedules!Kinds,
     Host!Schedules!ReportBlind
<1>3. QED
  BY <1>1, <1>2, HostStays

(* SchedulesBehaves: and a behaviour is one of Schedules.                   *)
LEMMA SchedulesBehaves == HostSpec /\ OfSchedules => Host!Schedules!Spec
<1>1. HostInit /\ OfSchedules => Host!Schedules!Init
  BY DEF HostInit, OfSchedules, Schedules!Init, Schedules!Idle, Schedules!Kinds,
     Host!Schedules!Init, Host!Schedules!Idle, Host!Schedules!Kinds
<1>2. QED
  BY <1>1, SchedulesSteps, PTL DEF HostSpec, Host!Schedules!Spec

(* SlotsTold: slots missed while the channel was Off or halted become no    *)
(* storm of jobs and are told, and a day whose watermark could be read and  *)
(* written has one morning card.                                            *)
THEOREM SlotsTold == HostSpec => []SlotsKept
<1>1. Host!SchedBounds
  BY DEF Host!SchedBounds
<1>2. Host!Schedules!Spec => [](Host!Schedules!NoStorm /\ Host!Schedules!SkipsTold)
  BY <1>1, Host!SlotsAreKept, PTL
<1>3. (Host!Schedules!NoStorm /\ Host!Schedules!SkipsTold) \/ ~OfSchedules => SlotsKept
  BY DEF SlotsKept, OfSchedules, Schedules!SkipsTold, Schedules!NoStorm, Schedules!Kinds,
     Host!Schedules!SkipsTold, Host!Schedules!NoStorm, Host!Schedules!Kinds
<1>4. ~OfSchedules /\ [HostNext]_vars => ~OfSchedules'
  BY HostStays DEF OfSchedules
<1>5. QED
  BY <1>2, <1>3, <1>4, SchedulesBehaves, PTL DEF HostSpec

(* AskSteps: in that part a step is a step of AskHold.                      *)
LEMMA AskSteps ==
    OfAsk /\ [DeskNext]_vars => [Host!Ask!Next]_(Host!Ask!vars) /\ OfAsk'
<1> SUFFICES ASSUME part = "ask", [DeskNext]_vars
             PROVE  [Host!Ask!Next]_(Host!Ask!vars) /\ part' = "ask"
  BY DEF OfAsk
<1>1. TapAsk!Next \/ UNCHANGED Host!Ask!vars
  BY DEF DeskNext, vars, TapDeskStep, TapAskStep, DigestStep, PanelStep, TagsStep,
     TapDeskDoes, TapAskDoes, DigestDoes, PanelDoes, TagsDoes, Host!Ask!vars
<1>2. ASSUME TapAsk!Next PROVE Host!Ask!Next
  BY <1>2 DEF TapAsk!Next, TapAsk!ExpireParked, TapAsk!Idle, TapAsk!DrainPark, TapAsk!Leave,
     TapAsk!IdleOp, TapAsk!Step, TapAsk!DrainRaise, TapAsk!Raised, TapAsk!ParkedLive,
     TapAsk!Parked, TapAsk!Drainable, TapAsk!Unanswered, TapAsk!DrainAllow, TapAsk!Said,
     TapAsk!DrainAged, TapAsk!DrainResolve, TapAsk!ActorStep, TapAsk!FailRun, TapAsk!NoCard,
     TapAsk!ExpireCard, TapAsk!BeginFinish, TapAsk!FinishRun, TapAsk!Yes, TapAsk!FinishFile,
     TapAsk!FinishMerge, TapAsk!Actors, TapAsk!SpokenVerb, TapAsk!Resolve,
     TapAsk!ResolvePlan, TapAsk!ResolveTool, TapAsk!TapVerb, TapAsk!TapConfirm,
     TapAsk!ToggleShow, TapAsk!ToggleMerge, TapAsk!TapToggle, TapAsk!TapOption,
     TapAsk!Options, TapAsk!AgeCard, TapAsk!Age, TapAsk!RaiseRefused, TapAsk!Hears,
     TapAsk!WorkerStep, TapAsk!Expired, TapAsk!Timeout, TapAsk!Poll, TapAsk!Hear,
     TapAsk!Paint, TapAsk!Fresh, TapAsk!Raise, TapAsk!CallDecided, TapAsk!Call,
     Host!Ask!Next, Host!Ask!ExpireParked, Host!Ask!Idle, Host!Ask!DrainPark,
     Host!Ask!Leave, Host!Ask!IdleOp, Host!Ask!Step, Host!Ask!DrainRaise, Host!Ask!Raised,
     Host!Ask!ParkedLive, Host!Ask!Parked, Host!Ask!Drainable, Host!Ask!Unanswered,
     Host!Ask!DrainAllow, Host!Ask!Said, Host!Ask!DrainAged, Host!Ask!DrainResolve,
     Host!Ask!ActorStep, Host!Ask!FailRun, Host!Ask!NoCard, Host!Ask!ExpireCard,
     Host!Ask!BeginFinish, Host!Ask!FinishRun, Host!Ask!Yes, Host!Ask!FinishFile,
     Host!Ask!FinishMerge, Host!Ask!Actors, Host!Ask!SpokenVerb, Host!Ask!Resolve,
     Host!Ask!ResolvePlan, Host!Ask!ResolveTool, Host!Ask!TapVerb, Host!Ask!TapConfirm,
     Host!Ask!ToggleShow, Host!Ask!ToggleMerge, Host!Ask!TapToggle, Host!Ask!TapOption,
     Host!Ask!Options, Host!Ask!AgeCard, Host!Ask!Age, Host!Ask!RaiseRefused,
     Host!Ask!Hears, Host!Ask!WorkerStep, Host!Ask!Expired, Host!Ask!Timeout, Host!Ask!Poll,
     Host!Ask!Hear, Host!Ask!Paint, Host!Ask!Fresh, Host!Ask!Raise, Host!Ask!CallDecided,
     Host!Ask!Call
<1>3. QED
  BY <1>1, <1>2, DeskStays

(* AskBehaves: and a behaviour is one of AskHold.                           *)
LEMMA AskBehaves == DeskSpec /\ OfAsk => Host!Ask!Spec
<1>1. DeskInit /\ OfAsk => Host!Ask!Init
  BY DEF DeskInit, OfAsk, TapAsk!Init, TapAsk!Holds, TapAsk!IdleOp, TapAsk!Actors,
     TapAsk!NoCard, TapAsk!NoGate, Host!Ask!Init, Host!Ask!Holds, Host!Ask!IdleOp,
     Host!Ask!Actors, Host!Ask!NoCard, Host!Ask!NoGate
<1>2. QED
  BY <1>1, AskSteps, PTL DEF DeskSpec, Host!Ask!Spec

(* SaidAnswers: a worker is told yes only if somebody said yes, and the     *)
(* options it is told are those that were ticked on the card.               *)
THEOREM SaidAnswers == ASSUME None \notin TapAsk!Replies PROVE DeskSpec => []AnswersTrue
<1>1. Host!AskBounds
  BY DEF Host!AskBounds, TapAsk!Replies, TapAsk!Options, Host!Ask!Replies, Host!Ask!Options
<1>2. Host!Ask!Spec => [](Host!Ask!YesWasSaid /\ Host!Ask!PickedHeard)
  BY <1>1, Host!AnswersStand, PTL
<1>3. (Host!Ask!YesWasSaid /\ Host!Ask!PickedHeard) \/ ~OfAsk => AnswersTrue
  BY DEF AnswersTrue, OfAsk, TapAsk!PickedHeard, TapAsk!Holds, TapAsk!YesWasSaid,
     TapAsk!Yes, Host!Ask!PickedHeard, Host!Ask!Holds, Host!Ask!YesWasSaid, Host!Ask!Yes
<1>4. ~OfAsk /\ [DeskNext]_vars => ~OfAsk'
  BY DeskStays DEF OfAsk
<1>5. QED
  BY <1>2, <1>3, <1>4, AskBehaves, PTL DEF DeskSpec
=============================================================================
