------------------------------ MODULE GateQueue ------------------------------
(***************************************************************************)
(* What the approval of live tool calls promises a worker, wherever it     *)
(* runs: each of its requests is held until it is decided, only a request  *)
(* that has consent is ever allowed, a decision is final, and no hold is   *)
(* for ever.  GateHold (a worker on this host, orchestration/gate_hook.py) *)
(* and SshCook (a worker behind SSH, orchestration/ssh_gate.py) each       *)
(* implement it.                                                           *)
(***************************************************************************)
CONSTANT Reqs

VARIABLES
    hold,      \* each request: "none", "held", "allowed", "denied", "gone"
    consented  \* the requests someone, or a rule, agreed to so far

vars == <<hold, consented>>

Init ==
    /\ hold = [r \in Reqs |-> "none"]
    /\ consented \subseteq Reqs

Hold(r) ==
    /\ hold[r] = "none"
    /\ hold' = [hold EXCEPT ![r] = "held"]
    /\ consented \subseteq consented' /\ consented' \subseteq Reqs

\* Agreement is never taken back.
Consent ==
    /\ consented \subseteq consented' /\ consented' \subseteq Reqs
    /\ UNCHANGED hold

Allow(r) ==
    /\ hold[r] = "held" /\ r \in consented
    /\ hold' = [hold EXCEPT ![r] = "allowed"]
    /\ UNCHANGED consented

Deny(r) ==
    /\ hold[r] = "held"
    /\ hold' = [hold EXCEPT ![r] = "denied"]
    /\ UNCHANGED consented

\* The worker is killed: whoever waited waits no more.
Kill ==
    /\ hold' = [r \in Reqs |-> IF hold[r] = "held" THEN "gone" ELSE hold[r]]
    /\ UNCHANGED consented

Next ==
    \/ Consent \/ Kill
    \/ \E r \in Reqs : Hold(r) \/ Allow(r) \/ Deny(r)

\* The part of the promise that a single step can break.
Safe == Init /\ [][Next]_vars

\* Each request is held once at most, so in the end none is held.
NoneHeld == \A r \in Reqs : hold[r] # "held"
Prompt == <>[]NoneHeld

Spec == Safe /\ Prompt
=============================================================================
