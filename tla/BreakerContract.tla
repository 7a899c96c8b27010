---------------------------- MODULE BreakerContract ----------------------------
(***************************************************************************)
(* What a circuit breaker promises its pipeline (docs/circuit-breaker.md): *)
(* it is closed, open or half open, it moves only along the documented     *)
(* edges, and while it is half open at most one recovery probe is out.     *)
(* The specification says nothing of clocks, counters, locks or storage.   *)
(***************************************************************************)
EXTENDS Naturals

VARIABLES state,   \* the state the pipeline acts on
          probes   \* recovery probes granted in this half-open episode

vars == <<state, probes>>

Init == state = "CLOSED" /\ probes = 0

Trip == state = "CLOSED" /\ state' = "OPEN" /\ probes' = 0

(* The request that ends the cool-down may itself be the one that probes.   *)
CoolDown == state = "OPEN" /\ state' = "HALF_OPEN" /\ probes' \in {0, 1}

GrantProbe == state = "HALF_OPEN" /\ probes = 0 /\ probes' = 1 /\ UNCHANGED state

(* The episode ends with a verdict, whether or not a probe was out. *)
Verdict == state = "HALF_OPEN" /\ state' \in {"CLOSED", "OPEN"} /\ probes' = 0

(* The process that held the probe died with it. *)
LoseProbe == state = "HALF_OPEN" /\ probes' = 0 /\ UNCHANGED state

Next == Trip \/ CoolDown \/ GrantProbe \/ Verdict \/ LoseProbe

Spec == Init /\ [][Next]_vars

===============================================================================
