--------------------------- MODULE RestartCircuit ---------------------------
(***************************************************************************)
(* What the restart circuit of internal/supervisor/watchdog.go promises,   *)
(* without counting time: at most MaxRestarts restarts are remembered at   *)
(* once, none is begun while the circuit is open, it opens only when the   *)
(* budget is used up, and it closes, forgetting the restarts, only after   *)
(* its cooldown.                                                           *)
(***************************************************************************)
EXTENDS Naturals

CONSTANT MaxRestarts  \* WatchdogConfig.MaxRestarts

VARIABLES
  circuit,  \* "closed"; "open" until circuitUntil; "expired" after it
  recent    \* restarts inside RestartWindow

circuitVars == <<circuit, recent>>

Init == circuit = "closed" /\ recent = 0

Restart ==
  /\ circuit # "open"
  /\ recent < MaxRestarts
  /\ recent' = recent + 1
  /\ UNCHANGED circuit

Trip ==
  /\ circuit # "open"
  /\ recent >= MaxRestarts
  /\ circuit' = "open"
  /\ UNCHANGED recent

Recover ==
  /\ circuit = "expired"
  /\ circuit' = "closed"
  /\ recent' = 0

\* Restarts leave the window, and the cooldown ends, as time passes.
TimePasses ==
  /\ recent' \in 0..recent
  /\ circuit' = circuit \/ (circuit = "open" /\ circuit' = "expired")

Next == Restart \/ Trip \/ Recover \/ TimePasses

Spec == Init /\ [][Next]_circuitVars
=============================================================================
