-------------------------- MODULE WatchdogCircuit --------------------------
(***************************************************************************)
(* The restart budget of the watchdog (internal/supervisor/watchdog.go),   *)
(* with the times it keeps: when each remembered restart was, and until    *)
(* when the circuit is open.  What a health check finds is left open.      *)
(***************************************************************************)
EXTENDS Integers, Sequences, FiniteSets

CONSTANTS
  RestartBudget,    \* WatchdogConfig.MaxRestarts; the rest of it in ticks of the clock
  RestartWindow,
  CircuitCooldown,
  MinBackoff,
  MaxBackoff,
  MaxTime           \* bound on the clock

ASSUME WatchdogCircuitAssumption ==
  /\ RestartBudget \in Nat
  /\ {RestartWindow, CircuitCooldown, MinBackoff, MaxBackoff} \subseteq Nat \ {0}
  /\ MaxTime \in Nat

VARIABLES
  now,           \* the clock
  circuitOpen,   \* w.circuitOpen
  circuitUntil,  \* w.circuitUntil
  restarts,      \* w.restarts, by their numbers
  phase,         \* where the watchdog goroutine is
  resumeAt,      \* when the backoff of the restart under way ends
  launches       \* when each restart was begun

timedVars == <<now, circuitOpen, circuitUntil, restarts, phase, resumeAt, launches>>

TimedInit ==
  /\ now = 0
  /\ circuitOpen = FALSE
  /\ circuitUntil = 0
  /\ restarts = {}
  /\ phase = "idle"
  /\ resumeAt = 0
  /\ launches = <<>>

TimedTypeOK ==
  /\ now \in 0..MaxTime
  /\ circuitOpen \in BOOLEAN
  /\ circuitUntil \in 0..(MaxTime + CircuitCooldown)
  /\ launches \in Seq(0..MaxTime)
  /\ restarts \subseteq DOMAIN launches
  /\ phase \in {"idle", "decide", "admit", "backoff"}
  /\ resumeAt \in 0..(MaxTime + MaxBackoff)

-----------------------------------------------------------------------------
CircuitOpen == circuitOpen /\ now < circuitUntil

\* Doubled[n]: the delay after n rounds of backoff's loop.
Doubled[n \in 0..RestartBudget] ==
  IF n = 0 THEN MinBackoff
  ELSE IF Doubled[n - 1] < MaxBackoff THEN 2 * Doubled[n - 1] ELSE Doubled[n - 1]

\* The delays backoff may return: half the capped delay and jitter below the
\* other half, or the whole when there is no jitter to be had.
Backoff(attempt) ==
  LET delay == IF Doubled[attempt] > MaxBackoff THEN MaxBackoff ELSE Doubled[attempt]
      half  == delay \div 2
  IN  {delay} \cup (IF half = 0 THEN {} ELSE half..(2 * half - 1))

\* The restarts that have not aged out of the window.
InWindow == {i \in DOMAIN launches : launches[i] > now - RestartWindow}

\* Variant: the cooldown is not waited for.
RecordHealthyTooSoon ==
  /\ phase = "idle"
  /\ circuitOpen
  /\ circuitOpen' = FALSE
  /\ restarts' = {}
  /\ UNCHANGED <<now, circuitUntil, phase, resumeAt, launches>>

\* A healthy check closes the circuit once its cooldown is over.
RecordHealthy ==
  /\ phase = "idle"
  /\ circuitOpen
  /\ now > circuitUntil
  /\ circuitOpen' = FALSE
  /\ restarts' = {}
  /\ UNCHANGED <<now, circuitUntil, phase, resumeAt, launches>>

Unhealthy ==
  /\ phase = "idle"
  /\ phase' = "decide"
  /\ UNCHANGED <<now, circuitOpen, circuitUntil, restarts, resumeAt, launches>>

\* Variant: the open circuit is not looked at.
DecideAlways ==
  /\ phase = "decide"
  /\ phase' = "admit"
  /\ UNCHANGED <<now, circuitOpen, circuitUntil, restarts, resumeAt, launches>>

Decide ==
  /\ phase = "decide"
  /\ phase' = IF CircuitOpen THEN "idle" ELSE "admit"
  /\ UNCHANGED <<now, circuitOpen, circuitUntil, restarts, resumeAt, launches>>

\* restart's critical section.
Admit ==
  /\ phase = "admit"
  /\ LET kept == restarts \cap InWindow IN
     IF Cardinality(kept) >= RestartBudget
     THEN /\ circuitOpen' = TRUE
          /\ circuitUntil' = now + CircuitCooldown
          /\ restarts' = kept
          /\ phase' = "idle"
          /\ UNCHANGED <<resumeAt, launches>>
     ELSE /\ restarts' = kept \cup {Len(launches) + 1}
          /\ launches' = Append(launches, now)
          /\ phase' = "backoff"
          /\ \E delay \in Backoff(Cardinality(kept)) : resumeAt' = now + delay
          /\ UNCHANGED <<circuitOpen, circuitUntil>>
  /\ UNCHANGED now

\* The backoff, Stop and Start take at least the backoff's delay.
Restarted ==
  /\ phase = "backoff"
  /\ now >= resumeAt
  /\ phase' = "idle"
  /\ UNCHANGED <<now, circuitOpen, circuitUntil, restarts, resumeAt, launches>>

Tick ==
  /\ now < MaxTime
  /\ now' = now + 1
  /\ UNCHANGED <<circuitOpen, circuitUntil, restarts, phase, resumeAt, launches>>

TimedNext == RecordHealthy \/ Unhealthy \/ Decide \/ Admit \/ Restarted \/ Tick

TimedSpec == TimedInit /\ [][TimedNext]_timedVars

-----------------------------------------------------------------------------
LaunchedSince(t) == {i \in DOMAIN launches : launches[i] > t - RestartWindow
                                             /\ launches[i] <= t}

\* What WatchdogConfig says of MaxRestarts: no stretch of RestartWindow has
\* more restarts than that.
Budget == \A t \in 0..now : Cardinality(LaunchedSince(t)) <= RestartBudget

\* What the code ensures when CircuitCooldown >= RestartWindow, as in the
\* default configuration: twice as many.  A healthy check after the cooldown
\* forgets the restarts the circuit let through since it expired (restart,
\* recordHealthy).
DoubleBudget ==
  \A t \in 0..now : Cardinality(LaunchedSince(t)) <= 2 * RestartBudget

\* The times implement the circuit that FpmSupervision uses: the restarts
\* remembered are those inside the window, and an open circuit has expired
\* once the clock reaches circuitUntil.
Abstract == INSTANCE RestartCircuit WITH
  circuit <- IF ~circuitOpen THEN "closed"
             ELSE IF now < circuitUntil THEN "open" ELSE "expired",
  recent  <- Cardinality(restarts \cap InWindow),
  MaxRestarts <- RestartBudget

TimesImplementCircuit == Abstract!Spec
=============================================================================
