--------------------------- MODULE FpmSupervision ---------------------------
(***************************************************************************)
(* php-fpm supervision in a running gateway: the supervisor of             *)
(* FpmSupervisor under its two callers, the watchdog goroutine             *)
(* (internal/supervisor/watchdog.go) and the main goroutine, which starts  *)
(* php-fpm, serves, and on SIGINT or SIGTERM runs its deferred calls       *)
(* (cmd/gateway/main.go, runServe).                                        *)
(*                                                                         *)
(* Time is not counted here: a restart leaves the restart window, and the  *)
(* circuit's cooldown ends, at any moment.  WatchdogCircuit counts time,   *)
(* and both are shown to implement RestartCircuit.                         *)
(***************************************************************************)
EXTENDS FpmSupervisor

CONSTANTS
  Main,        \* the goroutine of runServe
  Watchdog,    \* the goroutine of Watchdog.Run
  MaxRestarts  \* WatchdogConfig.MaxRestarts

ASSUME SupervisionAssumption ==
  /\ Threads = {Main, Watchdog}
  /\ Main # Watchdog
  /\ MaxRestarts \in Nat

VARIABLES
  main,        \* where runServe is
  wd,          \* where the watchdog goroutine is
  rootDone,    \* rootCtx has been cancelled
  circuit,     \* "closed"; "open" until circuitUntil; "expired" after it
  recent,      \* restarts inside RestartWindow
  condemned    \* not in the code: the masters that ran when the gateway was told
               \* to stop, and have run ever since

vars == <<state, cmd, kill, proc, cancelled, socket, op, mine, nested, faults,
          main, wd, rootDone, circuit, recent, condemned>>

MainSteps == {"boot", "serving", "stopping", "cancelling", "joining", "exited"}
WdSteps   == {"off", "idle", "health", "probe", "decide", "admit", "backoff",
              "stopping", "starting", "done"}

TypeOK ==
  /\ SupervisorTypeOK
  /\ main \in MainSteps
  /\ wd \in WdSteps
  /\ rootDone \in BOOLEAN
  /\ circuit \in {"closed", "open", "expired"}
  /\ recent \in 0..MaxRestarts
  /\ condemned \in SUBSET Masters

\* runServe has reached fpm.Start.
Init ==
  /\ state = "absent"
  /\ cmd = Nothing
  /\ kill = Nothing
  /\ proc = [p \in Masters |-> "none"]
  /\ cancelled = {}
  /\ socket \in {Nothing, StaleFile}
  /\ op = [t \in Threads |-> IF t = Main THEN "start" ELSE "idle"]
  /\ mine = [t \in Threads |-> Nothing]
  /\ nested = {}
  /\ faults = 0
  /\ main = "boot"
  /\ wd = "off"
  /\ rootDone = FALSE
  /\ circuit = "closed"
  /\ recent = 0
  /\ condemned = {}

-----------------------------------------------------------------------------
(* The main goroutine *)

\* fpm.Start succeeded: Stop is deferred and the watchdog runs.  When it
\* failed there is neither, and the gateway serves without PHP for good.
MainServes ==
  /\ main = "boot"
  /\ op[Main] \in Idle \ {"idle"}
  /\ main' = "serving"
  /\ wd' = IF op[Main] = "ok" THEN "idle" ELSE "off"
  /\ op' = [op EXCEPT ![Main] = "idle"]
  /\ UNCHANGED <<state, cmd, kill, proc, cancelled, socket, mine, nested, faults,
                 rootDone, circuit, recent, condemned>>

\* The server has returned.  fpm.Stop was deferred after the closure that
\* cancels rootCtx, so it runs before it: the watchdog is still at work.
MainStops ==
  /\ main = "serving"
  /\ IF wd = "off"
     THEN main' = "cancelling" /\ UNCHANGED op
     ELSE main' = "stopping" /\ op' = [op EXCEPT ![Main] = "stop"]
  /\ condemned' = Alive
  /\ UNCHANGED <<state, cmd, kill, proc, cancelled, socket, mine, nested, faults,
                 wd, rootDone, circuit, recent>>

MainStopped ==
  /\ main = "stopping"
  /\ op[Main] = "ok"
  /\ main' = "cancelling"
  /\ op' = [op EXCEPT ![Main] = "idle"]
  /\ UNCHANGED <<state, cmd, kill, proc, cancelled, socket, mine, nested, faults,
                 wd, rootDone, circuit, recent, condemned>>

MainCancels ==
  /\ main = "cancelling"
  /\ rootDone' = TRUE
  /\ main' = "joining"
  /\ UNCHANGED <<state, cmd, kill, proc, cancelled, socket, op, mine, nested, faults,
                 wd, circuit, recent, condemned>>

\* Every done channel is closed; the gateway process ends.
MainExits ==
  /\ main = "joining"
  /\ wd \in {"off", "done"}
  /\ main' = "exited"
  /\ UNCHANGED <<state, cmd, kill, proc, cancelled, socket, op, mine, nested, faults,
                 wd, rootDone, circuit, recent, condemned>>

-----------------------------------------------------------------------------
(* The watchdog goroutine *)

WdGoto(from, to) == wd = from /\ wd' = to

\* Both the ticker and ctx.Done may be ready: select takes either.
WdQuit ==
  /\ WdGoto("idle", "done")
  /\ rootDone
  /\ UNCHANGED <<state, cmd, kill, proc, cancelled, socket, op, mine, nested, faults,
                 main, rootDone, circuit, recent, condemned>>

\* Variant: a failed supervisor is taken for a stopped one.
WdTickIgnoresFailed ==
  /\ WdGoto("idle", "health")
  /\ state = "ready"
  /\ UNCHANGED <<state, cmd, kill, proc, cancelled, socket, op, mine, nested, faults,
                 main, rootDone, circuit, recent, condemned>>

\* check: a stopped or starting supervisor is none of the watchdog's business.
WdTick ==
  /\ WdGoto("idle", "health")
  /\ state \in {"ready", "failed"}
  /\ UNCHANGED <<state, cmd, kill, proc, cancelled, socket, op, mine, nested, faults,
                 main, rootDone, circuit, recent, condemned>>

\* HealthCheck snapshots the state and the exited channel under the lock...
WdHealth ==
  /\ wd = "health"
  /\ IF state = "ready"
     THEN wd' = "probe" /\ mine' = [mine EXCEPT ![Watchdog] = cmd]
     ELSE wd' = "decide" /\ UNCHANGED mine
  /\ UNCHANGED <<state, cmd, kill, proc, cancelled, socket, op, nested, faults,
                 main, rootDone, circuit, recent, condemned>>

Healthy == proc[mine[Watchdog]] # "reaped" /\ socket \in Masters

\* ...then looks at the channel, the socket file and a connection without it.
\* recordHealthy closes a circuit whose cooldown is over.
WdHealthy ==
  /\ WdGoto("probe", "idle")
  /\ Healthy
  /\ mine' = [mine EXCEPT ![Watchdog] = Nothing]
  /\ circuit' = IF circuit = "expired" THEN "closed" ELSE circuit
  /\ recent' = IF circuit = "expired" THEN 0 ELSE recent
  /\ UNCHANGED <<state, cmd, kill, proc, cancelled, socket, op, nested, faults,
                 main, rootDone, condemned>>

\* Dialling under a cancelled context fails however php-fpm is; that a master
\* that listens refuses the connection, or lets two seconds pass, is a fault.
WdUnhealthy ==
  /\ WdGoto("probe", "decide")
  /\ \/ (~Healthy \/ rootDone) /\ UNCHANGED faults
     \/ Healthy /\ Fault
  /\ mine' = [mine EXCEPT ![Watchdog] = Nothing]
  /\ UNCHANGED <<state, cmd, kill, proc, cancelled, socket, op, nested,
                 main, rootDone, circuit, recent, condemned>>

\* Variant: the open circuit is not looked at.
WdDecideAlways ==
  /\ WdGoto("decide", "admit")
  /\ UNCHANGED <<state, cmd, kill, proc, cancelled, socket, op, mine, nested, faults,
                 main, rootDone, circuit, recent, condemned>>

WdDecide ==
  /\ wd = "decide"
  /\ wd' = IF circuit = "open" THEN "idle" ELSE "admit"
  /\ UNCHANGED <<state, cmd, kill, proc, cancelled, socket, op, mine, nested, faults,
                 main, rootDone, circuit, recent, condemned>>

\* restart's critical section: open the circuit, or count a restart.
WdAdmit ==
  /\ wd = "admit"
  /\ IF recent >= MaxRestarts
     THEN circuit' = "open" /\ wd' = "idle" /\ UNCHANGED recent
     ELSE recent' = recent + 1 /\ wd' = "backoff" /\ UNCHANGED circuit
  /\ UNCHANGED <<state, cmd, kill, proc, cancelled, socket, op, mine, nested, faults,
                 main, rootDone, condemned>>

WdBackoffCancelled ==
  /\ WdGoto("backoff", "idle")
  /\ rootDone
  /\ UNCHANGED <<state, cmd, kill, proc, cancelled, socket, op, mine, nested, faults,
                 main, rootDone, circuit, recent, condemned>>

WdBackoffOver ==
  /\ WdGoto("backoff", "stopping")
  /\ op' = [op EXCEPT ![Watchdog] = "stop"]
  /\ UNCHANGED <<state, cmd, kill, proc, cancelled, socket, mine, nested, faults,
                 main, rootDone, circuit, recent, condemned>>

WdStopped ==
  /\ WdGoto("stopping", "starting")
  /\ op[Watchdog] = "ok"
  /\ op' = [op EXCEPT ![Watchdog] = "start"]
  /\ UNCHANGED <<state, cmd, kill, proc, cancelled, socket, mine, nested, faults,
                 main, rootDone, circuit, recent, condemned>>

WdStarted ==
  /\ WdGoto("starting", "idle")
  /\ op[Watchdog] \in {"ok", "err"}
  /\ op' = [op EXCEPT ![Watchdog] = "idle"]
  /\ UNCHANGED <<state, cmd, kill, proc, cancelled, socket, mine, nested, faults,
                 main, rootDone, circuit, recent, condemned>>

-----------------------------------------------------------------------------
(* Time *)

RestartAges ==
  /\ recent > 0
  /\ recent' = recent - 1
  /\ UNCHANGED <<state, cmd, kill, proc, cancelled, socket, op, mine, nested, faults,
                 main, wd, rootDone, circuit, condemned>>

CooldownEnds ==
  /\ circuit = "open"
  /\ circuit' = "expired"
  /\ UNCHANGED <<state, cmd, kill, proc, cancelled, socket, op, mine, nested, faults,
                 main, wd, rootDone, recent, condemned>>

-----------------------------------------------------------------------------
callers == <<main, wd, rootDone, circuit, recent>>

\* History: a master that ends is no longer among the condemned.
Outlive == condemned' = condemned \cap Alive'

\* rootCtx bounds the watchdog's Start; main's Start has a context of its own.
CtxDone(t) == t = Watchdog /\ rootDone

Call(t) ==
  /\ StartStep(t, CtxDone(t)) \/ StopStep(t)
  /\ UNCHANGED callers
  /\ Outlive

\* Only the watchdog's own Stop has a deadline.
WdStopDeadline == StopDeadline(Watchdog) /\ UNCHANGED callers /\ Outlive

\* The children outlive the gateway; the goroutines that mind them do not.
Child(p) ==
  /\ MasterStep(p) \/ (main # "exited" /\ GatewayMinds(p))
  /\ UNCHANGED callers
  /\ Outlive
Crash(p) == MasterCrashes(p) /\ UNCHANGED callers /\ Outlive

MainStep == MainServes \/ MainStopped \/ MainCancels \/ MainExits

WdStep ==
  \/ WdQuit \/ WdTick \/ WdHealth \/ WdHealthy \/ WdUnhealthy \/ WdDecide
  \/ WdAdmit \/ WdBackoffCancelled \/ WdBackoffOver \/ WdStopped \/ WdStarted

Next ==
  \/ MainStep \/ MainStops
  \/ WdStep \/ WdStopDeadline
  \/ \E t \in Threads : Call(t)
  \/ \E p \in Masters : Child(p) \/ Crash(p)
  \/ RestartAges \/ CooldownEnds

Spec == Init /\ [][Next]_vars

\* Goroutines and processes keep running, and time passes.  Nothing says the
\* operator ever stops the gateway, and nothing forces a fault.  Go's select
\* picks among the ready cases at random, so the watchdog that finds ctx.Done
\* ready again and again takes it in the end.
FairSpec ==
  /\ Spec
  /\ WF_vars(MainStep)
  /\ WF_vars(WdStep)
  /\ SF_vars(WdQuit)
  /\ \A t \in Threads : WF_vars(Call(t))
  /\ \A p \in Masters : WF_vars(Child(p))
  /\ WF_vars(RestartAges)
  /\ WF_vars(CooldownEnds)

-----------------------------------------------------------------------------
Unstopped == main \in {"boot", "serving"}

\* Until the gateway is told to stop, the only php-fpm master that can be
\* running is the one s.cmd holds, so Stop and the health check can reach every
\* child ever launched: no restart loses one or runs two (supervisor.Start,
\* supervisor.Stop, Watchdog.restart).
NoStrayChild == Unstopped => Alive \subseteq {cmd}

\* A ready supervisor holds a child that was launched, and s.cancel cancels that
\* child and no other: the kill switch matches the child (supervisor.Start).
KillSwitchMatches ==
  Unstopped /\ state = "ready" => cmd # Nothing /\ kill = cmd /\ proc[cmd] # "none"

\* The deferred Stop runs while the watchdog may be in a Stop or a Start of its
\* own, and takes whatever child s.cmd holds by then.  When it has returned, every
\* php-fpm that ran when the gateway was told to stop has ended all the same,
\* whichever of the two stopped it (supervisor.Stop, the deferred calls of
\* runServe).
StopReachesAll == main \in {"cancelling", "joining", "exited"} => condemned = {}

\* No php-fpm is launched while the restart circuit is open
\* (Watchdog.check, Watchdog.restart).
NoLaunchWhileOpen ==
  [][circuit = "open" =>
       \A p \in Masters : proc'[p] = "booting" => proc[p] = "booting"]_vars

\* The watchdog goroutine drives the circuit as RestartCircuit allows: between
\* its check and the restart it decides on, nothing else moves the circuit.
Circuit == INSTANCE RestartCircuit
ImplementsCircuit == Circuit!Spec

\* Once the gateway is told to stop it does end: no Stop waits for a child that
\* nothing ends, and the join finds its goroutine (runServe, supervisor.Stop).
ShutdownEnds == (main = "stopping") ~> (main = "exited")

\* A supervised php-fpm comes back: from any state in which the watchdog runs,
\* a listening master is reached that the supervisor reports ready, with the
\* circuit not open, or the gateway is stopped (Watchdog.Run).
PhpServed ==
  state = "ready" /\ cmd \in Masters /\ socket = cmd /\ circuit # "open"
Recovers == (wd = "idle") ~> (PhpServed \/ ~Unstopped)

-----------------------------------------------------------------------------
(* What comments in the code say, and the code does not do.                *)

\* watchdog.check: "a supervisor that was [...] deliberately stopped, is not the
\* watchdog's business".  No restart is decided on once main's Stop has claimed
\* the supervisor.
DeliberateStopHolds ==
  [][main = "stopping" /\ state = "stopping" => ~(wd = "admit" /\ wd' = "backoff")]_vars

\* supervisor.Stop: "Stop gracefully stops php-fpm".  The gateway that deferred
\* it leaves no php-fpm running that was not even asked to stop.
NoChildLeft ==
  main = "exited" => \A p \in Masters : proc[p] \notin {"booting", "listening"}

\* supervisor.Start: "waits for the socket to be ready".  A supervisor becomes
\* ready when a master is listening.
ReadyMeansListening ==
  [][state # "ready" /\ state' = "ready" => socket \in Masters]_vars
=============================================================================
