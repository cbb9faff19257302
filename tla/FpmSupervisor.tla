--------------------------- MODULE FpmSupervisor ---------------------------
(***************************************************************************)
(* The php-fpm process supervisor (internal/supervisor/supervisor.go) and  *)
(* the php-fpm masters it launches.                                        *)
(*                                                                         *)
(* Start and Stop are procedures that any goroutine of Threads may run, so *)
(* each is broken where another goroutine can get in: at every unlock of   *)
(* s.mu, at every system call, and around the fields the code touches      *)
(* without the lock (s.cancel).  op[t] is the point goroutine t is at.  The*)
(* goroutines that call them are in FpmSupervision, which extends this.    *)
(*                                                                         *)
(* A php-fpm master is a member of Masters.  Identities are recycled once  *)
(* the process is reaped and nothing refers to it, so the number of        *)
(* launches is not bounded.                                                *)
(***************************************************************************)
EXTENDS Naturals, FiniteSets

CONSTANTS
  Threads,    \* goroutines that run the supervisor's methods
  Masters,    \* identities of php-fpm master processes
  Nothing,    \* a nil *exec.Cmd, a nil cancel function, a missing file
  StaleFile,  \* a socket file that no process listens on
  MaxFaults   \* bound on crashes, failed system calls and missed deadlines

ASSUME SupervisorAssumption ==
  /\ Nothing \notin Masters
  /\ StaleFile \notin Masters \cup {Nothing}
  /\ MaxFaults \in Nat

VARIABLES
  state,      \* s.state
  cmd,        \* s.cmd, and with it s.exited: the child Stop and HealthCheck see
  kill,       \* s.cancel: the child whose exec context it cancels
  proc,       \* what each master is doing, as the operating system sees it
  cancelled,  \* masters whose exec context has been cancelled
  socket,     \* what SocketPath names: Nothing, StaleFile or a listening master
  op,         \* where each goroutine is inside Start or Stop
  mine,       \* the *exec.Cmd in a local variable of each goroutine
  nested,     \* goroutines whose Stop was called from Start's failure path
  faults      \* faults that happened so far

States == {"absent", "starting", "ready", "stopping", "stopped", "failed"}

\* "none": not launched (cmd.Process is nil); "booting": launched, the socket
\* not bound; "stopping": SIGTERM received; "dead": exited, not waited for;
\* "reaped": cmd.Wait has returned and the exited channel is closed.
ProcStates == {"none", "booting", "listening", "stopping", "dead", "reaped"}
Running    == {"booting", "listening", "stopping"}

StartSteps == {"start", "prepare", "isolate", "launch", "await", "publish"}
StopSteps  == {"stop", "capture", "signal", "wait", "killed", "release",
               "unlink", "settle"}
Steps      == StartSteps \cup StopSteps \cup {"startfailed"}
Idle       == {"idle", "ok", "err"}

Alive == {p \in Masters : proc[p] \in Running}

\* A child nobody refers to any more: its identity may name the next one.
Fresh == {p \in Masters :
            /\ proc[p] \in {"none", "reaped"}
            /\ p \notin {cmd, kill}
            /\ \A t \in Threads : mine[t] # p}

SupervisorTypeOK ==
  /\ state \in States
  /\ cmd \in Masters \cup {Nothing}
  /\ kill \in Masters \cup {Nothing}
  /\ proc \in [Masters -> ProcStates]
  /\ cancelled \in SUBSET Masters
  /\ socket \in Masters \cup {Nothing, StaleFile}
  /\ op \in [Threads -> Steps \cup Idle]
  /\ mine \in [Threads -> Masters \cup {Nothing}]
  /\ nested \in SUBSET Threads
  /\ faults \in 0..MaxFaults

\* A gateway that was killed earlier may have left its socket file behind.
SupervisorInit ==
  /\ state = "absent"
  /\ cmd = Nothing
  /\ kill = Nothing
  /\ proc = [p \in Masters |-> "none"]
  /\ cancelled = {}
  /\ socket \in {Nothing, StaleFile}
  /\ op = [t \in Threads |-> "idle"]
  /\ mine = [t \in Threads |-> Nothing]
  /\ nested = {}
  /\ faults = 0

-----------------------------------------------------------------------------
Fault == faults < MaxFaults /\ faults' = faults + 1

Goto(t, from, to) == op[t] = from /\ op' = [op EXCEPT ![t] = to]

\* The goroutine's locals go out of scope when its call returns.
Return(t, from, result) ==
  /\ Goto(t, from, result)
  /\ mine' = [mine EXCEPT ![t] = Nothing]

\* A process that dies leaves the socket file it was listening on behind.
SocketWithout(p) == IF socket = p THEN StaleFile ELSE socket

-----------------------------------------------------------------------------
(* Start *)

\* Already ready, or another goroutine is starting it.
StartRedundant(t) ==
  /\ Return(t, "start", "ok")
  /\ state \in {"ready", "starting"}
  /\ UNCHANGED <<state, cmd, kill, proc, cancelled, socket, nested, faults>>

StartClaim(t) ==
  /\ Goto(t, "start", "prepare")
  /\ state \notin {"ready", "starting"}
  /\ state' = "starting"
  /\ UNCHANGED <<cmd, kill, proc, cancelled, socket, mine, nested, faults>>

\* MkdirAll or generateConfig fails.
StartCannotPrepare(t) ==
  /\ Return(t, "prepare", "err")
  /\ Fault
  /\ state' = "failed"
  /\ UNCHANGED <<cmd, kill, proc, cancelled, socket, nested>>

\* Variant: s.cancel keeps the previous child's cancel function.
StartPrepareKeepsKill(t) ==
  /\ Goto(t, "prepare", "isolate")
  /\ Fresh # {}
  /\ LET p == CHOOSE p \in Fresh : TRUE IN
       /\ mine' = [mine EXCEPT ![t] = p]
       /\ proc' = [proc EXCEPT ![p] = "none"]
       /\ cancelled' = cancelled \ {p}
  /\ UNCHANGED <<state, cmd, kill, socket, nested, faults>>

\* A new exec context and command; s.cancel is assigned without the lock.
StartPrepare(t) ==
  /\ Goto(t, "prepare", "isolate")
  /\ Fresh # {}
  /\ LET p == CHOOSE p \in Fresh : TRUE IN
       /\ kill' = p
       /\ mine' = [mine EXCEPT ![t] = p]
       /\ proc' = [proc EXCEPT ![p] = "none"]
       /\ cancelled' = cancelled \ {p}
  /\ UNCHANGED <<state, cmd, socket, nested, faults>>

\* ApplyIsolation fails: the context is cancelled before a process exists.
StartCannotIsolate(t) ==
  /\ Return(t, "isolate", "err")
  /\ Fault
  /\ state' = "failed"
  /\ cancelled' = cancelled \cup {mine[t]}
  /\ UNCHANGED <<cmd, kill, proc, socket, nested>>

StartPublishCmd(t) ==
  /\ Goto(t, "isolate", "launch")
  /\ cmd' = mine[t]
  /\ UNCHANGED <<state, kill, proc, cancelled, socket, mine, nested, faults>>

\* cmd.Start returns the context's error once the context is cancelled, and
\* may fail for reasons of its own.
StartCannotLaunch(t) ==
  /\ Return(t, "launch", "err")
  /\ \/ mine[t] \in cancelled /\ UNCHANGED faults
     \/ mine[t] \notin cancelled /\ Fault
  /\ state' = "failed"
  /\ cancelled' = cancelled \cup {mine[t]}
  /\ UNCHANGED <<cmd, kill, proc, socket, nested>>

StartLaunch(t) ==
  /\ Goto(t, "launch", "await")
  /\ mine[t] \notin cancelled
  /\ proc' = [proc EXCEPT ![mine[t]] = "booting"]
  /\ UNCHANGED <<state, cmd, kill, cancelled, socket, mine, nested, faults>>

\* waitForSocket looks at the context, then at the file, never at the process.
StartSeesSocket(t, ctxDone) ==
  /\ Goto(t, "await", "publish")
  /\ ~ctxDone
  /\ socket # Nothing
  /\ UNCHANGED <<state, cmd, kill, proc, cancelled, socket, mine, nested, faults>>

\* The wait ends without a socket: the caller's context is done, or the ten
\* seconds are over.  That they are, but for a dead master, is a fault; the last
\* look at the file may be too early for a socket that is there by now.
StartGivesUp(t, ctxDone) ==
  /\ Goto(t, "await", "stop")
  /\ \/ ctxDone /\ UNCHANGED faults
     \/ socket = Nothing /\ proc[mine[t]] # "booting" /\ UNCHANGED faults
     \/ proc[mine[t]] \in {"booting", "listening"} /\ Fault
  /\ mine' = [mine EXCEPT ![t] = Nothing]
  /\ nested' = nested \cup {t}
  /\ UNCHANGED <<state, cmd, kill, proc, cancelled, socket>>

StartPublishReady(t) ==
  /\ Return(t, "publish", "ok")
  /\ state' = "ready"
  /\ UNCHANGED <<cmd, kill, proc, cancelled, socket, nested, faults>>

\* The nested Stop has returned: setFailure, whatever Stop left the state at.
StartFail(t) ==
  /\ Return(t, "startfailed", "err")
  /\ state' = "failed"
  /\ nested' = nested \ {t}
  /\ UNCHANGED <<cmd, kill, proc, cancelled, socket, faults>>

-----------------------------------------------------------------------------
(* Stop *)

AfterStop(t) == IF t \in nested THEN "startfailed" ELSE "ok"

\* Variant: a Stop that finds another one under way leaves the child to it.
StopLeavesToOther(t) ==
  /\ Return(t, "stop", AfterStop(t))
  /\ state \in {"stopped", "absent", "stopping"}
  /\ UNCHANGED <<state, cmd, kill, proc, cancelled, socket, nested, faults>>

StopRedundant(t) ==
  /\ Return(t, "stop", AfterStop(t))
  /\ state \in {"stopped", "absent"}
  /\ UNCHANGED <<state, cmd, kill, proc, cancelled, socket, nested, faults>>

StopClaim(t) ==
  /\ Goto(t, "stop", "capture")
  /\ state \notin {"stopped", "absent"}
  /\ state' = "stopping"
  /\ UNCHANGED <<cmd, kill, proc, cancelled, socket, mine, nested, faults>>

\* A second critical section: the child may have been replaced in between.
StopCapture(t) ==
  /\ Goto(t, "capture", "signal")
  /\ mine' = [mine EXCEPT ![t] = cmd]
  /\ UNCHANGED <<state, cmd, kill, proc, cancelled, socket, nested, faults>>

\* cmd is nil, or cmd.Process is: there is nothing to signal.
StopNothingToSignal(t) ==
  /\ Goto(t, "signal", "release")
  /\ mine[t] = Nothing \/ (mine[t] # Nothing /\ proc[mine[t]] = "none")
  /\ UNCHANGED <<state, cmd, kill, proc, cancelled, socket, mine, nested, faults>>

\* Variant: the exit is waited for but never asked for.
StopSignalForgotten(t) ==
  /\ Goto(t, "signal", "wait")
  /\ mine[t] # Nothing
  /\ proc[mine[t]] # "none"
  /\ UNCHANGED <<state, cmd, kill, proc, cancelled, socket, mine, nested, faults>>

StopSignal(t) ==
  /\ Goto(t, "signal", "wait")
  /\ mine[t] # Nothing
  /\ proc[mine[t]] # "none"
  /\ proc' = [proc EXCEPT ![mine[t]] = IF @ \in Running THEN "stopping" ELSE @]
  /\ UNCHANGED <<state, cmd, kill, cancelled, socket, mine, nested, faults>>

\* Variant: Stop signals and moves on without waiting for the reaper.
StopSeesNoExit(t) ==
  /\ op[t] \in {"wait", "killed"}
  /\ op' = [op EXCEPT ![t] = "release"]
  /\ UNCHANGED <<state, cmd, kill, proc, cancelled, socket, mine, nested, faults>>

StopSeesExit(t) ==
  /\ op[t] \in {"wait", "killed"}
  /\ proc[mine[t]] = "reaped"
  /\ op' = [op EXCEPT ![t] = "release"]
  /\ UNCHANGED <<state, cmd, kill, proc, cancelled, socket, mine, nested, faults>>

\* The caller's deadline passes first: cancel whatever s.cancel cancels now,
\* and SIGKILL the captured child.  Only a Stop with a deadline can get here.
StopDeadline(t) ==
  /\ Goto(t, "wait", "killed")
  /\ Fault
  /\ t \notin nested
  /\ proc[mine[t]] # "reaped"
  /\ cancelled' = IF kill = Nothing THEN cancelled ELSE cancelled \cup {kill}
  /\ proc' = [proc EXCEPT ![mine[t]] = IF @ \in Running THEN "dead" ELSE @]
  /\ socket' = SocketWithout(mine[t])
  /\ UNCHANGED <<state, cmd, kill, mine, nested>>

\* Variant: s.cancel is called without the nil check.
StopReleaseUnchecked(t) ==
  /\ Goto(t, "release", "unlink")
  /\ cancelled' = cancelled \cup {kill}
  /\ UNCHANGED <<state, cmd, kill, proc, socket, mine, nested, faults>>

StopRelease(t) ==
  /\ Goto(t, "release", "unlink")
  /\ cancelled' = IF kill = Nothing THEN cancelled ELSE cancelled \cup {kill}
  /\ UNCHANGED <<state, cmd, kill, proc, socket, mine, nested, faults>>

\* os.Remove of the path, whoever listens there by now.
StopUnlink(t) ==
  /\ Goto(t, "unlink", "settle")
  /\ socket' = Nothing
  /\ UNCHANGED <<state, cmd, kill, proc, cancelled, mine, nested, faults>>

StopSettle(t) ==
  /\ Return(t, "settle", AfterStop(t))
  /\ state' = "stopped"
  /\ UNCHANGED <<cmd, kill, proc, cancelled, socket, nested, faults>>

-----------------------------------------------------------------------------
StartStep(t, ctxDone) ==
  \/ StartRedundant(t) \/ StartClaim(t)
  \/ StartCannotPrepare(t) \/ StartPrepare(t)
  \/ StartCannotIsolate(t) \/ StartPublishCmd(t)
  \/ StartCannotLaunch(t) \/ StartLaunch(t)
  \/ StartSeesSocket(t, ctxDone) \/ StartGivesUp(t, ctxDone)
  \/ StartPublishReady(t) \/ StartFail(t)

StopStep(t) ==
  \/ StopRedundant(t) \/ StopClaim(t) \/ StopCapture(t)
  \/ StopNothingToSignal(t) \/ StopSignal(t) \/ StopSeesExit(t)
  \/ StopRelease(t) \/ StopUnlink(t) \/ StopSettle(t)

-----------------------------------------------------------------------------
(* php-fpm itself, and the goroutines of os/exec that watch it.            *)

\* The master unlinks a stale socket file and listens; it refuses to when
\* another master is listening there, and exits.
MasterBinds(p) ==
  /\ proc[p] = "booting"
  /\ socket \in {Nothing, StaleFile}
  /\ proc' = [proc EXCEPT ![p] = "listening"]
  /\ socket' = p
  /\ UNCHANGED <<state, cmd, kill, cancelled, op, mine, nested, faults>>

MasterRefused(p) ==
  /\ proc[p] = "booting"
  /\ socket \in Masters
  /\ proc' = [proc EXCEPT ![p] = "dead"]
  /\ UNCHANGED <<state, cmd, kill, cancelled, socket, op, mine, nested, faults>>

\* SIGTERM ends a master.  A graceful exit removes the socket path by name; a
\* master killed before it installed its handlers leaves the file.
MasterTerminates(p) ==
  /\ proc[p] = "stopping"
  /\ proc' = [proc EXCEPT ![p] = "dead"]
  /\ socket' \in {SocketWithout(p), Nothing}
  /\ UNCHANGED <<state, cmd, kill, cancelled, op, mine, nested, faults>>

MasterCrashes(p) ==
  /\ Fault
  /\ proc[p] \in {"booting", "listening"}
  /\ proc' = [proc EXCEPT ![p] = "dead"]
  /\ socket' = SocketWithout(p)
  /\ UNCHANGED <<state, cmd, kill, cancelled, op, mine, nested>>

\* exec.CommandContext: a cancelled context kills a running child.
ContextKills(p) ==
  /\ p \in cancelled
  /\ proc[p] \in Running
  /\ proc' = [proc EXCEPT ![p] = "dead"]
  /\ socket' = SocketWithout(p)
  /\ UNCHANGED <<state, cmd, kill, cancelled, op, mine, nested, faults>>

\* The reaper goroutine: cmd.Wait returns, the exited channel is closed.
Reap(p) ==
  /\ proc[p] = "dead"
  /\ proc' = [proc EXCEPT ![p] = "reaped"]
  /\ UNCHANGED <<state, cmd, kill, cancelled, socket, op, mine, nested, faults>>

MasterStep(p) == MasterBinds(p) \/ MasterRefused(p) \/ MasterTerminates(p)
GatewayMinds(p) == ContextKills(p) \/ Reap(p)
=============================================================================
