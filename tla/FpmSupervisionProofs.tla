------------------------ MODULE FpmSupervisionProofs ------------------------
(***************************************************************************)
(* Proofs about FpmSupervision, for every number of processes, faults and  *)
(* restarts.                                                               *)
(*                                                                         *)
(* The inductive invariant has three parts.  CallsMatch says which part of *)
(* Start or Stop a goroutine can be in, given where its caller is.         *)
(* CircuitShut says the circuit is not open from the decision to restart   *)
(* until the restart is over.  OneChild says, for as long as the gateway   *)
(* has not been told to stop, what every step of Start and Stop knows of   *)
(* the child: it is what makes NoStrayChild and KillSwitchMatches          *)
(* inductive.  Reached goes on from there: once the gateway is being       *)
(* stopped, what both goroutines know of the child that ran when it was.   *)
(*                                                                         *)
(* The last two sections are about WatchdogCircuit, for every budget,      *)
(* window, cooldown and clock: the times implement the circuit the         *)
(* supervision uses, and when the cooldown is as long as the window the    *)
(* restarts in any window are at most twice the budget.                    *)
(***************************************************************************)
EXTENDS FpmSupervision, WatchdogCircuit, FiniteSetTheorems, TLAPS

InStart == StartSteps \cup StopSteps \cup {"startfailed", "ok", "err"}
InStop  == StopSteps \cup {"ok"}

\* A step that uses the goroutine's child has one.
LocalsSet ==
  \A t \in Threads :
    op[t] \in {"isolate", "launch", "await", "publish", "wait", "killed"} =>
      mine[t] \in Masters

Typed == TypeOK /\ LocalsSet

\* Stop nested in Start comes back to Start; any other Stop comes back to its
\* caller.
CallsMatch ==
  /\ main = "boot" => wd = "off" /\ op[Main] \in InStart
  /\ main = "stopping" => op[Main] \in InStop
  /\ main \notin {"boot", "stopping"} => op[Main] = "idle"
  /\ wd = "stopping" => op[Watchdog] \in InStop
  /\ wd = "starting" => op[Watchdog] \in InStart
  /\ wd \notin {"stopping", "starting"} => op[Watchdog] = "idle"
  /\ Main \in nested => main = "boot" /\ op[Main] \in StopSteps \cup {"startfailed"}
  /\ Watchdog \in nested =>
       wd = "starting" /\ op[Watchdog] \in StopSteps \cup {"startfailed"}
  /\ \A t \in Threads : op[t] = "startfailed" => t \in nested
  /\ main = "boot" /\ op[Main] \in StopSteps => Main \in nested
  /\ wd = "starting" /\ op[Watchdog] \in StopSteps => Watchdog \in nested
  /\ main = "exited" => wd \in {"off", "done"}

CircuitShut ==
  /\ circuit = "open" => wd \notin {"admit", "backoff", "stopping", "starting"}
  /\ main = "boot" => circuit = "closed"

\* What goroutine t, the only one inside the supervisor, knows of the child.
Knows(t) ==
  /\ op[t] \in {"start", "prepare", "isolate", "launch"} => Alive = {}
  /\ op[t] \in {"prepare", "isolate", "launch", "await", "publish"} => state = "starting"
  /\ op[t] \in {"isolate", "launch", "await", "publish"} =>
       kill = mine[t]
  /\ op[t] \in {"launch", "await", "publish"} => cmd = mine[t]
  /\ op[t] \in {"await", "publish"} => proc[mine[t]] # "none"
  /\ op[t] \in StopSteps \ {"stop"} => state = "stopping"
  /\ op[t] \in {"signal", "wait", "killed"} => mine[t] = cmd
  /\ op[t] \in {"release", "unlink", "settle"} => Alive = {}

OneChild ==
  Unstopped =>
    /\ Alive \subseteq {cmd}
    /\ state \in {"stopped", "absent"} => Alive = {}
    /\ state = "ready" => cmd \in Masters /\ kill = cmd /\ proc[cmd] # "none"
    /\ wd = "stopping" /\ op[Watchdog] = "ok" => Alive = {}
    /\ \A t \in Threads : Knows(t)

IInv == Typed /\ CallsMatch /\ CircuitShut /\ OneChild
-----------------------------------------------------------------------------
\* A step of Start, Stop or of one of their callers keeps every call where its
\* caller expects it.
LEMMA CallsStep == TypeOK /\ CallsMatch /\ [Next]_vars => CallsMatch'
<1> SUFFICES ASSUME TypeOK, CallsMatch, [Next]_vars PROVE CallsMatch'
  OBVIOUS
<1> USE SupervisorAssumption, SupervisionAssumption DEF CallsMatch, TypeOK,
     SupervisorTypeOK, InStart, InStop, StartSteps, StopSteps, Idle, WdGoto, Goto,
     Return, callers, AfterStop
<1>1. ASSUME NEW t \in Threads, StartRedundant(t), UNCHANGED callers PROVE CallsMatch'
  BY <1>1 DEF StartRedundant
<1>2. ASSUME NEW t \in Threads, StartClaim(t), UNCHANGED callers PROVE CallsMatch'
  BY <1>2 DEF StartClaim
<1>3. ASSUME NEW t \in Threads, StartCannotPrepare(t), UNCHANGED callers PROVE
     CallsMatch'
  BY <1>3 DEF StartCannotPrepare
<1>4. ASSUME NEW t \in Threads, StartPrepare(t), UNCHANGED callers PROVE CallsMatch'
  BY <1>4 DEF StartPrepare
<1>5. ASSUME NEW t \in Threads, StartCannotIsolate(t), UNCHANGED callers PROVE
     CallsMatch'
  BY <1>5 DEF StartCannotIsolate
<1>6. ASSUME NEW t \in Threads, StartPublishCmd(t), UNCHANGED callers PROVE CallsMatch'
  BY <1>6 DEF StartPublishCmd
<1>7. ASSUME NEW t \in Threads, StartCannotLaunch(t), UNCHANGED callers PROVE
     CallsMatch'
  BY <1>7 DEF StartCannotLaunch
<1>8. ASSUME NEW t \in Threads, StartLaunch(t), UNCHANGED callers PROVE CallsMatch'
  BY <1>8 DEF StartLaunch
<1>9. ASSUME NEW t \in Threads, StartSeesSocket(t, CtxDone(t)), UNCHANGED callers PROVE
     CallsMatch'
  BY <1>9 DEF StartSeesSocket
<1>10. ASSUME NEW t \in Threads, StartGivesUp(t, CtxDone(t)), UNCHANGED callers PROVE
     CallsMatch'
  BY <1>10 DEF StartGivesUp
<1>11. ASSUME NEW t \in Threads, StartPublishReady(t), UNCHANGED callers PROVE
     CallsMatch'
  BY <1>11 DEF StartPublishReady
<1>12. ASSUME NEW t \in Threads, StartFail(t), UNCHANGED callers PROVE CallsMatch'
  BY <1>12 DEF StartFail
<1>13. ASSUME NEW t \in Threads, StopRedundant(t), UNCHANGED callers PROVE CallsMatch'
  BY <1>13 DEF StopRedundant
<1>14. ASSUME NEW t \in Threads, StopClaim(t), UNCHANGED callers PROVE CallsMatch'
  BY <1>14 DEF StopClaim
<1>15. ASSUME NEW t \in Threads, StopCapture(t), UNCHANGED callers PROVE CallsMatch'
  BY <1>15 DEF StopCapture
<1>16. ASSUME NEW t \in Threads, StopNothingToSignal(t), UNCHANGED callers PROVE
     CallsMatch'
  BY <1>16 DEF StopNothingToSignal
<1>17. ASSUME NEW t \in Threads, StopSignal(t), UNCHANGED callers PROVE CallsMatch'
  BY <1>17 DEF StopSignal
<1>18. ASSUME NEW t \in Threads, StopSeesExit(t), UNCHANGED callers PROVE CallsMatch'
  BY <1>18 DEF StopSeesExit
<1>19. ASSUME NEW t \in Threads, StopRelease(t), UNCHANGED callers PROVE CallsMatch'
  BY <1>19 DEF StopRelease
<1>20. ASSUME NEW t \in Threads, StopUnlink(t), UNCHANGED callers PROVE CallsMatch'
  BY <1>20 DEF StopUnlink
<1>21. ASSUME NEW t \in Threads, StopSettle(t), UNCHANGED callers PROVE CallsMatch'
  BY <1>21 DEF StopSettle
<1>22. ASSUME NEW t \in Threads, Call(t) PROVE CallsMatch'
  BY <1>22, <1>1, <1>2, <1>3, <1>4, <1>5, <1>6, <1>7, <1>8, <1>9, <1>10, <1>11, <1>12,
       <1>13, <1>14, <1>15, <1>16, <1>17, <1>18, <1>19, <1>20, <1>21 DEF Call,
       StartStep, StopStep
<1>23. CASE WdStopDeadline
  BY <1>23 DEF WdStopDeadline, StopDeadline
<1>24. CASE MainServes
  BY <1>24 DEF MainServes
<1>25. CASE MainStopped
  BY <1>25 DEF MainStopped
<1>26. CASE MainCancels
  BY <1>26 DEF MainCancels
<1>27. CASE MainExits
  BY <1>27 DEF MainExits
<1>28. CASE MainStops
  BY <1>28 DEF MainStops
<1>29. CASE WdQuit
  BY <1>29 DEF WdQuit
<1>30. CASE WdTick
  BY <1>30 DEF WdTick
<1>31. CASE WdHealth
  BY <1>31 DEF WdHealth
<1>32. CASE WdHealthy
  BY <1>32 DEF WdHealthy
<1>33. CASE WdUnhealthy
  BY <1>33 DEF WdUnhealthy
<1>34. CASE WdDecide
  BY <1>34 DEF WdDecide
<1>35. CASE WdAdmit
  BY <1>35 DEF WdAdmit
<1>36. CASE WdBackoffCancelled
  BY <1>36 DEF WdBackoffCancelled
<1>37. CASE WdBackoffOver
  BY <1>37 DEF WdBackoffOver
<1>38. CASE WdStopped
  BY <1>38 DEF WdStopped
<1>39. CASE WdStarted
  BY <1>39 DEF WdStarted
<1>40. CASE RestartAges
  BY <1>40 DEF RestartAges
<1>41. CASE CooldownEnds
  BY <1>41 DEF CooldownEnds
<1>42. ASSUME NEW p \in Masters, MasterBinds(p), UNCHANGED callers PROVE CallsMatch'
  BY <1>42 DEF MasterBinds
<1>43. ASSUME NEW p \in Masters, MasterRefused(p), UNCHANGED callers PROVE CallsMatch'
  BY <1>43 DEF MasterRefused
<1>44. ASSUME NEW p \in Masters, MasterTerminates(p), UNCHANGED callers PROVE
     CallsMatch'
  BY <1>44 DEF MasterTerminates
<1>45. ASSUME NEW p \in Masters, ContextKills(p), UNCHANGED callers PROVE CallsMatch'
  BY <1>45 DEF ContextKills
<1>46. ASSUME NEW p \in Masters, Reap(p), UNCHANGED callers PROVE CallsMatch'
  BY <1>46 DEF Reap
<1>47. ASSUME NEW p \in Masters, MasterCrashes(p), UNCHANGED callers PROVE CallsMatch'
  BY <1>47 DEF MasterCrashes
<1>48. CASE UNCHANGED vars
  BY <1>48 DEF vars
<1>49. CASE MainStep
  BY <1>49, <1>24, <1>25, <1>26, <1>27 DEF MainStep
<1>50. CASE WdStep
  BY <1>50, <1>29, <1>30, <1>31, <1>32, <1>33, <1>34, <1>35, <1>36, <1>37, <1>38, <1>39
       DEF WdStep
<1>51. ASSUME NEW p \in Masters, Child(p) \/ Crash(p) PROVE CallsMatch'
  BY <1>51, <1>42, <1>43, <1>44, <1>45, <1>46, <1>47 DEF Child, Crash, MasterStep,
       GatewayMinds
<1>52. QED
  BY <1>22, <1>23, <1>28, <1>40, <1>41, <1>48, <1>49, <1>50, <1>51 DEF Next

\* Every step keeps the variables in their types.
LEMMA TypeStep == Typed /\ CallsMatch /\ [Next]_vars => Typed'
<1> SUFFICES ASSUME Typed, CallsMatch, [Next]_vars PROVE Typed'
  OBVIOUS
<1>0. condemned' \in SUBSET Masters
  BY DEF Typed, TypeOK, Next, Call, WdStopDeadline, Child, Crash, Outlive, Alive,
         MainStep, MainServes, MainStopped, MainCancels, MainExits, MainStops, WdStep,
         WdQuit, WdTick, WdHealth, WdHealthy, WdUnhealthy, WdDecide, WdAdmit,
         WdBackoffCancelled, WdBackoffOver, WdStopped, WdStarted, RestartAges,
         CooldownEnds, vars
<1> USE <1>0
<1> USE SupervisorAssumption, SupervisionAssumption DEF Typed, TypeOK, SupervisorTypeOK,
     LocalsSet, States, ProcStates, Steps, StartSteps, StopSteps, Idle, MainSteps,
     WdSteps, WdGoto, Goto, Return, Fault, callers, SocketWithout, Fresh, AfterStop
<1>1. ASSUME NEW t \in Threads, StartRedundant(t), UNCHANGED callers PROVE Typed'
  BY <1>1 DEF StartRedundant
<1>2. ASSUME NEW t \in Threads, StartClaim(t), UNCHANGED callers PROVE Typed'
  BY <1>2 DEF StartClaim
<1>3. ASSUME NEW t \in Threads, StartCannotPrepare(t), UNCHANGED callers PROVE Typed'
  BY <1>3 DEF StartCannotPrepare
<1>4. ASSUME NEW t \in Threads, StartPrepare(t), UNCHANGED callers PROVE Typed'
  BY <1>4 DEF StartPrepare
<1>5. ASSUME NEW t \in Threads, StartCannotIsolate(t), UNCHANGED callers PROVE Typed'
  BY <1>5 DEF StartCannotIsolate
<1>6. ASSUME NEW t \in Threads, StartPublishCmd(t), UNCHANGED callers PROVE Typed'
  BY <1>6 DEF StartPublishCmd
<1>7. ASSUME NEW t \in Threads, StartCannotLaunch(t), UNCHANGED callers PROVE Typed'
  BY <1>7 DEF StartCannotLaunch
<1>8. ASSUME NEW t \in Threads, StartLaunch(t), UNCHANGED callers PROVE Typed'
  BY <1>8 DEF StartLaunch
<1>9. ASSUME NEW t \in Threads, StartSeesSocket(t, CtxDone(t)), UNCHANGED callers PROVE
     Typed'
  BY <1>9 DEF StartSeesSocket
<1>10. ASSUME NEW t \in Threads, StartGivesUp(t, CtxDone(t)), UNCHANGED callers PROVE
     Typed'
  BY <1>10 DEF StartGivesUp
<1>11. ASSUME NEW t \in Threads, StartPublishReady(t), UNCHANGED callers PROVE Typed'
  BY <1>11 DEF StartPublishReady
<1>12. ASSUME NEW t \in Threads, StartFail(t), UNCHANGED callers PROVE Typed'
  BY <1>12 DEF StartFail
<1>13. ASSUME NEW t \in Threads, StopRedundant(t), UNCHANGED callers PROVE Typed'
  BY <1>13 DEF StopRedundant
<1>14. ASSUME NEW t \in Threads, StopClaim(t), UNCHANGED callers PROVE Typed'
  BY <1>14 DEF StopClaim
<1>15. ASSUME NEW t \in Threads, StopCapture(t), UNCHANGED callers PROVE Typed'
  BY <1>15 DEF StopCapture
<1>16. ASSUME NEW t \in Threads, StopNothingToSignal(t), UNCHANGED callers PROVE Typed'
  BY <1>16 DEF StopNothingToSignal
<1>17. ASSUME NEW t \in Threads, StopSignal(t), UNCHANGED callers PROVE Typed'
  BY <1>17 DEF StopSignal
<1>18. ASSUME NEW t \in Threads, StopSeesExit(t), UNCHANGED callers PROVE Typed'
  BY <1>18 DEF StopSeesExit
<1>19. ASSUME NEW t \in Threads, StopRelease(t), UNCHANGED callers PROVE Typed'
  BY <1>19 DEF StopRelease
<1>20. ASSUME NEW t \in Threads, StopUnlink(t), UNCHANGED callers PROVE Typed'
  BY <1>20 DEF StopUnlink
<1>21. ASSUME NEW t \in Threads, StopSettle(t), UNCHANGED callers PROVE Typed'
  BY <1>21 DEF StopSettle
<1>22. ASSUME NEW t \in Threads, Call(t) PROVE Typed'
  BY <1>22, <1>1, <1>2, <1>3, <1>4, <1>5, <1>6, <1>7, <1>8, <1>9, <1>10, <1>11, <1>12,
       <1>13, <1>14, <1>15, <1>16, <1>17, <1>18, <1>19, <1>20, <1>21 DEF Call,
       StartStep, StopStep
<1>23. CASE WdStopDeadline
  BY <1>23 DEF WdStopDeadline, StopDeadline
<1>24. CASE MainServes
  BY <1>24 DEF MainServes
<1>25. CASE MainStopped
  BY <1>25 DEF MainStopped
<1>26. CASE MainCancels
  BY <1>26 DEF MainCancels
<1>27. CASE MainExits
  BY <1>27 DEF MainExits
<1>28. CASE MainStops
  BY <1>28 DEF MainStops
<1>29. CASE WdQuit
  BY <1>29 DEF WdQuit
<1>30. CASE WdTick
  BY <1>30 DEF WdTick
<1>31. CASE WdHealth
  BY <1>31 DEF WdHealth, CallsMatch
<1>32. CASE WdHealthy
  BY <1>32 DEF WdHealthy, CallsMatch
<1>33. CASE WdUnhealthy
  BY <1>33 DEF WdUnhealthy, CallsMatch
<1>34. CASE WdDecide
  BY <1>34 DEF WdDecide
<1>35. CASE WdAdmit
  BY <1>35 DEF WdAdmit
<1>36. CASE WdBackoffCancelled
  BY <1>36 DEF WdBackoffCancelled
<1>37. CASE WdBackoffOver
  BY <1>37 DEF WdBackoffOver
<1>38. CASE WdStopped
  BY <1>38 DEF WdStopped
<1>39. CASE WdStarted
  BY <1>39 DEF WdStarted
<1>40. CASE RestartAges
  BY <1>40 DEF RestartAges
<1>41. CASE CooldownEnds
  BY <1>41 DEF CooldownEnds
<1>42. ASSUME NEW p \in Masters, MasterBinds(p), UNCHANGED callers PROVE Typed'
  BY <1>42 DEF MasterBinds
<1>43. ASSUME NEW p \in Masters, MasterRefused(p), UNCHANGED callers PROVE Typed'
  BY <1>43 DEF MasterRefused
<1>44. ASSUME NEW p \in Masters, MasterTerminates(p), UNCHANGED callers PROVE Typed'
  BY <1>44 DEF MasterTerminates
<1>45. ASSUME NEW p \in Masters, ContextKills(p), UNCHANGED callers PROVE Typed'
  BY <1>45 DEF ContextKills
<1>46. ASSUME NEW p \in Masters, Reap(p), UNCHANGED callers PROVE Typed'
  BY <1>46 DEF Reap
<1>47. ASSUME NEW p \in Masters, MasterCrashes(p), UNCHANGED callers PROVE Typed'
  BY <1>47 DEF MasterCrashes
<1>48. CASE UNCHANGED vars
  BY <1>48 DEF vars
<1>49. CASE MainStep
  BY <1>49, <1>24, <1>25, <1>26, <1>27 DEF MainStep
<1>50. CASE WdStep
  BY <1>50, <1>29, <1>30, <1>31, <1>32, <1>33, <1>34, <1>35, <1>36, <1>37, <1>38, <1>39
       DEF WdStep
<1>51. ASSUME NEW p \in Masters, Child(p) \/ Crash(p) PROVE Typed'
  BY <1>51, <1>42, <1>43, <1>44, <1>45, <1>46, <1>47 DEF Child, Crash, MasterStep,
       GatewayMinds
<1>52. QED
  BY <1>22, <1>23, <1>28, <1>40, <1>41, <1>48, <1>49, <1>50, <1>51 DEF Next

\* runServe starts in the types, with no call but its own Start under way.
LEMMA InitTyped == Init => Typed /\ CallsMatch
<1> SUFFICES ASSUME Init PROVE Typed /\ CallsMatch
  OBVIOUS
<1> USE SupervisorAssumption, SupervisionAssumption DEF Init
<1>1. op \in [Threads -> Steps \cup Idle] /\ LocalsSet
  BY DEF Steps, StartSteps, Idle, LocalsSet
<1>2. proc \in [Masters -> ProcStates] /\ mine \in [Threads -> Masters \cup {Nothing}]
  BY DEF ProcStates
<1>3. state \in States /\ main \in MainSteps /\ wd \in WdSteps
  BY DEF States, MainSteps, WdSteps
<1>4. cmd \in Masters \cup {Nothing} /\ kill \in Masters \cup {Nothing}
  OBVIOUS
<1>5. socket \in Masters \cup {Nothing, StaleFile}
  OBVIOUS
<1>6. cancelled \in SUBSET Masters /\ nested \in SUBSET Threads
  OBVIOUS
<1>7. faults \in 0..MaxFaults /\ recent \in 0..MaxRestarts
  OBVIOUS
<1>8. rootDone \in BOOLEAN /\ circuit \in {"closed", "open", "expired"}
        /\ condemned \in SUBSET Masters
  OBVIOUS
<1>9. CallsMatch
  BY DEF CallsMatch, InStart, StartSteps, StopSteps
<1> HIDE DEF Init
<1>10. QED
  BY <1>1, <1>2, <1>3, <1>4, <1>5, <1>6, <1>7, <1>8, <1>9
     DEF Typed, TypeOK, SupervisorTypeOK

\* Every variable keeps its type.
THEOREM TypeCorrect == Spec => []TypeOK
<1>1. Typed => TypeOK
  BY DEF Typed
<1>2. QED
  BY <1>1, InitTyped, TypeStep, CallsStep, PTL DEF Spec

\* The watchdog is in a restart only while the circuit is shut.
LEMMA CircuitStep == TypeOK /\ CallsMatch /\ CircuitShut /\ [Next]_vars => CircuitShut'
<1> SUFFICES ASSUME TypeOK, CallsMatch, CircuitShut, [Next]_vars PROVE CircuitShut'
  OBVIOUS
<1> USE SupervisionAssumption DEF CircuitShut, CallsMatch, WdGoto, callers, TypeOK
<1>1. CASE UNCHANGED callers
  BY <1>1
<1>2. CASE MainStep \/ MainStops
  BY <1>2 DEF MainStep, MainServes, MainStopped, MainCancels, MainExits, MainStops
<1>3. CASE WdQuit \/ WdTick \/ WdHealth \/ WdUnhealthy
  BY <1>3 DEF WdQuit, WdTick, WdHealth, WdUnhealthy
<1>4. CASE WdHealthy
  BY <1>4 DEF WdHealthy
<1>5. CASE WdDecide
  BY <1>5 DEF WdDecide
<1>6. CASE WdAdmit
  BY <1>6 DEF WdAdmit
<1>7. CASE WdBackoffCancelled \/ WdBackoffOver \/ WdStopped \/ WdStarted
  BY <1>7 DEF WdBackoffCancelled, WdBackoffOver, WdStopped, WdStarted
<1>8. CASE RestartAges \/ CooldownEnds
  BY <1>8 DEF RestartAges, CooldownEnds
<1>9. QED
  BY <1>1, <1>2, <1>3, <1>4, <1>5, <1>6, <1>7, <1>8
     DEF Next, WdStep, WdStopDeadline, Call, Child, Crash, vars

\* No step makes a second php-fpm while the gateway is not being stopped.
LEMMA ChildStep == Typed /\ CallsMatch /\ OneChild /\ [Next]_vars => OneChild'
<1> SUFFICES ASSUME Typed, CallsMatch, OneChild, [Next]_vars PROVE OneChild'
  OBVIOUS
<1> USE SupervisorAssumption, SupervisionAssumption DEF OneChild, Knows, Unstopped,
     Alive, Running, CallsMatch, InStart, InStop, StartSteps, StopSteps, Idle, Typed,
     TypeOK, LocalsSet, SupervisorTypeOK, WdGoto, Goto, Return, callers, AfterStop,
     Fresh
<1>1. ASSUME NEW t \in Threads, StartRedundant(t), UNCHANGED callers PROVE OneChild'
  BY <1>1 DEF StartRedundant
<1>2. ASSUME NEW t \in Threads, StartClaim(t), UNCHANGED callers PROVE OneChild'
  BY <1>2 DEF StartClaim
<1>3. ASSUME NEW t \in Threads, StartCannotPrepare(t), UNCHANGED callers PROVE OneChild'
  BY <1>3 DEF StartCannotPrepare
<1>4. ASSUME NEW t \in Threads, StartPrepare(t), UNCHANGED callers PROVE OneChild'
  BY <1>4 DEF StartPrepare
<1>5. ASSUME NEW t \in Threads, StartCannotIsolate(t), UNCHANGED callers PROVE OneChild'
  BY <1>5 DEF StartCannotIsolate
<1>6. ASSUME NEW t \in Threads, StartPublishCmd(t), UNCHANGED callers PROVE OneChild'
  BY <1>6 DEF StartPublishCmd
<1>7. ASSUME NEW t \in Threads, StartCannotLaunch(t), UNCHANGED callers PROVE OneChild'
  BY <1>7 DEF StartCannotLaunch
<1>8. ASSUME NEW t \in Threads, StartLaunch(t), UNCHANGED callers PROVE OneChild'
  BY <1>8 DEF StartLaunch
<1>9. ASSUME NEW t \in Threads, StartSeesSocket(t, CtxDone(t)), UNCHANGED callers PROVE
     OneChild'
  BY <1>9 DEF StartSeesSocket
<1>10. ASSUME NEW t \in Threads, StartGivesUp(t, CtxDone(t)), UNCHANGED callers PROVE
     OneChild'
  BY <1>10 DEF StartGivesUp
<1>11. ASSUME NEW t \in Threads, StartPublishReady(t), UNCHANGED callers PROVE OneChild'
  BY <1>11 DEF StartPublishReady
<1>12. ASSUME NEW t \in Threads, StartFail(t), UNCHANGED callers PROVE OneChild'
  BY <1>12 DEF StartFail
<1>13. ASSUME NEW t \in Threads, StopRedundant(t), UNCHANGED callers PROVE OneChild'
  BY <1>13 DEF StopRedundant
<1>14. ASSUME NEW t \in Threads, StopClaim(t), UNCHANGED callers PROVE OneChild'
  BY <1>14 DEF StopClaim
<1>15. ASSUME NEW t \in Threads, StopCapture(t), UNCHANGED callers PROVE OneChild'
  BY <1>15 DEF StopCapture
<1>16. ASSUME NEW t \in Threads, StopNothingToSignal(t), UNCHANGED callers PROVE
     OneChild'
  BY <1>16 DEF StopNothingToSignal
<1>17. ASSUME NEW t \in Threads, StopSignal(t), UNCHANGED callers PROVE OneChild'
  BY <1>17 DEF StopSignal
<1>18. ASSUME NEW t \in Threads, StopSeesExit(t), UNCHANGED callers PROVE OneChild'
  BY <1>18 DEF StopSeesExit
<1>19. ASSUME NEW t \in Threads, StopRelease(t), UNCHANGED callers PROVE OneChild'
  BY <1>19 DEF StopRelease
<1>20. ASSUME NEW t \in Threads, StopUnlink(t), UNCHANGED callers PROVE OneChild'
  BY <1>20 DEF StopUnlink
<1>21. ASSUME NEW t \in Threads, StopSettle(t), UNCHANGED callers PROVE OneChild'
  BY <1>21 DEF StopSettle
<1>22. ASSUME NEW t \in Threads, Call(t) PROVE OneChild'
  BY <1>22, <1>1, <1>2, <1>3, <1>4, <1>5, <1>6, <1>7, <1>8, <1>9, <1>10, <1>11, <1>12,
       <1>13, <1>14, <1>15, <1>16, <1>17, <1>18, <1>19, <1>20, <1>21 DEF Call,
       StartStep, StopStep
<1>23. CASE WdStopDeadline
  BY <1>23 DEF WdStopDeadline, StopDeadline
<1>24. CASE MainServes
  BY <1>24 DEF MainServes
<1>25. CASE MainStopped
  BY <1>25 DEF MainStopped
<1>26. CASE MainCancels
  BY <1>26 DEF MainCancels
<1>27. CASE MainExits
  BY <1>27 DEF MainExits
<1>28. CASE MainStops
  BY <1>28 DEF MainStops
<1>29. CASE WdQuit
  BY <1>29 DEF WdQuit
<1>30. CASE WdTick
  BY <1>30 DEF WdTick
<1>31. CASE WdHealth
  BY <1>31 DEF WdHealth
<1>32. CASE WdHealthy
  BY <1>32 DEF WdHealthy
<1>33. CASE WdUnhealthy
  BY <1>33 DEF WdUnhealthy
<1>34. CASE WdDecide
  BY <1>34 DEF WdDecide
<1>35. CASE WdAdmit
  BY <1>35 DEF WdAdmit
<1>36. CASE WdBackoffCancelled
  BY <1>36 DEF WdBackoffCancelled
<1>37. CASE WdBackoffOver
  BY <1>37 DEF WdBackoffOver
<1>38. CASE WdStopped
  BY <1>38 DEF WdStopped
<1>39. CASE WdStarted
  BY <1>39 DEF WdStarted
<1>40. CASE RestartAges
  BY <1>40 DEF RestartAges
<1>41. CASE CooldownEnds
  BY <1>41 DEF CooldownEnds
<1>42. ASSUME NEW p \in Masters, MasterBinds(p), UNCHANGED callers PROVE OneChild'
  BY <1>42 DEF MasterBinds
<1>43. ASSUME NEW p \in Masters, MasterRefused(p), UNCHANGED callers PROVE OneChild'
  BY <1>43 DEF MasterRefused
<1>44. ASSUME NEW p \in Masters, MasterTerminates(p), UNCHANGED callers PROVE OneChild'
  BY <1>44 DEF MasterTerminates
<1>45. ASSUME NEW p \in Masters, ContextKills(p), UNCHANGED callers PROVE OneChild'
  BY <1>45 DEF ContextKills
<1>46. ASSUME NEW p \in Masters, Reap(p), UNCHANGED callers PROVE OneChild'
  BY <1>46 DEF Reap
<1>47. ASSUME NEW p \in Masters, MasterCrashes(p), UNCHANGED callers PROVE OneChild'
  BY <1>47 DEF MasterCrashes
<1>48. CASE UNCHANGED vars
  BY <1>48 DEF vars
<1>49. CASE MainStep
  BY <1>49, <1>24, <1>25, <1>26, <1>27 DEF MainStep
<1>50. CASE WdStep
  BY <1>50, <1>29, <1>30, <1>31, <1>32, <1>33, <1>34, <1>35, <1>36, <1>37, <1>38, <1>39
       DEF WdStep
<1>51. ASSUME NEW p \in Masters, Child(p) \/ Crash(p) PROVE OneChild'
  BY <1>51, <1>42, <1>43, <1>44, <1>45, <1>46, <1>47 DEF Child, Crash, MasterStep,
       GatewayMinds
<1>52. QED
  BY <1>22, <1>23, <1>28, <1>40, <1>41, <1>48, <1>49, <1>50, <1>51 DEF Next

-----------------------------------------------------------------------------
\* The invariant holds of every reachable state.
THEOREM Inductive == Spec => []IInv
<1>1. Init => Typed /\ CallsMatch
  BY InitTyped
<1>2. Init => CircuitShut
  BY DEF Init, CircuitShut
<1>3. Init => OneChild
  BY SupervisionAssumption
     DEF Init, OneChild, Knows, Alive, Running, Unstopped, StartSteps, StopSteps
<1>4. IInv /\ [Next]_vars => IInv'
  BY TypeStep, CallsStep, CircuitStep, ChildStep DEF IInv, Typed
<1>5. QED
  BY <1>1, <1>2, <1>3, <1>4, PTL DEF Spec, IInv

\* Until the gateway is told to stop, Start and Stop, whatever fails in them, leave
\* no running php-fpm behind that s.cmd does not hold.
THEOREM NoStrayChildHolds == Spec => []NoStrayChild
<1>1. IInv => NoStrayChild
  BY DEF IInv, OneChild, NoStrayChild
<1>2. QED
  BY <1>1, Inductive, PTL

\* A ready supervisor's kill switch belongs to its child.
THEOREM KillSwitchHolds == Spec => []KillSwitchMatches
<1>1. IInv => KillSwitchMatches
  BY SupervisorAssumption DEF IInv, OneChild, KillSwitchMatches
<1>2. QED
  BY <1>1, Inductive, PTL

-----------------------------------------------------------------------------
\* A gateway whose Start failed serves without php-fpm, and without a watchdog.
NoPhp ==
  /\ main = "boot" /\ op[Main] \in {"startfailed", "err"} => Alive = {}
  /\ main = "serving" /\ wd = "off" => Alive = {}

\* While a master that ran when the gateway was told to stop runs on, it is the
\* one s.cmd holds: nobody has finished a Stop, a Start of the watchdog is past
\* replacing s.cmd or before it is called, and a Stop that has taken a child has
\* taken this one.
Reached ==
  /\ condemned \subseteq Alive \cap {cmd}
  /\ condemned # {} =>
       /\ main = "stopping"
       /\ state \notin {"stopped", "absent"}
       /\ op[Watchdog] \notin {"start", "prepare", "isolate"}
       /\ ~(wd = "stopping" /\ op[Watchdog] = "ok")
       /\ op[Main] # "ok"
       /\ \A t \in Threads :
            /\ op[t] \notin {"release", "unlink", "settle"}
            /\ op[t] \in {"signal", "wait", "killed"} => mine[t] = cmd

\* A Start that fails leaves no php-fpm, and only the watchdog starts another.
LEMMA NoPhpStep == Typed /\ CallsMatch /\ OneChild /\ NoPhp /\ [Next]_vars => NoPhp'
<1> SUFFICES ASSUME Typed, CallsMatch, OneChild, NoPhp, [Next]_vars PROVE NoPhp'
  OBVIOUS
<1> USE SupervisorAssumption, SupervisionAssumption DEF NoPhp, OneChild, Knows,
     Unstopped,
     Alive, Running, CallsMatch, InStart, InStop, StartSteps, StopSteps, Idle, Typed,
     TypeOK, LocalsSet, SupervisorTypeOK, WdGoto, Goto, Return, callers, AfterStop,
     Fresh
<1>1. ASSUME NEW t \in Threads, StartRedundant(t), UNCHANGED callers
     PROVE  NoPhp'
  BY <1>1 DEF StartRedundant
<1>2. ASSUME NEW t \in Threads, StartClaim(t), UNCHANGED callers
     PROVE  NoPhp'
  BY <1>2 DEF StartClaim
<1>3. ASSUME NEW t \in Threads, StartCannotPrepare(t), UNCHANGED callers
     PROVE  NoPhp'
  BY <1>3 DEF StartCannotPrepare
<1>4. ASSUME NEW t \in Threads, StartPrepare(t), UNCHANGED callers
     PROVE  NoPhp'
  BY <1>4 DEF StartPrepare
<1>5. ASSUME NEW t \in Threads, StartCannotIsolate(t), UNCHANGED callers
     PROVE  NoPhp'
  BY <1>5 DEF StartCannotIsolate
<1>6. ASSUME NEW t \in Threads, StartPublishCmd(t), UNCHANGED callers
     PROVE  NoPhp'
  BY <1>6 DEF StartPublishCmd
<1>7. ASSUME NEW t \in Threads, StartCannotLaunch(t), UNCHANGED callers
     PROVE  NoPhp'
  BY <1>7 DEF StartCannotLaunch
<1>8. ASSUME NEW t \in Threads, StartLaunch(t), UNCHANGED callers
     PROVE  NoPhp'
  BY <1>8 DEF StartLaunch
<1>9. ASSUME NEW t \in Threads, StartSeesSocket(t, CtxDone(t)), UNCHANGED callers
     PROVE  NoPhp'
  BY <1>9 DEF StartSeesSocket
<1>10. ASSUME NEW t \in Threads, StartGivesUp(t, CtxDone(t)), UNCHANGED callers
     PROVE  NoPhp'
  BY <1>10 DEF StartGivesUp
<1>11. ASSUME NEW t \in Threads, StartPublishReady(t), UNCHANGED callers
     PROVE  NoPhp'
  BY <1>11 DEF StartPublishReady
<1>12. ASSUME NEW t \in Threads, StartFail(t), UNCHANGED callers
     PROVE  NoPhp'
  BY <1>12 DEF StartFail
<1>13. ASSUME NEW t \in Threads, StopRedundant(t), UNCHANGED callers
     PROVE  NoPhp'
  BY <1>13 DEF StopRedundant
<1>14. ASSUME NEW t \in Threads, StopClaim(t), UNCHANGED callers
     PROVE  NoPhp'
  BY <1>14 DEF StopClaim
<1>15. ASSUME NEW t \in Threads, StopCapture(t), UNCHANGED callers
     PROVE  NoPhp'
  BY <1>15 DEF StopCapture
<1>16. ASSUME NEW t \in Threads, StopNothingToSignal(t), UNCHANGED callers
     PROVE  NoPhp'
  BY <1>16 DEF StopNothingToSignal
<1>17. ASSUME NEW t \in Threads, StopSignal(t), UNCHANGED callers
     PROVE  NoPhp'
  BY <1>17 DEF StopSignal
<1>18. ASSUME NEW t \in Threads, StopSeesExit(t), UNCHANGED callers
     PROVE  NoPhp'
  BY <1>18 DEF StopSeesExit
<1>19. ASSUME NEW t \in Threads, StopRelease(t), UNCHANGED callers
     PROVE  NoPhp'
  BY <1>19 DEF StopRelease
<1>20. ASSUME NEW t \in Threads, StopUnlink(t), UNCHANGED callers
     PROVE  NoPhp'
  BY <1>20 DEF StopUnlink
<1>21. ASSUME NEW t \in Threads, StopSettle(t), UNCHANGED callers
     PROVE  NoPhp'
  BY <1>21 DEF StopSettle
<1>22. ASSUME NEW t \in Threads, Call(t) PROVE NoPhp'
  BY <1>22, <1>1, <1>2, <1>3, <1>4, <1>5, <1>6, <1>7, <1>8, <1>9, <1>10, <1>11, <1>12,
     <1>13, <1>14, <1>15, <1>16, <1>17, <1>18, <1>19, <1>20, <1>21
     DEF Call, StartStep, StopStep
<1>23. CASE WdStopDeadline
  BY <1>23 DEF WdStopDeadline, StopDeadline
<1>24. CASE MainServes
  BY <1>24 DEF MainServes
<1>25. CASE MainStopped
  BY <1>25 DEF MainStopped
<1>26. CASE MainCancels
  BY <1>26 DEF MainCancels
<1>27. CASE MainExits
  BY <1>27 DEF MainExits
<1>28. CASE MainStops
  BY <1>28 DEF MainStops
<1>29. CASE WdQuit
  BY <1>29 DEF WdQuit
<1>30. CASE WdTick
  BY <1>30 DEF WdTick
<1>31. CASE WdHealth
  BY <1>31 DEF WdHealth
<1>32. CASE WdHealthy
  BY <1>32 DEF WdHealthy
<1>33. CASE WdUnhealthy
  BY <1>33 DEF WdUnhealthy
<1>34. CASE WdDecide
  BY <1>34 DEF WdDecide
<1>35. CASE WdAdmit
  BY <1>35 DEF WdAdmit
<1>36. CASE WdBackoffCancelled
  BY <1>36 DEF WdBackoffCancelled
<1>37. CASE WdBackoffOver
  BY <1>37 DEF WdBackoffOver
<1>38. CASE WdStopped
  BY <1>38 DEF WdStopped
<1>39. CASE WdStarted
  BY <1>39 DEF WdStarted
<1>40. CASE RestartAges
  BY <1>40 DEF RestartAges
<1>41. CASE CooldownEnds
  BY <1>41 DEF CooldownEnds
<1>42. ASSUME NEW p \in Masters, MasterBinds(p), UNCHANGED callers
     PROVE  NoPhp'
  BY <1>42 DEF MasterBinds
<1>43. ASSUME NEW p \in Masters, MasterRefused(p), UNCHANGED callers
     PROVE  NoPhp'
  BY <1>43 DEF MasterRefused
<1>44. ASSUME NEW p \in Masters, MasterTerminates(p), UNCHANGED callers
     PROVE  NoPhp'
  BY <1>44 DEF MasterTerminates
<1>45. ASSUME NEW p \in Masters, ContextKills(p), UNCHANGED callers
     PROVE  NoPhp'
  BY <1>45 DEF ContextKills
<1>46. ASSUME NEW p \in Masters, Reap(p), UNCHANGED callers
     PROVE  NoPhp'
  BY <1>46 DEF Reap
<1>47. ASSUME NEW p \in Masters, MasterCrashes(p), UNCHANGED callers
     PROVE  NoPhp'
  BY <1>47 DEF MasterCrashes
<1>48. ASSUME NEW p \in Masters, Child(p) \/ Crash(p) PROVE NoPhp'
  BY <1>48, <1>42, <1>43, <1>44, <1>45, <1>46, <1>47
     DEF Child, Crash, MasterStep, GatewayMinds
<1>49. CASE UNCHANGED vars
  BY <1>49 DEF vars
<1>50. QED
  BY <1>22, <1>23, <1>24, <1>25, <1>26, <1>27, <1>28, <1>29, <1>30, <1>31, <1>32,
     <1>33, <1>34, <1>35, <1>36, <1>37, <1>38, <1>39, <1>40, <1>41, <1>48, <1>49
     DEF Next, MainStep, WdStep

\* No step replaces or forgets the child while a condemned master runs on.
LEMMA ReachedStep == Typed /\ CallsMatch /\ OneChild /\ NoPhp /\ Reached /\
     [Next]_vars => Reached'
<1> SUFFICES ASSUME Typed, CallsMatch, OneChild, NoPhp, Reached, [Next]_vars PROVE
     Reached'
  OBVIOUS
<1> USE SupervisorAssumption, SupervisionAssumption DEF Reached, Unstopped,
     Alive, Running, CallsMatch, InStart, InStop, StartSteps, StopSteps, Idle, Typed,
     TypeOK, LocalsSet, SupervisorTypeOK, WdGoto, Goto, Return, callers, AfterStop,
     Fresh, Outlive
<1>1. ASSUME NEW t \in Threads, StartRedundant(t), UNCHANGED callers, Outlive
     PROVE  Reached'
  BY <1>1 DEF StartRedundant
<1>2. ASSUME NEW t \in Threads, StartClaim(t), UNCHANGED callers, Outlive
     PROVE  Reached'
  BY <1>2 DEF StartClaim
<1>3. ASSUME NEW t \in Threads, StartCannotPrepare(t), UNCHANGED callers, Outlive
     PROVE  Reached'
  BY <1>3 DEF StartCannotPrepare
<1>4. ASSUME NEW t \in Threads, StartPrepare(t), UNCHANGED callers, Outlive
     PROVE  Reached'
  BY <1>4 DEF StartPrepare
<1>5. ASSUME NEW t \in Threads, StartCannotIsolate(t), UNCHANGED callers, Outlive
     PROVE  Reached'
  BY <1>5 DEF StartCannotIsolate
<1>6. ASSUME NEW t \in Threads, StartPublishCmd(t), UNCHANGED callers, Outlive
     PROVE  Reached'
  BY <1>6 DEF StartPublishCmd
<1>7. ASSUME NEW t \in Threads, StartCannotLaunch(t), UNCHANGED callers, Outlive
     PROVE  Reached'
  BY <1>7 DEF StartCannotLaunch
<1>8. ASSUME NEW t \in Threads, StartLaunch(t), UNCHANGED callers, Outlive
     PROVE  Reached'
  BY <1>8 DEF StartLaunch
<1>9. ASSUME NEW t \in Threads, StartSeesSocket(t, CtxDone(t)), UNCHANGED callers,
     Outlive
     PROVE  Reached'
  BY <1>9 DEF StartSeesSocket
<1>10. ASSUME NEW t \in Threads, StartGivesUp(t, CtxDone(t)), UNCHANGED callers, Outlive
     PROVE  Reached'
  BY <1>10 DEF StartGivesUp
<1>11. ASSUME NEW t \in Threads, StartPublishReady(t), UNCHANGED callers, Outlive
     PROVE  Reached'
  BY <1>11 DEF StartPublishReady
<1>12. ASSUME NEW t \in Threads, StartFail(t), UNCHANGED callers, Outlive
     PROVE  Reached'
  BY <1>12 DEF StartFail
<1>13. ASSUME NEW t \in Threads, StopRedundant(t), UNCHANGED callers, Outlive
     PROVE  Reached'
  BY <1>13 DEF StopRedundant
<1>14. ASSUME NEW t \in Threads, StopClaim(t), UNCHANGED callers, Outlive
     PROVE  Reached'
  BY <1>14 DEF StopClaim
<1>15. ASSUME NEW t \in Threads, StopCapture(t), UNCHANGED callers, Outlive
     PROVE  Reached'
  BY <1>15 DEF StopCapture
<1>16. ASSUME NEW t \in Threads, StopNothingToSignal(t), UNCHANGED callers, Outlive
     PROVE  Reached'
  BY <1>16 DEF StopNothingToSignal
<1>17. ASSUME NEW t \in Threads, StopSignal(t), UNCHANGED callers, Outlive
     PROVE  Reached'
  BY <1>17 DEF StopSignal
<1>18. ASSUME NEW t \in Threads, StopSeesExit(t), UNCHANGED callers, Outlive
     PROVE  Reached'
  BY <1>18 DEF StopSeesExit
<1>19. ASSUME NEW t \in Threads, StopRelease(t), UNCHANGED callers, Outlive
     PROVE  Reached'
  BY <1>19 DEF StopRelease
<1>20. ASSUME NEW t \in Threads, StopUnlink(t), UNCHANGED callers, Outlive
     PROVE  Reached'
  BY <1>20 DEF StopUnlink
<1>21. ASSUME NEW t \in Threads, StopSettle(t), UNCHANGED callers, Outlive
     PROVE  Reached'
  BY <1>21 DEF StopSettle
<1>22. ASSUME NEW t \in Threads, Call(t) PROVE Reached'
  BY <1>22, <1>1, <1>2, <1>3, <1>4, <1>5, <1>6, <1>7, <1>8, <1>9, <1>10, <1>11, <1>12,
     <1>13, <1>14, <1>15, <1>16, <1>17, <1>18, <1>19, <1>20, <1>21
     DEF Call, StartStep, StopStep
<1>23. CASE WdStopDeadline
  BY <1>23 DEF WdStopDeadline, StopDeadline
<1>24. CASE MainServes
  BY <1>24 DEF MainServes
<1>25. CASE MainStopped
  BY <1>25 DEF MainStopped
<1>26. CASE MainCancels
  BY <1>26 DEF MainCancels
<1>27. CASE MainExits
  BY <1>27 DEF MainExits
<1>28. CASE MainStops
  <2>1. Alive \subseteq {cmd} /\ (state \in {"stopped", "absent"} => Alive = {})
    BY <1>28 DEF MainStops, OneChild
  <2>2. wd = "off" => Alive = {}
    BY <1>28 DEF MainStops, NoPhp
  <2>3. Alive # {} => op[Watchdog] \notin {"start", "prepare", "isolate", "release",
                                           "unlink", "settle"}
    BY <1>28 DEF MainStops, OneChild, Knows
  <2>4. op[Watchdog] \in {"signal", "wait", "killed"} => mine[Watchdog] = cmd
    BY <1>28 DEF MainStops, OneChild, Knows
  <2>5. wd = "stopping" /\ op[Watchdog] = "ok" => Alive = {}
    BY <1>28 DEF MainStops, OneChild
  <2>6. /\ main = "serving" /\ op[Main] = "idle" /\ condemned' = Alive /\ Alive' = Alive
        /\ UNCHANGED <<state, cmd, mine, wd>>
        /\ op' = [op EXCEPT ![Main] = IF wd = "off" THEN @ ELSE "stop"]
        /\ main' = IF wd = "off" THEN "cancelling" ELSE "stopping"
    BY <1>28 DEF MainStops
  <2>7. QED
    BY <2>1, <2>2, <2>3, <2>4, <2>5, <2>6
<1>29. CASE WdQuit
  BY <1>29 DEF WdQuit
<1>30. CASE WdTick
  BY <1>30 DEF WdTick
<1>31. CASE WdHealth
  BY <1>31 DEF WdHealth
<1>32. CASE WdHealthy
  BY <1>32 DEF WdHealthy
<1>33. CASE WdUnhealthy
  BY <1>33 DEF WdUnhealthy
<1>34. CASE WdDecide
  BY <1>34 DEF WdDecide
<1>35. CASE WdAdmit
  BY <1>35 DEF WdAdmit
<1>36. CASE WdBackoffCancelled
  BY <1>36 DEF WdBackoffCancelled
<1>37. CASE WdBackoffOver
  BY <1>37 DEF WdBackoffOver
<1>38. CASE WdStopped
  BY <1>38 DEF WdStopped
<1>39. CASE WdStarted
  BY <1>39 DEF WdStarted
<1>40. CASE RestartAges
  BY <1>40 DEF RestartAges
<1>41. CASE CooldownEnds
  BY <1>41 DEF CooldownEnds
<1>42. ASSUME NEW p \in Masters, MasterBinds(p), UNCHANGED callers, Outlive
     PROVE  Reached'
  BY <1>42 DEF MasterBinds
<1>43. ASSUME NEW p \in Masters, MasterRefused(p), UNCHANGED callers, Outlive
     PROVE  Reached'
  BY <1>43 DEF MasterRefused
<1>44. ASSUME NEW p \in Masters, MasterTerminates(p), UNCHANGED callers, Outlive
     PROVE  Reached'
  BY <1>44 DEF MasterTerminates
<1>45. ASSUME NEW p \in Masters, ContextKills(p), UNCHANGED callers, Outlive
     PROVE  Reached'
  BY <1>45 DEF ContextKills
<1>46. ASSUME NEW p \in Masters, Reap(p), UNCHANGED callers, Outlive
     PROVE  Reached'
  BY <1>46 DEF Reap
<1>47. ASSUME NEW p \in Masters, MasterCrashes(p), UNCHANGED callers, Outlive
     PROVE  Reached'
  BY <1>47 DEF MasterCrashes
<1>48. ASSUME NEW p \in Masters, Child(p) \/ Crash(p) PROVE Reached'
  BY <1>48, <1>42, <1>43, <1>44, <1>45, <1>46, <1>47
     DEF Child, Crash, MasterStep, GatewayMinds
<1>49. CASE UNCHANGED vars
  BY <1>49 DEF vars
<1>50. QED
  BY <1>22, <1>23, <1>24, <1>25, <1>26, <1>27, <1>28, <1>29, <1>30, <1>31, <1>32,
     <1>33, <1>34, <1>35, <1>36, <1>37, <1>38, <1>39, <1>40, <1>41, <1>48, <1>49
     DEF Next, MainStep, WdStep

\* What the deferred Stop finds running when it is called has ended when it has
\* returned, though the watchdog stops and starts beside it.
THEOREM StopReachesAllHolds == Spec => []StopReachesAll
<1>1. Init => NoPhp /\ Reached
  BY SupervisionAssumption DEF Init, NoPhp, Reached, Alive, Running
<1>2. IInv /\ NoPhp /\ Reached /\ [Next]_vars => NoPhp' /\ Reached'
  BY NoPhpStep, ReachedStep DEF IInv
<1>3. Reached => StopReachesAll
  BY DEF Reached, StopReachesAll
<1>4. QED
  BY <1>1, <1>2, <1>3, Inductive, PTL DEF Spec

-----------------------------------------------------------------------------
\* A goroutine that is about to launch php-fpm is the watchdog in Start, or main
\* before it serves.
LEMMA LaunchStep ==
  ASSUME IInv, [Next]_vars, circuit = "open", NEW p \in Masters, proc'[p] = "booting"
  PROVE  proc[p] = "booting"
<1> USE SupervisionAssumption DEF IInv, Typed, TypeOK, SupervisorTypeOK, callers
<1>1. ASSUME NEW t \in Threads, Call(t) PROVE proc[p] = "booting"
  <2>1. CASE StartPrepare(t)
    BY <2>1 DEF StartPrepare
  <2>2. CASE StartLaunch(t)
    BY <2>2, <1>1 DEF StartLaunch, Goto, CallsMatch, CircuitShut, InStop, StopSteps
  <2>3. CASE StopSignal(t)
    BY <2>3 DEF StopSignal
  <2>4. CASE proc' = proc
    BY <2>4
  <2>5. QED
    BY <1>1, <2>1, <2>2, <2>3, <2>4
       DEF Call, StartStep, StopStep, StartRedundant, StartClaim, StartCannotPrepare,
           StartCannotIsolate, StartPublishCmd, StartCannotLaunch, StartSeesSocket,
           StartGivesUp, StartPublishReady, StartFail, StopRedundant, StopClaim,
           StopCapture, StopNothingToSignal, StopSeesExit, StopRelease, StopUnlink,
           StopSettle
<1>2. CASE WdStopDeadline
  BY <1>2 DEF WdStopDeadline, StopDeadline
<1>3. ASSUME NEW m \in Masters, Child(m) \/ Crash(m) PROVE proc[p] = "booting"
  BY <1>3 DEF Child, Crash, MasterStep, GatewayMinds, MasterBinds, MasterRefused,
              MasterTerminates, ContextKills, Reap, MasterCrashes
<1>4. CASE proc' = proc
  BY <1>4
<1>5. QED
  BY <1>1, <1>2, <1>3, <1>4
     DEF Next, MainStep, MainServes, MainStopped, MainCancels, MainExits, MainStops,
         WdStep, WdQuit, WdTick, WdHealth, WdHealthy, WdUnhealthy, WdDecide, WdAdmit,
         WdBackoffCancelled, WdBackoffOver, WdStopped, WdStarted, RestartAges,
         CooldownEnds, vars

\* No php-fpm is launched while the restart circuit is open.
THEOREM NoLaunchWhileOpenHolds == Spec => NoLaunchWhileOpen
<1>1. IInv /\ [Next]_vars =>
        [circuit = "open" =>
           \A p \in Masters : proc'[p] = "booting" => proc[p] = "booting"]_vars
  BY LaunchStep
<1>2. QED
  BY <1>1, Inductive, PTL DEF Spec, NoLaunchWhileOpen

-----------------------------------------------------------------------------
\* Every step of the supervision is a step of the circuit it is to implement, or
\* leaves it alone.
LEMMA CircuitRefined == IInv /\ [Next]_vars => [Circuit!Next]_(Circuit!circuitVars)
<1> SUFFICES ASSUME IInv, [Next]_vars PROVE [Circuit!Next]_(Circuit!circuitVars)
  OBVIOUS
<1> USE SupervisionAssumption DEF IInv, Typed, TypeOK, Circuit!circuitVars, callers
<1>1. CASE WdAdmit
  BY <1>1 DEF WdAdmit, CircuitShut, Circuit!Next, Circuit!Restart, Circuit!Trip
<1>2. CASE WdHealthy
  BY <1>2 DEF WdHealthy, Circuit!Next, Circuit!Recover
<1>3. CASE RestartAges
  BY <1>3 DEF RestartAges, Circuit!Next, Circuit!TimePasses
<1>4. CASE CooldownEnds
  BY <1>4 DEF CooldownEnds, Circuit!Next, Circuit!TimePasses
<1>5. CASE UNCHANGED <<circuit, recent>>
  BY <1>5
<1>6. QED
  BY <1>1, <1>2, <1>3, <1>4, <1>5
     DEF Next, MainStep, MainServes, MainStopped, MainCancels, MainExits, MainStops,
         WdStep, WdQuit, WdTick, WdHealth, WdUnhealthy, WdDecide, WdBackoffCancelled,
         WdBackoffOver, WdStopped, WdStarted, WdStopDeadline, Call, Child, Crash, vars

\* The watchdog implements the restart circuit.
THEOREM CircuitImplemented == Spec => ImplementsCircuit
<1>1. Init => Circuit!Init
  BY DEF Init, Circuit!Init
<1>2. QED
  BY <1>1, CircuitRefined, Inductive, PTL DEF Spec, ImplementsCircuit, Circuit!Spec

-----------------------------------------------------------------------------
(* The circuit with its times (WatchdogCircuit). *)

\* The clock, the open circuit's end and the launches are numbers; every
\* remembered restart was launched, and no launch is in the future.
Times ==
  /\ now \in Nat /\ circuitUntil \in Nat
  /\ circuitOpen \in BOOLEAN
  /\ launches \in Seq(Nat)
  /\ restarts \subseteq DOMAIN launches
  /\ \A i \in DOMAIN launches : launches[i] <= now

\* A restart is admitted only while the circuit is not open.
AdmitShut == phase = "admit" => ~CircuitOpen

Remembered == Cardinality(restarts) <= RestartBudget

TimedInv == Times /\ AdmitShut /\ Remembered

LEMMA TimesStep == Times /\ [TimedNext]_timedVars => Times'
<1> SUFFICES ASSUME Times, [TimedNext]_timedVars PROVE Times'
  OBVIOUS
<1> USE WatchdogCircuitAssumption DEF Times
<1>1. CASE RecordHealthy
  BY <1>1 DEF RecordHealthy
<1>2. CASE Admit
  <2> DEFINE kept == restarts \cap InWindow
  <2> HIDE DEF kept
  <2>1. kept \subseteq DOMAIN launches /\ now' = now
    BY <1>2 DEF kept, Admit
  <2>2. CASE /\ restarts' = kept
             /\ circuitOpen' = TRUE
             /\ circuitUntil' = now + CircuitCooldown
             /\ launches' = launches
    BY <2>1, <2>2
  <2>3. CASE /\ restarts' = kept \cup {Len(launches) + 1}
             /\ launches' = Append(launches, now)
             /\ UNCHANGED <<circuitOpen, circuitUntil>>
    <3>2. /\ Len(launches) \in Nat
          /\ DOMAIN launches = 1..Len(launches)
          /\ DOMAIN launches' = 1..(Len(launches) + 1)
          /\ \A i \in DOMAIN launches' :
               launches'[i] = IF i = Len(launches) + 1 THEN now ELSE launches[i]
      BY <2>3
    <3>3. restarts' \subseteq DOMAIN launches'
      BY <2>1, <2>3, <3>2
    <3>4. \A i \in DOMAIN launches' : launches'[i] <= now
      BY <3>2
    <3>5. launches' \in Seq(Nat)
      BY <2>3
    <3>6. QED
      BY <2>1, <2>3, <3>3, <3>4, <3>5
  <2>4. QED
    BY <1>2, <2>2, <2>3 DEF Admit, kept
<1>3. CASE Tick
  BY <1>3 DEF Tick
<1>4. CASE UNCHANGED <<now, circuitOpen, circuitUntil, restarts, launches>>
  BY <1>4
<1>5. QED
  BY <1>1, <1>2, <1>3, <1>4
     DEF TimedNext, Unhealthy, Decide, Restarted, timedVars

LEMMA AdmitShutStep == Times /\ AdmitShut /\ [TimedNext]_timedVars => AdmitShut'
<1> SUFFICES ASSUME Times, AdmitShut, [TimedNext]_timedVars PROVE AdmitShut'
  OBVIOUS
<1> USE DEF Times, AdmitShut, CircuitOpen
<1>1. CASE Admit
  BY <1>1 DEF Admit
<1>2. CASE RecordHealthy \/ Unhealthy \/ Decide \/ Restarted \/ Tick
  BY <1>2 DEF RecordHealthy, Unhealthy, Decide, Restarted, Tick
<1>3. QED
  BY <1>1, <1>2 DEF TimedNext, timedVars

\* What is remembered is finite, and so is all that was launched.
LEMMA LaunchesFinite ==
  ASSUME Times, NEW S \in SUBSET DOMAIN launches
  PROVE  IsFiniteSet(S) /\ Cardinality(S) \in Nat
<1>1. IsFiniteSet(DOMAIN launches)
  BY FS_Interval DEF Times
<1>2. IsFiniteSet(S)
  BY <1>1, FS_Subset
<1>3. QED
  BY <1>2, FS_CardinalityType

LEMMA RememberedStep == Times /\ Remembered /\ [TimedNext]_timedVars => Remembered'
<1> SUFFICES ASSUME Times, Remembered, [TimedNext]_timedVars PROVE Remembered'
  OBVIOUS
<1> USE WatchdogCircuitAssumption
<1>1. CASE RecordHealthy
  BY <1>1, FS_EmptySet DEF RecordHealthy, Remembered
<1>2. CASE Admit
  <2> DEFINE kept == restarts \cap InWindow
  <2>1. /\ kept \in SUBSET DOMAIN launches /\ restarts \in SUBSET DOMAIN launches
        /\ kept \in SUBSET restarts
    BY DEF Times
  <2>2. IsFiniteSet(kept) /\ Cardinality(kept) \in Nat
    BY <2>1, LaunchesFinite
  <2>3. Cardinality(kept) <= Cardinality(restarts)
    BY <2>1, LaunchesFinite, FS_Subset
  <2>4. CASE restarts' = kept
    BY <2>1, <2>2, <2>3, <2>4, LaunchesFinite DEF Remembered
  <2>5. CASE restarts' = kept \cup {Len(launches) + 1} /\ Cardinality(kept) < RestartBudget
    <3>1. Cardinality(kept \cup {Len(launches) + 1}) \in
            {Cardinality(kept), Cardinality(kept) + 1}
      BY <2>2, FS_AddElement
    <3>2. QED
      BY <2>2, <2>5, <3>1 DEF Remembered
  <2>6. CASE Cardinality(kept) >= RestartBudget
    BY <1>2, <2>4, <2>6 DEF Admit
  <2>7. CASE ~(Cardinality(kept) >= RestartBudget)
    <3>1. restarts' = kept \cup {Len(launches) + 1}
      BY <1>2, <2>7 DEF Admit
    <3>2. Cardinality(kept) < RestartBudget
      BY <2>2, <2>7
    <3>3. QED
      BY <2>5, <3>1, <3>2
  <2>8. QED
    BY <2>6, <2>7
<1>3. CASE UNCHANGED restarts
  BY <1>3 DEF Remembered
<1>4. QED
  BY <1>1, <1>2, <1>3 DEF TimedNext, Unhealthy, Decide, Restarted, Tick, timedVars

LEMMA TimedInvariant == TimedSpec => []TimedInv
<1>1. TimedInit => Times /\ AdmitShut
  <2> SUFFICES ASSUME TimedInit PROVE Times /\ AdmitShut
    OBVIOUS
  <2>1. /\ now = 0 /\ circuitUntil = 0 /\ circuitOpen = FALSE /\ restarts = {}
        /\ phase = "idle" /\ launches = <<>>
    BY DEF TimedInit
  <2>2. launches \in Seq(Nat) /\ DOMAIN launches = {}
    BY <2>1
  <2>3. QED
    BY <2>1, <2>2 DEF Times, AdmitShut
<1>2. TimedInit => Remembered
  BY WatchdogCircuitAssumption, FS_EmptySet DEF TimedInit, Remembered
<1>3. TimedInv /\ [TimedNext]_timedVars => TimedInv'
  BY TimesStep, AdmitShutStep, RememberedStep DEF TimedInv
<1>4. QED
  BY <1>1, <1>2, <1>3, PTL DEF TimedSpec, TimedInv

-----------------------------------------------------------------------------
\* Every step of the watchdog with its times is a step of the circuit, or leaves
\* it alone.
LEMMA TimesRefine == TimedInv /\ [TimedNext]_timedVars => [Abstract!Next]_(Abstract!circuitVars)
<1> SUFFICES ASSUME TimedInv, [TimedNext]_timedVars
             PROVE  [Abstract!Next]_(Abstract!circuitVars)
  OBVIOUS
<1> USE WatchdogCircuitAssumption DEF TimedInv
<1> DEFINE kept == restarts \cap InWindow
           shown == IF ~circuitOpen THEN "closed"
                    ELSE IF now < circuitUntil THEN "open" ELSE "expired"
<1>1. IsFiniteSet(kept) /\ Cardinality(kept) \in Nat
  BY LaunchesFinite DEF Times
<1>2. CASE RecordHealthy
  <2>1. restarts' \cap InWindow' = {}
    BY <1>2 DEF RecordHealthy
  <2>2. Cardinality(kept') = 0
    BY <2>1, FS_EmptySet
  <2>3. shown = "expired" /\ shown' = "closed"
    BY <1>2 DEF RecordHealthy, Times
  <2>4. QED
    BY <2>2, <2>3 DEF Abstract!Next, Abstract!Recover
<1>3. CASE Admit
  <2>1. shown # "open"
    BY <1>3 DEF Admit, AdmitShut, CircuitOpen
  <2>2. CASE Cardinality(kept) >= RestartBudget
    <3>1. /\ launches' = launches /\ now' = now /\ restarts' = kept
          /\ circuitOpen' = TRUE /\ circuitUntil' = now + CircuitCooldown
      BY <1>3, <2>2 DEF Admit
    <3>2. kept' = kept
      BY <3>1 DEF InWindow
    <3>3. shown' = "open"
      BY <3>1 DEF Times
    <3>4. Cardinality(kept') = Cardinality(kept)
      BY <3>2
    <3>5. QED
      BY <2>1, <2>2, <3>3, <3>4 DEF Abstract!Next, Abstract!Trip
  <2>3. CASE ~(Cardinality(kept) >= RestartBudget)
    <3>1. /\ launches' = Append(launches, now) /\ now' = now
          /\ restarts' = kept \cup {Len(launches) + 1}
          /\ UNCHANGED <<circuitOpen, circuitUntil>>
      BY <1>3, <2>3 DEF Admit
    <3>2. kept' = kept \cup {Len(launches) + 1}
      <4>1. /\ Len(launches) \in Nat
            /\ DOMAIN launches = 1..Len(launches)
            /\ DOMAIN launches' = 1..(Len(launches) + 1)
            /\ \A i \in DOMAIN launches' :
                 launches'[i] = IF i = Len(launches) + 1 THEN now ELSE launches[i]
        BY <3>1 DEF Times
      <4>2. \A i \in kept : i \in InWindow'
        BY <3>1, <4>1 DEF InWindow
      <4>3. Len(launches) + 1 \in InWindow'
        BY <3>1, <4>1 DEF InWindow, Times
      <4>4. QED
        BY <3>1, <4>2, <4>3
    <3>3. Len(launches) + 1 \notin kept
      BY DEF Times
    <3>4. Cardinality(kept') = Cardinality(kept) + 1
      BY <1>1, <3>2, <3>3, FS_AddElement
    <3>5. shown' = shown
      BY <3>1
    <3>6. Cardinality(kept) < RestartBudget
      BY <1>1, <2>3
    <3>7. QED
      BY <2>1, <3>4, <3>5, <3>6 DEF Abstract!Next, Abstract!Restart
  <2>4. QED
    BY <2>2, <2>3
<1>4. CASE Tick
  <2>1. now' = now + 1 /\ UNCHANGED <<circuitOpen, circuitUntil, restarts, launches>>
    BY <1>4 DEF Tick
  <2>2. kept' \in SUBSET kept
    BY <2>1 DEF InWindow, Times
  <2>3. Cardinality(kept') <= Cardinality(kept) /\ Cardinality(kept') \in Nat
    BY <1>1, <2>2, FS_Subset, FS_CardinalityType
  <2>4. shown' = shown \/ (shown = "open" /\ shown' = "expired")
    BY <2>1 DEF Times
  <2>5. Cardinality(kept') \in 0..Cardinality(kept)
    BY <1>1, <2>3
  <2>6. QED
    BY <2>4, <2>5 DEF Abstract!Next, Abstract!TimePasses
<1>5. CASE UNCHANGED <<now, circuitOpen, circuitUntil, restarts, launches>>
  <2>1. kept' = kept /\ shown' = shown
    BY <1>5 DEF InWindow
  <2>2. Cardinality(kept') = Cardinality(kept)
    BY <2>1
  <2>3. QED
    BY <2>1, <2>2 DEF Abstract!circuitVars
<1>6. QED
  BY <1>2, <1>3, <1>4, <1>5 DEF TimedNext, Unhealthy, Decide, Restarted, timedVars

\* The watchdog with its times implements the restart circuit.
THEOREM TimesImplementCircuitHolds == TimedSpec => TimesImplementCircuit
<1>1. TimedInit => Abstract!Init
  <2> SUFFICES ASSUME TimedInit PROVE Abstract!Init
    OBVIOUS
  <2>1. restarts \cap InWindow = {}
    BY DEF TimedInit
  <2>2. Cardinality(restarts \cap InWindow) = 0
    BY <2>1, FS_EmptySet
  <2>3. QED
    BY <2>2 DEF TimedInit, Abstract!Init
<1>2. QED
  BY <1>1, TimesRefine, TimedInvariant, PTL
     DEF TimedSpec, TimesImplementCircuit, Abstract!Spec

-----------------------------------------------------------------------------
(* The budget itself: a healthy check forgets restarts that are still inside *)
(* the window, but once only, when the cooldown is as long as the window.    *)

\* Once the circuit has opened, the restarts that are forgotten have left the
\* window, or will have when the cooldown is over.
Quiet ==
  circuitOpen =>
    \A i \in DOMAIN launches \ restarts :
      launches[i] + RestartWindow <= now \/ launches[i] + RestartWindow <= circuitUntil

ForgottenOnce == Cardinality(InWindow \ restarts) <= RestartBudget

LEMMA InWindowNext ==
  ASSUME Times, Admit
  PROVE  /\ \A i \in DOMAIN launches : i \in DOMAIN launches' /\ launches'[i] = launches[i]
         /\ DOMAIN launches' \ DOMAIN launches \subseteq restarts'
         /\ \A i \in DOMAIN launches' \ DOMAIN launches : launches'[i] = now
         /\ restarts \cap InWindow \subseteq restarts'
         /\ now' = now
<1> USE DEF Times
<1>1. CASE UNCHANGED launches
  BY <1>1 DEF Admit
<1>2. CASE launches' = Append(launches, now)
  <2>1. /\ Len(launches) \in Nat
        /\ DOMAIN launches = 1..Len(launches)
        /\ DOMAIN launches' = 1..(Len(launches) + 1)
        /\ \A i \in DOMAIN launches' :
             launches'[i] = IF i = Len(launches) + 1 THEN now ELSE launches[i]
    BY <1>2
  <2>2. launches' # launches
    BY <2>1
  <2>3. restarts' = (restarts \cap InWindow) \cup {Len(launches) + 1} /\ now' = now
    BY <2>2 DEF Admit
  <2>4. QED
    BY <2>1, <2>3
<1>3. QED
  BY <1>1, <1>2 DEF Admit

LEMMA QuietStep ==
  ASSUME RestartWindow <= CircuitCooldown, Times, Times', Quiet, [TimedNext]_timedVars
  PROVE  Quiet'
<1> USE WatchdogCircuitAssumption DEF Times, Quiet
<1>1. CASE Admit
  <2> SUFFICES ASSUME NEW i \in DOMAIN launches', i \notin restarts', circuitOpen'
               PROVE  \/ launches'[i] + RestartWindow <= now'
                      \/ launches'[i] + RestartWindow <= circuitUntil'
    OBVIOUS
  <2>1. i \in DOMAIN launches /\ launches'[i] = launches[i] /\ now' = now
    BY <1>1, InWindowNext
  <2>2. i \notin restarts \cap InWindow
    BY <1>1, InWindowNext
  <2>3. launches[i] \in Nat /\ launches[i] <= now
    BY <2>1
  <2>4. CASE circuitUntil' = now + CircuitCooldown
    BY <2>1, <2>3, <2>4
  <2>5. CASE circuitUntil' = circuitUntil /\ circuitOpen' = circuitOpen
    <3>1. CASE i \in restarts
      BY <2>1, <2>2, <2>3, <3>1 DEF InWindow
    <3>2. CASE i \notin restarts
      BY <2>1, <2>3, <2>5, <3>2
    <3>3. QED
      BY <3>1, <3>2
  <2>6. QED
    BY <1>1, <2>4, <2>5 DEF Admit
<1>2. CASE RecordHealthy
  BY <1>2 DEF RecordHealthy
<1>3. CASE Tick
  <2>1. now' = now + 1 /\ UNCHANGED <<circuitOpen, circuitUntil, restarts, launches>>
    BY <1>3 DEF Tick
  <2>2. \A i \in DOMAIN launches : launches[i] \in Nat
    OBVIOUS
  <2>3. QED
    BY <2>1, <2>2
<1>4. CASE UNCHANGED <<now, circuitOpen, circuitUntil, restarts, launches>>
  BY <1>4
<1>5. QED
  BY <1>1, <1>2, <1>3, <1>4 DEF TimedNext, Unhealthy, Decide, Restarted, timedVars

\* A set of launches that is part of a small one is small.
LEMMA FewerLaunches ==
  ASSUME Times, NEW S \in SUBSET DOMAIN launches, NEW n \in Nat, Cardinality(S) <= n,
         NEW T \in SUBSET S
  PROVE  Cardinality(T) <= n
<1>1. IsFiniteSet(S) /\ Cardinality(S) \in Nat /\ Cardinality(T) \in Nat
  BY LaunchesFinite
<1>2. Cardinality(T) <= Cardinality(S)
  BY <1>1, FS_Subset
<1>3. QED
  BY <1>1, <1>2

LEMMA ForgottenStep ==
  ASSUME Times, Times', Remembered, Quiet, ForgottenOnce, [TimedNext]_timedVars
  PROVE  ForgottenOnce'
<1> USE WatchdogCircuitAssumption
<1> DEFINE lost == InWindow \ restarts
<1>1. lost \in SUBSET DOMAIN launches
  BY DEF InWindow
<1>2. CASE lost' \in SUBSET lost
  BY <1>1, <1>2, FewerLaunches DEF ForgottenOnce
<1>3. CASE lost' \in SUBSET restarts
  BY <1>3, FewerLaunches DEF ForgottenOnce, Remembered, Times
<1>4. CASE Admit
  <2>1. \A i \in lost' : i \in lost
    BY <1>4, InWindowNext DEF Times, InWindow
  <2>2. QED
    BY <1>2, <2>1
<1>5. CASE RecordHealthy
  <2>1. /\ circuitOpen /\ now > circuitUntil
        /\ UNCHANGED <<now, launches>>
    BY <1>5 DEF RecordHealthy
  <2>2. InWindow' = InWindow
    BY <2>1 DEF InWindow
  <2>3. \A i \in DOMAIN launches : launches[i] \in Nat
    BY DEF Times
  <2>4. \A i \in InWindow : i \in restarts
    BY <2>1, <2>3 DEF InWindow, Quiet, Times
  <2>5. QED
    BY <1>3, <2>2, <2>4
<1>6. CASE Tick
  <2>1. now' = now + 1 /\ UNCHANGED <<restarts, launches>>
    BY <1>6 DEF Tick
  <2>2. InWindow' \subseteq InWindow
    BY <2>1 DEF InWindow, Times
  <2>3. QED
    BY <1>2, <2>1, <2>2
<1>7. CASE UNCHANGED <<now, restarts, launches>>
  <2>1. lost' = lost
    BY <1>7 DEF InWindow
  <2>2. QED
    BY <1>2, <2>1
<1>8. QED
  BY <1>4, <1>5, <1>6, <1>7 DEF TimedNext, Unhealthy, Decide, Restarted, timedVars

\* The launches inside the window are the remembered and the forgotten ones.
LEMMA WindowNow ==
  ASSUME Times, Remembered, ForgottenOnce
  PROVE  Cardinality(LaunchedSince(now)) <= 2 * RestartBudget
<1> USE WatchdogCircuitAssumption
<1> DEFINE lost == InWindow \ restarts
<1>1. lost \in SUBSET DOMAIN launches /\ restarts \in SUBSET DOMAIN launches
  BY DEF InWindow, Times
<1>2. /\ IsFiniteSet(lost) /\ Cardinality(lost) \in Nat
      /\ IsFiniteSet(restarts) /\ Cardinality(restarts) \in Nat
  BY <1>1, LaunchesFinite
<1>3. IsFiniteSet(lost \cap restarts) /\ Cardinality(lost \cap restarts) = 0
  <2>1. lost \cap restarts = {}
    OBVIOUS
  <2>2. QED
    BY <2>1, FS_EmptySet
<1>4. Cardinality(lost \cup restarts) <= 2 * RestartBudget
  <2>1. Cardinality(lost \cup restarts) =
          Cardinality(lost) + Cardinality(restarts) - Cardinality(lost \cap restarts)
    BY <1>2, FS_Union
  <2>2. Cardinality(lost) <= RestartBudget /\ Cardinality(restarts) <= RestartBudget
    BY DEF ForgottenOnce, Remembered
  <2>3. QED
    BY <1>2, <1>3, <2>1, <2>2
<1>5. LaunchedSince(now) \in SUBSET (lost \cup restarts)
  BY DEF LaunchedSince, InWindow
<1>6. 2 * RestartBudget \in Nat
  OBVIOUS
<1>7. QED
  BY <1>1, <1>4, <1>5, <1>6, FewerLaunches

\* A stretch that is over gets no more launches.
LEMMA WindowThen ==
  ASSUME Times, [TimedNext]_timedVars, NEW t \in 0..now, t # now \/ launches' = launches
  PROVE  LaunchedSince(t)' = LaunchedSince(t)
<1> USE WatchdogCircuitAssumption DEF LaunchedSince
<1>1. CASE launches' = launches
  BY <1>1
<1>2. CASE Admit /\ t # now
  BY <1>2, InWindowNext DEF Times
<1>3. QED
  BY <1>1, <1>2
     DEF TimedNext, RecordHealthy, Unhealthy, Decide, Restarted, Tick, timedVars

\* When the cooldown is at least as long as the window, no stretch as long as the
\* window has more than twice MaxRestarts restarts: the remembered ones and those
\* one healthy check forgot.
THEOREM DoubleBudgetHolds ==
  ASSUME RestartWindow <= CircuitCooldown
  PROVE  TimedSpec => []DoubleBudget
<1> USE WatchdogCircuitAssumption
<1>1. TimedInit => Quiet /\ ForgottenOnce
  <2> SUFFICES ASSUME TimedInit PROVE Quiet /\ ForgottenOnce
    OBVIOUS
  <2>1. DOMAIN launches = {} /\ circuitOpen = FALSE
    BY DEF TimedInit
  <2>2. InWindow \ restarts = {}
    BY <2>1 DEF InWindow
  <2>3. Cardinality(InWindow \ restarts) = 0
    BY <2>2, FS_EmptySet
  <2>4. QED
    BY <2>1, <2>3 DEF Quiet, ForgottenOnce
<1>2. TimedInv /\ Quiet /\ ForgottenOnce /\ [TimedNext]_timedVars
        => Quiet' /\ ForgottenOnce'
  BY QuietStep, TimesStep, ForgottenStep DEF TimedInv
<1>3. TimedInit => DoubleBudget
  <2> SUFFICES ASSUME TimedInit, NEW t \in 0..now
               PROVE  Cardinality(LaunchedSince(t)) <= 2 * RestartBudget
    BY DEF DoubleBudget
  <2>1. LaunchedSince(t) = {}
    BY DEF TimedInit, LaunchedSince
  <2>2. QED
    BY <2>1, FS_EmptySet
<1>4. TimedInv /\ ForgottenOnce => Cardinality(LaunchedSince(now)) <= 2 * RestartBudget
  BY WindowNow DEF TimedInv
<1>5. TimedInv /\ (Cardinality(LaunchedSince(now)) <= 2 * RestartBudget)' /\ DoubleBudget
        /\ [TimedNext]_timedVars => DoubleBudget'
  <2> SUFFICES ASSUME TimedInv, (Cardinality(LaunchedSince(now)) <= 2 * RestartBudget)',
                      DoubleBudget, [TimedNext]_timedVars, NEW t \in 0..now'
               PROVE  Cardinality(LaunchedSince(t)') <= 2 * RestartBudget
    BY DEF DoubleBudget
  <2>1. CASE t = now'
    <3>1. LaunchedSince(t)' = LaunchedSince(now)'
      BY <2>1 DEF LaunchedSince
    <3>2. QED
      BY <3>1
  <2>2. CASE t # now'
    <3>1. now' = now \/ (now' = now + 1 /\ launches' = launches)
      BY DEF TimedNext, RecordHealthy, Unhealthy, Decide, Restarted, Admit, Tick, timedVars
    <3>2. t \in 0..now /\ (t # now \/ launches' = launches)
      BY <2>2, <3>1 DEF TimedInv, Times
    <3>3. LaunchedSince(t)' = LaunchedSince(t)
      BY <3>2, WindowThen DEF TimedInv
    <3>4. QED
      BY <3>2, <3>3 DEF DoubleBudget
  <2>3. QED
    BY <2>1, <2>2
<1>6. QED
  BY <1>1, <1>2, <1>3, <1>4, <1>5, TimedInvariant, PTL DEF TimedSpec
=============================================================================
