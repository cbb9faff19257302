---------------------------- MODULE GatewayServer ----------------------------
(***************************************************************************)
(* runServe in cmd/gateway/main.go: the HTTP server, the requests it is    *)
(* serving, the goroutine that reloads the configuration on SIGHUP         *)
(* (gatewayHandler.reload and config.Reloader) and the one that shuts the  *)
(* server down on SIGINT or SIGTERM.                                       *)
(*                                                                         *)
(* A configuration is kept to whether it can be loaded, a setting that a   *)
(* reload changes ("live": routes, protected patterns, limits, caching) and*)
(* one that only a restart does ("fixed": the address, TLS, the PHP binary,*)
(* the security mode).                                                     *)
(***************************************************************************)
EXTENDS Integers, FiniteSets

CONSTANTS
  Requests,   \* requests, each served once
  Values,     \* values of a setting
  MaxEdits    \* bound on the edits of the configuration file

ASSUME ServerAssumption == MaxEdits \in Nat /\ Values # {}

Configs == [ok : BOOLEAN, live : Values, fixed : Values]
NoConfig == [ok |-> FALSE]

VARIABLES
  configFile,  \* the configuration file
  edits,       \* edits of it so far
  asked,       \* how many of them preceded the last SIGHUP
  hup,         \* a SIGHUP is in the channel, whose buffer is one
  reloading,   \* where the reloading goroutine is
  candidate,   \* the configuration it has loaded
  published,   \* reloader.current
  state,       \* h.state: what requests are judged by
  running,     \* the fixed setting the process was started with
  warned,      \* the last reload said that a restart is needed
  main,        \* where runServe is
  listening,   \* the listener is open
  shutdown,    \* where the shutdown goroutine is
  timedOut,    \* the 30 seconds of Shutdown have passed
  pool,        \* the FastCGI pool takes requests
  req,         \* where each request is
  snapshot     \* the configuration each request is judged by

config     == <<configFile, edits, asked, hup>>
reload     == <<reloading, candidate, published, state, warned>>
process    == <<main, listening, shutdown, timedOut, pool>>
serverVars == <<config, reload, running, process, req, snapshot>>

Phases == {"serving", "pool", "fpm", "background", "exited"}
InFlight == {"accepted", "judged", "php"}

ServerTypeOK ==
  /\ configFile \in Configs
  /\ edits \in 0..MaxEdits
  /\ asked \in 0..MaxEdits
  /\ hup \in BOOLEAN
  /\ reloading \in {"waiting", "loading", "compiling", "swapping", "over"}
  /\ candidate \in Configs \cup {NoConfig}
  /\ published \in Configs
  /\ state \in Configs
  /\ running \in Values
  /\ warned \in BOOLEAN
  /\ main \in Phases
  /\ listening \in BOOLEAN
  /\ shutdown \in {"waiting", "draining", "done"}
  /\ timedOut \in BOOLEAN
  /\ pool \in BOOLEAN
  /\ req \in [Requests -> {"new", "refused", "answered", "failed", "cut"} \cup InFlight]
  /\ snapshot \in [Requests -> Configs \cup {NoConfig}]

\* The file was loaded, and flags may have overridden fixed settings.
ServerInit ==
  /\ configFile \in {c \in Configs : c.ok}
  /\ edits = 0
  /\ asked = 0
  /\ hup = FALSE
  /\ reloading = "waiting"
  /\ candidate = NoConfig
  /\ running \in Values
  /\ published = [configFile EXCEPT !.fixed = running]
  /\ state = published
  /\ warned = FALSE
  /\ main = "serving"
  /\ listening = TRUE
  /\ shutdown = "waiting"
  /\ timedOut = FALSE
  /\ pool = TRUE
  /\ req = [r \in Requests |-> "new"]
  /\ snapshot = [r \in Requests |-> NoConfig]

Alive == main # "exited"

-----------------------------------------------------------------------------
(* The operator *)

Edit ==
  /\ edits < MaxEdits
  /\ edits' = edits + 1
  /\ configFile' \in Configs \ {configFile}
  /\ UNCHANGED <<asked, hup, reload, running, process, req, snapshot>>

\* Variant: the channel has no buffer.
SighupUnbuffered ==
  /\ Alive
  /\ hup' = (hup \/ reloading = "waiting")
  /\ asked' = edits
  /\ UNCHANGED <<configFile, edits, reload, running, process, req, snapshot>>

\* A signal that finds another in the channel is dropped.
Sighup ==
  /\ Alive
  /\ hup' = TRUE
  /\ asked' = edits
  /\ UNCHANGED <<configFile, edits, reload, running, process, req, snapshot>>

-----------------------------------------------------------------------------
(* Reload *)

Proceed(from, to) == Alive /\ reloading = from /\ reloading' = to

TakeSighup ==
  /\ Proceed("waiting", "loading")
  /\ hup
  /\ hup' = FALSE
  /\ UNCHANGED <<configFile, edits, asked, candidate, published, state, warned, running, process, req, snapshot>>

\* The file cannot be read, parsed or validated.
LoadFails ==
  /\ Proceed("loading", "waiting")
  /\ ~configFile.ok
  /\ UNCHANGED <<config, candidate, published, state, warned, running, process, req, snapshot>>

Load ==
  /\ Proceed("loading", "compiling")
  /\ configFile.ok
  /\ candidate' = configFile
  /\ UNCHANGED <<config, published, state, warned, running, process, req, snapshot>>

\* Variant: only the routes are compiled from the file that was validated; the
\* rest is read from the file again.
LoadTwice ==
  /\ Proceed("compiling", "swapping")
  /\ candidate' = configFile
  /\ published' = configFile
  /\ UNCHANGED <<config, state, warned, running, process, req, snapshot>>

\* The router, the proxies and the resolver are built, and Reloader.Reload
\* publishes the configuration.
Publish ==
  /\ Proceed("compiling", "swapping")
  /\ published' = candidate
  /\ UNCHANGED <<config, candidate, state, warned, running, process, req, snapshot>>

\* Variant: the handler keeps its state until the next reload.
StoreNothing ==
  /\ Proceed("swapping", "waiting")
  /\ UNCHANGED <<config, candidate, published, state, warned, running, process, req, snapshot>>

\* h.state.Store, then the comparison with the state it replaces.
Store ==
  /\ Proceed("swapping", "waiting")
  /\ state' = candidate
  /\ warned' = (state.fixed # candidate.fixed)
  /\ UNCHANGED <<config, candidate, published, running, process, req, snapshot>>

\* rootCtx is done: no reload any more.
StopReloading ==
  /\ Proceed("waiting", "over")
  /\ main = "background"
  /\ UNCHANGED <<config, candidate, published, state, warned, running, process, req, snapshot>>

Reloading == TakeSighup \/ LoadFails \/ Load \/ Publish \/ Store \/ StopReloading

-----------------------------------------------------------------------------
(* Requests *)

Handle(r, from, to) == Alive /\ req[r] \in from /\ req' = [req EXCEPT ![r] = to]

Accept(r) ==
  /\ Handle(r, {"new"}, IF listening THEN "accepted" ELSE "refused")
  /\ UNCHANGED <<config, reload, running, process, snapshot>>

\* ServeHTTP reads h.state once.
Judge(r) ==
  /\ Handle(r, {"accepted"}, "judged")
  /\ snapshot' = [snapshot EXCEPT ![r] = state]
  /\ UNCHANGED <<config, reload, running, process>>

\* A redirect, a file, a proxied answer or an error; a script is run.
Answer(r) ==
  /\ Handle(r, {"judged", "php"}, "answered")
  /\ UNCHANGED <<config, reload, running, process, snapshot>>

RunScript(r) ==
  /\ Handle(r, {"judged"}, IF pool THEN "php" ELSE "failed")
  /\ UNCHANGED <<config, reload, running, process, snapshot>>

\* php-fpm is being stopped.
ScriptFails(r) ==
  /\ Handle(r, {"php"}, "failed")
  /\ main = "background"
  /\ UNCHANGED <<config, reload, running, process, snapshot>>

Serving(r) == Judge(r) \/ Answer(r) \/ RunScript(r) \/ ScriptFails(r)

-----------------------------------------------------------------------------
(* Shutdown *)

\* Shutdown closes the listener and then waits for the requests.
Interrupt ==
  /\ Alive
  /\ shutdown = "waiting"
  /\ shutdown' = "draining"
  /\ listening' = FALSE
  /\ UNCHANGED <<config, reload, running, main, timedOut, pool, req, snapshot>>

Drained ==
  /\ Alive
  /\ shutdown = "draining"
  /\ \A r \in Requests : req[r] \notin InFlight
  /\ shutdown' = "done"
  /\ UNCHANGED <<config, reload, running, main, listening, timedOut, pool, req, snapshot>>

DrainTimesOut ==
  /\ Alive
  /\ shutdown = "draining"
  /\ shutdown' = "done"
  /\ timedOut' = TRUE
  /\ UNCHANGED <<config, reload, running, main, listening, pool, req, snapshot>>

\* ListenAndServe returns as soon as the listener is closed.
ListenReturns ==
  /\ main = "serving"
  /\ ~listening
  /\ main' = "pool"
  /\ UNCHANGED <<config, reload, running, listening, shutdown, timedOut, pool, req, snapshot>>

\* The deferred calls: pool.Close, then uiServer.Stop and fpm.Stop, then
\* stopBackground and the wait for the goroutines.
ClosePool ==
  /\ main = "pool"
  /\ main' = "fpm"
  /\ pool' = FALSE
  /\ UNCHANGED <<config, reload, running, listening, shutdown, timedOut, req, snapshot>>

StopFpm ==
  /\ main = "fpm"
  /\ main' = "background"
  /\ UNCHANGED <<config, reload, running, listening, shutdown, timedOut, pool, req, snapshot>>

\* The process exits: what is being served is cut off, wherever the other
\* goroutines are.
Exit ==
  /\ main = "background"
  /\ main' = "exited"
  /\ req' = [r \in Requests |-> IF req[r] \in InFlight THEN "cut" ELSE req[r]]
  /\ UNCHANGED <<config, reload, running, listening, shutdown, timedOut, pool, snapshot>>

Closing == ListenReturns \/ ClosePool \/ StopFpm \/ Exit

-----------------------------------------------------------------------------
ServerNext ==
  \/ Edit \/ Sighup \/ Interrupt \/ Drained \/ DrainTimesOut
  \/ Reloading \/ Closing
  \/ \E r \in Requests : Accept(r) \/ Serving(r)

ServerSpec == ServerInit /\ [][ServerNext]_serverVars

\* Goroutines run; nobody has to send a request or a signal.
FairServerSpec ==
  /\ ServerSpec
  /\ WF_serverVars(Reloading)
  /\ WF_serverVars(Closing)
-----------------------------------------------------------------------------
(* Properties *)

\* Neither the handler nor the reloader ever holds a configuration that was not
\* loaded and validated, however the file changes while it is being reloaded; and
\* no request is judged by one.
KnownGood ==
  /\ published.ok
  /\ state.ok
  /\ \A r \in Requests : snapshot[r] # NoConfig => snapshot[r].ok

\* Reloader and handler are updated together: they differ only while a reload is
\* between the two.
Together == reloading # "swapping" => state = published

\* The last configuration asked for is the one in force in the end: a SIGHUP that
\* arrives while another is handled, or is dropped for one that waits, is never
\* lost.  (Once edits have ceased; unless the file is rejected, or the process
\* exits.)
LastReloadWins ==
  <>[](main # "serving" \/ asked # edits \/ edits = 0 \/ ~configFile.ok \/ state = configFile)

\* Shutdown is graceful: the process exits with a request unanswered only when the
\* 30 seconds it is given have passed.  (src/TODO.md:97)
Graceful == \A r \in Requests : req[r] = "cut" => timedOut

\* The comparison sees what was actually running: a reload says that a restart is
\* needed exactly if it leaves a setting other than the process was started with.
\* (src/cmd/gateway/main.go:728)
RestartAnnounced ==
  [][reloading = "swapping" /\ reloading' = "waiting" => warned' = (state'.fixed # running)]_serverVars
=============================================================================
