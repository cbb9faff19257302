# Verification of the go-php gateway

TLA+ specifications of the gateway in this repository, TLC configurations that
check them on small instances, and TLAPS proofs of what matters most for every
instance. `PROJECT.json` lists the components, the runs, the lines of code that
each definition stands for, the hazards and the theorems.

To check a module: `tlc -config FpmSupervision.cfg MCFpmSupervision`. To check its
proofs: `tlapm FpmSupervisionProofs.tla`.

## The system

The gateway is one Go process. It serves HTTP, launches and watches a php-fpm
master, passes requests for scripts to it over FastCGI, serves files, and runs a
management interface, whose dashboard is a React application. A second set of
commands creates, activates and rolls back releases, which are directories next to
a symbolic link.

| Part | State it keeps | Operations | Other parts |
| --- | --- | --- | --- |
| Supervisor (`supervisor.go`) | state, child, its kill switch | Start, Stop, HealthCheck | called by `runServe` and the watchdog |
| Watchdog (`watchdog.go`) | restarts in the window, circuit | check on a ticker, restart with backoff | stops and starts the supervisor; read by requests |
| FastCGI pool (`pool.go`) | idle connections, a count | Get, Put, Close | handlers borrow from it; php-fpm is at the other end |
| FastCGI and CGI (`protocol.go`, `response.go`) | a stream and a scanner's buffer | send a request, read the reply, split headers from body | the pool's connections; the handler copies the body |
| Request path (`main.go`, `internal/filesystem`, `router`, `policy`) | none but the configuration snapshot | policy, parse, route, resolve, send | the files of the release in place; php-fpm's state |
| Rate limiter (`ratelimit.go`) | a bucket for every client and limiter | Allow, Cleanup | in front of every request |
| Process (`runServe`, `reload.go`) | published configuration, signals | reload, shut down | owns all of the above |
| Releases (`release.go`) | directories, records, two links | Create, Activate, Deactivate, Rollback, Archive | one manager for every command and request |
| Sites (`handlers.go`, `siteManager.go`) | a published list, a server for every active site | list, create, update, delete a site | starts HTTP servers; asked by the dashboard |
| Rest of management (`internal/ui`) | ring of recent log entries | list and stream logs, releases, save the configuration | opens release managers; asked by the dashboard |
| Dashboard hook (`useApi.ts`, `client.ts`) | last answer, spinner, error, calls in flight | load, settle | every page reads the interface through it |
| Dashboard pages (`pages/*.tsx`) | rows, forms, a toast, a stream of logs | submit, toggle, delete, deploy, save, ask, poll | the hook, the interface's handlers |
| Dashboard layout (`Layout.tsx`, `Modal.tsx`, `CommandPalette.tsx`) | the mounted page, health, palette, the body's scrolling | navigate, open and close | mounts and unmounts the pages |
| Runtimes, state store, TLS, diagnostics, observability | files, certificates, counters | | see "Not modelled" |

What is hard here:

- *Interleaving*: the main goroutine and the watchdog both stop and start
  php-fpm, and the supervisor lets go of its lock at every system call; handlers
  borrow while the pool is closed; two release managers share a directory;
  files and php-fpm change while a request is on its way; buttons of the dashboard
  stay enabled while their requests run, and two operators change sites at once.
- *Failure*: php-fpm fails to start, hangs, crashes or is killed; a connection
  breaks between two records; a command dies between two changes to a directory.
- *Ordering*: signals are coalesced; deferred calls run in reverse order; records
  end anywhere in a header; rules are added in any order; the dashboard's calls
  carry no number, and their answers cross each other and the stream of logs.
- *Time*: deadlines of Stop and Shutdown, backoff, the restart window, the
  circuit's cooldown, refilling buckets; intervals and toasts of the dashboard.

## Modules

| Module | Models | Run |
| --- | --- | --- |
| `FpmSupervisor` | `Start`, `Stop`, `HealthCheck`, the reaping goroutine, php-fpm masters | `supervision` |
| `FpmSupervision` (extends it) | the watchdog and `runServe` as its callers | `supervision` |
| `RestartCircuit` | abstract: what the restart circuit promises | implemented in `supervision` and `restart_budget` |
| `WatchdogCircuit` | the watchdog's times: window, backoff, cooldown | `restart_budget` |
| `FastCGIPool` | the pool, the handlers of `servePHP`, php-fpm's workers | `fastcgi_pool` |
| `CgiResponse` | `ParseResponseStream` and its scanner; `ParseResponse` as the reference | `cgi_response` |
| `ReleaseManager` | `release.go`, one change to the directory per step | `release_manager`, `release_sessions` |
| `GatewayServer` | `runServe` after its set-up: requests, reload, shutdown | `gateway_server` |
| `TokenBuckets` | abstract: what a rate limiter promises | implemented in `rate_limiter` |
| `RateLimiter` | the shared and the routes' limiters and the cleanup | `rate_limiter` |
| `PathSyntax` | `ParsePath`, pure | `request_path` |
| `PolicyRules` | `AddRule`, `EvaluateRule`, `ModeMiddleware`, pure | `request_path` |
| `RequestPath` (extends both) | `ServeHTTP`, `serveStatic`, `Resolve`, `resolveScript` | `request_path` |
| `UseApi` | the dashboard's hook, as operators on what one component keeps | in the three below |
| `SiteServer` | the handlers of sites and `SiteManager` | `sites_page` |
| `SitesPage` (extends both) | the Sites page, another operator | `sites_page` |
| `LogsPage` (extends `UseApi`) | the Logs page, the log buffer, its stream | `logs_page` |
| `Console` (extends `UseApi`) | the layout and the other pages that ask for something | `console` |

The `MC` modules give constants their values. The modules meet at narrow places:
`RequestPath` takes php-fpm's availability as a bit that changes at any moment,
which is what `FpmSupervision` makes of it; `GatewayServer` takes a request that
runs a script as one step that may fail, `FastCGIPool` is that step;
`FastCGIPool` takes a response as there or not there, `CgiResponse` is its
content. `SitesPage` puts the page, the hook and the handlers into one state: a
request is in `reqs` from the click to the answer.

**FpmSupervisor, FpmSupervision.** `state`, `cmd` and `kill` are the supervisor's
fields (`kill` is `s.cancel`, named by the child it kills); `proc`, `socket` and
`cancelled` are the operating system's. `op[t]` is where goroutine `t` is inside
`Start` or `Stop`, which are cut at every unlock, at every system call and around
`s.cancel`, written without the lock. A `Fault` is a failing step, a crash of
php-fpm, or a look of the watchdog that fails though php-fpm listens (its dial has two
seconds). `main` and `wd` are where the two callers are. `condemned` is not in the
code: the masters that ran when the gateway was told to stop and have not ended. Time is not counted: a
restart leaves the window and the cooldown ends at any moment (`RestartAges`,
`CooldownEnds`). `WatchdogCircuit` has the clock, and nothing of the supervisor:
`launches` is the time of every restart there was, `restarts` the numbers of those the
watchdog remembers (its slice of times), and no operation is left out between them.

**FastCGIPool.** `idle`, `activeCount` and `closed` are the pool's fields, `pc` and
`client` the handlers', `chan` and `php` what is on each connection and at its
far end. `GetReserves` is the critical section that counts, `DialOk` and
`DialFails` what follows it without the lock. `FpmStops`, `FpmStarts`,
`WorkerExits` and `Close` happen at any moment.

**ReleaseManager.** `tree`, `file`, `link` and `tmp` are the directory; `mem` and
`activeID` a manager's memory. A session is a manager; `Step` is one change to
the directory, `Crash` may come between any two. Archive's `RemoveAll` is one
step. `Library` is what only the exported API offers, `Wired` what commands and
the interface call; `WiredSpec` is the gateway as it is. `relative` says whether the
directory was given as a relative path, as `./releases` is, by default and everywhere in
the gateway; both kinds are initial states. `Keeps` is what `Archive` may be asked to
keep. Two variables are not in the code. `served` is the order in which releases were
last served, the present one first. `past` is what has happened that a promise may
depend on: `"archive"`; `"blind"`, a manager was opened over a link that leads nowhere
and so knows of no active release; `"adrift"`, a manager died within an operation, or
one opened blind lost the link it found.

**CgiResponse.** An output is a sequence of symbols (`Outputs` over `Symbols`); `Fill` gives the scanner any
part of what is unread, so records end anywhere. The stream may break among the headers
(`ReadFails`), and the copy of the body break off (`CopyFails`). Sizes are scaled: 7 symbols stand
for the 8192 bytes of the scanner's buffer, 12 and 2 for the limits on the size
and number of all headers.

**GatewayServer.** `published` is the reloader's snapshot, `state` the handler's;
`hup` is the channel of one. A configuration is its validity, a setting that a
reload changes and one that needs a restart; `configFile` is what the file holds.

**RateLimiter.** Tokens and time are integers in units that make refilling exact
(the code's tokens are fractions). One step is what one lock covers. Room for
`MaxBuckets` clients, refilling when asked, and forgetting are the differences
from `TokenBuckets`. `SetRoute` is called by tests only; that the cleanup stops
just before the process does is left out.

**RequestPath.** `pc` is where a request is, `wanted` the names it has yet to look
for, `file` the open file. Each call to the file system is a step; between any two
the release in place may change (`Move`), also back, and php-fpm go away or come
back. A client keeps the body and the ETag of what it got. An ETag is the file and
the release it is from, its date the order of the releases. Requests share nothing
but files and php-fpm, so one client is enough. Links stay in the root, and only
the last element of a path is one. `ParsePath` works on tokens, a two-digit escape
among them; rules test model values.

**UseApi.** A call is sent, answered or refused, and then settles on the page: three
moments, and between any two of them other calls have theirs. `newest` is not in the
code; it says which call `data` came from.

**SiteServer.** A handler is cut at the atomic load of the list, at the calls of
`SiteManager`, which hold its lock, and at the store; `Handlers` bounds how many are
between their load and their store at once, and `Found` is how many sites, all active,
there are at the start. The list is a slice: updates and deletes
write into the array that is published, creations append in place while there is
room. `Collect` forgets what no slice refers to, so that states do not pile up.

**SitesPage.** `acts`, `others` and `lost` only count. `opened` is what the user
pressed, `made` and `done` what the server has done and the page has heard of. `clashed`
is not in the code either: two changes have met that nothing keeps apart, since a handler began
while another was at work, and one of them creates or deletes or both are about one
site; or a site was created under the name of one that is listed. Updates of different
sites do not clash.
Handlers use after their await what they captured when the button was pressed: the
row travels in the request.

**LogsPage.** Entry `n` is the `n`-th written. `conn` is the connection as the server has
it, `wire` the events on their way to the page, `lastSent` the server's count of what
it has sent of the window. A connection breaks and the page is told (`Break`), or it
vanishes and nobody is (`Vanish`).

**Console.** `view` is what the mounted component keeps, and is dropped with it: an
answer that comes later finds nobody (`Sends` are part of `view`). A page with several
hooks is modelled with the one that decides whether its body is shown. The four
seconds of a toast are `Ticks`, counted in `left`, which rendering sets anew, and in
`age`, which is not in the code.

## What is checked

Passing runs:

| Run | Shows | Bounds |
| --- | --- | --- |
| `supervision` | `NoStrayChild`: until told to stop, no php-fpm runs out of Stop's reach. `KillSwitchMatches`: a ready supervisor kills its own child. `StopReachesAll`: when the deferred Stop has returned, every php-fpm that ran when the gateway was told to stop has ended, though the watchdog stops and starts beside it. `ImplementsCircuit`: it implements `RestartCircuit`. `ShutdownEnds`, `Recovers`: a shutdown ends; the watchdog brings php-fpm back. | 4 masters, as many as two goroutines, the supervisor and the operating system refer to at once; names are recycled, so launches are unbounded. 2 faults (failing steps, crashes, failing looks), enough for one to meet the repair of the other. 1 restart in the budget, so that the circuit opens. |
| `restart_budget` | `DoubleBudget`: no window holds more than twice the restarts allowed. `TimesImplementCircuit`: the watchdog with its clock is the circuit of the supervision. | Budget 2, window 6, cooldown 7, clock to 20: three windows, and a circuit that opens and closes again. |
| `fastcgi_pool` | `Accounted`: the count is what is pooled, borrowed or dialled. `Bounded`. `OneOwner`: no connection is shared or leaked. `CleanReuse`: none is pooled with bytes unread. `HeldUpByIdleOnly`: who has sent a request gets an answer or an error without its deadline, unless it waits behind idle connections that hold every worker. | 3 requests, 3 connections, 2 active; 1 idle and 1 worker: as many of the one as of the other, as shipped (20 and 20), so the waiting occurs. Refusals, reuse, overflow of the idle list. |
| `release_manager` | `SwapReady`: nothing that a crash leaves is in the way of the next activation. `OneActive`: nor does it name two active releases, until something is archived or a manager is opened blind. `Published`: what a manager calls active is linked, recorded as active and there; `RollbackRestores`: rollback goes to what was served before the present release, of those that are there to go back to; both until a crash, or the loss of a link after a manager was opened blind, and with absolute and relative directories. | 3 releases, 3 deactivations, Archive keeps 1; a crash at every step, links that cannot be made or renamed, but writes that succeed (failing ones are in `release_sessions`). 3 is the least number for which "the one before" can be wrong. |
| `release_sessions` | `ServedWhole`: what the link names is whole. | 2 managers, 2 releases, crashes, failing writes and links. |
| `cgi_response` | `SameAsWhole`: the stream parser answers as the whole one does, wherever records end, unless the stream breaks among the headers. `BodyIsBody`: what is sent is one piece of the body, nothing of a header, also when the copy breaks off. | Outputs of up to 5 fragments: a status, a header, part of a name, CRLF, CR, LF. With the scaled limits two headers pass, a third is one too many, and a line can be too long. |
| `gateway_server` | `KnownGood`: nothing unvalidated is in force. `Together`: handler and reloader agree but during a swap. `LastReloadWins`: the last edit asked for is in force in the end. | 1 request, 2 edits, any number of signals, 2 values for each setting. |
| `rate_limiter` | `ImplementsBuckets`: lazy, bounded and forgetful buckets do what ideal ones do. `Limited`: no client passes its burst and rate. `Bounded`: what is remembered is bounded in number and age. | 2 requests, 3 clients for 2 buckets, 2 limiters, 5 ticks; the cleanup runs twice. |
| `request_path` | `Fresh`: what a client has after an answer was in place during its request. `Justified`: a file that is there throughout is never 404 or left to PHP, a script is 503 and never 404 while PHP is down. `PathsNormal`: a parsed path is in normal form and parses to itself. `Decided`: a verdict does not depend on the order in which rules of different priority come. | 9 paths, 2 releases, 2 changes (there and back), 1 outage, 8 combinations of the setting and of the validators clients send. Paths of up to five tokens that start with a slash, without `?`, a backslash and the escapes of both, which are cut off or refused at once; lists of up to three rules of two priorities. |
| `sites_page` | `FormFitsButton`: a form changes what its button said, although answers to earlier submits close and reset it. `Registered`: between changes the servers that run are those of the active sites, although servers fail to start and updates of different sites are handled at once; until two changes clash, which `SitesAtOnce.cfg` is about. `ShowsItsOwn`: the table shows what the page reported as made, although answers cross. | 2 names and 1 site at the start, 2 ports and one past the last, 2 requests in flight and both handled at once, 2 clicks and 1 other operator's change, 1 failed start, 1 lost answer, 2 calls of the list: two changes and their reloads can overlap in every order. |
| `logs_page` | `NoGap`: up to a full window the stream leaves nothing out, and repeats nothing if it began with all there was. `PollingCatchesUp`: a page that was told its stream is over comes to list what the buffer holds. | A buffer of 4 and a window of 3 for 500 and 100, 2 for the first 50, 4 entries after up to 3: the window fills and the ring wraps. The connection breaks or vanishes at any moment. 1 failed call, 1 click, 2 calls. |
| `console` | `ResultIsLast`: a tester shows the answer to the last question. `ToastFullTime`: no toast goes before its time. `ScrollLocked`: the page scrolls unless a form is open. `PollingRecovers`: figures and the health label come back after failures. | 6 pages, 1 change of the page (away with answers under way, or back by the palette; leaving and entering again any number of times is left to the theorems), 2 questions, 2 ticks for a toast, 1 failed call, 2 calls. |

The pure parts, `PathsNormal` and `Decided`, are checked on samples, each an initial
state of `MCRequestPath` from which no request starts. `Fresh` has a reserve for rollbacks, explained
below under "Disagreements".

Deadlock is not checked where a bound or the end of the process stops the model.

Every property has a mutant in `PROJECT.json`: a variant of one definition, with
a plausible bug (a dropped guard, an off-by-one, a missing reset), that makes TLC
find the property violated. The variants stand before the definitions they vary.

### Fairness

- Go's scheduler runs every goroutine that can run: weak fairness of each step of
  the main goroutine, the watchdog, the handlers, the reloading goroutine.
- A `select` with several ready cases picks each with the same probability, so the
  watchdog that is infinitely often able to see its cancelled context does
  (strong fairness of `WdQuit`, the one place).
- php-fpm and the operating system: a master that is starting binds or fails, one
  that is told to end does, a connection in the backlog is accepted while a worker
  is free, and a script ends. Crashes, faults, signals, edits and restarts of
  php-fpm are never fair: nothing relies on them.
- Time passes: restarts age, the cooldown ends.
- The browser fires intervals and delivers the events of a connection, the interface
  answers a call or the call fails: weak fairness of `Poll`, `HealthPoll`, `Handle`,
  `Receive`, `Tick` and `Events`. Failed calls, broken connections, clicks and log entries
  are never fair.

With `FCGI_KEEP_CONN` an idle pooled connection keeps its worker, and when idle
connections hold all of them a new one waits in the backlog until its deadline. That is
what `HeldUpByIdleOnly` excepts, and no fairness helps against it. The shipped values
(`MaxIdle` 20, `max_children` 20) allow it, see the hazard at `main.go:399`.

## What is proved

For every value of the constants, by `tlapm`:

**FpmSupervisionProofs.** `TypeCorrect`, `NoStrayChildHolds`, `KillSwitchHolds`,
`StopReachesAllHolds`, `NoLaunchWhileOpenHolds`, `CircuitImplemented`. `NoStrayChild` is not
inductive: it says nothing of a Start or Stop half done. `CallsMatch` says where in
them a goroutine can be given where its caller is; `CircuitShut` that the circuit
is shut from the decision to restart until the restart is over; `OneChild` what
every step knows of the only child. `Inductive` puts them together. All this is until the
gateway is told to stop. `Reached` goes on from there: it is what both goroutines know
of the child that ran at that moment, whichever of them stops it. That only the
two goroutines of the gateway call the supervisor is an assumption of the module.

Its last part is about `WatchdogCircuit`. `TimesImplementCircuitHolds`: for any budget,
window, cooldown and backoff each step of the clocked watchdog is one of
`RestartCircuit` or a stutter. So the supervision, which has a restart age and a
cooldown end at any moment, leaves out nothing the times can do. `DoubleBudgetHolds`,
if the cooldown is as long as the window, as it is by default: whatever the watchdog
has forgotten of a window was forgotten in one go, and nothing was launched during the
cooldown before it; so a window is at most two budgets.

**PhpProofs.** Of the pool: `TypeCorrect`, `CountHolds`, `BoundHolds`, `OneOwnerHolds`,
`CleanReuseHolds`, for any numbers of requests, connections and workers.
`Accounted` and `Bounded` are inductive only together; `OneOwner` needs that a
handler past Get has a connection, `CleanReuse` that a handler's own connection is
quiet before it sends and after it has read to the end.

Of the scanner of a response: `BodyIsBodyHolds`, `ResponseTypes`, `SameAsWholeHolds`, for any output that
does not begin with an empty line, any limits and any records. No header is ever sent as
body. `Scanned` is the invariant: the buffer is the part of the output after what was
scanned, and begins where a line does (`Buffered`, `AtLine`), however the stream breaks; so the CRLF that is taken for the
empty line is one, and the copy begins after the first of them (`PastHeaders`).

`SameAsWhole` compares two ways to cut the output into lines: the scanner's, a buffer at a
time, and `bytes.Split` over the whole header block, which `LinesOf` does a symbol at a
time. The invariant `Kept` says that they are at one at the beginning of every line: what
the splitting has come to at the scanner's position is the lines the scanner has kept, with
nothing of another begun. So the next line it scans is the next of the block, and since the limits
are those of `parseHeaders`, which hold of the beginning of a list if they hold of the list
(`FineBegins`), both refuse it or neither; at the empty line the scanner has them all. The
hypothesis is that of the property, `LinesFit`, and that the stream does not break among the headers, where no answer is the
right one.

**RateLimiterProofs.** `Types`, `Implements`, `Limit`, `Memory`. Every step of the
limiter is a step of the ideal buckets or a stutter; that forgetting a bucket is a
stutter rests on one assumption, that every bucket is full after the cutoff. The
invariants are `TypeOK`; `Paid`, that what has passed, what is left and what was
gained since the start balance; and `Swept` and `Sized`, what the cleanup leaves
and what the room allows.

**GatewayProofs.** Of the process: `KnownGoodHolds`, `TogetherHolds`, for any configurations and
requests. The invariant adds what a loaded configuration is between its check and the
two steps that publish it, and that a request judges by one that was published.

Of a request's way: `FreshHolds`, `JustifiedHolds`, for any clients, targets, trees of files
with links among them, routes, rules, front controllers, changes of release and outages.
`Kept` says of each client, for every place its request can be in: the release in place is
among those seen (`Watched`), the open file is from one of them (`Held`), what is looked
for is what should be (`Placed`, `Looking`), and what has been tried so far was missing at
some moment (`Missed`), which is `Justified` once the request ends. `Fresh` needs
more, since a 304 gives the client what it has: until a release is put back, a copy is no
older than its ETag and no newer than anything a later request sees (`Ascending`); and
without precompressed files the two are of one file (`Paired`).

Of the rules: `RulesDecided`, for any rules, priorities and orders of adding them. `Ranked` says of the
list that it is the rules added, put in order of priority and age by a permutation, which a
new rule extends (`AddRuleRanked`); `Outcome` what a decision says of the rules looked
at: a deny, or else the matching one that is last. Together they are `Verdict`, which looks
at no list. `DecidedHolds` is this for the samples of the run.

Of the paths: `ParsePathNormal` and `NormalKept`, for any text of tokens. What is decoded
holds a `%` only in front of its digits, and such a path is refused (`Decoded`); so a path that
comes through holds none. What `Collapse` keeps are segments that name something
(`CollapsePlain`), and `Split` takes apart what `Join` put together (`SegmentsOf`, by adding a
token at a time). `PathsNormalHolds` is both for the samples of the run.

**ConsoleProofs.** `ResultIsLastHolds`, `ToastHolds`, `ScrollHolds`, for any questions,
length of a toast and number of calls. The invariant says that a tester that waits has
one question under way, its last; how old a toast is when it has a time left; which form
locks the page.

**SitesPageProofs.** `FormFitsButtonHolds` is inductive as it stands. `ShowsItsOwnHolds`
needs `Counts`, that the page is told of no change the server has not made, for every
request and whatever the handlers do (`HandleMoves`), and `LastKnows`, that the answer to
the last call of the list knows of all the page was told before it asked.

`RegisteredHolds` is for any number of handlers at once, any sites, ports, requests on
their way and failed starts, until two changes clash. While a change is handled, servers
and list differ for the site it is about: `InHand` says how, for each place a handler can
be in, `Agree` that they do not for any other site. Both need that an id is listed once
(`Heaped`), that a handler's list is the one stored, and that those at work are `Apart`, so
that what one writes into the array is no other's row; together they are `Consistent`. `Seen`
is that what the page sends was a row when it was shown. The hypothesis, `~IsRequest(None)`,
only says that no request is none.

**ReleaseManagerProofs.** Until something is archived, every release that a session knows
or that a link names was copied whole and recorded: for any number of sessions, whatever
fails. `ServedWholeHolds` follows for what the commands and the dashboard call, which
archives nothing. With one session, `SwapReadyHolds`: what an interrupted activation
leaves is never in the way of the next.

With one session and no failing writes, for absolute and relative directories, crashes and
links that cannot be made or renamed: `OneActiveHolds`, whose invariant says between which
two steps the files name the release before, the next or none; and `PublishedHolds` and
`RollbackRestoresHolds`, archiving and failed activations included. `Agree` is their invariant.
It says at every step of an operation how link, files and memory differ (`Link`,
`Memory`), what a manager that was opened blind does not know (`Unknown`), which activations
it alone knows to have failed (`Kept`), and that the later a release was deactivated the later it was served (`Ordered`, `Latest`), which
is why the latest deactivation is the right place to go back to. What the properties
except is what happens: a write that fails leaves a record that says something else than the
link, as a crash does, and a link that a blind manager loses leaves its predecessor's record
active.

**LogsPageProofs.** `NoGapHolds`, for any sizes of the buffer and its windows. The server
counts what it has sent of a window, which is at most the number of the last entry it
sent: so a tick may repeat entries and leaves none out; and when the stream began with the
first entry, it is the log.

`TypeOK` of a module, and `NoLaunchWhileOpen` of the supervision, are proved where there
are proofs and are in no run.

Only model-checked is liveness: `ShutdownEnds`, `Recovers`, `HeldUpByIdleOnly`,
`LastReloadWins`, `PollingCatchesUp`, `PollingRecovers`. The provers have no rule for
fairness.

What is computed by recursion over a sequence is a recursive function on its indices, and
proved by induction after all, without the library's rules for it, whose parameter is an operator:
a set of numbers that holds 0, and `k + 1` with `k`, holds all up to `n` (`Climb`), since else there
were a least that fails (`Least`). So there is a function that takes a step at every
number (`Recursion`), and two that do are the same; what `Split`, `Join`, `Collapse`,
`PercentDecode`, `Engine`, `EvaluateRule`, `Splitting` and `Size` are of a sequence that is one
longer follows from that, and their properties by `Climb`.

The theorems with hypotheses that narrow the constants are `DoubleBudgetHolds` (the cooldown is
no shorter than the window) and those of `ReleaseManager` after `ServedWholeHolds` (one session;
but for `SwapReadyHolds`, no failing writes). The runs that check the same properties
satisfy these hypotheses.

## Disagreements

What the repository says of the program and the code does not keep stands in the
modules as a property with a configuration of its own, which TLC refutes:

| Configuration | Says, and where the code differs |
| --- | --- |
| `NoChildLeft.cfg` | Stop stops php-fpm (`supervisor.go:221`), and nothing is left behind (`TODO.md:544`). The deferred Stop runs while the watchdog still does (`main.go:332`); a restart can follow it. |
| `BodyWhole.cfg` | The rest of the output is the body (`response.go:137`). The scanner reads past the headers; what it has buffered of the body is never sent (`:140`). |
| `Graceful.cfg` | Shutdown waits up to 30 seconds for requests (`TODO.md:97`). `ListenAndServe` returns as soon as Shutdown begins, and `runServe` exits on top of the requests in flight (`main.go:561`). |
| `DeliberateStopHolds.cfg` | A deliberate stop is not undone (`watchdog.go:112`); the state is read before the health check and acted on after it (`:132`). |
| `ReadyMeansListening.cfg` | Start returns when php-fpm listens (`supervisor.go:124`); a stale socket file passes (`:338`). |
| `WatchdogBudget.cfg` (`Budget`) | At most `MaxRestarts` in a window (`watchdog.go:21`); opening and closing the circuit forgets the restarts (`:141`), twice as many fit. |
| `DiscardAfterProtocolError.cfg` with `DialPerRequest` | A request never meets a connection older than itself (`protocol.go:79`); the pool keeps them over a restart of php-fpm (`pool.go:85`). |
| `DiscardAfterProtocolError.cfg` | A connection is dropped after a protocol error (`ROADMAP.md:71`); an end between two records passes for the end of the response (`protocol.go:454`). |
| `AtomicActivation.cfg` | Activation replaces the link at once (`TODO.md:350`, `README.md:46`); the old link is removed first (`release.go:149`). |
| `NoBrokenActive.cfg` | A failed activation leaves the active release in place (`TODO.md:382`); after a crash between removal and rename there is none (`release.go:163`), with an absolute directory too. |
| `AtomicActivation.cfg` with `ActiveKnown` | With a relative releases directory, as by default, the link dangles, and the next manager cannot initialise (`release.go:151`). |
| `FastCGIPool.cfg` with `Served` | A request need not wait for its deadline. With as many idle connections as workers, as shipped (`main.go:399`), they can hold every worker, and a new connection waits in the backlog. |
| `BodyOnly.cfg` | Output without headers is body only (`response.go:52`, `:142`): without an empty line all of it is body; the stream parser takes its lines for headers (`:143`). |
| `RestartAnnounced.cfg` | A reload reports the settings that need a restart (`main.go:728`); it compares with the last reload, not with what runs, and so forgets one (`:742`). |
| `Revalidated.cfg` | A client that revalidates has the file in place (`README.md:39`). `If-Modified-Since` is obeyed although `If-None-Match` failed (`main.go:893`), and a precompressed file goes out under the plain one's ETag (`:910`): after a rollback the newer page is confirmed. |
| `SitesAtOnce.cfg` | The servers that run are those of the active sites. Two handlers load the same list, and the second store undoes the first (`handlers.go:343`, `:441`, `:470`): a site is lost and its server still runs. The same follows from two sites of one name, which get one id (`handlers.go:293`). |
| `LogsStreamed.cfg` | Logs are "streamed in real-time via WebSockets" (`Logs.tsx:67`). Once the window of 100 is full its length no longer grows and nothing more is sent (`handlers.go:831`); and a late answer to a GET removes entries that were streamed (`Logs.tsx:16`). |
| `LogsPage.cfg` with `CatchesUp` | A page without its stream polls (`Logs.tsx:47`). It does when it has been told: over a connection that vanished `wsConnected` stays true, and the table stands still. |
| `ConfigOpens.cfg` | "Loading configuration..." (`Config.tsx:32`) gives way to the form. After one failed call it stays: nothing asks again, and the error is not shown. |

Met, and left at that:

- `ParsePath` says it takes the raw request target (`path.go:38`) and is given the
  decoded path; the router matches the path as it was asked, before it is normalised
  (`TODO.md:108` has the other order).
- Sites: a PUT does not look for a port conflict as a POST does; the play button
  sends the whole row as it was last shown, and so undoes another operator's edit; a
  failed change does not load the table again, though the server may have stopped the
  site; creating ignores the form's profile and extensions; the port offered may pass
  65535, and is then refused.
- Configuration: saving persists nothing (`TODO.md:558`), but replaces the list of sites by
  the one the page loaded (`Config.tsx:17`, `handlers.go:561`).
- Dashboard: the health label never goes back to offline once it has had an answer; the
  ⌘K hint (`Layout.tsx:149`) is not bound to the keys; "Profile applied" of Extensions calls
  no handler; Routes shows routes of its own when the gateway has none.

## Not modelled

Text and data: php-fpm configuration, CGI parameters, MIME types and
`Cache-Control`, the fields of the configuration, how a route or a condition
matches. Code without a caller: the state store, the deployment switcher and the
canary, the network policy, writable paths, `RewriteLoop`, the php-fpm package,
the ACME client. Input and output of one run: diagnostics, provisioning,
signatures, commands. Libraries: `net/http`, the reverse proxy. Counters and logs:
observability. Of the dashboard: the Extensions page, which keeps its choices to itself,
Runtimes, which only shows, themes, the sidebar, charts, filters and wording. Of the
management interface: saving the configuration, extensions of a site, what only reads. The
runtime registry is not modelled yet. `PROJECT.json` has the list with a reason for each.

## Plan

Done, in this order: supervision with its circuit, the pool, releases, CGI
responses, the process, the rate limiter, the request path, sites and the dashboard. Left:

1. **Stores**: one abstract file replaced by rename, `AtomicFile`, implemented by the
   state store and the lock file, and the runtime registry, which is not; crashes
   between any two system calls, a failed write that leaves the memory changed
   (`sqlite.go:76`), two stores over one `.tmp` (`:131`).
2. **Deployments**: switcher and canary over `ReleaseManager`: hooks, probe,
   activation; a canary promoted while its release fails (`canary.go:93`), a release
   marked failed without its manager's lock (`switcher.go:76`).
3. **FastCGIWire**: the records of a request and a response on a connection with
   bounded buffers in both directions: lengths that wrap, who waits for whom; then
   `CgiResponse` fed by it.
4. Pure parts as samples in runs that exist: record headers and
   name-value lengths, byte sizes, redaction, forwarded headers.

Every safety property of the runs is a theorem. What there is to prove next comes with the models to come: that the stores implement `AtomicFile`, and that
a canary's release and its manager agree. Liveness stays with TLC.
