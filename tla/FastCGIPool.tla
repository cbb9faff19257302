----------------------------- MODULE FastCGIPool -----------------------------
(***************************************************************************)
(* The FastCGI connection pool (internal/php/fastcgi/pool.go), the request *)
(* handlers that borrow from it (servePHP in cmd/gateway/main.go) and the  *)
(* php-fpm workers at the other end of the connections.                    *)
(*                                                                         *)
(* A handler serves one request.  A connection is a member of Clients; its *)
(* name is recycled once both ends are done with it.  What passes over a   *)
(* connection is kept to what the pool must not confuse: whether a request *)
(* is on its way or being run ("asked"), a whole response waits to be read *)
(* ("answered"), or nothing is left to read ("quiet").                     *)
(***************************************************************************)
EXTENDS Integers, Sequences, FiniteSets

CONSTANTS
  Requests,   \* requests for PHP scripts, one handler goroutine each
  Clients,    \* names of FastCGI connections
  Nobody,     \* a handler has no connection
  MaxIdle,    \* PoolConfig.MaxIdle
  MaxActive,  \* PoolConfig.MaxActive
  Workers     \* php-fpm workers (pm.max_children)

ASSUME PoolAssumption ==
  /\ IsFiniteSet(Requests)
  /\ IsFiniteSet(Clients)
  /\ Nobody \notin Clients
  /\ MaxIdle \in Nat \ {0}
  /\ MaxActive \in Nat \ {0}
  /\ Workers \in Nat \ {0}

VARIABLES
  idle,         \* p.idle: the connections in the pool, last returned last
  expired,      \* how many of them, oldest first, are idle past IdleTimeout
  activeCount,  \* p.activeCount
  closed,       \* p.closed
  pc,           \* where each handler is
  client,       \* the connection each handler has borrowed
  open,         \* connections whose gateway end is open
  chan,         \* what is on each connection
  php,          \* the php-fpm end of each connection
  fpm           \* php-fpm is listening

vars == <<idle, expired, activeCount, closed, pc, client, open, chan, php, fpm>>

\* "keep" and "drop": the handler is about to call Put, without an error and
\* with one.
Holding  == {"have", "sent", "keep", "drop"}
Handling == {"new", "dialing", "done"} \cup Holding

\* "queued": in the listen backlog; "bound": a worker has accepted it and, as
\* the request says FCGI_KEEP_CONN, stays with it until it is closed.
Ends == {"none", "queued", "bound", "dead"}

InPool      == {idle[i] : i \in DOMAIN idle}
Held        == {client[r] : r \in {q \in Requests : pc[q] \in Holding}}
Outstanding == {r \in Requests : pc[r] \in Holding \cup {"dialing"}}

TypeOK ==
  /\ idle \in Seq(Clients)
  /\ Len(idle) <= MaxIdle
  /\ expired \in 0..Len(idle)
  /\ activeCount \in Int
  /\ closed \in BOOLEAN
  /\ pc \in [Requests -> Handling]
  /\ client \in [Requests -> Clients \cup {Nobody}]
  /\ open \in SUBSET Clients
  /\ chan \in [Clients -> {"quiet", "asked", "answered"}]
  /\ php \in [Clients -> Ends]
  /\ fpm \in BOOLEAN

Init ==
  /\ idle = <<>>
  /\ expired = 0
  /\ activeCount = 0
  /\ closed = FALSE
  /\ pc = [r \in Requests |-> "new"]
  /\ client = [r \in Requests |-> Nobody]
  /\ open = {}
  /\ chan = [c \in Clients |-> "quiet"]
  /\ php = [c \in Clients |-> "none"]
  /\ fpm = TRUE

-----------------------------------------------------------------------------
Goto(r, from, to) == pc[r] = from /\ pc' = [pc EXCEPT ![r] = to]

\* A worker that is running a script for c goes on with it.
Running(c) == php[c] = "bound" /\ chan[c] = "asked"

\* The gateway closes its end of the connections cs.
CloseAll(cs) ==
  LET gone == {c \in cs : ~Running(c)} IN
  /\ open' = open \ cs
  /\ php' = [c \in Clients |-> IF c \in gone THEN "none" ELSE php[c]]
  /\ chan' = [c \in Clients |-> IF c \in gone THEN "quiet" ELSE chan[c]]

-----------------------------------------------------------------------------
(* Pool.Get *)

GetClosed(r) ==
  /\ Goto(r, "new", "done")
  /\ closed
  /\ UNCHANGED <<idle, expired, activeCount, closed, client, open, chan, php, fpm>>

\* The connection returned last, unless it has expired.
GetIdle(r) ==
  /\ Goto(r, "new", "have")
  /\ ~closed
  /\ expired < Len(idle)
  /\ client' = [client EXCEPT ![r] = idle[Len(idle)]]
  /\ idle' = SubSeq(idle, 1, Len(idle) - 1)
  /\ UNCHANGED <<expired, activeCount, closed, open, chan, php, fpm>>

\* When the one returned last has expired all have: they are closed, one by one
\* in one critical section, before the limit is looked at.
ReapExpired ==
  /\ ~closed
  /\ expired = Len(idle)
  /\ idle' = <<>>
  /\ expired' = 0
  /\ CloseAll(InPool)

GetExhausted(r) ==
  /\ Goto(r, "new", "done")
  /\ ReapExpired
  /\ activeCount - Len(idle) >= MaxActive
  /\ activeCount' = activeCount - Len(idle)
  /\ UNCHANGED <<closed, client, fpm>>

\* Variant: expired connections are closed but still counted.
GetMiscounts(r) ==
  /\ Goto(r, "new", "dialing")
  /\ ReapExpired
  /\ activeCount - Len(idle) < MaxActive
  /\ activeCount' = activeCount + 1
  /\ UNCHANGED <<closed, client, fpm>>

\* Variant: the limit is passed by one.
GetReservesOneMore(r) ==
  /\ Goto(r, "new", "dialing")
  /\ ReapExpired
  /\ activeCount - Len(idle) <= MaxActive
  /\ activeCount' = activeCount - Len(idle) + 1
  /\ UNCHANGED <<closed, client, fpm>>

\* A place is reserved under the lock; the dial is made without it.
GetReserves(r) ==
  /\ Goto(r, "new", "dialing")
  /\ ReapExpired
  /\ activeCount - Len(idle) < MaxActive
  /\ activeCount' = activeCount - Len(idle) + 1
  /\ UNCHANGED <<closed, client, fpm>>

\* php-fpm's backlog is longer than MaxActive, so a listening one accepts.
\* The pool may have been closed during the dial: Get does not look again.
DialOk(r) ==
  /\ Goto(r, "dialing", "have")
  /\ fpm
  /\ \E c \in Clients :
       /\ c \notin open
       /\ php[c] = "none"
       /\ client' = [client EXCEPT ![r] = c]
       /\ open' = open \cup {c}
       /\ php' = [php EXCEPT ![c] = "queued"]
  /\ UNCHANGED <<idle, expired, activeCount, closed, chan, fpm>>

DialFails(r) ==
  /\ Goto(r, "dialing", "done")
  /\ ~fpm
  /\ activeCount' = activeCount - 1
  /\ UNCHANGED <<idle, expired, closed, client, open, chan, php, fpm>>

-----------------------------------------------------------------------------
(* servePHP *)

\* The body is too large: the response is 413, and execErr stays nil.
TooLarge(r) ==
  /\ Goto(r, "have", "keep")
  /\ UNCHANGED <<idle, expired, activeCount, closed, client, open, chan, php, fpm>>

\* ExecuteStream writes the whole request...
Send(r) ==
  /\ Goto(r, "have", "sent")
  /\ php[client[r]] # "dead"
  /\ chan' = [chan EXCEPT ![client[r]] = "asked"]
  /\ UNCHANGED <<idle, expired, activeCount, closed, client, open, php, fpm>>

\* ...or finds that php-fpm has closed the connection.
SendFails(r) ==
  /\ Goto(r, "have", "drop")
  /\ php[client[r]] = "dead"
  /\ UNCHANGED <<idle, expired, activeCount, closed, client, open, chan, php, fpm>>

\* The response is read and copied to its end, END_REQUEST.
ReadToEnd(r) ==
  /\ Goto(r, "sent", "keep")
  /\ chan[client[r]] = "answered"
  /\ chan' = [chan EXCEPT ![client[r]] = "quiet"]
  /\ UNCHANGED <<idle, expired, activeCount, closed, client, open, php, fpm>>

\* The connection ends before END_REQUEST does.  At a record boundary readRecord
\* returns a bare io.EOF, which the parser and io.Copy take for the end of the
\* response; inside a record, or on a reset, there is an error.
ReadBroken(r) ==
  /\ pc[r] = "sent"
  /\ php[client[r]] = "dead"
  /\ chan[client[r]] = "asked"
  /\ \E to \in {"keep", "drop"} : pc' = [pc EXCEPT ![r] = to]
  /\ chan' = [chan EXCEPT ![client[r]] = "quiet"]
  /\ UNCHANGED <<idle, expired, activeCount, closed, client, open, php, fpm>>

\* The deadline passes, the visitor goes away, the request's body cannot be read
\* or the response's headers are malformed.
GiveUp(r) ==
  /\ pc[r] \in {"have", "sent"}
  /\ pc' = [pc EXCEPT ![r] = "drop"]
  /\ UNCHANGED <<idle, expired, activeCount, closed, client, open, chan, php, fpm>>

-----------------------------------------------------------------------------
(* Pool.Put, deferred by servePHP *)

Return(r) ==
  /\ pc' = [pc EXCEPT ![r] = "done"]
  /\ client' = [client EXCEPT ![r] = Nobody]
  /\ UNCHANGED <<expired, closed, fpm>>

\* Variants: the error is not looked at; the pool's state is not.
PutKeepsBroken(r) ==
  /\ pc[r] \in {"keep", "drop"}
  /\ ~closed
  /\ Len(idle) < MaxIdle
  /\ idle' = Append(idle, client[r])
  /\ Return(r)
  /\ UNCHANGED <<activeCount, open, chan, php>>

PutKeepsClosed(r) ==
  /\ pc[r] = "keep"
  /\ Len(idle) < MaxIdle
  /\ idle' = Append(idle, client[r])
  /\ Return(r)
  /\ UNCHANGED <<activeCount, open, chan, php>>

PutKeeps(r) ==
  /\ pc[r] = "keep"
  /\ ~closed
  /\ Len(idle) < MaxIdle
  /\ idle' = Append(idle, client[r])
  /\ Return(r)
  /\ UNCHANGED <<activeCount, open, chan, php>>

\* Variant: a connection that is not kept is not closed either.
PutLeaks(r) ==
  /\ \/ pc[r] = "drop"
     \/ pc[r] = "keep" /\ (closed \/ Len(idle) >= MaxIdle)
  /\ activeCount' = activeCount - 1
  /\ Return(r)
  /\ UNCHANGED <<idle, open, chan, php>>

PutCloses(r) ==
  /\ \/ pc[r] = "drop"
     \/ pc[r] = "keep" /\ (closed \/ Len(idle) >= MaxIdle)
  /\ activeCount' = activeCount - 1
  /\ CloseAll({client[r]})
  /\ Return(r)
  /\ UNCHANGED idle

-----------------------------------------------------------------------------
\* Pool.Close.  Borrowed connections are closed when they are put back.
Close ==
  /\ ~closed
  /\ closed' = TRUE
  /\ CloseAll(InPool)
  /\ idle' = <<>>
  /\ expired' = 0
  /\ activeCount' = 0
  /\ UNCHANGED <<pc, client, fpm>>

\* Time: lastUsed is in the order of idle, so the oldest connection is next.
Expire ==
  /\ expired < Len(idle)
  /\ expired' = expired + 1
  /\ UNCHANGED <<idle, activeCount, closed, pc, client, open, chan, php, fpm>>

-----------------------------------------------------------------------------
(* php-fpm *)

Accept(c) ==
  /\ php[c] = "queued"
  /\ Cardinality({d \in Clients : php[d] = "bound"}) < Workers
  /\ php' = [php EXCEPT ![c] = "bound"]
  /\ UNCHANGED <<idle, expired, activeCount, closed, pc, client, open, chan, fpm>>

\* The script ends.  If the gateway has closed its end, so does the worker.
Finish(c) ==
  /\ Running(c)
  /\ IF c \in open
     THEN chan' = [chan EXCEPT ![c] = "answered"] /\ UNCHANGED php
     ELSE chan' = [chan EXCEPT ![c] = "quiet"] /\ php' = [php EXCEPT ![c] = "none"]
  /\ UNCHANGED <<idle, expired, activeCount, closed, pc, client, open, fpm>>

\* The ends of the connections cs that a worker or the master held are closed.
HangUp(cs) ==
  /\ php' = [c \in Clients |->
               IF c \in cs THEN (IF c \in open THEN "dead" ELSE "none") ELSE php[c]]
  /\ chan' = [c \in Clients |-> IF c \in cs \ open THEN "quiet" ELSE chan[c]]

\* A worker has run pm.max_requests, or crashes in the middle of a script.
WorkerExits(c) ==
  /\ php[c] = "bound"
  /\ HangUp({c})
  /\ UNCHANGED <<idle, expired, activeCount, closed, pc, client, open, fpm>>

\* php-fpm stops, and is started again by the watchdog.
FpmStops ==
  /\ fpm
  /\ fpm' = FALSE
  /\ HangUp({c \in Clients : php[c] \in {"queued", "bound"}})
  /\ UNCHANGED <<idle, expired, activeCount, closed, pc, client, open>>

FpmStarts ==
  /\ ~fpm
  /\ fpm' = TRUE
  /\ UNCHANGED <<idle, expired, activeCount, closed, pc, client, open, chan, php>>

-----------------------------------------------------------------------------
Get(r)   == GetClosed(r) \/ GetIdle(r) \/ GetExhausted(r) \/ GetReserves(r)
Dial(r)  == DialOk(r) \/ DialFails(r)
Serve(r) == TooLarge(r) \/ Send(r) \/ SendFails(r) \/ ReadToEnd(r) \/ ReadBroken(r)
Put(r)   == PutKeeps(r) \/ PutCloses(r)

Next ==
  \/ \E r \in Requests : Get(r) \/ Dial(r) \/ Serve(r) \/ GiveUp(r) \/ Put(r)
  \/ Close \/ Expire
  \/ \E c \in Clients : Accept(c) \/ Finish(c) \/ WorkerExits(c)
  \/ FpmStops \/ FpmStarts

Spec == Init /\ [][Next]_vars

\* Handlers and workers keep running.  No request has to arrive, and nothing
\* forces a connection to expire, a worker to exit or a handler to give up.
FairSpec ==
  /\ Spec
  /\ \A r \in Requests : WF_vars(Dial(r) \/ Serve(r) \/ Put(r))
  /\ \A c \in Clients : WF_vars(Accept(c) \/ Finish(c))

-----------------------------------------------------------------------------
\* activeCount counts what it limits until the pool is closed: the connections in
\* the pool, those borrowed and those being dialled, whatever becomes of a dial,
\* a request or php-fpm in the meantime (Pool.Get, Pool.Put).
Accounted == ~closed => activeCount = Len(idle) + Cardinality(Outstanding)

\* The pool never has more than MaxActive connections open or being dialled, even
\* while it is closed under the handlers (Pool.Get, Pool.Put, Pool.Close).
Bounded == Len(idle) + Cardinality(Outstanding) <= MaxActive

\* Every open connection is in the pool or borrowed, none is in it twice, in it and
\* borrowed, or borrowed by two handlers; a closed pool holds none (Get, Put, Close).
OneOwner ==
  /\ open = InPool \cup Held
  /\ InPool \cap Held = {}
  /\ \A i, j \in DOMAIN idle : idle[i] = idle[j] => i = j
  /\ \A q, r \in Requests :
       pc[q] \in Holding /\ pc[r] \in Holding /\ client[q] = client[r] => q = r
  /\ closed => idle = <<>>

\* No connection goes back into the pool while bytes of a response are unread or
\* still to come (servePHP, Pool.Put).
CleanReuse == \A c \in InPool : chan[c] = "quiet"

\* r waits in the backlog, and the connections of the pool hold every worker: an
\* idle connection keeps its worker (sendBeginRequest sets FCGI_KEEP_CONN).
BehindIdle(r) ==
  /\ php[client[r]] = "queued"
  /\ Cardinality({c \in InPool : php[c] = "bound"}) = Workers

\* Once sent, a request is answered or sees its connection end, without waiting for
\* its deadline; or again and again it waits behind idle connections that hold every
\* worker.  Nothing else holds it up for ever: neither a script, nor a connection
\* that was dropped, nor a restart of php-fpm (Pool.Put, Client.Close).
HeldUpByIdleOnly ==
  \A r \in Requests : (pc[r] = "sent") ~> (pc[r] # "sent" \/ BehindIdle(r))

-----------------------------------------------------------------------------
(* What one expects, or documents and comments say, and the code does not  *)
(* do.                                                                     *)

\* A request is answered, or sees its connection end, without waiting for its
\* deadline.  With the values the gateway ships (MaxIdle 20 in runServe,
\* max_children 20 in generateConfig) idle connections can hold every worker, and a
\* connection in the backlog waits for as long as they are idle.
Served == \A r \in Requests : (pc[r] = "sent") ~> (pc[r] # "sent")

\* README.md: "one Unix socket dial per PHP request; no reuse".
DialPerRequest ==
  [][\A r \in Requests :
       pc[r] # "have" /\ pc'[r] = "have" => pc[r] = "dialing"]_vars

\* ROADMAP.md, on what pooling needs: "discard after protocol error".  A handler
\* keeps a connection on which it sent a request only when it read END_REQUEST.
DiscardAfterProtocolError ==
  [][\A r \in Requests :
       pc[r] = "sent" /\ pc'[r] = "keep" => chan[client[r]] = "answered"]_vars
=============================================================================
