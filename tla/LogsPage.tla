------------------------------ MODULE LogsPage ------------------------------
(***************************************************************************)
(* The Logs page of the dashboard (pages/Logs.tsx) and what feeds it: the  *)
(* buffer of recent entries (internal/ui/server.go), GET /api/logs and the *)
(* WebSocket /api/ws/logs (internal/ui/handlers.go).                       *)
(*                                                                         *)
(* The page lists entries from two sources: an answer to a GET replaces    *)
(* the list, a message of the stream is appended to it. It polls while it  *)
(* believes the stream to be closed, and it never connects again.          *)
(*                                                                         *)
(* Entry n is the n-th written. What level and text it has, and the filter *)
(* of the page over them, decide nothing here.                             *)
(***************************************************************************)
EXTENDS UseApi, FiniteSets

CONSTANTS
  Keep,        \* entries the buffer keeps (500)
  Window,      \* entries a GET answers, and a tick of the stream looks at (100)
  First,       \* entries the stream begins with (50)
  Listed,      \* entries the page lists (500)
  MaxEntries,  \* bound on the entries written
  MaxLost,     \* bound on calls that fail
  MaxClicks    \* bound on clicks on the refresh button

ASSUME LogsAssumption ==
  /\ {Keep, Window, First, Listed} \subseteq Nat \ {0}
  /\ First <= Window /\ Window <= Keep /\ Window <= Listed
  /\ MaxEntries \in Nat /\ MaxLost \in Nat /\ MaxClicks \in Nat

VARIABLES
  written,      \* entries written so far; the buffer holds the last of them
  conn,         \* the connection: "dialed", "open", "gone" with nobody told, "closed"
  lastSent,     \* handleWSLogs: how many entries of the window it has sent
  wire,         \* events on their way to the page: "open", entries, "close"
  streamed,     \* not in the code: the entries sent on the connection
  hook,         \* useApi(() => api.getLogs())
  entries,      \* what the page lists
  wsConnected,
  lost, clicks

stream == <<conn, lastSent, wire, streamed>>
vars   == <<written, stream, hook, entries, wsConnected, lost, clicks>>

Least(a, b) == IF a <= b THEN a ELSE b

\* The last n elements of s, or all of it.
Last(n, s) == SubSeq(s, Len(s) - Least(n, Len(s)) + 1, Len(s))

Opened    == [event |-> "open"]
Closed    == [event |-> "close"]
Messages(es) == [i \in DOMAIN es |-> [event |-> "message", entry |-> es[i]]]

\* LogBuffer.Recent(n): the buffer has dropped all but the last Keep entries.
Recent(n) ==
  LET k == Least(n, Least(written, Keep)) IN [i \in 1..k |-> written - k + i]

Init ==
  /\ written \in 0..Window
  /\ conn = "dialed"
  /\ lastSent = 0
  /\ wire = <<>>
  /\ streamed = <<>>
  /\ hook = Mount
  /\ entries = <<>>
  /\ wsConnected = FALSE
  /\ lost = 0 /\ clicks = 0

(* LogBuffer.Add. *)
Add ==
  /\ written < MaxEntries
  /\ written' = written + 1
  /\ UNCHANGED <<stream, hook, entries, wsConnected, lost, clicks>>

Send(es) ==
  /\ wire' = wire \o Messages(es)
  /\ streamed' = streamed \o es

(* handleWSLogs, to its loop: the upgrade, then the most recent entries. *)
Upgrade ==
  /\ conn = "dialed"
  /\ conn' = "open"
  /\ lastSent' = Len(Recent(First))
  /\ wire' = <<Opened>> \o Messages(Recent(First))
  /\ streamed' = Recent(First)
  /\ UNCHANGED <<written, hook, entries, wsConnected, lost, clicks>>

\* The count of what was sent is not brought up to date.
TickForgetful ==
  /\ conn = "open"
  /\ Len(Recent(Window)) > lastSent
  /\ Send(SubSeq(Recent(Window), lastSent + 1, Len(Recent(Window))))
  /\ UNCHANGED <<conn, lastSent, written, hook, entries, wsConnected, lost, clicks>>

(* The ticker: the entries of the window beyond the number that was sent. *)
Tick ==
  /\ conn = "open"
  /\ Len(Recent(Window)) > lastSent
  /\ Send(SubSeq(Recent(Window), lastSent + 1, Len(Recent(Window))))
  /\ lastSent' = Len(Recent(Window))
  /\ UNCHANGED <<conn, written, hook, entries, wsConnected, lost, clicks>>

(* The connection breaks, or is never made: part of what was sent is lost. *)
Break ==
  /\ conn # "closed"
  /\ conn' = "closed"
  /\ \E n \in 0..Len(wire) : wire' = Append(SubSeq(wire, 1, n), Closed)
  /\ UNCHANGED <<lastSent, streamed, written, hook, entries, wsConnected, lost, clicks>>

(* The other end is gone and nobody is told: what the handler still writes reaches nobody, *)
(* and the page goes on believing in its stream. A page that was not connected yet gives   *)
(* up in the end: that is Break.                                                           *)
Vanish ==
  /\ conn = "open"
  /\ conn' = "gone"
  /\ \E n \in 0..Len(wire) : (wsConnected \/ n > 0) /\ wire' = SubSeq(wire, 1, n)
  /\ UNCHANGED <<lastSent, streamed, written, hook, entries, wsConnected, lost, clicks>>

Event(e) ==
  /\ wire # <<>>
  /\ wire[1].event = e
  /\ wire' = Tail(wire)
  /\ UNCHANGED <<conn, lastSent, streamed, written, hook, lost, clicks>>

OnOpen  == Event("open")  /\ wsConnected' = TRUE  /\ UNCHANGED entries

\* The label and the polling are told of a connection that opens only.
OnCloseUnheard == Event("close") /\ UNCHANGED <<wsConnected, entries>>

OnClose == Event("close") /\ wsConnected' = FALSE /\ UNCHANGED entries

OnMessage ==
  /\ Event("message")
  /\ entries' = Append(Last(Listed - 1, entries), wire[1].entry)
  /\ UNCHANGED wsConnected

(* The interval, which is cleared while the page believes to be connected. *)
Poll ==
  /\ ~wsConnected
  /\ Room(hook)
  /\ hook' = Load(hook)
  /\ UNCHANGED <<written, stream, entries, wsConnected, lost, clicks>>

Refresh ==
  /\ clicks < MaxClicks
  /\ Room(hook)
  /\ clicks' = clicks + 1
  /\ hook' = Load(hook)
  /\ UNCHANGED <<written, stream, entries, wsConnected, lost>>

(* handleLogs. *)
Handle(i) ==
  /\ Pending(hook, i)
  /\ hook' = Answer(hook, i, Recent(Window))
  /\ UNCHANGED <<written, stream, entries, wsConnected, lost, clicks>>

Lose(i) ==
  /\ Pending(hook, i)
  /\ lost < MaxLost
  /\ lost' = lost + 1
  /\ hook' = Refuse(hook, i)
  /\ UNCHANGED <<written, stream, entries, wsConnected, clicks>>

(* An answer: the effect on data replaces the list. *)
Receive(i) ==
  /\ Settled(hook, i)
  /\ hook' = Settle(hook, i)
  /\ entries' = IF hook.calls[i].state = "answered" THEN hook.calls[i].value ELSE entries
  /\ UNCHANGED <<written, stream, wsConnected, lost, clicks>>

Events  == OnOpen \/ OnClose \/ OnMessage
Answers == \E i \in 1..MaxCalls : Handle(i) \/ Receive(i)

Next ==
  \/ Add \/ Upgrade \/ Tick \/ Break \/ Vanish
  \/ Events \/ Poll \/ Refresh \/ Answers
  \/ \E i \in 1..MaxCalls : Lose(i)

\* The timers fire, the server answers and events are delivered.
Spec == Init /\ [][Next]_vars
             /\ WF_vars(Upgrade) /\ WF_vars(Tick) /\ WF_vars(Events) /\ WF_vars(Poll)
             /\ \A i \in 1..MaxCalls : WF_vars(Handle(i)) /\ WF_vars(Receive(i))

-----------------------------------------------------------------------------

Occurrences(n) == {i \in DOMAIN streamed : streamed[i] = n}

(* Until the buffer holds more than the window, the stream of a connection has no gap, *)
(* whatever is written between two ticks; and no entry twice if it began with all      *)
(* there was. Beyond the window neither is true: see Streamed.                         *)
NoGap ==
  written <= Window =>
    /\ \A i \in DOMAIN streamed : \A n \in streamed[1]..streamed[i] : Occurrences(n) # {}
    /\ streamed # <<>> /\ streamed[1] = 1 => \A n \in 1..written : Cardinality(Occurrences(n)) <= 1

(* A page that was told its stream is over comes to list what the buffer holds,       *)
(* wherever the stream broke, in whatever order answers came and although some did    *)
(* not.                                                                               *)
PollingCatchesUp == <>[](conn \in {"open", "gone"} \/ entries = Recent(Window))

(* A page without its stream comes to list what the buffer holds, which the code does  *)
(* not keep: nothing asks whether a stream that says nothing is still there.           *)
CatchesUp == <>[](conn = "open" \/ entries = Recent(Window))

(* "Streamed in real-time via WebSockets" (Logs.tsx:67), which the code does not keep: *)
(* once the window is full, its length no longer grows and nothing is sent any more.   *)
Streamed ==
  \A n \in 1..MaxEntries :
    (conn = "open" /\ wsConnected /\ written = n) ~>
      (conn # "open" \/ n \in {entries[i] : i \in DOMAIN entries})

=============================================================================
