----------------------------- MODULE SiteServer -----------------------------
(***************************************************************************)
(* The sites of the management interface: the list its handlers load,      *)
(* change and store (internal/ui/handlers.go) and the servers SiteManager  *)
(* runs (internal/ui/siteManager.go). A handler is the steps between the   *)
(* atomic loads, the stores and the manager's lock; handlers of different  *)
(* requests interleave, up to Handlers at once.                            *)
(*                                                                         *)
(* The list is a slice: a header (array, length) that is loaded and stored *)
(* as one, over a backing array that updates and deletes write in place.   *)
(***************************************************************************)
EXTENDS Integers, Sequences, FiniteSets

CONSTANTS
  Ids,        \* names of sites; generateID makes an id of each
  MaxPort,    \* the last valid port; the first is 1
  Slots,      \* requests in flight, 1..n
  Handlers,   \* bound on the changes handled at once
  Found,      \* how many sites there are when the page is opened
  MaxFaults,  \* bound on servers that fail to start for reasons outside the gateway
  None        \* no request, no row

ASSUME ServerAssumption ==
  /\ MaxPort \in Nat \ {0}
  /\ IsFiniteSet(Slots) /\ Slots = 1..Cardinality(Slots)
  /\ Handlers \in Nat \ {0}
  /\ Found \in 0..2 /\ Found <= MaxPort
  /\ MaxFaults \in Nat

VARIABLES
  arrays,   \* backing arrays, each as long as its capacity
  list,     \* status.Sites: the header of the list
  running,  \* SiteManager.servers: the port each site is served on, 0 for none
  reqs,     \* requests that change the list
  faults

server == <<arrays, list, running, reqs, faults>>

Ports == 1..MaxPort
Status == {"active", "stopped", "error"}
Row == [id : Ids, port : 0..MaxPort + 1, status : Status]
Arrays == 1..Cardinality(Slots) + 1
Empty == [array |-> 1, len |-> 0]

\* The rows under a header.
Rows(h) == SubSeq(arrays[h.array], 1, h.len)
Sites == Rows(list)

\* generateID gives every use of a name the same id: the first row that has it is found.
IndexOf(id, rows) ==
  IF \E i \in DOMAIN rows : rows[i].id = id
  THEN CHOOSE i \in DOMAIN rows : rows[i].id = id /\ \A j \in 1..i - 1 : rows[j].id # id
  ELSE 0

\* GET /api/sites: every row with its actual running status.
Annotated ==
  [i \in 1..list.len |->
     LET row == Sites[i] IN
     IF running[row.id] # 0 THEN [row EXCEPT !.status = "active"]
     ELSE IF row.status = "active" THEN [row EXCEPT !.status = "stopped"]
     ELSE row]

\* The sites there are were created one after the other, each on the next port: appending
\* made room for just these, while they are no more than two.
ServerInit ==
  /\ \E ids \in [1..Found -> Ids] :
       /\ \A i, j \in 1..Found : ids[i] = ids[j] => i = j
       /\ arrays = [a \in Arrays |->
                      IF a = 1 THEN [i \in 1..Found |-> [id |-> ids[i], port |-> i, status |-> "active"]]
                      ELSE <<>>]
  /\ list = [array |-> 1, len |-> Found]
  /\ running = [id \in Ids |-> IndexOf(id, Sites)]
  /\ reqs = [s \in Slots |-> None]
  /\ faults = 0

Free == {s \in Slots : reqs[s] = None}
FirstFree == CHOOSE s \in Free : \A t \in Free : s <= t

\* A request on its way: what it asks for, for which row, from whom and why.
Request(op, row, by, why) ==
  [op |-> op, row |-> row, by |-> by, why |-> why, pc |-> "sent", at |-> Empty, idx |-> 0]

Steps == {"stop", "start", "store", "store failed"}
Handling == {s \in Slots : reqs[s] # None /\ reqs[s].pc \in Steps}
Replied(s) == reqs[s] # None /\ reqs[s].pc \in {"ok", "failed"}
Goto(s, pc) == reqs' = [reqs EXCEPT ![s].pc = pc]

(* POST: the port is validated, then looked for in the list that is loaded once. *)
BeginCreate(s) ==
  /\ reqs[s].op = "POST"
  /\ reqs' = [reqs EXCEPT ![s].at = list,
       ![s].pc = IF reqs[s].row.port \notin Ports
                   \/ \E i \in 1..list.len : Sites[i].port = reqs[s].row.port
                 THEN "failed" ELSE "start"]

(* PUT and DELETE: the list is loaded and the site found in it. A PUT touches the site's *)
(* server only when the port or the status it asks for differs from what is stored.      *)
BeginChange(s) ==
  /\ reqs[s].op \in {"PUT", "DELETE"}
  /\ LET i == IndexOf(reqs[s].row.id, Sites)
         old == Sites[i]
         new == reqs[s].row
     IN  reqs' = [reqs EXCEPT ![s].at = list, ![s].idx = i,
           ![s].pc = IF i = 0 THEN "failed"
                     ELSE IF reqs[s].op = "DELETE" \/ new.port # old.port \/ new.status # old.status
                     THEN "stop" ELSE "store"]

Begin(s) ==
  /\ reqs[s] # None
  /\ reqs[s].pc = "sent"
  /\ Cardinality(Handling) < Handlers
  /\ BeginCreate(s) \/ BeginChange(s)
  /\ UNCHANGED <<arrays, list, running, faults>>

(* StopSite, under the manager's lock; nil when the site does not run. *)
Stop(s) ==
  /\ reqs[s] # None
  /\ reqs[s].pc = "stop"
  /\ running' = [running EXCEPT ![reqs[s].row.id] = 0]
  /\ Goto(s, IF reqs[s].op = "PUT" /\ reqs[s].row.status = "active" THEN "start" ELSE "store")
  /\ UNCHANGED <<arrays, list, faults>>

(* What StartSite refuses: a site that runs, a port that is none (a PUT is not *)
(* checked), a port another site's server holds.                               *)
Refuses(row) ==
  \/ running[row.id] # 0
  \/ row.port > MaxPort
  \/ \E id \in Ids : running[id] = row.port

StartOk(s) ==
  /\ ~Refuses(reqs[s].row)
  /\ running' = [running EXCEPT ![reqs[s].row.id] = reqs[s].row.port]
  /\ Goto(s, "store")
  /\ UNCHANGED faults

(* A create ends there; an update goes on to store the site with status "error". Besides *)
(* Refuses, a start fails when the webroot is gone or another process holds the port.    *)
StartFails(s) ==
  /\ \/ Refuses(reqs[s].row) /\ UNCHANGED faults
     \/ ~Refuses(reqs[s].row) /\ faults < MaxFaults /\ faults' = faults + 1
  /\ reqs' = [reqs EXCEPT ![s].pc = IF reqs[s].op = "POST" THEN "failed" ELSE "store failed",
                          ![s].row.status = "error"]
  /\ UNCHANGED running

Start(s) ==
  /\ reqs[s] # None
  /\ reqs[s].pc = "start"
  /\ StartOk(s) \/ StartFails(s)
  /\ UNCHANGED <<arrays, list>>

\* What no header refers to any more is gone: whole arrays, and the tails of the others.
Collect(heap, head, rs) ==
  LET heads == {head} \cup {rs[s].at : s \in {t \in Slots : rs[t] # None}}
      live(a, i) == \E h \in heads : h.array = a /\ i <= h.len
  IN  [a \in Arrays |-> IF \E h \in heads : h.array = a /\ h.len > 0
                       THEN [i \in DOMAIN heap[a] |-> IF live(a, i) THEN heap[a][i] ELSE None]
                       ELSE IF head.array = a THEN [i \in DOMAIN heap[a] |-> None] ELSE <<>>]

\* append(*sites, site): in place when the loaded slice has room, else in a larger array.
Appended(h, row) ==
  LET cap == Len(arrays[h.array])
      fresh == CHOOSE a \in Arrays : a # h.array /\ a # list.array /\ \A s \in Handling : a # reqs[s].at.array
  IN  IF h.len < cap
      THEN [heap |-> [arrays EXCEPT ![h.array][h.len + 1] = row], head |-> [h EXCEPT !.len = @ + 1]]
      ELSE [heap |-> [arrays EXCEPT ![fresh] = [i \in 1..(IF cap = 0 THEN 1 ELSE 2 * cap) |->
                                                  IF i <= cap THEN arrays[h.array][i] ELSE IF i = cap + 1 THEN row ELSE None]],
            head |-> [array |-> fresh, len |-> h.len + 1]]

\* An update that stores a list of its own, as handleExtensions does.
OverwrittenCopies(h, i, row) ==
  LET fresh == CHOOSE a \in Arrays : a # h.array /\ a # list.array /\ \A s \in Handling : a # reqs[s].at.array
  IN  [heap |-> [arrays EXCEPT ![fresh] = [arrays[h.array] EXCEPT ![i] = row]], head |-> [h EXCEPT !.array = fresh]]

\* newSites[idx] = site, in the array that was loaded.
Overwritten(h, i, row) == [heap |-> [arrays EXCEPT ![h.array][i] = row], head |-> h]

\* append((*sites)[:idx], (*sites)[idx+1:]...): the rows behind move up in the same array.
Removed(h, i) ==
  [heap |-> [arrays EXCEPT ![h.array] =
               [j \in DOMAIN @ |-> IF j \in i..h.len - 1 THEN @[j + 1] ELSE @[j]]],
   head |-> [h EXCEPT !.len = @ - 1]]

(* The last step: change the loaded slice, store it, answer. *)
Store(s) ==
  /\ reqs[s] # None
  /\ reqs[s].pc \in {"store", "store failed"}
  /\ LET r == reqs[s]
         new == CASE r.op = "POST"   -> Appended(r.at, r.row)
                  [] r.op = "PUT"    -> Overwritten(r.at, r.idx, r.row)
                  [] r.op = "DELETE" -> Removed(r.at, r.idx)
     IN  /\ list' = new.head
         /\ reqs' = [reqs EXCEPT ![s].at = Empty, ![s].idx = 0,
              ![s].pc = IF r.pc = "store" THEN "ok" ELSE "failed"]
         /\ arrays' = Collect(new.heap, new.head, reqs')
  /\ UNCHANGED <<running, faults>>

Handle(s) == Begin(s) \/ Stop(s) \/ Start(s) \/ Store(s)

=============================================================================
