------------------------------ MODULE SitesPage ------------------------------
(***************************************************************************)
(* The Sites page of the dashboard (pages/Sites.tsx) over the handlers it  *)
(* calls: one tab with its table, its form and its buttons, while requests *)
(* are on their way, and another operator who changes sites as well.       *)
(*                                                                         *)
(* Nothing is disabled while a request is in flight: the buttons of a row  *)
(* are there unless the table is being loaded, and the form stays open     *)
(* until the answer comes. What a handler uses after its await it captured *)
(* when the button was pressed.                                            *)
(*                                                                         *)
(* A site is kept to its id, its port and its status. Names, webroots, PHP *)
(* versions and extensions travel with the row and decide nothing here.    *)
(***************************************************************************)
EXTENDS SiteServer, UseApi

CONSTANTS
  MaxActs,    \* bound on the changes asked for on the page
  MaxOther,   \* bound on the changes of the other operator
  MaxLost     \* bound on calls of the page that fail

ASSUME PageAssumption ==
  /\ MaxActs \in Nat
  /\ MaxOther \in Nat
  /\ MaxLost \in Nat

VARIABLES
  hook,       \* useApi(() => api.getSites())
  modalOpen,
  editing,    \* the row the form was opened for, Null for a new site
  opened,     \* not in the code: the button that opened the form, and its row
  acts, others, lost,
  made,       \* not in the code: changes of this page the server has made
  done,       \* not in the code: of these, how many the page was told of
  clashed     \* not in the code: see Clashes

bounds == <<acts, others, lost>>
ui     == <<modalOpen, editing, opened>>
past   == <<made, done, clashed>>
vars   == <<server, hook, ui, bounds, past>>

NoRow == [button |-> "none", row |-> Null]

\* data?.sites || []
Shown == IF hook.data = Null THEN <<>> ELSE hook.data.rows

\* The rows whose buttons can be pressed: "Loading sites..." replaces the table.
Clickable == IF hook.loading THEN {} ELSE DOMAIN Shown

\* What a GET of the list answers, and how many of the page's changes it can know of.
Listing == [rows |-> Annotated, made |-> made]

Init ==
  /\ ServerInit
  /\ hook = Mount
  /\ modalOpen = FALSE
  /\ editing = Null
  /\ opened = NoRow
  /\ acts = 0 /\ others = 0 /\ lost = 0
  /\ made = 0 /\ done = 0 /\ clashed = FALSE

\* A form that is not told to forget the row it was opened for.
ResetFormKeeps == UNCHANGED editing

\* The fields are refilled as well: see Submit.
ResetForm == editing' = Null

\* The form lies over the page: what is under it cannot be pressed, and it has the buttons
\* Cancel and Create or Update.
InForm == modalOpen

(* "New Site". *)
OpenCreate ==
  /\ ~InForm
  /\ ResetForm
  /\ modalOpen' = TRUE
  /\ opened' = [button |-> "new", row |-> Null]
  /\ UNCHANGED <<server, hook, bounds, past>>

(* The pencil of a row: the row as it is shown is the one edited. *)
OpenEdit(i) ==
  /\ ~InForm
  /\ editing' = Shown[i]
  /\ modalOpen' = TRUE
  /\ opened' = [button |-> "edit", row |-> Shown[i]]
  /\ UNCHANGED <<server, hook, bounds, past>>

(* Cancel, the cross, Escape or a click beside the form. *)
Cancel ==
  /\ InForm
  /\ modalOpen' = FALSE
  /\ ResetForm
  /\ opened' = NoRow
  /\ UNCHANGED <<server, hook, bounds, past>>

Send(op, row, why) ==
  /\ acts < MaxActs
  /\ Free # {}
  /\ acts' = acts + 1
  /\ reqs' = [reqs EXCEPT ![FirstFree] = Request(op, row, "page", why)]
  /\ UNCHANGED <<arrays, list, running, faults, hook, ui, others, lost, past>>

NewSite(id, port) == [id |-> id, port |-> port, status |-> "active"]

(* handleSubmit, up to its await: the row that was opened, or a new site under the name    *)
(* that was typed, which the server makes active. The port is typed, or the one the form   *)
(* offers: one more than the largest in the table, which may be no port at all.            *)
Submit(id, port) ==
  /\ InForm
  /\ IF editing # Null
     THEN id = editing.id /\ Send("PUT", [editing EXCEPT !.port = port], "submit")
     ELSE Send("POST", NewSite(id, port), "submit")

(* The play or stop button: the whole row that is shown goes back, its status turned. *)
Toggle(i) ==
  Send("PUT", [Shown[i] EXCEPT !.status = IF @ = "active" THEN "stopped" ELSE "active"], "toggle")

\* A DELETE carries an id and nothing else.
Named(id) == [id |-> id, port |-> 0, status |-> "stopped"]

(* The bin, once confirmed. *)
Delete(i) == Send("DELETE", Named(Shown[i].id), "delete")

\* The table is not loaded again after a change.
DoneSilent(s) ==
  /\ Replied(s)
  /\ reqs[s].by = "page"
  /\ reqs[s].pc = "ok"
  /\ IF reqs[s].why = "submit"
     THEN modalOpen' = FALSE /\ ResetForm /\ opened' = NoRow
     ELSE UNCHANGED ui
  /\ done' = done + 1
  /\ reqs' = [reqs EXCEPT ![s] = None]
  /\ UNCHANGED <<arrays, list, running, faults, hook, bounds, made, clashed>>

(* The answer is there: close the form and reset it, whatever form is open by now, and *)
(* load the table again. A failure is a toast, and nothing else.                       *)
Done(s) ==
  /\ Replied(s)
  /\ reqs[s].by = "page"
  /\ reqs[s].pc = "ok"
  /\ Room(hook)
  /\ IF reqs[s].why = "submit"
     THEN modalOpen' = FALSE /\ ResetForm /\ opened' = NoRow
     ELSE UNCHANGED ui
  /\ hook' = Load(hook)
  /\ done' = done + 1
  /\ reqs' = [reqs EXCEPT ![s] = None]
  /\ UNCHANGED <<arrays, list, running, faults, bounds, made, clashed>>

Failed(s) ==
  /\ Replied(s)
  /\ \/ reqs[s].by = "other"
     \/ reqs[s].pc = "failed"
  /\ reqs' = [reqs EXCEPT ![s] = None]
  /\ UNCHANGED <<arrays, list, running, faults, hook, ui, bounds, past>>

(* The change is made and its answer does not get through: the page reports a failure. *)
Drop(s) ==
  /\ Replied(s)
  /\ reqs[s].by = "page"
  /\ reqs[s].pc = "ok"
  /\ lost < MaxLost
  /\ lost' = lost + 1
  /\ reqs' = [reqs EXCEPT ![s] = None]
  /\ UNCHANGED <<arrays, list, running, faults, hook, ui, acts, others, past>>

(* The list is read for a call of the page, or the call fails. *)
List(i) ==
  /\ Pending(hook, i)
  /\ hook' = Answer(hook, i, Listing)
  /\ UNCHANGED <<server, ui, bounds, past>>

Lose(i) ==
  /\ Pending(hook, i)
  /\ lost < MaxLost
  /\ lost' = lost + 1
  /\ hook' = Refuse(hook, i)
  /\ UNCHANGED <<server, ui, acts, others, past>>

Receive(i) ==
  /\ Settled(hook, i)
  /\ hook' = Settle(hook, i)
  /\ UNCHANGED <<server, ui, bounds, past>>

\* Two changes that may be handled at once: updates of different sites write different
\* rows of one array.
Apart(s, t) ==
  reqs[s].op = "PUT" /\ reqs[t].op = "PUT" /\ reqs[s].row.id # reqs[t].row.id

\* Changes that nothing keeps from overwriting one another: a handler begins while one
\* that is not Apart from it is at work, or it creates a site under the name of one that
\* is listed, which gives it the same id.
Clashes(s) ==
  /\ reqs[s].pc = "sent"
  /\ s \in Handling'
  /\ \/ \E t \in Handling : ~Apart(s, t)
     \/ reqs[s].op = "POST" /\ IndexOf(reqs[s].row.id, Sites) # 0

Serve(s) ==
  /\ Handle(s)
  /\ made' = IF reqs'[s].pc = "ok" /\ reqs[s].by = "page" THEN made + 1 ELSE made
  /\ clashed' = (clashed \/ Clashes(s))
  /\ UNCHANGED <<hook, ui, bounds, done>>

(* Another operator, or another tab. *)
Other(op, row) ==
  /\ others < MaxOther
  /\ Free # {}
  /\ others' = others + 1
  /\ reqs' = [reqs EXCEPT ![FirstFree] = Request(op, row, "other", "other")]
  /\ UNCHANGED <<arrays, list, running, faults, hook, ui, acts, lost, past>>

OtherChanges(id) ==
  \/ Other("DELETE", Named(id))
  \/ \E port \in Ports :
       \/ Other("POST", NewSite(id, port))
       \/ \E status \in {"active", "stopped"} :
            Other("PUT", [id |-> id, port |-> port, status |-> status])

Network == \E i \in 1..MaxCalls : List(i) \/ Receive(i)
Progress == Network \/ \E s \in Slots : Serve(s) \/ Done(s) \/ Failed(s)

Next ==
  \/ OpenCreate \/ Cancel
  \/ \E i \in Clickable : OpenEdit(i) \/ (~InForm /\ (Toggle(i) \/ Delete(i)))
  \/ \E id \in Ids, port \in 1..MaxPort + 1 : Submit(id, port)
  \/ \E id \in Ids : OtherChanges(id)
  \/ \E i \in 1..MaxCalls : Lose(i)
  \/ \E s \in Slots : Drop(s)
  \/ Progress

Spec == Init /\ [][Next]_vars

-----------------------------------------------------------------------------

(* What an edited or created site is comes from the button that was pressed: a form    *)
(* opened with "New Site" never updates a site, and one opened for a row submits that  *)
(* row's site, however many answers to earlier submits reset the form in between.      *)
FormFitsButton ==
  modalOpen => /\ opened.button = "new" => editing = Null
               /\ opened.button = "edit" => editing = opened.row

(* When no change is being handled, the servers that run are those of the sites stored *)
(* as active, on the ports stored for them, as long as no two changes have clashed:    *)
(* updates of different sites are handled at once, start and fail, and write the array *)
(* that others have loaded.                                                            *)
InStep ==
  /\ \A i \in DOMAIN Sites : running[Sites[i].id] =
       IF Sites[i].status = "active" THEN Sites[i].port ELSE 0
  /\ \A id \in Ids : running[id] # 0 => \E i \in DOMAIN Sites : Sites[i].id = id
Registered == Handling = {} /\ ~clashed => InStep

(* Unless an older answer overtook it or the last call failed, the table shows every   *)
(* change the page has reported as made.                                               *)
ShowsItsOwn == hook.newest = "shown" => hook.data.made >= done

\* Nothing tells one id from another (SYMMETRY in the run).
Renamings ==
  {[id \in Ids |-> f[id]] : f \in {g \in [Ids -> Ids] : \A i, j \in Ids : g[i] = g[j] => i = j}}

-----------------------------------------------------------------------------
(* What the interface is for, and the code does not keep.                              *)

(* The servers that run are those of the sites stored as active, whatever changes are  *)
(* handled at once.                                                                    *)
RegisteredAtOnce == Handling = {} => InStep

=============================================================================
