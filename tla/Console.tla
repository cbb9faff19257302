------------------------------- MODULE Console -------------------------------
(***************************************************************************)
(* The dashboard around its pages: the layout that stays (Layout.tsx), the *)
(* page that is mounted (App.tsx) and what a page is made of - the hook    *)
(* that reads, buttons that ask the server for something, a form over the  *)
(* page (Modal.tsx), a toast (Modal.tsx). Changing the page drops all that *)
(* the page before kept; its requests go on, and nobody hears of them.     *)
(*                                                                         *)
(* Pages Sites and Logs have modules of their own. Runtimes is Doctor      *)
(* without the button. Extensions asks the server for nothing. Of a page   *)
(* with several hooks the one its body waits for is kept.                  *)
(***************************************************************************)
EXTENDS UseApi

CONSTANTS
  Urls,     \* what is typed into the testers of Routes and Explorer
  Ticks,    \* the four seconds of a toast, in ticks
  MaxLost,  \* bound on calls that fail
  MaxSends, \* bound on one page's changes and questions in flight
  MaxMoves  \* bound on changes of the page

ASSUME ConsoleAssumption ==
  /\ Ticks \in Nat \ {0}
  /\ MaxLost \in Nat /\ MaxSends \in Nat \ {0} /\ MaxMoves \in Nat

VARIABLES
  page,      \* the route, and with it the component that is mounted
  view,      \* what that component keeps
  health,    \* Layout: useApi(() => api.healthCheck())
  palette,   \* Layout: the command palette is open
  overflow,  \* document.body.style.overflow
  lost, moves

vars == <<page, view, health, palette, overflow, lost, moves>>

Pages   == {"dashboard", "deployments", "routes", "config", "doctor", "explorer"}
Readers == Pages \ {"explorer"}
Testers == {"routes", "explorer"}

NewToast == [left |-> Ticks, age |-> 0]

\* What a page keeps when it has just been mounted. asked is not in the code: the last
\* question whose button was pressed. sends are changes and questions in flight.
Fresh(p) ==
  [hook   |-> IF p \in Readers THEN Mount ELSE Unmounted,
   modal  |-> FALSE,      \* Deployments
   local  |-> Null,       \* Config: the copy that is edited
   busy   |-> FALSE,      \* saving, testing, loading: the button is disabled
   sends  |-> <<>>,
   asked  |-> Null,
   result |-> Null,
   toast  |-> Null]

Init ==
  /\ page \in Pages
  /\ view = Fresh(page)
  /\ health = Mount
  /\ palette = FALSE
  /\ overflow = ""
  /\ lost = 0 /\ moves = 0

-----------------------------------------------------------------------------
(* The toast. Its timer is set again whenever the page renders, which hands it a new *)
(* onClose each time.                                                                *)

\* With an onClose that stays the same, only the first toast sets the timer.
RenderedStably(v) == v

Rendered(v) == IF v.toast = Null THEN v ELSE [v EXCEPT !.toast.left = Ticks]

\* A toast takes the place, and the timer, of one that is there.
WithToast(v) ==
  [v EXCEPT !.toast = IF v.toast = Null THEN NewToast ELSE [v.toast EXCEPT !.age = 0]]

\* Config gives way to "Loading configuration...", and its toast is unmounted with it.
FormShown == view.local # Null /\ ~view.hook.loading
ToastShown == view.toast # Null /\ (page = "config" => FormShown)

Tick ==
  /\ ToastShown
  /\ view.toast.left > 0
  /\ view' = [view EXCEPT !.toast = [left |-> @.left - 1,
                                     age  |-> IF @.age < Ticks THEN @.age + 1 ELSE @.age]]
  /\ UNCHANGED <<page, health, palette, overflow, lost, moves>>

Close ==
  /\ ToastShown
  /\ view' = [view EXCEPT !.toast = Null]
  /\ UNCHANGED <<page, health, palette, overflow, lost, moves>>

Expire == view.toast # Null /\ view.toast.left = 0 /\ Close

-----------------------------------------------------------------------------
(* The layout. *)

Mounts(p) ==
  /\ moves < MaxMoves
  /\ moves' = moves + 1
  /\ page' = p
  /\ view' = Fresh(p)

\* The clean-up of the form's effect is missing.
NavigateLeaky(p) ==
  /\ p # page
  /\ Mounts(p)
  /\ UNCHANGED <<health, palette, overflow, lost>>

(* A link, or the browser's back button, which works over a form as well. *)
Navigate(p) ==
  /\ p # page
  /\ Mounts(p)
  /\ overflow' = IF page = "deployments" THEN "" ELSE overflow
  /\ UNCHANGED <<health, palette, lost>>

OpenPalette ==
  /\ ~view.modal
  /\ ~palette
  /\ palette' = TRUE
  /\ UNCHANGED <<page, view, health, overflow, lost, moves>>

(* Escape, Ctrl-K or the cross; Ctrl-K does not open it. *)
ClosePalette ==
  /\ palette
  /\ palette' = FALSE
  /\ UNCHANGED <<page, view, health, overflow, lost, moves>>

(* A command: what it does, then the palette closes. *)
Select(p) ==
  /\ palette
  /\ palette' = FALSE
  /\ \/ p # page /\ Mounts(p) /\ overflow' = IF page = "deployments" THEN "" ELSE overflow
     \/ p = page /\ UNCHANGED <<page, view, overflow, moves>>
  /\ UNCHANGED <<health, lost>>

HealthPoll ==
  /\ Room(health)
  /\ health' = Load(health)
  /\ UNCHANGED <<page, view, palette, overflow, lost, moves>>

-----------------------------------------------------------------------------
(* What the pages do. Every change of what a page keeps renders it. *)

Change(v) ==
  /\ view' = Rendered(v)
  /\ UNCHANGED <<page, health, palette, lost, moves>>

\* The dashboard is polled as long as it shows something.
PollWhileShown ==
  /\ page = "dashboard"
  /\ view.hook.data # Null
  /\ Room(view.hook)
  /\ Change([view EXCEPT !.hook = Load(@)])
  /\ UNCHANGED overflow

(* Dashboard: the interval. *)
Poll ==
  /\ page = "dashboard"
  /\ Room(view.hook)
  /\ Change([view EXCEPT !.hook = Load(@)])
  /\ UNCHANGED overflow

(* Doctor: "Re-run Doctor". *)
Rerun ==
  /\ page = "doctor"
  /\ Room(view.hook)
  /\ Change([view EXCEPT !.hook = Load(@)])
  /\ UNCHANGED overflow

\* The form of Deployments locks the page under it while it is open.
SetModal(v, open) ==
  /\ Change([v EXCEPT !.modal = open])
  /\ overflow' = IF open THEN "hidden" ELSE ""

OpenModal == page = "deployments" /\ ~view.modal /\ ~palette /\ SetModal(view, TRUE)
CloseModal == view.modal /\ SetModal(view, FALSE)

Sends(v, what) == [v EXCEPT !.sends = Append(@, [what |-> what])]
CanSend == Len(view.sends) < MaxSends /\ ~palette

(* Deployments: "Create Release" in the form, "Activate" and "Rollback" under it. No *)
(* button is disabled while the answer is awaited.                                   *)
Deploy(what) ==
  /\ page = "deployments"
  /\ CanSend
  /\ IF what = "create" THEN view.modal
     ELSE ~view.modal /\ (what = "activate" => ~view.hook.loading /\ view.hook.data # Null)
  /\ Change(Sends(view, what))
  /\ UNCHANGED overflow

(* Config: an edit of a field, and Reset. *)
Edit ==
  /\ page = "config"
  /\ FormShown
  /\ \E local \in {"served", "edited"} : local # view.local /\ Change([view EXCEPT !.local = local])
  /\ UNCHANGED overflow

(* Config: Save. *)
Save ==
  /\ page = "config"
  /\ FormShown
  /\ ~view.busy
  /\ CanSend
  /\ Change([Sends(view, "save") EXCEPT !.busy = TRUE])
  /\ UNCHANGED overflow

\* The button is there while an answer is awaited.
AskAgain(url) ==
  /\ page \in Testers
  /\ CanSend
  /\ Change([Sends(view, url) EXCEPT !.busy = TRUE, !.asked = url])
  /\ UNCHANGED overflow

(* Routes: "Test Route"; Explorer: "Trace Pipeline". *)
Ask(url) ==
  /\ page \in Testers
  /\ ~view.busy
  /\ CanSend
  /\ Change([Sends(view, url) EXCEPT !.busy = TRUE, !.asked = url])
  /\ UNCHANGED overflow

-----------------------------------------------------------------------------
(* Answers. *)

Without(v, i) == [v EXCEPT !.sends = Except(@, i)]

(* The question is answered, or failed: then there is no result. *)
Told(i, ok) ==
  /\ page \in Testers
  /\ Change([Without(view, i) EXCEPT !.result = IF ok THEN view.sends[i].what ELSE Null,
                                     !.busy = FALSE])
  /\ UNCHANGED overflow

(* Deployments: a toast; after a success the releases are loaded again, and the form is *)
(* closed if it was a creation.                                                         *)
Deployed(i, ok) ==
  /\ page = "deployments"
  /\ LET v == WithToast(Without(view, i)) IN
     IF ~ok THEN Change(v) /\ UNCHANGED overflow
     ELSE /\ Room(view.hook)
          /\ LET loads == [v EXCEPT !.hook = Load(@)] IN
             IF view.sends[i].what = "create" THEN SetModal(loads, FALSE)
             ELSE Change(loads) /\ UNCHANGED overflow

(* Config: a toast, the configuration is loaded again, and Save is there again. *)
Saved(i, ok) ==
  /\ page = "config"
  /\ ok => Room(view.hook)
  /\ LET v == [WithToast(Without(view, i)) EXCEPT !.busy = FALSE] IN
     Change(IF ok THEN [v EXCEPT !.hook = Load(@)] ELSE v)
  /\ UNCHANGED overflow

Result(i, ok) == i \in DOMAIN view.sends /\ (Told(i, ok) \/ Deployed(i, ok) \/ Saved(i, ok))

(* The hooks: the server answers, or the call fails; then the page hears of it. With new *)
(* data Config starts its copy again.                                                    *)
Handle(i) ==
  /\ page \in Readers
  /\ Pending(view.hook, i)
  /\ view' = [view EXCEPT !.hook = Answer(@, i, "served")]
  /\ UNCHANGED <<page, health, palette, overflow, lost, moves>>

HandleHealth(i) ==
  /\ Pending(health, i)
  /\ health' = Answer(health, i, "served")
  /\ UNCHANGED <<page, view, palette, overflow, lost, moves>>

Receive(i) ==
  /\ page \in Readers
  /\ Settled(view.hook, i)
  /\ LET new == view.hook.calls[i].state = "answered" IN
     Change([view EXCEPT !.hook = Settle(@, i),
                         !.local = IF page = "config" /\ new THEN "served" ELSE @])
  /\ UNCHANGED overflow

ReceiveHealth(i) ==
  /\ Settled(health, i)
  /\ health' = Settle(health, i)
  /\ UNCHANGED <<page, view, palette, overflow, lost, moves>>

Lose(i) ==
  /\ lost < MaxLost
  /\ lost' = lost + 1
  /\ \/ /\ page \in Readers
        /\ Pending(view.hook, i)
        /\ view' = [view EXCEPT !.hook = Refuse(@, i)]
        /\ UNCHANGED health
     \/ /\ Pending(health, i)
        /\ health' = Refuse(health, i)
        /\ UNCHANGED view
  /\ UNCHANGED <<page, palette, overflow, moves>>

Next ==
  \/ Tick \/ Close \/ Expire
  \/ \E p \in Pages : Navigate(p) \/ Select(p)
  \/ OpenPalette \/ ClosePalette \/ HealthPoll
  \/ Poll \/ Rerun \/ OpenModal \/ CloseModal \/ Edit \/ Save
  \/ \E what \in {"create", "activate", "rollback"} : Deploy(what)
  \/ \E url \in Urls : Ask(url)
  \/ \E i \in 1..MaxSends, ok \in BOOLEAN : Result(i, ok)
  \/ \E i \in 1..MaxCalls : Handle(i) \/ Receive(i) \/ HandleHealth(i) \/ ReceiveHealth(i) \/ Lose(i)

\* Intervals fire and calls end.
Spec == Init /\ [][Next]_vars
             /\ WF_vars(Poll) /\ WF_vars(HealthPoll)
             /\ \A i \in 1..MaxCalls :
                  /\ WF_vars(Handle(i)) /\ WF_vars(Receive(i))
                  /\ WF_vars(HandleHealth(i)) /\ WF_vars(ReceiveHealth(i))

-----------------------------------------------------------------------------

(* What a tester shows once it is not waiting is the answer to the last question asked, *)
(* or nothing: the button that asks is disabled until the answer is there.              *)
ResultIsLast ==
  page \in Testers /\ ~view.busy /\ view.asked # Null => view.result \in {Null, view.asked}

(* No toast goes by itself before it was there for four seconds, also one that takes *)
(* the place of another.                                                             *)
ToastFullTime == view.toast # Null => view.toast.left + view.toast.age >= Ticks

(* The page scrolls unless a form is open on it, whichever way the form went away. *)
ScrollLocked == overflow = IF view.modal THEN "hidden" ELSE ""

(* As long as the dashboard is looked at it shows figures time and again, although calls *)
(* fail and overlap, and the layout comes to say "Connected".                            *)
PollingRecovers ==
  /\ []<>(page # "dashboard" \/ (view.hook.data # Null /\ ~view.hook.loading))
  /\ <>[](health.data # Null)

(* Not kept: without polling, a page that is shown only with its data waits for it for *)
(* ever after one failed call.                                                         *)
ConfigOpens == []<>(page # "config" \/ FormShown)

=============================================================================
