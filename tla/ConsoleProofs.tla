---------------------------- MODULE ConsoleProofs ----------------------------
(***************************************************************************)
(* Proofs about Console, for any questions, any length of a toast and any  *)
(* bounds.                                                                 *)
(*                                                                         *)
(* ResultIsLast needs that a tester which is not waiting has nothing in    *)
(* flight, and one that waits only the question asked last. ScrollLocked   *)
(* needs that only Deployments has a form. ToastFullTime needs the timer   *)
(* to be within its bounds, and holds because rendering sets it again.     *)
(***************************************************************************)
EXTENDS Console, TLAPS

\* What a page keeps, as far as the proofs look into it.
Shape(v) ==
  /\ v = [hook |-> v.hook, modal |-> v.modal, local |-> v.local, busy |-> v.busy,
          sends |-> v.sends, asked |-> v.asked, result |-> v.result, toast |-> v.toast]
  /\ v.modal \in BOOLEAN
  /\ v.busy \in BOOLEAN

\* Only what was asked last is awaited, and nothing unless the button is disabled.
Awaited(p, v) ==
  p \in Testers => v.sends = IF v.busy THEN <<[what |-> v.asked]>> ELSE <<>>

Last(p, v) ==
  p \in Testers /\ ~v.busy /\ v.asked # Null => v.result \in {Null, v.asked}

FormAtHome(p, v) == v.modal => p = "deployments"

Scrolls(v, scroll) == scroll = IF v.modal THEN "hidden" ELSE ""

Aged(v) ==
  v.toast # Null => /\ v.toast = [left |-> v.toast.left, age |-> v.toast.age]
                    /\ v.toast.age \in 0..Ticks

Timed(v) ==
  v.toast # Null => /\ v.toast.left \in 0..Ticks
                    /\ v.toast.left + v.toast.age >= Ticks

Sound(p, v, scroll) ==
  Shape(v) /\ Awaited(p, v) /\ Last(p, v) /\ FormAtHome(p, v) /\ Scrolls(v, scroll) /\ Aged(v)

IInv == Sound(page, view, overflow) /\ Timed(view)

-----------------------------------------------------------------------------
\* A page that has just been mounted, on a document that scrolls.
LEMMA Mounted ==
  ASSUME NEW p \in Pages
  PROVE  Sound(p, Fresh(p), "") /\ Timed(Fresh(p))
<1> DEFINE v == Fresh(p)
<1>1. /\ v.modal = FALSE
      /\ v.busy = FALSE
      /\ v.sends = <<>>
      /\ v.asked = Null
      /\ v.toast = Null
  BY DEF Fresh
<1>2. Shape(v)
  BY DEF Fresh, Shape
<1> HIDE DEF v
<1>3. Sound(p, v, "") /\ Timed(v)
  BY <1>1, <1>2 DEF Sound, Timed, Awaited, Last, FormAtHome, Scrolls, Aged
<1>4. QED
  BY <1>3 DEF v

\* The invariant holds when the first page is mounted.
LEMMA Initially == Init => IInv
BY Mounted DEF Init, IInv

\* Rendering sets the timer of a toast again, and changes nothing else.
LEMMA Rendering ==
  ASSUME NEW p, NEW v, NEW scroll, Sound(p, v, scroll)
  PROVE  Sound(p, Rendered(v), scroll) /\ Timed(Rendered(v))
<1>1. CASE v.toast = Null
  BY <1>1 DEF Rendered, Timed
<1>2. CASE v.toast # Null
  <2> DEFINE r == Rendered(v)
  <2>1. /\ Shape(v)
        /\ v.toast = [left |-> v.toast.left, age |-> v.toast.age]
        /\ v.toast.age \in 0..Ticks
    BY <1>2 DEF Sound, Aged
  <2>2. r = [v EXCEPT !.toast = [left |-> Ticks, age |-> v.toast.age]]
    BY <1>2, <2>1 DEF Rendered
  <2>3. /\ Shape(r)
        /\ r.modal = v.modal
        /\ r.busy = v.busy
        /\ r.sends = v.sends
        /\ r.asked = v.asked
        /\ r.result = v.result
        /\ r.toast = [left |-> Ticks, age |-> v.toast.age]
    BY <2>1, <2>2 DEF Shape
  <2> HIDE DEF r
  <2>4. Aged(r) /\ Timed(r)
    BY <2>1, <2>3, ConsoleAssumption DEF Aged, Timed
  <2>5. Awaited(p, r) /\ Last(p, r) /\ FormAtHome(p, r) /\ Scrolls(r, scroll)
    BY <2>3 DEF Sound, Awaited, Last, FormAtHome, Scrolls
  <2>6. QED
    BY <2>3, <2>4, <2>5 DEF Sound, r
<1>3. QED
  BY <1>1, <1>2

\* So a change that leaves the page sound keeps the invariant.
LEMMA Changing ==
  ASSUME NEW v, Change(v), Sound(page, v, overflow')
  PROVE  IInv'
BY Rendering DEF Change, IInv

\* Two pages that keep the same, but for what the invariant is not about.
LEMMA Alike ==
  ASSUME NEW p, NEW v, NEW w, NEW scroll, Sound(p, v, scroll), Shape(w),
         w.modal = v.modal, w.busy = v.busy, w.sends = v.sends, w.asked = v.asked,
         w.result = v.result, w.toast = v.toast
  PROVE  Sound(p, w, scroll) /\ (Timed(v) => Timed(w))
BY DEF Sound, Awaited, Last, FormAtHome, Scrolls, Aged, Timed

\* So for what the hook reads and the copy Config edits.
LEMMA Reading ==
  ASSUME NEW p, NEW v, NEW scroll, Sound(p, v, scroll), NEW h, NEW l
  PROVE  /\ Sound(p, [v EXCEPT !.hook = h], scroll)
         /\ Sound(p, [v EXCEPT !.hook = h, !.local = l], scroll)
         /\ Sound(p, [v EXCEPT !.local = l], scroll)
         /\ Timed(v) => Timed([v EXCEPT !.hook = h])
<1>1. Shape(v)
  BY DEF Sound
<1> DEFINE a == [v EXCEPT !.hook = h]
           b == [v EXCEPT !.hook = h, !.local = l]
           c == [v EXCEPT !.local = l]
<1>2. /\ Shape(a) /\ a.modal = v.modal /\ a.busy = v.busy /\ a.sends = v.sends
      /\ a.asked = v.asked /\ a.result = v.result /\ a.toast = v.toast
  BY <1>1 DEF Shape
<1> HIDE DEF a
<1>3. b = [a EXCEPT !.local = l]
  BY Zenon DEF a
<1> HIDE DEF b
<1>4. /\ Shape(b) /\ b.modal = v.modal /\ b.busy = v.busy /\ b.sends = v.sends
      /\ b.asked = v.asked /\ b.result = v.result /\ b.toast = v.toast
  BY <1>2, <1>3 DEF Shape
<1>5. /\ Shape(c) /\ c.modal = v.modal /\ c.busy = v.busy /\ c.sends = v.sends
      /\ c.asked = v.asked /\ c.result = v.result /\ c.toast = v.toast
  BY <1>1 DEF Shape
<1> HIDE DEF c
<1>6. Sound(p, a, scroll) /\ Sound(p, b, scroll) /\ Sound(p, c, scroll) /\ (Timed(v) => Timed(a))
  BY <1>2, <1>4, <1>5, Alike
<1>7. QED
  BY <1>6 DEF a, b, c

\* Where only Deployments has a form, the form can be set with the document.
LEMMA Forming ==
  ASSUME NEW v, NEW scroll, Sound("deployments", v, scroll), NEW open \in BOOLEAN
  PROVE  Sound("deployments", [v EXCEPT !.modal = open], IF open THEN "hidden" ELSE "")
<1> DEFINE w == [v EXCEPT !.modal = open]
<1>1. Shape(v) /\ Aged(v)
  BY DEF Sound
<1>2. Shape(w) /\ w.modal = open /\ w.toast = v.toast
  BY <1>1 DEF Shape
<1> HIDE DEF w
<1>3. Sound("deployments", w, IF open THEN "hidden" ELSE "")
  BY <1>1, <1>2 DEF Sound, Awaited, Last, FormAtHome, Scrolls, Aged, Testers
<1>4. QED
  BY <1>3 DEF w

\* A toast takes the place of another without touching the timer.
LEMMA Toasting ==
  ASSUME NEW p, NEW v, NEW scroll, Sound(p, v, scroll)
  PROVE  Sound(p, WithToast(v), scroll)
<1> DEFINE t == IF v.toast = Null THEN NewToast ELSE [v.toast EXCEPT !.age = 0]
           w == [v EXCEPT !.toast = t]
<1>1. WithToast(v) = w
  BY DEF WithToast
<1>2. Shape(v) /\ Aged(v)
  BY DEF Sound
<1>3. t = [left |-> t.left, age |-> t.age] /\ t.age = IF v.toast = Null THEN 0 ELSE 0
  BY <1>2 DEF Aged, NewToast
<1> HIDE DEF t
<1>4. /\ Shape(w)
      /\ w.modal = v.modal
      /\ w.busy = v.busy
      /\ w.sends = v.sends
      /\ w.asked = v.asked
      /\ w.result = v.result
      /\ w.toast = t
  BY <1>2 DEF Shape
<1> HIDE DEF w
<1>5. Aged(w)
  BY <1>3, <1>4, ConsoleAssumption DEF Aged
<1>6. Awaited(p, w) /\ Last(p, w) /\ FormAtHome(p, w) /\ Scrolls(w, scroll)
  BY <1>4 DEF Sound, Awaited, Last, FormAtHome, Scrolls
<1>7. QED
  BY <1>1, <1>4, <1>5, <1>6 DEF Sound

\* On a page that is no tester the invariant is not about what is sent.
LEMMA Sending ==
  ASSUME NEW p, p \notin Testers, NEW v, NEW scroll, Sound(p, v, scroll), NEW q, NEW b \in BOOLEAN
  PROVE  /\ Sound(p, [v EXCEPT !.sends = q], scroll)
         /\ Sound(p, [v EXCEPT !.busy = b], scroll)
<1> DEFINE s == [v EXCEPT !.sends = q]
           t == [v EXCEPT !.busy = b]
<1>1. Shape(v) /\ FormAtHome(p, v) /\ Scrolls(v, scroll) /\ Aged(v)
  BY DEF Sound
<1>2. Shape(s) /\ s.modal = v.modal /\ s.toast = v.toast
  BY <1>1 DEF Shape
<1>3. Shape(t) /\ t.modal = v.modal /\ t.toast = v.toast
  BY <1>1 DEF Shape
<1> HIDE DEF s, t
<1>4. Sound(p, s, scroll) /\ Sound(p, t, scroll)
  BY <1>1, <1>2, <1>3 DEF Sound, Awaited, Last, FormAtHome, Scrolls, Aged
<1>5. QED
  BY <1>4 DEF s, t

-----------------------------------------------------------------------------
\* The clock and the hand that closes a toast.
LEMMA ToastStep == IInv /\ (Tick \/ Close \/ Expire) => IInv'
<1> SUFFICES ASSUME IInv, Tick \/ Close \/ Expire PROVE IInv'
  OBVIOUS
<1>0. Sound(page, view, overflow) /\ Timed(view) /\ Shape(view) /\ Aged(view)
  BY DEF IInv, Sound
<1>1. CASE Tick
  <2> DEFINE old == view.toast
             new == [left |-> old.left - 1,
                     age  |-> IF old.age < Ticks THEN old.age + 1 ELSE old.age]
  <2>1. /\ old # Null
        /\ old.left > 0
        /\ view' = [view EXCEPT !.toast = new]
        /\ page' = page /\ overflow' = overflow
    BY <1>1 DEF Tick, ToastShown
  <2>2. /\ old.left \in 0..Ticks /\ old.age \in 0..Ticks /\ old.left + old.age >= Ticks
    BY <1>0, <2>1 DEF Aged, Timed
  <2> DEFINE l == new.left
             a == new.age
  <2>4. l = old.left - 1 /\ a = (IF old.age < Ticks THEN old.age + 1 ELSE old.age)
    OBVIOUS
  <2>5. l \in 0..Ticks /\ a \in 0..Ticks /\ l + a >= Ticks
    BY <2>1, <2>2, <2>4, ConsoleAssumption
  <2>6. new = [left |-> l, age |-> a]
    OBVIOUS
  <2> HIDE DEF new
  <2>7. /\ Shape(view')
        /\ view'.modal = view.modal
        /\ view'.busy = view.busy
        /\ view'.sends = view.sends
        /\ view'.asked = view.asked
        /\ view'.result = view.result
        /\ view'.toast = new
    BY <1>0, <2>1 DEF Shape
  <2>8. Aged(view') /\ Timed(view')
    BY <2>5, <2>6, <2>7 DEF Aged, Timed
  <2>9. /\ Awaited(page, view') /\ Last(page, view')
        /\ FormAtHome(page, view') /\ Scrolls(view', overflow)
    BY <1>0, <2>7 DEF Sound, Awaited, Last, FormAtHome, Scrolls
  <2>10. QED
    BY <2>1, <2>7, <2>8, <2>9 DEF IInv, Sound
<1>2. CASE Close \/ Expire
  <2>1. /\ view' = [view EXCEPT !.toast = Null]
        /\ page' = page /\ overflow' = overflow
    BY <1>2 DEF Close, Expire
  <2>2. QED
    BY <1>0, <2>1 DEF IInv, Sound, Shape, Awaited, Last, FormAtHome, Scrolls, Aged, Timed
<1>3. QED
  BY <1>1, <1>2

\* Another page on a document that scrolls.
LEMMA MoveStep ==
  ASSUME IInv, NEW p \in Pages, Navigate(p) \/ Select(p)
  PROVE  IInv'
<1>1. CASE UNCHANGED <<page, view, overflow>>
  BY <1>1 DEF IInv
<1>2. CASE /\ Mounts(p)
           /\ overflow' = IF page = "deployments" THEN "" ELSE overflow
  <2>1. overflow' = ""
    BY <1>2 DEF IInv, Sound, FormAtHome, Scrolls, Shape
  <2>2. page' = p /\ view' = Fresh(p)
    BY <1>2 DEF Mounts
  <2>3. QED
    BY <2>1, <2>2, Mounted DEF IInv
<1>3. QED
  BY <1>1, <1>2 DEF Navigate, Select

\* The palette, and what is read for a page or for the layout.
LEMMA ReadStep ==
  ASSUME IInv,
         \/ OpenPalette \/ ClosePalette \/ HealthPoll \/ Poll \/ Rerun \/ Edit
         \/ \E i \in 1..MaxCalls :
              Handle(i) \/ Receive(i) \/ HandleHealth(i) \/ ReceiveHealth(i) \/ Lose(i)
  PROVE  IInv'
<1>1. Sound(page, view, overflow) /\ Timed(view)
  BY DEF IInv
<1>2. CASE OpenPalette \/ ClosePalette \/ HealthPoll
  BY <1>2 DEF IInv, OpenPalette, ClosePalette, HealthPoll
<1>3. CASE Poll \/ Rerun
  <2>1. Change([view EXCEPT !.hook = Load(@)]) /\ overflow' = overflow
    BY <1>3 DEF Poll, Rerun
  <2>2. QED
    BY <1>1, <2>1, Reading, Changing
<1>4. CASE Edit
  <2>1. PICK l : Change([view EXCEPT !.local = l])
    BY <1>4 DEF Edit
  <2>2. overflow' = overflow
    BY <1>4 DEF Edit
  <2>3. Sound(page, [view EXCEPT !.local = l], overflow')
    BY <1>1, <2>2, Reading
  <2>4. QED
    BY <2>1, <2>3, Changing
<1>5. ASSUME NEW i \in 1..MaxCalls, Receive(i) PROVE IInv'
  <2>1. PICK h, l : Change([view EXCEPT !.hook = h, !.local = l])
    BY <1>5 DEF Receive
  <2>2. overflow' = overflow
    BY <1>5 DEF Receive
  <2>3. Sound(page, [view EXCEPT !.hook = h, !.local = l], overflow')
    BY <1>1, <2>2, Reading
  <2>4. QED
    BY <2>1, <2>3, Changing
<1>6. ASSUME NEW i \in 1..MaxCalls, Handle(i) \/ HandleHealth(i) \/ ReceiveHealth(i) \/ Lose(i)
      PROVE IInv'
  <2>1. /\ view' = view \/ \E h : view' = [view EXCEPT !.hook = h]
        /\ page' = page /\ overflow' = overflow
    BY <1>6 DEF Handle, HandleHealth, ReceiveHealth, Lose
  <2>2. CASE view' = view
    BY <1>1, <2>1, <2>2 DEF IInv
  <2>3. CASE \E h : view' = [view EXCEPT !.hook = h]
    <3>1. PICK h : view' = [view EXCEPT !.hook = h]
      BY <2>3
    <3>2. Sound(page, view', overflow) /\ Timed(view')
      BY <1>1, <3>1, Reading
    <3>3. QED
      BY <2>1, <3>2 DEF IInv
  <2>4. QED
    BY <2>1, <2>2, <2>3
<1>7. QED
  BY <1>2, <1>3, <1>4, <1>5, <1>6

\* The form of Deployments.
LEMMA FormStep ==
  ASSUME IInv, OpenModal \/ CloseModal
  PROVE  IInv'
<1>1. Sound(page, view, overflow)
  BY DEF IInv
<1>2. page = "deployments"
  BY <1>1 DEF Sound, FormAtHome, OpenModal, CloseModal
<1>3. PICK open \in BOOLEAN : SetModal(view, open)
  BY DEF OpenModal, CloseModal
<1>4. QED
  BY <1>1, <1>2, <1>3, Forming, Changing DEF SetModal

\* A change or a question is sent.
LEMMA SendStep ==
  ASSUME IInv,
         \/ Save
         \/ \E what \in {"create", "activate", "rollback"} : Deploy(what)
         \/ \E url \in Urls : Ask(url)
  PROVE  IInv'
<1>1. Sound(page, view, overflow)
  BY DEF IInv
<1>2. ASSUME NEW what, Deploy(what) PROVE IInv'
  <2>1. page \notin Testers /\ overflow' = overflow /\ Change(Sends(view, what))
    BY <1>2 DEF Deploy, Testers
  <2>2. Sound(page, Sends(view, what), overflow')
    BY <1>1, <2>1, Sending DEF Sends
  <2>3. QED
    BY <2>1, <2>2, Changing
<1>3. CASE Save
  <2> DEFINE v == Sends(view, "save")
  <2>1. page \notin Testers /\ overflow' = overflow /\ Change([v EXCEPT !.busy = TRUE])
    BY <1>3 DEF Save, Testers
  <2>2. Sound(page, v, overflow')
    BY <1>1, <2>1, Sending DEF Sends
  <2> HIDE DEF v
  <2>3. Sound(page, [v EXCEPT !.busy = TRUE], overflow')
    BY <2>1, <2>2, Sending
  <2>4. QED
    BY <2>1, <2>3, Changing
<1>4. ASSUME NEW url, Ask(url) PROVE IInv'
  <2> DEFINE a == Sends(view, url)
             b == [a EXCEPT !.busy = TRUE]
             c == [a EXCEPT !.busy = TRUE, !.asked = url]
  <2>1. /\ page \in Testers
        /\ ~view.busy
        /\ overflow' = overflow
        /\ Change(c)
    BY <1>4 DEF Ask
  <2>2. /\ Shape(view) /\ Aged(view) /\ FormAtHome(page, view) /\ Scrolls(view, overflow)
        /\ view.sends = <<>>
    BY <1>1, <2>1 DEF Sound, Awaited, Shape
  <2>3. /\ Shape(a) /\ a.modal = view.modal /\ a.toast = view.toast
        /\ a.sends = <<[what |-> url]>>
    BY <2>2 DEF Shape, Sends
  <2> HIDE DEF a
  <2>4. /\ Shape(b) /\ b.modal = view.modal /\ b.toast = view.toast
        /\ b.sends = a.sends /\ b.busy = TRUE
    <3>1. Shape(a)
      BY <2>3
    <3>2. b.modal = a.modal /\ b.toast = a.toast /\ b.sends = a.sends /\ b.busy = TRUE
      BY <3>1 DEF Shape
    <3>3. ASSUME NEW x \in BOOLEAN PROVE Shape([a EXCEPT !.busy = x])
      BY <3>1 DEF Shape
    <3>4. QED
      BY <2>3, <3>2, <3>3
  <2> HIDE DEF b
  <2>5. c = [b EXCEPT !.asked = url]
    BY Zenon DEF b
  <2> HIDE DEF c
  <2>6. /\ Shape(c) /\ c.modal = view.modal /\ c.toast = view.toast
        /\ c.sends = a.sends /\ c.busy = TRUE /\ c.asked = url
    BY <2>4, <2>5 DEF Shape
  <2>7. Sound(page, c, overflow')
    BY <2>1, <2>2, <2>3, <2>6 DEF Sound, Awaited, Last, FormAtHome, Scrolls, Aged
  <2>8. QED
    BY <2>1, <2>7, Changing
<1>5. QED
  BY <1>2, <1>3, <1>4

\* What was asked is answered, or failed.
LEMMA AnswerStep ==
  ASSUME IInv, NEW i, NEW ok \in BOOLEAN, Result(i, ok)
  PROVE  IInv'
<1> DEFINE v == Without(view, i)
<1>1. Sound(page, view, overflow) /\ i \in DOMAIN view.sends
  BY DEF IInv, Result
<1>2. CASE Told(i, ok)
  <2> DEFINE r == IF ok THEN view.sends[i].what ELSE Null
             b == [v EXCEPT !.result = r]
             c == [v EXCEPT !.result = r, !.busy = FALSE]
  <2>1. page \in Testers /\ overflow' = overflow /\ Change(c)
    BY <1>2 DEF Told
  <2>2. /\ Shape(view) /\ Aged(view) /\ FormAtHome(page, view) /\ Scrolls(view, overflow)
    BY <1>1 DEF Sound
  <2>3. view.sends = <<[what |-> view.asked]>>
    BY <1>1, <2>1 DEF Sound, Awaited
  <2>4. r \in {Null, view.asked} /\ Except(view.sends, i) = <<>>
    BY <1>1, <2>3 DEF Except
  <2>5. /\ Shape(v) /\ v.modal = view.modal /\ v.toast = view.toast
        /\ v.sends = <<>> /\ v.asked = view.asked
    BY <2>2, <2>4 DEF Shape, Without
  <2> HIDE DEF v, r
  <2>6. /\ Shape(b) /\ b.modal = view.modal /\ b.toast = view.toast
        /\ b.sends = <<>> /\ b.asked = view.asked /\ b.result = r
    BY <2>5 DEF Shape
  <2> HIDE DEF b
  <2>7. c = [b EXCEPT !.busy = FALSE]
    BY Zenon DEF b
  <2> HIDE DEF c
  <2>8. /\ Shape(c) /\ c.modal = view.modal /\ c.toast = view.toast /\ c.busy = FALSE
        /\ c.sends = <<>> /\ c.asked = view.asked /\ c.result = r
    BY <2>6, <2>7 DEF Shape
  <2>9. Sound(page, c, overflow')
    BY <2>1, <2>2, <2>4, <2>8 DEF Sound, Awaited, Last, FormAtHome, Scrolls, Aged
  <2>10. QED
    BY <2>1, <2>9, Changing
<1>3. CASE Deployed(i, ok)
  <2> DEFINE w == WithToast(v)
             l == [w EXCEPT !.hook = Load(@)]
  <2>1. page = "deployments" /\ page \notin Testers
    BY <1>3 DEF Deployed, Testers
  <2>2. Sound(page, v, overflow)
    BY <1>1, <2>1, Sending DEF Without
  <2> HIDE DEF v
  <2>3. Sound(page, w, overflow)
    BY <2>2, Toasting
  <2>4. \/ Change(w) /\ overflow' = overflow
        \/ Change(l) /\ overflow' = overflow
        \/ SetModal(l, FALSE)
    BY <1>3 DEF Deployed, v
  <2> HIDE DEF w
  <2>5. Sound(page, l, overflow)
    BY <2>3, Reading
  <2> HIDE DEF l
  <2>6. QED
    BY <2>1, <2>3, <2>4, <2>5, Forming, Changing DEF SetModal
<1>4. CASE Saved(i, ok)
  <2> DEFINE w == WithToast(v)
             s == [w EXCEPT !.busy = FALSE]
             l == [s EXCEPT !.hook = Load(@)]
  <2>1. page \notin Testers /\ overflow' = overflow
    BY <1>4 DEF Saved, Testers
  <2>2. Sound(page, v, overflow)
    BY <1>1, <2>1, Sending DEF Without
  <2> HIDE DEF v
  <2>3. Sound(page, w, overflow)
    BY <2>2, Toasting
  <2>4. Change(s) \/ Change(l)
    BY <1>4 DEF Saved, v
  <2> HIDE DEF w
  <2>5. Sound(page, s, overflow)
    BY <2>1, <2>3, Sending
  <2> HIDE DEF s
  <2>6. Sound(page, l, overflow)
    BY <2>5, Reading
  <2> HIDE DEF l
  <2>7. QED
    BY <2>1, <2>4, <2>5, <2>6, Changing
<1>5. QED
  BY <1>2, <1>3, <1>4 DEF Result

\* Every step keeps the invariant.
LEMMA Inductive == IInv /\ [Next]_vars => IInv'
<1> SUFFICES ASSUME IInv, [Next]_vars PROVE IInv'
  OBVIOUS
<1>1. CASE UNCHANGED vars
  BY <1>1 DEF IInv, vars
<1>2. CASE Next
  <2>1. CASE Tick \/ Close \/ Expire
    BY <2>1, ToastStep
  <2>2. CASE \E p \in Pages : Navigate(p) \/ Select(p)
    BY <2>2, MoveStep
  <2>3. CASE OpenModal \/ CloseModal
    BY <2>3, FormStep
  <2>4. CASE \/ Save
             \/ \E what \in {"create", "activate", "rollback"} : Deploy(what)
             \/ \E url \in Urls : Ask(url)
    BY <2>4, SendStep
  <2>5. CASE \E i \in 1..MaxSends, ok \in BOOLEAN : Result(i, ok)
    BY <2>5, AnswerStep
  <2>6. CASE \/ OpenPalette \/ ClosePalette \/ HealthPoll \/ Poll \/ Rerun \/ Edit
             \/ \E i \in 1..MaxCalls :
                  Handle(i) \/ Receive(i) \/ HandleHealth(i) \/ ReceiveHealth(i) \/ Lose(i)
    BY <2>6, ReadStep
  <2>7. QED
    BY <1>2, <2>1, <2>2, <2>3, <2>4, <2>5, <2>6 DEF Next
<1>3. QED
  BY <1>1, <1>2

(* The inductive invariant. *)
THEOREM Invariant == Spec => []IInv
BY Initially, Inductive, PTL DEF Spec

(* A tester that is not waiting shows the answer to the last question, or nothing. *)
THEOREM ResultIsLastHolds == Spec => []ResultIsLast
<1>1. IInv => ResultIsLast
  BY DEF IInv, Sound, Last, ResultIsLast
<1>2. QED
  BY <1>1, Invariant, PTL

(* No toast goes by itself before its time. *)
THEOREM ToastHolds == Spec => []ToastFullTime
<1>1. IInv => ToastFullTime
  BY DEF IInv, Timed, ToastFullTime
<1>2. QED
  BY <1>1, Invariant, PTL

(* The document scrolls exactly when no form is open on the page that is mounted. *)
THEOREM ScrollHolds == Spec => []ScrollLocked
<1>1. IInv => ScrollLocked
  BY DEF IInv, Sound, Scrolls, ScrollLocked
<1>2. QED
  BY <1>1, Invariant, PTL

=============================================================================
