--------------------------- MODULE SitesPageProofs ---------------------------
(***************************************************************************)
(* Proofs about SitesPage, for any sites, ports, requests and calls in     *)
(* flight, and handlers at once.                                           *)
(*                                                                         *)
(* FormFitsButton is inductive as it stands. ShowsItsOwn is not: it needs  *)
(* that the page is told of no change the server has not made, and that    *)
(* the answer to the last call of the list, which is the one to be shown,  *)
(* knows of all the page was told before it was asked for.                 *)
(*                                                                         *)
(* Registered needs much more: the servers and the list differ while a     *)
(* change is handled, for the site it is about. Consistent says of every   *)
(* request in hand how far it has come, that it has loaded the list as it  *)
(* is still stored, that requests handled at once are Apart and that every *)
(* id is listed once. It holds until two changes clash.                    *)
(***************************************************************************)
EXTENDS SitesPage, FiniteSetTheorems, WellFoundedInduction, TLAPS

\* A form changes what the button that opened it said: handleSubmit's editing is the row of
\* that button, or none for "New Site".
THEOREM FormFitsButtonHolds == Spec => []FormFitsButton
<1>1. Init => FormFitsButton
  BY DEF Init, FormFitsButton
<1>2. FormFitsButton /\ [Next]_vars => FormFitsButton'
  <2> SUFFICES ASSUME FormFitsButton, [Next]_vars PROVE FormFitsButton'
    OBVIOUS
  <2> USE DEF FormFitsButton, NoRow
  <2>1. CASE OpenCreate
    BY <2>1 DEF OpenCreate, ResetForm
  <2>2. CASE Cancel
    BY <2>2 DEF Cancel
  <2>3. ASSUME NEW i \in Clickable, OpenEdit(i) PROVE FormFitsButton'
    BY <2>3 DEF OpenEdit
  <2>4. ASSUME NEW s \in Slots, Done(s) PROVE FormFitsButton'
    BY <2>4 DEF Done, ui
  <2>5. CASE UNCHANGED ui
    BY <2>5 DEF ui
  <2>6. ASSUME NEW i \in Clickable, Toggle(i) \/ Delete(i) PROVE UNCHANGED ui
    BY <2>6 DEF Toggle, Delete, Send
  <2>7. ASSUME NEW id \in Ids, NEW port \in 1..MaxPort + 1, Submit(id, port) PROVE UNCHANGED ui
    BY <2>7 DEF Submit, Send
  <2>8. ASSUME NEW id \in Ids, OtherChanges(id) PROVE UNCHANGED ui
    BY <2>8 DEF OtherChanges, Other
  <2>9. ASSUME NEW i \in 1..MaxCalls, Lose(i) \/ List(i) \/ Receive(i) PROVE UNCHANGED ui
    BY <2>9 DEF Lose, List, Receive
  <2>10. ASSUME NEW s \in Slots, Drop(s) \/ Serve(s) \/ Failed(s) PROVE UNCHANGED ui
    BY <2>10 DEF Drop, Serve, Failed
  <2>11. CASE UNCHANGED vars
    BY <2>11 DEF vars, ui
  <2>12. QED
    BY <2>1, <2>2, <2>3, <2>4, <2>5, <2>6, <2>7, <2>8, <2>9, <2>10, <2>11 DEF Next, Progress, Network
<1>3. QED
  BY <1>1, <1>2, PTL DEF Spec

-----------------------------------------------------------------------------
(* Requests: a step of a handler changes where its own is, and not whose it is. *)

IsRequest(r) ==
  r = [op |-> r.op, row |-> r.row, by |-> r.by, why |-> r.why, pc |-> r.pc, at |-> r.at, idx |-> r.idx]

Requested(f) ==
  /\ f = [s \in Slots |-> f[s]]
  /\ \A s \in Slots : f[s] # None => IsRequest(f[s])

\* Request q has these parts, and is r's otherwise.
Like(q, r, row, pc, at, idx) ==
  /\ IsRequest(q)
  /\ q.by = r.by /\ q.op = r.op
  /\ q.row = row /\ q.pc = pc /\ q.at = at /\ q.idx = idx

\* The request in slot s is still the one it was, and has come as far as this.
Moved(f, g, s, row, pc, at, idx) ==
  /\ Requested(g)
  /\ Like(g[s], f[s], row, pc, at, idx)
  /\ \A t \in Slots \ {s} : g[t] = f[t]

\* One part of a request is changed, and the others stay.
LEMMA Field ==
  ASSUME NEW r, IsRequest(r), NEW x, NEW q
  PROVE  /\ q = [r EXCEPT !.pc = x] => Like(q, r, r.row, x, r.at, r.idx)
         /\ q = [r EXCEPT !.at = x] => Like(q, r, r.row, r.pc, x, r.idx)
         /\ q = [r EXCEPT !.idx = x] => Like(q, r, r.row, r.pc, r.at, x)
         /\ q = [r EXCEPT !.row = x] => Like(q, r, x, r.pc, r.at, r.idx)
<1>1. q = [r EXCEPT !.pc = x] => Like(q, r, r.row, x, r.at, r.idx)
  BY DEF IsRequest, Like
<1>2. q = [r EXCEPT !.at = x] => Like(q, r, r.row, r.pc, x, r.idx)
  BY DEF IsRequest, Like
<1>3. q = [r EXCEPT !.idx = x] => Like(q, r, r.row, r.pc, r.at, x)
  BY DEF IsRequest, Like
<1>4. q = [r EXCEPT !.row = x] => Like(q, r, x, r.pc, r.at, r.idx)
  BY DEF IsRequest, Like
<1>5. QED
  BY <1>1, <1>2, <1>3, <1>4

\* One field of one request is changed.
LEMMA OneField ==
  ASSUME NEW f, NEW s \in Slots, Requested(f), IsRequest(f[s]), NEW x
  PROVE  /\ Moved(f, [f EXCEPT ![s].pc = x], s, f[s].row, x, f[s].at, f[s].idx)
         /\ Moved(f, [f EXCEPT ![s].at = x], s, f[s].row, f[s].pc, x, f[s].idx)
         /\ Moved(f, [f EXCEPT ![s].idx = x], s, f[s].row, f[s].pc, f[s].at, x)
         /\ Moved(f, [f EXCEPT ![s].row.status = x], s, [f[s].row EXCEPT !.status = x], f[s].pc, f[s].at, f[s].idx)
<1>1. ASSUME NEW g, NEW q, g = [t \in Slots |-> IF t = s THEN q ELSE f[t]],
             NEW row, NEW pc, NEW at, NEW idx, Like(q, f[s], row, pc, at, idx)
      PROVE  Moved(f, g, s, row, pc, at, idx)
  BY <1>1 DEF Moved, Requested, Like
<1>2. f = [t \in Slots |-> f[t]]
  BY DEF Requested
<1>5. Moved(f, [f EXCEPT ![s].pc = x], s, f[s].row, x, f[s].at, f[s].idx)
  <2>1. PICK q : q = [f[s] EXCEPT !.pc = x]
    BY Zenon
  <2>2. [f EXCEPT ![s].pc = x] = [t \in Slots |-> IF t = s THEN q ELSE f[t]]
    BY <1>2, <2>1
  <2>3. Like(q, f[s], f[s].row, x, f[s].at, f[s].idx)
    BY <2>1, Field
  <2>4. QED
    BY <1>1, <2>2, <2>3
<1>6. Moved(f, [f EXCEPT ![s].at = x], s, f[s].row, f[s].pc, x, f[s].idx)
  <2>1. PICK q : q = [f[s] EXCEPT !.at = x]
    BY Zenon
  <2>2. [f EXCEPT ![s].at = x] = [t \in Slots |-> IF t = s THEN q ELSE f[t]]
    BY <1>2, <2>1
  <2>3. Like(q, f[s], f[s].row, f[s].pc, x, f[s].idx)
    BY <2>1, Field
  <2>4. QED
    BY <1>1, <2>2, <2>3
<1>7. Moved(f, [f EXCEPT ![s].idx = x], s, f[s].row, f[s].pc, f[s].at, x)
  <2>1. PICK q : q = [f[s] EXCEPT !.idx = x]
    BY Zenon
  <2>2. [f EXCEPT ![s].idx = x] = [t \in Slots |-> IF t = s THEN q ELSE f[t]]
    BY <1>2, <2>1
  <2>3. Like(q, f[s], f[s].row, f[s].pc, f[s].at, x)
    BY <2>1, Field
  <2>4. QED
    BY <1>1, <2>2, <2>3
<1>8. Moved(f, [f EXCEPT ![s].row.status = x], s, [f[s].row EXCEPT !.status = x], f[s].pc, f[s].at, f[s].idx)
  <2>1. PICK q, row : row = [f[s].row EXCEPT !.status = x] /\ q = [f[s] EXCEPT !.row = row]
    BY Zenon
  <2>2. [f EXCEPT ![s].row.status = x] = [t \in Slots |-> IF t = s THEN q ELSE f[t]]
    BY <1>2, <2>1
  <2>3. Like(q, f[s], [f[s].row EXCEPT !.status = x], f[s].pc, f[s].at, f[s].idx)
    BY <2>1, Field
  <2>4. QED
    BY <1>1, <2>2, <2>3
<1>9. QED
  BY <1>5, <1>6, <1>7, <1>8

\* Two changes of one request are one.
LEMMA Twice ==
  ASSUME NEW f, NEW g, NEW h, NEW s \in Slots, NEW r1, NEW p1, NEW a1, NEW i1, NEW r2, NEW p2, NEW a2, NEW i2,
         Moved(f, g, s, r1, p1, a1, i1), Moved(g, h, s, r2, p2, a2, i2)
  PROVE  Moved(f, h, s, r2, p2, a2, i2)
BY DEF Moved, Like

\* What a step makes of a request.
LEMMA ToPc ==
  ASSUME NEW f, NEW s \in Slots, Requested(f), IsRequest(f[s]), NEW p
  PROVE  Moved(f, [f EXCEPT ![s].pc = p], s, f[s].row, p, f[s].at, f[s].idx)
BY OneField

LEMMA ToAtPc ==
  ASSUME NEW f, NEW s \in Slots, Requested(f), IsRequest(f[s]), NEW a, NEW p
  PROVE  Moved(f, [f EXCEPT ![s].at = a, ![s].pc = p], s, f[s].row, p, a, f[s].idx)
<1> DEFINE g == [f EXCEPT ![s].at = a]
           h == [g EXCEPT ![s].pc = p]
<1>1. Moved(f, g, s, f[s].row, f[s].pc, a, f[s].idx)
  BY OneField
<1> HIDE DEF g
<1>2. Requested(g) /\ IsRequest(g[s]) /\ g[s].row = f[s].row /\ g[s].at = a /\ g[s].idx = f[s].idx
  BY <1>1 DEF Moved, Like
<1>3. Moved(g, h, s, f[s].row, p, a, f[s].idx)
  BY <1>2, ToPc
<1> HIDE DEF h
<1>4. Moved(f, h, s, f[s].row, p, a, f[s].idx)
  BY <1>1, <1>3, Twice
<1>5. QED
  BY <1>4, Zenon DEF h, g

LEMMA ToAtIdxPc ==
  ASSUME NEW f, NEW s \in Slots, Requested(f), IsRequest(f[s]), NEW a, NEW i, NEW p
  PROVE  Moved(f, [f EXCEPT ![s].at = a, ![s].idx = i, ![s].pc = p], s, f[s].row, p, a, i)
<1> DEFINE g == [f EXCEPT ![s].at = a]
           h == [g EXCEPT ![s].idx = i]
           k == [h EXCEPT ![s].pc = p]
<1>1. Moved(f, g, s, f[s].row, f[s].pc, a, f[s].idx)
  BY OneField
<1> HIDE DEF g
<1>2. Requested(g) /\ IsRequest(g[s]) /\ g[s].row = f[s].row /\ g[s].at = a /\ g[s].pc = f[s].pc
  BY <1>1 DEF Moved, Like
<1>3. Moved(g, h, s, f[s].row, f[s].pc, a, i)
  BY <1>2, OneField
<1> HIDE DEF h
<1>4. Requested(h) /\ IsRequest(h[s]) /\ h[s].row = f[s].row /\ h[s].at = a /\ h[s].idx = i
  BY <1>3 DEF Moved, Like
<1>5. Moved(h, k, s, f[s].row, p, a, i)
  BY <1>4, ToPc
<1> HIDE DEF k
<1>6. Moved(f, h, s, f[s].row, f[s].pc, a, i)
  BY <1>1, <1>3, Twice
<1>7. Moved(f, k, s, f[s].row, p, a, i)
  BY <1>5, <1>6, Twice
<1>8. QED
  BY <1>7, Zenon DEF k, h, g

LEMMA ToPcStatus ==
  ASSUME NEW f, NEW s \in Slots, Requested(f), IsRequest(f[s]), NEW p, NEW x
  PROVE  Moved(f, [f EXCEPT ![s].pc = p, ![s].row.status = x], s, [f[s].row EXCEPT !.status = x], p, f[s].at, f[s].idx)
<1> DEFINE g == [f EXCEPT ![s].pc = p]
           h == [g EXCEPT ![s].row.status = x]
<1>1. Moved(f, g, s, f[s].row, p, f[s].at, f[s].idx)
  BY OneField
<1> HIDE DEF g
<1>2. Requested(g) /\ IsRequest(g[s]) /\ g[s].row = f[s].row /\ g[s].at = f[s].at /\ g[s].idx = f[s].idx /\ g[s].pc = p
  BY <1>1 DEF Moved, Like
<1>3. Moved(g, h, s, [f[s].row EXCEPT !.status = x], p, f[s].at, f[s].idx)
  BY <1>2, OneField
<1> HIDE DEF h
<1>4. Moved(f, h, s, [f[s].row EXCEPT !.status = x], p, f[s].at, f[s].idx)
  BY <1>1, <1>3, Twice
<1>5. QED
  BY <1>4, Zenon DEF h, g

\* Every step of a handler moves its request, which had no answer before.
LEMMA HandleMoves ==
  ASSUME NEW s \in Slots, Requested(reqs), Handle(s)
  PROVE  /\ reqs[s] # None /\ reqs[s].pc # "ok"
         /\ \E row, pc, at, idx : Moved(reqs, reqs', s, row, pc, at, idx)
<1>1. reqs[s] # None /\ reqs[s].pc # "ok"
  BY DEF Handle, Begin, Stop, Start, Store
<1>2. IsRequest(reqs[s])
  BY <1>1 DEF Requested
<1> SUFFICES \E row, pc, at, idx : Moved(reqs, reqs', s, row, pc, at, idx)
  BY <1>1
<1>7. CASE BeginCreate(s)
  <2>1. PICK p : reqs' = [reqs EXCEPT ![s].at = list, ![s].pc = p]
    BY <1>7, Zenon DEF BeginCreate
  <2>2. QED
    BY <1>2, <2>1, ToAtPc
<1>8. CASE BeginChange(s)
  <2>1. PICK p, a, i : reqs' = [reqs EXCEPT ![s].at = a, ![s].idx = i, ![s].pc = p]
    BY <1>8, Zenon DEF BeginChange
  <2>2. QED
    BY <1>2, <2>1, ToAtIdxPc
<1>9. CASE Stop(s) \/ StartOk(s)
  <2>1. PICK p : reqs' = [reqs EXCEPT ![s].pc = p]
    BY <1>9, Zenon DEF Stop, StartOk, Goto
  <2>2. QED
    BY <1>2, <2>1, ToPc
<1>10. CASE StartFails(s)
  <2>1. PICK p, x : reqs' = [reqs EXCEPT ![s].pc = p, ![s].row.status = x]
    BY <1>10, Zenon DEF StartFails
  <2>2. QED
    BY <1>2, <2>1, ToPcStatus
<1>11. CASE Store(s)
  <2>1. PICK p, a, i : reqs' = [reqs EXCEPT ![s].at = a, ![s].idx = i, ![s].pc = p]
    BY <1>11, Zenon DEF Store
  <2>2. QED
    BY <1>2, <2>1, ToAtIdxPc
<1>12. QED
  BY <1>7, <1>8, <1>9, <1>10, <1>11 DEF Handle, Begin, Start

-----------------------------------------------------------------------------
(* The hook. *)

Hook(d, l, e, c, n) == [data |-> d, loading |-> l, error |-> e, calls |-> c, newest |-> n]

IsHook(h) ==
  /\ h = Hook(h.data, h.loading, h.error, h.calls, h.newest)
  /\ \E S : h.calls \in Seq(S)

\* The parts of a hook.
LEMMA Parts ==
  ASSUME NEW d, NEW l, NEW e, NEW c, NEW n, NEW h, h = Hook(d, l, e, c, n), NEW S, c \in Seq(S)
  PROVE  IsHook(h) /\ h.data = d /\ h.calls = c /\ h.newest = n
BY DEF Hook, IsHook

\* A call is made: it is the last one, and what is awaited.
LEMMA Loads ==
  ASSUME NEW h, IsHook(h)
  PROVE  /\ IsHook(Load(h))
         /\ Load(h).newest = "due"
         /\ Load(h).data = h.data
         /\ \A i \in DOMAIN Load(h).calls :
              Load(h).calls[i] = Sent \/ (i \in DOMAIN h.calls /\ Load(h).calls[i] = h.calls[i])
         /\ \A i \in DOMAIN Load(h).calls : i = Len(Load(h).calls) => Load(h).calls[i] = Sent
<1>1. PICK S : h.calls \in Seq(S)
  BY DEF IsHook
<1>2. PICK t, f, s : t = TRUE /\ f = FALSE /\ s = "due"
  BY Zenon
<1> DEFINE c  == Append(h.calls, Sent)
           h1 == [h EXCEPT !.loading = t]
           h2 == [h1 EXCEPT !.error = f]
           h3 == [h2 EXCEPT !.calls = Append(@, Sent)]
           h4 == [h3 EXCEPT !.newest = s]
<1>3. Load(h) = h4
  BY <1>2, Zenon DEF Load
<1>4. h1 = Hook(h.data, t, h.error, h.calls, h.newest)
  BY DEF Hook, IsHook
<1> HIDE DEF h1
<1>5. h2 = Hook(h.data, t, f, h.calls, h.newest)
  BY <1>4 DEF Hook
<1> HIDE DEF h2
<1>6. h3 = Hook(h.data, t, f, c, h.newest)
  BY <1>5 DEF Hook
<1> HIDE DEF h3
<1>7. h4 = Hook(h.data, t, f, c, s)
  BY <1>6 DEF Hook
<1> HIDE DEF h4
<1>8. /\ c \in Seq(S \cup {Sent})
      /\ \A i \in DOMAIN c : c[i] = Sent \/ (i \in DOMAIN h.calls /\ c[i] = h.calls[i])
      /\ \A i \in DOMAIN c : i = Len(c) => c[i] = Sent
  BY <1>1
<1> HIDE DEF c
<1>9. IsHook(h4) /\ h4.data = h.data /\ h4.calls = c /\ h4.newest = s
  BY <1>7, <1>8, Parts
<1>10. QED
  BY <1>2, <1>3, <1>8, <1>9, Zenon DEF c

\* A call is answered or refused.
LEMMA Replies ==
  ASSUME NEW h, IsHook(h), NEW c, NEW S, c \in Seq(S), NEW g, g = [h EXCEPT !.calls = c]
  PROVE  IsHook(g) /\ g.newest = h.newest /\ g.data = h.data /\ g.calls = c
<1>1. g = Hook(h.data, h.loading, h.error, c, h.newest)
  BY DEF Hook, IsHook
<1>2. QED
  BY <1>1, Parts

\* A call settles: the others keep their order.
LEMMA Settles ==
  ASSUME NEW h, IsHook(h), NEW i \in DOMAIN h.calls
  PROVE  LET g == Settle(h, i)
             ok == h.calls[i].state = "answered" IN
         /\ IsHook(g)
         /\ g.newest = Standing(h, i, ok)
         /\ g.data = IF ok THEN h.calls[i].value ELSE h.data
         /\ g.calls = Except(h.calls, i)
<1>1. PICK S : h.calls \in Seq(S)
  BY DEF IsHook
<1> DEFINE ok == h.calls[i].state = "answered"
           c  == Except(h.calls, i)
<1>2. PICK v, x, f, s : /\ v = IF ok THEN h.calls[i].value ELSE h.data
                        /\ x = (h.error \/ ~ok)
                        /\ f = FALSE
                        /\ s = Standing(h, i, ok)
  BY Zenon
<1> DEFINE h1 == [h EXCEPT !.data = v]
           h2 == [h1 EXCEPT !.error = x]
           h3 == [h2 EXCEPT !.loading = f]
           h4 == [h3 EXCEPT !.newest = s]
           h5 == [h4 EXCEPT !.calls = Except(@, i)]
<1>3. Settle(h, i) = h5
  BY <1>2, Zenon DEF Settle
<1>4. h1 = Hook(v, h.loading, h.error, h.calls, h.newest)
  BY DEF Hook, IsHook
<1> HIDE DEF h1
<1>5. h2 = Hook(v, h.loading, x, h.calls, h.newest)
  BY <1>4 DEF Hook
<1> HIDE DEF h2
<1>6. h3 = Hook(v, f, x, h.calls, h.newest)
  BY <1>5 DEF Hook
<1> HIDE DEF h3
<1>7. h4 = Hook(v, f, x, h.calls, s)
  BY <1>6 DEF Hook
<1> HIDE DEF h4
<1>8. h5 = Hook(v, f, x, c, s)
  BY <1>7 DEF Hook
<1> HIDE DEF h5
<1>9. c \in Seq(S)
  BY <1>1 DEF Except
<1> HIDE DEF c
<1>10. IsHook(h5) /\ h5.data = v /\ h5.calls = c /\ h5.newest = s
  BY <1>8, <1>9, Parts
<1>11. QED
  BY <1>2, <1>3, <1>10, Zenon DEF c

-----------------------------------------------------------------------------
(* The inductive invariant. *)

\* Changes the server has made and whose answers are on their way to the page.
Told(rs) == {s \in Slots : rs[s] # None /\ rs[s].by = "page" /\ rs[s].pc = "ok"}

Counts == made \in Nat /\ done \in Nat /\ done + Cardinality(Told(reqs)) <= made

Knows(answer) == answer.made \in Nat /\ answer.made >= done

LastKnows(h) ==
  h.newest = "due" =>
    \A i \in DOMAIN h.calls :
      i = Len(h.calls) /\ h.calls[i].state = "answered" => Knows(h.calls[i].value)

ShownKnows(h) == h.newest = "shown" => Knows(h.data)

IInv ==
  /\ Requested(reqs)
  /\ IsHook(hook)
  /\ Counts
  /\ LastKnows(hook)
  /\ ShownKnows(hook)

\* Fewer answers on their way leave the count as it is.
LEMMA Fewer ==
  ASSUME Counts, UNCHANGED <<made, done>>, Told(reqs') \subseteq Told(reqs)
  PROVE  Counts'
<1>1. IsFiniteSet(Told(reqs))
  BY ServerAssumption, FS_Subset DEF Told
<1>2. IsFiniteSet(Told(reqs')) /\ Cardinality(Told(reqs')) <= Cardinality(Told(reqs))
  BY <1>1, FS_Subset
<1>3. Cardinality(Told(reqs)) \in Nat /\ Cardinality(Told(reqs')) \in Nat
  BY <1>1, <1>2, FS_CardinalityType
<1>4. QED
  BY <1>2, <1>3 DEF Counts

\* A request is sent: its slot holds one that has no answer.
LEMMA Sends ==
  ASSUME Requested(reqs), NEW k, NEW op, NEW row, NEW by, NEW why,
         reqs' = [reqs EXCEPT ![k] = Request(op, row, by, why)]
  PROVE  Requested(reqs') /\ Told(reqs') \subseteq Told(reqs)
<1>1. PICK r : r = Request(op, row, by, why)
  BY Zenon
<1>2. IsRequest(r) /\ r.pc = "sent"
  BY <1>1 DEF IsRequest, Request
<1>3. reqs' = [s \in Slots |-> IF s = k THEN r ELSE reqs[s]]
  BY <1>1 DEF Requested
<1>4. QED
  BY <1>2, <1>3 DEF Requested, Told

\* A request is over: its slot is free.
LEMMA Clears ==
  ASSUME Requested(reqs), NEW s \in Slots, reqs' = [reqs EXCEPT ![s] = None]
  PROVE  Requested(reqs') /\ Told(reqs') = Told(reqs) \ {s}
<1>1. reqs' = [t \in Slots |-> IF t = s THEN None ELSE reqs[t]]
  BY DEF Requested
<1>2. QED
  BY <1>1 DEF Requested, Told

\* A handler's step: at most its own request gets its answer, and then a change is counted.
LEMMA ServeCounts ==
  ASSUME Requested(reqs), Counts, NEW s \in Slots, Serve(s)
  PROVE  Requested(reqs') /\ Counts'
<1>1. /\ reqs[s] # None /\ reqs[s].pc # "ok"
      /\ Requested(reqs')
      /\ \A t \in Slots \ {s} : reqs'[t] = reqs[t]
      /\ reqs'[s].by = reqs[s].by
  BY HandleMoves DEF Serve, Moved, Like
<1>2. Requested(reqs')
  BY <1>1
<1>3. CASE reqs'[s].pc = "ok" /\ reqs[s].by = "page"
  <2>1. Told(reqs') \subseteq Told(reqs) \cup {s} /\ s \notin Told(reqs)
    BY <1>1 DEF Told
  <2>2. IsFiniteSet(Told(reqs))
    BY ServerAssumption, FS_Subset DEF Told
  <2>3. /\ IsFiniteSet(Told(reqs) \cup {s})
        /\ Cardinality(Told(reqs) \cup {s}) = Cardinality(Told(reqs)) + 1
    BY <2>1, <2>2, FS_AddElement
  <2>4. IsFiniteSet(Told(reqs')) /\ Cardinality(Told(reqs')) <= Cardinality(Told(reqs)) + 1
    BY <2>1, <2>3, FS_Subset
  <2>5. Cardinality(Told(reqs)) \in Nat /\ Cardinality(Told(reqs')) \in Nat
    BY <2>2, <2>4, FS_CardinalityType
  <2>6. made' = made + 1 /\ done' = done
    BY <1>3 DEF Serve
  <2>7. QED
    BY <1>2, <2>4, <2>5, <2>6 DEF Counts
<1>4. CASE ~(reqs'[s].pc = "ok" /\ reqs[s].by = "page")
  <2>1. Told(reqs') \subseteq Told(reqs)
    BY <1>1, <1>4 DEF Told
  <2>2. UNCHANGED <<made, done>>
    BY <1>4 DEF Serve
  <2>3. QED
    BY <1>2, <2>1, <2>2, Fewer
<1>5. QED
  BY <1>3, <1>4

\* The page is told of a change: one answer fewer on its way, one change more it knows of.
LEMMA DoneCounts ==
  ASSUME Requested(reqs), Counts, NEW s \in Slots, Done(s)
  PROVE  Requested(reqs') /\ Counts'
<1>1. Requested(reqs') /\ Told(reqs') = Told(reqs) \ {s}
  BY Clears DEF Done
<1>2. s \in Told(reqs)
  BY DEF Done, Replied, Told
<1>3. IsFiniteSet(Told(reqs))
  BY ServerAssumption, FS_Subset DEF Told
<1>4. IsFiniteSet(Told(reqs')) /\ Cardinality(Told(reqs')) = Cardinality(Told(reqs)) - 1
  BY <1>1, <1>2, <1>3, FS_RemoveElement
<1>5. Cardinality(Told(reqs)) \in Nat /\ Cardinality(Told(reqs')) \in Nat
  BY <1>3, <1>4, FS_CardinalityType
<1>6. done' = done + 1 /\ made' = made
  BY DEF Done
<1>7. QED
  BY <1>1, <1>4, <1>5, <1>6 DEF Counts

\* A call of the list is answered with what the server has now, or fails.
LEMMA ListKnows ==
  ASSUME IInv, NEW i \in 1..MaxCalls, List(i) \/ Lose(i)
  PROVE  IsHook(hook') /\ LastKnows(hook)' /\ ShownKnows(hook)'
<1>1. i \in DOMAIN hook.calls
  BY DEF List, Lose, Pending
<1>2. made \in Nat /\ made >= done /\ UNCHANGED <<made, done>>
  <2>1. IsFiniteSet(Told(reqs))
    BY ServerAssumption, FS_Subset DEF Told
  <2>2. Cardinality(Told(reqs)) \in Nat
    BY <2>1, FS_CardinalityType
  <2>3. QED
    BY <2>2 DEF IInv, Counts, List, Lose, past
<1>3. PICK x : /\ hook' = [hook EXCEPT !.calls[i] = x]
               /\ x.state = "answered" => Knows(x.value)
  <2>1. CASE List(i)
    <3>1. Answered(Listing).state = "answered" /\ Answered(Listing).value = Listing /\ Listing.made = made
      BY DEF Answered, Listing
    <3>2. hook' = [hook EXCEPT !.calls[i] = Answered(Listing)]
      BY <2>1, Zenon DEF List, Answer
    <3>3. Knows(Answered(Listing).value)
      BY <1>2, <3>1 DEF Knows
    <3>4. QED
      BY <3>2, <3>3, Zenon
  <2>2. CASE Lose(i)
    <3>1. Refused.state # "answered"
      BY DEF Refused
    <3>2. hook' = [hook EXCEPT !.calls[i] = Refused]
      BY <2>2, Zenon DEF Lose, Refuse
    <3>3. QED
      BY <3>1, <3>2, Zenon
  <2>3. QED
    BY <2>1, <2>2
<1>4. /\ IsHook(hook')
      /\ hook'.newest = hook.newest
      /\ hook'.data = hook.data
      /\ hook'.calls = [hook.calls EXCEPT ![i] = x]
      /\ Len(hook'.calls) = Len(hook.calls)
  <2>1. PICK c : c = [hook.calls EXCEPT ![i] = x]
    BY Zenon
  <2>2. PICK S : hook.calls \in Seq(S)
    BY DEF IInv, IsHook
  <2>3. c \in Seq(S \cup {x}) /\ Len(c) = Len(hook.calls)
    BY <1>1, <2>1, <2>2
  <2>4. hook' = [hook EXCEPT !.calls = c]
    BY <1>3, <2>1, Zenon
  <2>5. IsHook(hook') /\ hook'.newest = hook.newest /\ hook'.data = hook.data /\ hook'.calls = c
    BY <2>3, <2>4, Replies DEF IInv
  <2>6. QED
    BY <2>1, <2>3, <2>5, Zenon
<1>5. \A j \in DOMAIN hook'.calls : j \in DOMAIN hook.calls /\ hook'.calls[j] = IF j = i THEN x ELSE hook.calls[j]
  BY <1>1, <1>4 DEF IInv, IsHook
<1>6. LastKnows(hook)'
  BY <1>2, <1>3, <1>4, <1>5 DEF IInv, LastKnows, Knows
<1>7. ShownKnows(hook)'
  BY <1>2, <1>4 DEF IInv, ShownKnows, Knows
<1>8. QED
  BY <1>4, <1>6, <1>7

\* A call settles: when it is the last one, what it brought is what it was to know.
LEMMA ReceiveKnows ==
  ASSUME IInv, NEW i \in 1..MaxCalls, Receive(i)
  PROVE  IsHook(hook') /\ LastKnows(hook)' /\ ShownKnows(hook)'
<1> DEFINE ok == hook.calls[i].state = "answered"
<1>1. i \in DOMAIN hook.calls /\ UNCHANGED <<made, done>>
  BY DEF Receive, Settled, past
<1>2. /\ IsHook(hook')
      /\ hook'.newest = Standing(hook, i, ok)
      /\ hook'.data = IF ok THEN hook.calls[i].value ELSE hook.data
      /\ hook'.calls = Except(hook.calls, i)
  <2>1. IsHook(hook) /\ hook' = Settle(hook, i)
    BY DEF IInv, Receive
  <2>2. QED
    BY <1>1, <2>1, Settles, Zenon
<1>3. LastKnows(hook)'
  <2>1. SUFFICES ASSUME hook'.newest = "due" PROVE LastKnows(hook)'
    BY DEF LastKnows
  <2>2. hook.newest = "due" /\ i < Len(hook.calls)
    BY <1>2, <2>1 DEF Standing
  <2>3. \A j \in DOMAIN hook'.calls :
          j = Len(hook'.calls) => hook'.calls[j] = hook.calls[Len(hook.calls)] /\ Len(hook.calls) \in DOMAIN hook.calls
    BY <1>1, <1>2, <2>2 DEF Except, IInv, IsHook
  <2>4. QED
    BY <1>1, <2>2, <2>3 DEF LastKnows, IInv, Knows
<1>4. ShownKnows(hook)'
  <2>1. SUFFICES ASSUME hook'.newest = "shown" PROVE ShownKnows(hook)'
    BY DEF ShownKnows
  <2>2. CASE hook.newest = "due"
    <3>1. ok /\ i = Len(hook.calls)
      BY <1>1, <1>2, <2>1, <2>2 DEF Standing, IInv, IsHook
    <3>2. QED
      BY <1>1, <1>2, <2>2, <3>1 DEF IInv, LastKnows, ShownKnows, Knows
  <2>3. CASE hook.newest # "due"
    <3>1. ~ok /\ hook.newest = "shown"
      BY <1>2, <2>1, <2>3 DEF Standing
    <3>2. QED
      BY <1>1, <1>2, <3>1 DEF IInv, ShownKnows, Knows
  <2>4. QED
    BY <2>2, <2>3
<1>5. QED
  BY <1>2, <1>3, <1>4

\* Every step keeps the invariant.
THEOREM Inductive == Spec => []IInv
<1>1. Init => IInv
  <2> SUFFICES ASSUME Init PROVE IInv
    OBVIOUS
  <2>1. Requested(reqs)
    BY DEF Init, ServerInit, Requested
  <2>2. IsHook(hook) /\ hook.newest = "due" /\ LastKnows(hook)
    <3>1. Unmounted.calls = <<>> /\ <<>> \in Seq({})
      BY DEF Unmounted
    <3>2. IsHook(Unmounted)
      <4>1. Unmounted = Hook(Unmounted.data, Unmounted.loading, Unmounted.error, Unmounted.calls, Unmounted.newest)
        BY DEF Unmounted, Hook
      <4>2. QED
        BY <3>1, <4>1 DEF IsHook
    <3>3. hook = Load(Unmounted)
      BY DEF Init, Mount
    <3>4. /\ IsHook(hook)
          /\ hook.newest = "due"
          /\ \A i \in DOMAIN hook.calls : i = Len(hook.calls) => hook.calls[i] = Sent
      BY <3>2, <3>3, Loads, Zenon
    <3>5. Sent.state # "answered"
      BY DEF Sent
    <3>6. QED
      BY <3>4, <3>5 DEF LastKnows
  <2>3. Counts
    <3>1. Told(reqs) = {}
      BY DEF Init, ServerInit, Told
    <3>2. Cardinality(Told(reqs)) = 0
      BY <3>1, FS_EmptySet
    <3>3. QED
      BY <3>2 DEF Init, Counts
  <2>4. QED
    BY <2>1, <2>2, <2>3 DEF IInv, ShownKnows
<1>2. IInv /\ [Next]_vars => IInv'
  <2> SUFFICES ASSUME IInv, [Next]_vars PROVE IInv'
    OBVIOUS
  <2>1. ASSUME UNCHANGED <<hook, made, done>>, Requested(reqs'), Told(reqs') \subseteq Told(reqs)
        PROVE  IInv'
    <3>1. Counts'
      BY <2>1, Fewer DEF IInv
    <3>2. QED
      BY <2>1, <3>1 DEF IInv, LastKnows, ShownKnows, Knows
  <2>2. ASSUME UNCHANGED <<reqs, hook, made, done>> PROVE IInv'
    BY <2>1, <2>2 DEF IInv
  <2>3. ASSUME NEW k, NEW op, NEW row, NEW by, NEW why, UNCHANGED <<hook, made, done>>,
               reqs' = [reqs EXCEPT ![k] = Request(op, row, by, why)]
        PROVE  IInv'
    BY <2>1, <2>3, Sends DEF IInv
  <2>4. ASSUME NEW s \in Slots, UNCHANGED <<hook, made, done>>, reqs' = [reqs EXCEPT ![s] = None]
        PROVE  IInv'
    BY <2>1, <2>4, Clears DEF IInv
  <2>5. CASE OpenCreate \/ Cancel \/ \E i \in Clickable : OpenEdit(i)
    BY <2>2, <2>5 DEF OpenCreate, Cancel, OpenEdit, server, past
  <2>6. ASSUME NEW i \in Clickable, Toggle(i) \/ Delete(i) PROVE IInv'
    BY <2>3, <2>6 DEF Toggle, Delete, Send, past
  <2>7. ASSUME NEW id \in Ids, NEW port \in 1..MaxPort + 1, Submit(id, port) PROVE IInv'
    BY <2>3, <2>7 DEF Submit, Send, past
  <2>8. ASSUME NEW id \in Ids, OtherChanges(id) PROVE IInv'
    <3>1. PICK op, row : Other(op, row)
      BY <2>8, Zenon DEF OtherChanges
    <3>2. QED
      BY <2>3, <3>1 DEF Other, past
  <2>9. ASSUME NEW i \in 1..MaxCalls, List(i) \/ Lose(i) PROVE IInv'
    <3>1. UNCHANGED <<reqs, made, done>>
      BY <2>9 DEF List, Lose, server, past
    <3>2. QED
      BY <2>9, <3>1, ListKnows DEF IInv, Counts
  <2>10. ASSUME NEW i \in 1..MaxCalls, Receive(i) PROVE IInv'
    <3>1. UNCHANGED <<reqs, made, done>>
      BY <2>10 DEF Receive, server, past
    <3>2. QED
      BY <2>10, <3>1, ReceiveKnows DEF IInv, Counts
  <2>11. ASSUME NEW s \in Slots, Drop(s) \/ Failed(s) PROVE IInv'
    BY <2>4, <2>11 DEF Drop, Failed, past
  <2>12. ASSUME NEW s \in Slots, Serve(s) PROVE IInv'
    <3>1. UNCHANGED <<hook, done>>
      BY <2>12 DEF Serve
    <3>2. Requested(reqs') /\ Counts'
      BY <2>12, ServeCounts DEF IInv
    <3>3. QED
      BY <3>1, <3>2 DEF IInv, LastKnows, ShownKnows, Knows
  <2>13. ASSUME NEW s \in Slots, Done(s) PROVE IInv'
    <3>1. Requested(reqs') /\ Counts'
      BY <2>13, DoneCounts DEF IInv
    <3>2. hook' = Load(hook) /\ IsHook(hook)
      BY <2>13 DEF Done, IInv
    <3>3. /\ IsHook(hook')
          /\ hook'.newest = "due"
          /\ \A i \in DOMAIN hook'.calls : i = Len(hook'.calls) => hook'.calls[i] = Sent
      BY <3>2, Loads, Zenon
    <3>4. Sent.state # "answered"
      BY DEF Sent
    <3>5. QED
      BY <3>1, <3>3, <3>4 DEF IInv, LastKnows, ShownKnows
  <2>14. CASE UNCHANGED vars
    BY <2>2, <2>14 DEF vars, server, past
  <2>15. QED
    BY <2>5, <2>6, <2>7, <2>8, <2>9, <2>10, <2>11, <2>12, <2>13, <2>14 DEF Next, Progress, Network
<1>3. QED
  BY <1>1, <1>2, PTL DEF Spec

\* The table shows every change the page has reported as made: what handleSubmit, toggleSite
\* and deleteSite load after their await.
THEOREM ShowsItsOwnHolds == Spec => []ShowsItsOwn
<1>1. IInv => ShowsItsOwn
  BY DEF IInv, ShownKnows, Knows, ShowsItsOwn
<1>2. QED
  BY <1>1, Inductive, PTL

-----------------------------------------------------------------------------
(* The servers that run. *)

Stored(i) == arrays[list.array][i]
Served(row) == IF row.status = "active" THEN row.port ELSE 0

\* A list of sites: a header and what lies under it, every id once.
SiteList(head, cells) ==
  /\ head.len \in Nat
  /\ cells \in Seq(Row \cup {None})
  /\ head.len <= Len(cells)
  /\ \A i \in 1..head.len : cells[i] \in Row
  /\ \A i, j \in 1..head.len : cells[i].id = cells[j].id => i = j

Heaped ==
  /\ arrays = [a \in Arrays |-> arrays[a]]
  /\ list = [array |-> list.array, len |-> list.len]
  /\ list.array \in Arrays
  /\ SiteList(list, arrays[list.array])

Asked ==
  \A s \in Slots : reqs[s] # None =>
    /\ reqs[s].op \in {"POST", "PUT", "DELETE"}
    /\ reqs[s].row \in Row
    /\ reqs[s].op = "DELETE" => reqs[s].row.status = "stopped"
    /\ reqs[s].op = "POST" /\ reqs[s].pc = "sent" => reqs[s].row.status = "active"

\* No site of the list has this id.
Unlisted(id) == \A i \in 1..list.len : Stored(i).id # id

\* A request that is handled has the list as it is and the site it is about, and that
\* site's server is as far as the request has come.
InHand(s) ==
  /\ reqs[s].at = list
  /\ reqs[s].op = "POST" =>
       reqs[s].pc \in {"start", "store"} /\ reqs[s].row.status = "active" /\ Unlisted(reqs[s].row.id)
  /\ reqs[s].op # "POST" => reqs[s].idx \in 1..list.len /\ Stored(reqs[s].idx).id = reqs[s].row.id
  /\ reqs[s].op = "DELETE" => reqs[s].pc \in {"stop", "store"}
  /\ reqs[s].pc = "start" => reqs[s].row.status = "active" /\ running[reqs[s].row.id] = 0
  /\ reqs[s].pc = "store" => running[reqs[s].row.id] = Served(reqs[s].row)
  /\ reqs[s].pc = "store failed" => reqs[s].row.status = "error" /\ running[reqs[s].row.id] = 0

AllApart == \A s, t \in Handling : s # t => Apart(s, t)

\* The site's server has been touched, and the list is yet to be stored.
Ahead(id) == \E s \in Handling : reqs[s].pc # "stop" /\ reqs[s].row.id = id

Agree ==
  /\ running = [id \in Ids |-> running[id]]
  /\ \A i \in 1..list.len : ~Ahead(Stored(i).id) => running[Stored(i).id] = Served(Stored(i))
  /\ \A id \in Ids : running[id] # 0 /\ ~Ahead(id) => \E i \in 1..list.len : Stored(i).id = id

Consistent ==
  /\ Requested(reqs) /\ Asked /\ Heaped /\ AllApart /\ Agree
  /\ \A s \in Handling : InHand(s)

-----------------------------------------------------------------------------
\* Of the free slots one is the least.
LEMMA FirstFreeIsFree ==
  ASSUME Free # {}
  PROVE  FirstFree \in Free
<1> DEFINE less == OpToRel(LAMBDA m, n : m < n, Nat)
<1>1. Cardinality(Slots) \in Nat
  BY ServerAssumption, FS_CardinalityType
<1>2. Free \subseteq Nat
  <2>1. 1..Cardinality(Slots) \subseteq Nat
    BY <1>1
  <2>2. QED
    BY <2>1, ServerAssumption DEF Free
<1>3. IsWellFoundedOn(less, Nat)
  BY NatLessThanWellFounded DEF less
<1>4. PICK r \in Free : \A s \in Free : <<s, r>> \notin less
  BY <1>2, <1>3, WFMin
<1>5. \A m, n \in Nat : m < n => <<m, n>> \in less
  BY DEF OpToRel
<1>6. \A s \in Free : r <= s
  <2> HIDE DEF less
  <2>1. ASSUME NEW s \in Free PROVE r <= s
    <3>1. s \in Nat /\ r \in Nat /\ <<s, r>> \notin less
      BY <1>2, <1>4
    <3>2. ~(s < r)
      BY <1>5, <3>1, Zenon
    <3>3. QED
      BY <3>1, <3>2
  <2>2. QED
    BY <2>1
<1>7. QED
  BY <1>6 DEF FirstFree

\* The rows of the list, as the handlers read it and as the invariant does.
LEMMA SitesAre ==
  ASSUME Heaped
  PROVE  DOMAIN Sites = 1..list.len /\ \A i \in 1..list.len : Sites[i] = Stored(i)
BY DEF Heaped, SiteList, Sites, Rows, Stored

\* A site that is looked for is the one that is found.
LEMMA FoundSite ==
  ASSUME Heaped, NEW id, NEW i, i = IndexOf(id, Sites), i # 0
  PROVE  i \in 1..list.len /\ Stored(i).id = id
<1>1. DOMAIN Sites = 1..list.len /\ \A j \in 1..list.len : Sites[j] = Stored(j)
  BY SitesAre
<1>2. QED
  BY <1>1 DEF IndexOf

\* A step no handler takes part in.
LEMMA Undisturbed ==
  ASSUME Consistent, UNCHANGED <<arrays, list, running>>,
         Handling' = Handling, \A s \in Handling : reqs'[s] = reqs[s],
         Requested(reqs'), Asked'
  PROVE  Consistent'
<1>1. Heaped'
  BY DEF Consistent, Heaped, SiteList
<1>2. AllApart'
  BY DEF Consistent, AllApart, Apart
<1>3. \A id : Ahead(id)' <=> Ahead(id)
  BY DEF Ahead
<1>4. \A i : Stored(i)' = Stored(i)
  BY DEF Stored
<1>5. Agree'
  BY <1>3, <1>4 DEF Consistent, Agree
<1>6. ASSUME NEW s \in Handling' PROVE InHand(s)'
  <2>1. s \in Handling /\ InHand(s) /\ reqs'[s] = reqs[s]
    BY <1>6 DEF Consistent
  <2>2. QED
    BY <1>4, <2>1 DEF InHand, Unlisted
<1>7. QED
  BY <1>1, <1>2, <1>5, <1>6 DEF Consistent

\* A request arrives in a free slot.
LEMMA Arrives ==
  ASSUME Consistent, Free # {}, UNCHANGED <<arrays, list, running>>,
         NEW op \in {"POST", "PUT", "DELETE"}, NEW row \in Row, NEW by, NEW why,
         op = "DELETE" => row.status = "stopped",
         op = "POST" => row.status = "active",
         reqs' = [reqs EXCEPT ![FirstFree] = Request(op, row, by, why)]
  PROVE  Consistent'
<1>1. FirstFree \in Slots /\ reqs[FirstFree] = None
  BY FirstFreeIsFree DEF Free
<1>2. PICK k, r : k \in Slots /\ k = FirstFree /\ r = Request(op, row, by, why) /\ reqs[k] = None
  BY <1>1, Zenon
<1>3. /\ IsRequest(r) /\ r.op = op /\ r.row = row /\ r.pc = "sent"
      /\ reqs' = [t \in Slots |-> IF t = k THEN r ELSE reqs[t]]
  <2>1. IsRequest(r) /\ r.op = op /\ r.row = row /\ r.pc = "sent"
    BY <1>2 DEF IsRequest, Request
  <2>2. reqs' = [reqs EXCEPT ![k] = r]
    BY <1>2, Zenon
  <2>3. QED
    BY <2>1, <2>2 DEF Consistent, Requested
<1>4. Requested(reqs') /\ Asked'
  BY <1>3 DEF Consistent, Requested, Asked
<1>5. Handling' = Handling /\ \A s \in Handling : reqs'[s] = reqs[s]
  BY <1>2, <1>3 DEF Handling, Steps
<1>6. QED
  BY <1>4, <1>5, Undisturbed

\* A request that was answered is over.
LEMMA Ends ==
  ASSUME Consistent, NEW s \in Slots, Replied(s), UNCHANGED <<arrays, list, running>>,
         reqs' = [reqs EXCEPT ![s] = None]
  PROVE  Consistent'
<1>1. reqs' = [t \in Slots |-> IF t = s THEN None ELSE reqs[t]]
  BY DEF Consistent, Requested
<1>2. Requested(reqs') /\ Asked'
  BY <1>1 DEF Consistent, Requested, Asked
<1>3. Handling' = Handling /\ \A t \in Handling : reqs'[t] = reqs[t]
  BY <1>1 DEF Handling, Steps, Replied
<1>4. QED
  BY <1>2, <1>3, Undisturbed

-----------------------------------------------------------------------------
(* The handlers at work. *)

\* A step of one request leaves the others' sites as they are.
LEMMA Elsewhere ==
  ASSUME ~IsRequest(None), NEW s \in Slots, reqs[s] # None, NEW row, NEW pc, NEW at, NEW idx,
         Moved(reqs, reqs', s, row, pc, at, idx), row.id = reqs[s].row.id
  PROVE  /\ \A id : id # row.id => (Ahead(id)' <=> Ahead(id))
         /\ \A t : t # s => (t \in Handling' <=> t \in Handling)
         /\ pc \in Steps => s \in Handling'
         /\ pc \in Steps /\ pc # "stop" => Ahead(row.id)'
         /\ pc \notin Steps => s \notin Handling'
<1>1. /\ reqs'[s] # None /\ reqs'[s].row = row /\ reqs'[s].pc = pc
      /\ \A t \in Slots \ {s} : reqs'[t] = reqs[t]
  BY DEF Moved, Like
<1>2. /\ \A t : t # s => (t \in Handling' <=> t \in Handling)
      /\ pc \in Steps => s \in Handling'
      /\ pc \notin Steps => s \notin Handling'
  BY <1>1 DEF Handling
<1>3. \A t \in Handling' \cup Handling : t \in Slots
  BY DEF Handling
<1>4. QED
  BY <1>1, <1>2, <1>3 DEF Ahead

\* A step of a handler that leaves the list alone, and touches no server but its own site's.
LEMMA HandlerStep ==
  ASSUME ~IsRequest(None), Consistent, UNCHANGED <<arrays, list>>,
         NEW s \in Slots, reqs[s] # None,
         NEW row \in Row, NEW pc, NEW at, NEW idx, Moved(reqs, reqs', s, row, pc, at, idx),
         row.id = reqs[s].row.id, pc # "sent",
         reqs[s].op = "DELETE" => row.status = "stopped",
         pc \in Steps => InHand(s)' /\ \A t \in Handling \ {s} : Apart(s, t),
         \A t \in Handling \ {s} : running'[reqs[t].row.id] = running[reqs[t].row.id],
         Agree'
  PROVE  Consistent'
<1>1. /\ Requested(reqs') /\ IsRequest(reqs'[s]) 
      /\ \A t \in Slots \ {s} : reqs'[t] = reqs[t]
      /\ reqs'[s].op = reqs[s].op /\ reqs'[s].row = row /\ reqs'[s].pc = pc
  BY DEF Moved, Like
<1>2. Asked'
  BY <1>1 DEF Consistent, Asked
<1>3. Heaped'
  BY DEF Consistent, Heaped, SiteList
<1>4. /\ \A t \in Handling' \ {s} : t \in Handling /\ t \in Slots /\ reqs'[t] = reqs[t]
      /\ s \in Handling' => pc \in Steps
  BY <1>1, Elsewhere DEF Handling
<1>5. AllApart'
  <2>1. ASSUME NEW t \in Handling', t # s, s \in Handling' PROVE Apart(s, t)' /\ Apart(t, s)'
    <3>1. Apart(s, t) /\ reqs'[t] = reqs[t]
      BY <1>4, <2>1
    <3>2. QED
      BY <1>1, <3>1 DEF Apart
  <2>2. ASSUME NEW t \in Handling', NEW u \in Handling', t # s, u # s, t # u PROVE Apart(t, u)'
    <3>1. Apart(t, u) /\ reqs'[t] = reqs[t] /\ reqs'[u] = reqs[u]
      BY <1>4, <2>2 DEF Consistent, AllApart
    <3>2. QED
      BY <3>1 DEF Apart
  <2>3. QED
    BY <2>1, <2>2 DEF AllApart
<1>6. \A i : Stored(i)' = Stored(i)
  BY DEF Stored
<1>7. ASSUME NEW t \in Handling' PROVE InHand(t)'
  <2>1. CASE t = s
    BY <1>4, <1>7, <2>1
  <2>2. CASE t # s
    <3>1. InHand(t) /\ reqs'[t] = reqs[t] /\ running'[reqs[t].row.id] = running[reqs[t].row.id]
      BY <1>4, <1>7, <2>2 DEF Consistent
    <3>2. QED
      BY <1>6, <3>1 DEF InHand, Unlisted
  <2>3. QED
    BY <2>1, <2>2
<1>8. QED
  BY <1>1, <1>2, <1>3, <1>5, <1>7 DEF Consistent

\* With the list and the other sites' servers as they were, the servers agree with the list
\* as long as the site of the step is being worked at.
LEMMA StillAgree ==
  ASSUME Consistent, UNCHANGED <<arrays, list>>,
         NEW id \in Ids, NEW port, running' = [running EXCEPT ![id] = port],
         \A i \in Ids \ {id} : Ahead(i)' <=> Ahead(i),
         Ahead(id)'
  PROVE  Agree'
<1>1. \A i : Stored(i)' = Stored(i)
  BY DEF Stored
<1>2. running' = [i \in Ids |-> IF i = id THEN port ELSE running[i]]
  BY DEF Consistent, Agree
<1>3. \A i \in 1..list.len : Stored(i).id \in Ids
  BY DEF Consistent, Heaped, SiteList, Stored, Row
<1>4. \A i \in Ids \ {id} : running'[i] = running[i] /\ (Ahead(i)' <=> Ahead(i))
  BY <1>2
<1>5. QED
  BY <1>1, <1>2, <1>3, <1>4 DEF Consistent, Agree

\* What is known of a request that is handled.
LEMMA Working ==
  ASSUME Consistent, NEW s \in Handling
  PROVE  /\ s \in Slots /\ reqs[s] # None /\ IsRequest(reqs[s])
         /\ InHand(s)
         /\ reqs[s].op \in {"POST", "PUT", "DELETE"} /\ reqs[s].row \in Row
         /\ reqs[s].row.id \in Ids
         /\ reqs[s].op = "DELETE" => reqs[s].row.status = "stopped"
         /\ \A t \in Handling \ {s} : /\ Apart(s, t)
                                      /\ reqs[t].row.id # reqs[s].row.id
                                      /\ reqs[t].row.id \in Ids
         /\ reqs[s].pc # "stop" => Ahead(reqs[s].row.id)
BY DEF Consistent, Asked, Handling, Requested, AllApart, Apart, Ahead, Row

\* A site that is not found has no row: every id is listed once.
LEMMA NotFound ==
  ASSUME Heaped, NEW id, IndexOf(id, Sites) = 0
  PROVE  Unlisted(id)
<1>1. DOMAIN Sites = 1..list.len /\ \A j \in 1..list.len : Sites[j] = Stored(j)
  BY SitesAre
<1>2. ASSUME NEW i \in 1..list.len, Stored(i).id = id PROVE FALSE
  <2>1. \A j \in 1..list.len : Stored(j).id = id => j = i
    BY <1>2 DEF Heaped, SiteList, Stored
  <2>2. list.len \in Nat
    BY DEF Heaped, SiteList
  <2>3. Sites[i].id = id /\ \A j \in 1..i - 1 : Sites[j].id # id
    BY <1>1, <1>2, <2>1, <2>2
  <2>4. IndexOf(id, Sites) \in 1..list.len
    BY <1>1, <1>2, <2>3 DEF IndexOf
  <2>5. QED
    BY <2>2, <2>4
<1>3. QED
  BY <1>2 DEF Unlisted

\* A handler begins: the servers are those of the list it loads, but for sites that others
\* are working at, and its own is none of these.
LEMMA BeginKeeps ==
  ASSUME ~IsRequest(None), Consistent, NEW s \in Slots, Begin(s), ~Clashes(s)
  PROVE  Consistent'
<1>2. /\ reqs[s] # None /\ IsRequest(reqs[s]) /\ reqs[s].pc = "sent" /\ UNCHANGED <<arrays, list, running>>
      /\ reqs[s].row \in Row /\ reqs[s].row.id \in Ids
      /\ reqs[s].op = "DELETE" => reqs[s].row.status = "stopped"
      /\ reqs[s].op = "POST" => reqs[s].row.status = "active"
      /\ s \notin Handling
  BY DEF Begin, Consistent, Requested, Asked, Row, Handling, Steps
<1>1. s \in Handling' => /\ \A t \in Handling : Apart(s, t) /\ reqs[t].row.id # reqs[s].row.id
                         /\ ~Ahead(reqs[s].row.id)
                         /\ reqs[s].op = "POST" => Handling = {} /\ Unlisted(reqs[s].row.id)
  <2>1. ASSUME s \in Handling' PROVE \A t \in Handling : Apart(s, t)
    BY <1>2, <2>1 DEF Clashes
  <2>2. ASSUME s \in Handling', reqs[s].op = "POST" PROVE Unlisted(reqs[s].row.id)
    <3>1. IndexOf(reqs[s].row.id, Sites) = 0
      BY <1>2, <2>2 DEF Clashes
    <3>2. QED
      BY <3>1, NotFound DEF Consistent
  <2>3. QED
    BY <2>1, <2>2 DEF Apart, Ahead
<1>3. \A i : Stored(i)' = Stored(i)
  BY <1>2 DEF Stored
<1>4. ASSUME NEW row, NEW pc, NEW at, NEW idx, Moved(reqs, reqs', s, row, pc, at, idx), row = reqs[s].row
      PROVE  Agree' /\ (pc \in Steps <=> s \in Handling')
  <2>1. /\ \A id : id # row.id => (Ahead(id)' <=> Ahead(id))
        /\ pc \in Steps <=> s \in Handling'
    BY <1>2, <1>4, Elsewhere
  <2>2. Ahead(row.id) => Ahead(row.id)'
    <3>1. \A t \in Handling : t \in Slots \ {s} /\ t \in Handling' /\ reqs'[t] = reqs[t]
      BY <1>2, <1>4 DEF Handling, Moved
    <3>2. QED
      BY <3>1 DEF Ahead
  <2>3. QED
    BY <1>2, <1>3, <2>1, <2>2 DEF Consistent, Agree
<1>5. CASE BeginCreate(s)
  <2>1. PICK p : /\ reqs' = [reqs EXCEPT ![s].at = list, ![s].pc = p]
                 /\ p \in {"failed", "start"}
    BY <1>5, Zenon DEF BeginCreate
  <2>2. Moved(reqs, reqs', s, reqs[s].row, p, list, reqs[s].idx)
    BY <1>2, <2>1, ToAtPc DEF Consistent
  <2>3. reqs[s].op = "POST"
    BY <1>5 DEF BeginCreate
  <2>4. Agree' /\ (p \in Steps <=> s \in Handling')
    BY <1>4, <2>2
  <2>5. p \in Steps => Unlisted(reqs[s].row.id) /\ running[reqs[s].row.id] = 0
    BY <1>1, <1>2, <2>3, <2>4 DEF Consistent, Agree, Unlisted
  <2>6. p \in Steps => InHand(s)'
    BY <1>2, <1>3, <2>1, <2>2, <2>3, <2>5 DEF InHand, Unlisted, Moved, Like, Steps
  <2>7. QED
    BY <1>1, <1>2, <2>1, <2>2, <2>4, <2>6, HandlerStep
<1>6. CASE BeginChange(s)
  <2>1. PICK p, i : /\ reqs' = [reqs EXCEPT ![s].at = list, ![s].idx = i, ![s].pc = p]
                    /\ reqs[s].op \in {"PUT", "DELETE"}
                    /\ i = IndexOf(reqs[s].row.id, Sites)
                    /\ p = IF i = 0 THEN "failed"
                           ELSE IF \/ reqs[s].op = "DELETE"
                                   \/ reqs[s].row.port # Sites[i].port
                                   \/ reqs[s].row.status # Sites[i].status
                           THEN "stop" ELSE "store"
    BY <1>6, ZenonT(30) DEF BeginChange
  <2>2. Moved(reqs, reqs', s, reqs[s].row, p, list, i)
    <3>1. Requested(reqs) /\ reqs' = [reqs EXCEPT ![s].at = list, ![s].idx = i, ![s].pc = p]
      BY <2>1 DEF Consistent
    <3>2. QED
      BY <1>2, <3>1, ToAtIdxPc
  <2>3. Agree' /\ (p \in Steps <=> s \in Handling')
    BY <1>4, <2>2
  <2>4. ASSUME p \in Steps PROVE InHand(s)'
    <3>1. i # 0
      BY <2>1, <2>4 DEF Steps
    <3>2. i \in 1..list.len /\ Stored(i).id = reqs[s].row.id /\ Sites[i] = Stored(i) /\ Stored(i) \in Row
      <4>1. i \in 1..list.len /\ Stored(i).id = reqs[s].row.id
        BY <2>1, <3>1, FoundSite DEF Consistent
      <4>2. Sites[i] = Stored(i)
        BY <4>1, SitesAre DEF Consistent
      <4>3. Stored(i) \in Row
        BY <4>1 DEF Consistent, Heaped, SiteList, Stored
      <4>4. QED
        BY <4>1, <4>2, <4>3
    <3>3. ASSUME p = "store" PROVE running[reqs[s].row.id] = Served(reqs[s].row)
      <4>1. reqs[s].row.port = Stored(i).port /\ reqs[s].row.status = Stored(i).status
        BY <2>1, <3>1, <3>2, <3>3
      <4>2. running[Stored(i).id] = Served(Stored(i))
        BY <1>1, <2>3, <2>4, <3>2 DEF Consistent, Agree
      <4>3. QED
        BY <3>2, <4>1, <4>2 DEF Served
    <3>4. p \in {"stop", "store"} 
      BY <2>1, <3>1
    <3>5. /\ reqs'[s].op \in {"PUT", "DELETE"} /\ reqs'[s].row = reqs[s].row
          /\ reqs'[s].pc = p /\ reqs'[s].at = list /\ reqs'[s].idx = i
      BY <2>1, <2>2 DEF Moved, Like
    <3>6. QED
      BY <1>2, <1>3, <3>2, <3>3, <3>4, <3>5 DEF InHand
  <2>5. p # "sent"
    BY <2>1
  <2>6. QED
    BY <1>1, <1>2, <2>2, <2>3, <2>4, <2>5, HandlerStep
<1>7. QED
  BY <1>5, <1>6 DEF Begin

\* StopSite: the server of the site is gone, the list is yet to say so.
LEMMA StopKeeps ==
  ASSUME ~IsRequest(None), Consistent, NEW s \in Slots, Stop(s)
  PROVE  Consistent'
<1>1. s \in Handling /\ reqs[s].pc = "stop"
  BY DEF Stop, Handling, Steps
<1>0. PICK row : row = reqs[s].row
  OBVIOUS
<1>2. PICK p : /\ p = IF reqs[s].op = "PUT" /\ row.status = "active" THEN "start" ELSE "store"
               /\ reqs' = [reqs EXCEPT ![s].pc = p]
  BY <1>0, Zenon DEF Stop, Goto
<1>3. Moved(reqs, reqs', s, row, p, reqs[s].at, reqs[s].idx)
  BY <1>0, <1>1, <1>2, Working, ToPc DEF Consistent
<1>4. running' = [running EXCEPT ![row.id] = 0] /\ UNCHANGED <<arrays, list>> /\ row.id \in Ids
  BY <1>0, <1>1, Working DEF Stop
<1>5. p \in Steps /\ p # "stop" /\ p # "sent"
  BY <1>2 DEF Steps
<1>6. Agree'
  <2>1. Ahead(row.id)' /\ \A i \in Ids \ {row.id} : Ahead(i)' <=> Ahead(i)
    BY <1>0, <1>1, <1>3, <1>5, Working, Elsewhere
  <2>2. QED
    BY <1>4, <2>1, StillAgree
<1>7. running'[row.id] = 0 /\ \A id \in Ids \ {row.id} : running'[id] = running[id]
  BY <1>4 DEF Consistent, Agree
<1>8. \A i : Stored(i)' = Stored(i)
  BY <1>4 DEF Stored
<1>9. InHand(s)'
  <2>1. InHand(s) /\ row.status \in Status /\ (reqs[s].op = "DELETE" => row.status = "stopped")
    BY <1>0, <1>1, Working DEF Row
  <2>2. /\ reqs'[s].op = reqs[s].op /\ reqs'[s].row = row /\ reqs'[s].pc = p
        /\ reqs'[s].at = reqs[s].at /\ reqs'[s].idx = reqs[s].idx
    BY <1>3 DEF Moved, Like
  <2>3. reqs[s].op # "POST"
    BY <1>1, <2>1 DEF InHand
  <2>4. p = "store" => Served(row) = 0
    BY <1>0, <1>1, <1>2, <2>1, <2>3, Working DEF Served
  <2>5. p \in {"start", "store"} /\ (p = "start" => row.status = "active" /\ reqs[s].op = "PUT")
    BY <1>2
  <2>6. reqs[s].at = list /\ reqs[s].idx \in 1..list.len /\ Stored(reqs[s].idx).id = row.id
    BY <1>0, <2>1, <2>3 DEF InHand
  <2>7. running'[row.id] = 0 /\ list' = list /\ arrays' = arrays
    BY <1>4, <1>7
  <2>8. /\ reqs'[s].at = list' /\ reqs'[s].idx \in 1..list'.len
        /\ arrays'[list'.array][reqs'[s].idx].id = reqs'[s].row.id
        /\ reqs'[s].op # "POST"
    BY <2>2, <2>3, <2>6, <2>7 DEF Stored
  <2>9. QED
    BY <2>2, <2>4, <2>5, <2>7, <2>8 DEF InHand, Stored
<1>10. QED
  BY <1>0, <1>1, <1>3, <1>4, <1>5, <1>6, <1>7, <1>9, Working, HandlerStep

\* StartSite: a create that fails leaves no server and no site, an update goes on.
LEMMA StartKeeps ==
  ASSUME ~IsRequest(None), Consistent, NEW s \in Slots, Start(s)
  PROVE  Consistent'
<1>1. s \in Handling /\ reqs[s].pc = "start"
  BY DEF Start, Handling, Steps
<1>0. PICK row : row = reqs[s].row
  OBVIOUS
<1>2. /\ row \in Row /\ row.id \in Ids /\ row.status = "active" /\ running[row.id] = 0
      /\ reqs[s].op \in {"POST", "PUT"}
      /\ InHand(s) /\ IsRequest(reqs[s]) /\ UNCHANGED <<arrays, list>>
      /\ reqs[s] # None
      /\ \A t \in Handling \ {s} : Apart(s, t) /\ reqs[t].row.id \in Ids \ {row.id}
  BY <1>0, <1>1, Working DEF InHand, Start
<1>3. \A i : Stored(i)' = Stored(i)
  BY <1>2 DEF Stored
<1>4. CASE StartOk(s)
  <2>1. Moved(reqs, reqs', s, row, "store", reqs[s].at, reqs[s].idx)
    BY <1>0, <1>2, <1>4, ToPc DEF Consistent, StartOk, Goto
  <2>2. running' = [running EXCEPT ![row.id] = row.port]
    BY <1>0, <1>4 DEF StartOk
  <2>3. Agree'
    <3>1. "store" \in Steps
      BY DEF Steps
    <3>2. Ahead(row.id)' /\ \A i \in Ids \ {row.id} : Ahead(i)' <=> Ahead(i)
      BY <1>0, <1>2, <2>1, <3>1, Elsewhere
    <3>3. QED
      BY <1>2, <2>2, <3>2, StillAgree
  <2>4. running'[row.id] = Served(row) /\ \A id \in Ids \ {row.id} : running'[id] = running[id]
    BY <1>2, <2>2 DEF Consistent, Agree, Served
  <2>5. InHand(s)'
    BY <1>0, <1>1, <1>2, <1>3, <2>1, <2>4 DEF InHand, Unlisted, Moved, Like
  <2>6. QED
    BY <1>0, <1>2, <2>1, <2>3, <2>4, <2>5, HandlerStep
<1>5. CASE StartFails(s)
  <2>1. PICK p, r : /\ p = IF reqs[s].op = "POST" THEN "failed" ELSE "store failed"
                    /\ r = [row EXCEPT !.status = "error"]
                    /\ Moved(reqs, reqs', s, r, p, reqs[s].at, reqs[s].idx)
    <3>1. PICK p : /\ p = IF reqs[s].op = "POST" THEN "failed" ELSE "store failed"
                   /\ reqs' = [reqs EXCEPT ![s].pc = p, ![s].row.status = "error"]
      BY <1>5, Zenon DEF StartFails
    <3>2. Moved(reqs, reqs', s, [row EXCEPT !.status = "error"], p, reqs[s].at, reqs[s].idx)
      BY <1>0, <1>2, <3>1, ToPcStatus DEF Consistent
    <3>3. QED
      BY <3>1, <3>2, Zenon
  <2>2. r \in Row /\ r.id = row.id /\ r.status = "error" /\ UNCHANGED running
    BY <1>0, <1>2, <1>5, <2>1 DEF Row, Status, StartFails
  <2>3. \A id : id # row.id => (Ahead(id)' <=> Ahead(id))
    BY <1>0, <1>2, <2>1, <2>2, Elsewhere
  <2>4. CASE reqs[s].op = "POST"
    <3>1. Unlisted(row.id)
      BY <1>0, <1>2, <2>4 DEF InHand
    <3>2. Agree'
      BY <1>2, <1>3, <2>2, <2>3, <3>1 DEF Consistent, Agree, Unlisted
    <3>3. p = "failed" /\ p \notin Steps
      BY <2>1, <2>4 DEF Steps
    <3>4. QED
      BY <1>0, <1>2, <2>1, <2>2, <2>4, <3>2, <3>3, HandlerStep
  <2>5. CASE reqs[s].op = "PUT"
    <3>1. p = "store failed" /\ p \in Steps /\ p # "stop"
      BY <2>1, <2>5 DEF Steps
    <3>2. Ahead(row.id)'
      BY <1>0, <1>2, <2>1, <2>2, <3>1, Elsewhere
    <3>3. Agree'
      BY <1>2, <1>3, <2>2, <2>3, <3>2 DEF Consistent, Agree
    <3>4. InHand(s)'
      <4>1. /\ reqs'[s].op = "PUT" /\ reqs'[s].row = r /\ reqs'[s].pc = "store failed"
            /\ reqs'[s].at = reqs[s].at /\ reqs'[s].idx = reqs[s].idx
        BY <2>1, <2>5, <3>1 DEF Moved, Like
      <4>2. reqs[s].at = list /\ reqs[s].idx \in 1..list.len /\ Stored(reqs[s].idx).id = row.id
        BY <1>0, <1>2, <2>5 DEF InHand
      <4>3. running'[r.id] = 0 /\ r.status = "error" /\ list' = list /\ r.id = row.id
        BY <1>2, <2>2
      <4>4. arrays' = arrays
        BY <1>2
      <4>5. QED
        BY <4>1, <4>2, <4>3, <4>4 DEF InHand, Stored
    <3>5. QED
      BY <1>0, <1>2, <2>1, <2>2, <2>5, <3>1, <3>3, <3>4, HandlerStep
  <2>6. QED
    BY <1>2, <2>4, <2>5
<1>6. QED
  BY <1>4, <1>5 DEF Start

\* A changed list: what is stored as header and heap.
Listed(heap, head) ==
  /\ heap = [a \in Arrays |-> heap[a]]
  /\ head = [array |-> head.array, len |-> head.len]
  /\ head.array \in Arrays
  /\ SiteList(head, heap[head.array])

\* What Collect clears, the list does not name.
LEMMA Collects ==
  ASSUME NEW heap, NEW head, Listed(heap, head), NEW rs, NEW c, c = Collect(heap, head, rs)
  PROVE  Listed(c, head) /\ \A i \in 1..head.len : c[head.array][i] = heap[head.array][i]
<1> DEFINE heads == {head} \cup {rs[s].at : s \in {t \in Slots : rs[t] # None}}
           live(a, i) == \E h \in heads : h.array = a /\ i <= h.len
           used(a) == \E h \in heads : h.array = a /\ h.len > 0
           cells == heap[head.array]
<1>1. c = [a \in Arrays |-> IF used(a) THEN [i \in DOMAIN heap[a] |-> IF live(a, i) THEN heap[a][i] ELSE None]
                            ELSE IF head.array = a THEN [i \in DOMAIN heap[a] |-> None] ELSE <<>>]
  BY Zenon DEF Collect
<1>2. \A i \in 1..head.len : live(head.array, i)
  BY DEF Listed, SiteList
<1>3. head.len > 0 => used(head.array)
  BY DEF Listed, SiteList
<1> HIDE DEF live, used, heads
<1>4. PICK new : new = c[head.array]
  OBVIOUS
<1>5. /\ new = IF used(head.array) THEN [i \in DOMAIN cells |-> IF live(head.array, i) THEN cells[i] ELSE None]
               ELSE [i \in DOMAIN cells |-> None]
      /\ c = [a \in Arrays |-> c[a]]
  BY <1>1, <1>4 DEF Listed
<1>6. cells \in Seq(Row \cup {None}) /\ head.len \in Nat /\ head.len <= Len(cells)
  BY DEF Listed, SiteList
<1> HIDE DEF cells
<1>7. new \in Seq(Row \cup {None}) /\ Len(new) = Len(cells)
  BY <1>5, <1>6
<1>8. \A i \in 1..head.len : new[i] = cells[i]
  BY <1>2, <1>3, <1>5, <1>6
<1>9. SiteList(head, new)
  BY <1>6, <1>7, <1>8 DEF Listed, SiteList, cells
<1>10. QED
  BY <1>4, <1>5, <1>8, <1>9 DEF Listed, cells

\* newSites[idx] = site.
LEMMA Overwrites ==
  ASSUME Heaped, NEW row \in Row, NEW i \in 1..list.len, Stored(i).id = row.id,
         NEW new, new = Overwritten(list, i, row)
  PROVE  /\ Listed(new.heap, new.head) /\ new.head = list
         /\ \A j \in 1..list.len : new.heap[list.array][j] = IF j = i THEN row ELSE Stored(j)
<1>1. PICK cells : cells = arrays[list.array]
  OBVIOUS
<1>2. SiteList(list, cells)
  BY <1>1 DEF Heaped
<1>3. new.head = list /\ new.heap = [a \in Arrays |-> IF a = list.array THEN [cells EXCEPT ![i] = row] ELSE arrays[a]]
  BY <1>1 DEF Overwritten, Heaped
<1>4. SiteList(list, [cells EXCEPT ![i] = row])
  BY <1>1, <1>2 DEF SiteList, Stored
<1>5. \A j \in 1..list.len : [cells EXCEPT ![i] = row][j] = IF j = i THEN row ELSE Stored(j)
  BY <1>1, <1>2 DEF SiteList, Stored
<1>6. QED
  BY <1>3, <1>4, <1>5 DEF Heaped, Listed

\* The rows behind the one that is gone have moved up.
LEMMA Removes ==
  ASSUME Heaped, NEW i \in 1..list.len, NEW new, new = Removed(list, i)
  PROVE  /\ Listed(new.heap, new.head) /\ new.head.array = list.array /\ new.head.len = list.len - 1
         /\ \A j \in 1..list.len - 1 : new.heap[list.array][j] = Stored(IF j < i THEN j ELSE j + 1)
<1>1. PICK cells : cells = arrays[list.array]
  OBVIOUS
<1>2. PICK moved : moved = [j \in DOMAIN cells |-> IF j \in i..list.len - 1 THEN cells[j + 1] ELSE cells[j]]
  OBVIOUS
<1>3. SiteList(list, cells) /\ list.len \in Nat
  BY <1>1 DEF Heaped, SiteList
<1>4. /\ new.heap = [a \in Arrays |-> IF a = list.array THEN moved ELSE arrays[a]]
      /\ new.head = [array |-> list.array, len |-> list.len - 1]
  BY <1>1, <1>2 DEF Removed, Heaped
<1>5. \A j \in 1..list.len - 1 : moved[j] = cells[IF j < i THEN j ELSE j + 1]
  BY <1>2, <1>3 DEF SiteList
<1>6. moved \in Seq(Row \cup {None}) /\ Len(moved) = Len(cells)
  <2>1. cells \in Seq(Row \cup {None}) /\ list.len \in Nat /\ list.len <= Len(cells)
    BY <1>3 DEF SiteList
  <2>2. \A j \in 1..Len(cells) : moved[j] \in Row \cup {None}
    BY <1>2, <2>1
  <2>3. moved = [j \in 1..Len(cells) |-> moved[j]] /\ Len(cells) \in Nat
    BY <1>2, <2>1
  <2>4. QED
    BY <2>2, <2>3
<1>7. SiteList(new.head, moved)
  <2>1. new.head.len = list.len - 1 /\ list.len \in Nat /\ list.len >= 1
    BY <1>3, <1>4
  <2>2. list.len <= Len(cells) /\ Len(cells) \in Nat
    BY <1>3 DEF SiteList
  <2>3. \A j \in 1..list.len - 1 : (IF j < i THEN j ELSE j + 1) \in 1..list.len
    BY <1>3
  <2>4. \A j \in 1..list.len : cells[j] \in Row
    BY <1>3 DEF SiteList
  <2>5. \A j \in 1..list.len - 1 : moved[j] \in Row
    BY <1>5, <2>3, <2>4
  <2>6. ASSUME NEW j \in 1..list.len - 1, NEW k \in 1..list.len - 1, moved[j].id = moved[k].id PROVE j = k
    <3>1. PICK m \in 1..list.len, n \in 1..list.len :
            m = (IF j < i THEN j ELSE j + 1) /\ n = (IF k < i THEN k ELSE k + 1)
      BY <2>3
    <3>2. cells[m].id = cells[n].id
      BY <1>5, <2>6, <3>1
    <3>3. m = n
      BY <1>3, <3>2 DEF SiteList
    <3>4. QED
      BY <2>1, <3>1, <3>3
  <2>7. QED
    BY <1>6, <2>1, <2>2, <2>5, <2>6 DEF SiteList
<1>8. QED
  BY <1>1, <1>4, <1>5, <1>7 DEF Heaped, Listed, Stored

\* append(*sites, site), in the array that was loaded or in a larger one.
LEMMA Appends ==
  ASSUME Heaped, NEW row \in Row, \A i \in 1..list.len : Stored(i).id # row.id,
         Slots # {}, \A s \in Handling : reqs[s].at = list,
         NEW new, new = Appended(list, row)
  PROVE  /\ Listed(new.heap, new.head) /\ new.head.len = list.len + 1
         /\ \A i \in 1..list.len : new.heap[new.head.array][i] = Stored(i)
         /\ new.heap[new.head.array][list.len + 1] = row
<1>1. PICK cells : cells = arrays[list.array]
  OBVIOUS
<1>2. SiteList(list, cells) /\ cells \in Seq(Row \cup {None}) /\ list.len \in Nat /\ list.len <= Len(cells)
  BY <1>1 DEF Heaped, SiteList
<1> DEFINE Extends(a, longer) ==
             /\ a \in Arrays
             /\ new.head = [array |-> a, len |-> list.len + 1]
             /\ new.heap = [b \in Arrays |-> IF b = a THEN longer ELSE arrays[b]]
             /\ longer \in Seq(Row \cup {None})
             /\ list.len + 1 <= Len(longer)
             /\ \A i \in 1..list.len : longer[i] = cells[i]
             /\ longer[list.len + 1] = row
<1>3. PICK a, longer : Extends(a, longer)
  <2>1. CASE list.len < Len(cells)
    <3>1. PICK longer : longer = [cells EXCEPT ![list.len + 1] = row]
      OBVIOUS
    <3>2. /\ longer \in Seq(Row \cup {None})
          /\ list.len + 1 <= Len(longer)
          /\ \A i \in 1..list.len : longer[i] = cells[i]
          /\ longer[list.len + 1] = row
      BY <1>2, <2>1, <3>1
    <3>3. /\ new.head = [array |-> list.array, len |-> list.len + 1]
          /\ new.heap = [b \in Arrays |-> IF b = list.array THEN longer ELSE arrays[b]]
      BY <1>1, <2>1, <3>1 DEF Appended, Heaped
    <3>4. list.array \in Arrays
      BY DEF Heaped
    <3>5. Extends(list.array, longer)
      BY <3>2, <3>3, <3>4
    <3>6. QED
      <4> HIDE DEF Extends
      <4>1. QED
        BY <3>5
  <2>2. CASE ~(list.len < Len(cells))
    <3> DEFINE other(a) == a # list.array /\ a # list.array /\ \A s \in Handling : a # reqs[s].at.array
               fresh == CHOOSE a \in Arrays : other(a)
               n == IF Len(cells) = 0 THEN 1 ELSE 2 * Len(cells)
    <3>1. fresh \in Arrays /\ fresh # list.array
      <4>1. Cardinality(Slots) \in Nat /\ Cardinality(Slots) >= 1
        <5>1. Cardinality(Slots) \in Nat
          BY ServerAssumption, FS_CardinalityType
        <5>2. Cardinality(Slots) # 0
          BY ServerAssumption, FS_EmptySet
        <5>3. QED
          BY <5>1, <5>2
      <4>2. 1 \in Arrays /\ 2 \in Arrays
        BY <4>1 DEF Arrays
      <4>3. \E a \in Arrays : other(a)
        BY <4>2
      <4>4. QED
        BY <4>3
    <3>2. PICK f : f = fresh
      OBVIOUS
    <3>3. PICK longer : longer = [i \in 1..n |-> IF i <= Len(cells) THEN cells[i]
                                                 ELSE IF i = Len(cells) + 1 THEN row ELSE None]
      OBVIOUS
    <3>4. /\ new.head = [array |-> f, len |-> list.len + 1]
          /\ new.heap = [arrays EXCEPT ![f] = longer]
      BY <1>1, <2>2, <3>2, <3>3, Zenon DEF Appended
    <3>5. Len(cells) = list.len /\ n \in Nat /\ n >= list.len + 1
      BY <1>2, <2>2
    <3>6. /\ longer \in Seq(Row \cup {None})
          /\ list.len + 1 <= Len(longer)
          /\ \A i \in 1..list.len : longer[i] = cells[i]
          /\ longer[list.len + 1] = row
      <4> HIDE DEF n
      <4>1. QED
        BY <1>2, <3>3, <3>5
    <3>7. new.heap = [b \in Arrays |-> IF b = f THEN longer ELSE arrays[b]]
      BY <3>4 DEF Heaped
    <3>8. f \in Arrays
      BY <3>1, <3>2
    <3>9. Extends(f, longer)
      BY <3>4, <3>6, <3>7, <3>8
    <3>10. QED
      <4> HIDE DEF Extends
      <4>1. QED
        BY <3>9
  <2>3. QED
    BY <2>1, <2>2
<1>4. \A i \in 1..list.len : longer[i] = Stored(i) /\ Stored(i).id # row.id
  BY <1>1, <1>3 DEF Stored
<1>5. SiteList(new.head, longer)
  <2>1. new.head.len = list.len + 1 /\ new.head.len \in Nat
    BY <1>2, <1>3
  <2>2. \A i \in 1..list.len : longer[i] \in Row
    BY <1>2, <1>3 DEF SiteList
  <2>3. \A i \in 1..list.len + 1 : longer[i] \in Row
    BY <1>2, <1>3, <2>2
  <2>4. \A i, j \in 1..list.len : longer[i].id = longer[j].id => i = j
    BY <1>2, <1>3 DEF SiteList
  <2>5. \A i \in 1..list.len : longer[i].id # longer[list.len + 1].id
    BY <1>3, <1>4
  <2>6. ASSUME NEW i \in 1..list.len + 1, NEW j \in 1..list.len + 1, longer[i].id = longer[j].id PROVE i = j
    <3>1. (i \in 1..list.len \/ i = list.len + 1) /\ (j \in 1..list.len \/ j = list.len + 1)
      BY <1>2
    <3>2. QED
      BY <2>4, <2>5, <2>6, <3>1
  <2>7. QED
    BY <1>3, <2>1, <2>3, <2>6 DEF SiteList
<1>6. QED
  BY <1>3, <1>4, <1>5 DEF Listed

\* What is stored has the site as the request has it, or no longer with a DELETE, and the others
\* as they were.
Replaces(s, row) ==
  /\ \A i \in 1..list'.len :
       \/ reqs[s].op # "DELETE" /\ Stored(i)' = row
       \/ \E j \in 1..list.len : Stored(i)' = Stored(j) /\ Stored(j).id # row.id
  /\ \A j \in 1..list.len : Stored(j).id # row.id => \E i \in 1..list'.len : Stored(i)' = Stored(j)
  /\ reqs[s].op # "DELETE" => \E i \in 1..list'.len : Stored(i)' = row

\* A list is stored, and the servers are those of its sites again; what the others are
\* working at is where they found it.
LEMMA Changed ==
  ASSUME ~IsRequest(None), Consistent, NEW s \in Handling, NEW row, row = reqs[s].row,
         Listed(arrays', list'), UNCHANGED running,
         NEW pc \in {"ok", "failed"}, NEW at, NEW idx, Moved(reqs, reqs', s, row, pc, at, idx),
         running[row.id] = Served(row),
         Replaces(s, row),
         \A t \in Handling \ {s} : list' = list /\ arrays'[list.array][reqs[t].idx] = Stored(reqs[t].idx)
  PROVE  Consistent'
<1>1. /\ Requested(reqs') /\ IsRequest(reqs'[s])
      /\ \A t \in Slots \ {s} : reqs'[t] = reqs[t]
      /\ reqs'[s].op = reqs[s].op /\ reqs'[s].row = row /\ reqs'[s].pc = pc
  BY DEF Moved, Like
<1>2. /\ s \in Slots /\ row \in Row /\ row.id \in Ids /\ reqs[s] # None
      /\ reqs[s].op = "DELETE" => row.status = "stopped"
      /\ \A t \in Handling \ {s} : Apart(s, t)
      /\ reqs[s].op \in {"POST", "PUT", "DELETE"}
  BY Working
<1>3. Asked'
  BY <1>1, <1>2 DEF Consistent, Asked
<1>4. Heaped'
  BY DEF Listed, Heaped
<1>5. /\ \A id : id # row.id => (Ahead(id)' <=> Ahead(id))
      /\ \A t \in Handling' : t \in Handling \ {s} /\ t \in Slots /\ reqs'[t] = reqs[t]
  <2>1. pc \notin Steps
    BY DEF Steps
  <2>2. /\ \A id : id # row.id => (Ahead(id)' <=> Ahead(id))
        /\ \A t : t # s => (t \in Handling' <=> t \in Handling)
        /\ s \notin Handling'
    BY <1>2, <2>1, Elsewhere
  <2>3. QED
    BY <1>1, <2>2 DEF Handling
<1>6. AllApart'
  <2>1. ASSUME NEW t \in Handling', NEW u \in Handling', t # u PROVE Apart(t, u)'
    <3>1. Apart(t, u) /\ reqs'[t] = reqs[t] /\ reqs'[u] = reqs[u]
      BY <1>5, <2>1 DEF Consistent, AllApart
    <3>2. QED
      BY <3>1 DEF Apart
  <2>2. QED
    BY <2>1 DEF AllApart
<1>7. ASSUME NEW t \in Handling' PROVE InHand(t)'
  <2>1. InHand(t) /\ reqs'[t] = reqs[t] /\ list' = list /\ arrays'[list.array][reqs[t].idx] = Stored(reqs[t].idx)
    BY <1>5, <1>7 DEF Consistent
  <2>2. reqs[t].op # "POST"
    BY <1>2, <1>5, <1>7 DEF Apart
  <2>3. QED
    BY <2>1, <2>2 DEF InHand, Stored
<1>8. Agree'
  <2>1. ASSUME NEW i \in 1..list'.len, NEW id, id = Stored(i)'.id, ~Ahead(id)'
        PROVE  running[id] = Served(Stored(i)')
    BY <1>5, <2>1 DEF Consistent, Agree, Replaces
  <2>2. ASSUME NEW id \in Ids, running[id] # 0, ~Ahead(id)' PROVE \E i \in 1..list'.len : Stored(i)'.id = id
    <3>1. CASE id = row.id
      BY <1>2, <2>2, <3>1 DEF Served, Replaces
    <3>2. CASE id # row.id
      BY <1>5, <2>2, <3>2 DEF Consistent, Agree, Replaces
    <3>3. QED
      BY <3>1, <3>2
  <2>3. QED
    BY <2>1, <2>2 DEF Consistent, Agree
<1>9. QED
  BY <1>1, <1>3, <1>4, <1>6, <1>7, <1>8 DEF Consistent

\* The last step of a create, an update and a delete.
LEMMA StoreKeeps ==
  ASSUME ~IsRequest(None), Consistent, NEW s \in Slots, Store(s)
  PROVE  Consistent'
<1>1. s \in Handling /\ reqs[s].pc \in {"store", "store failed"}
  BY DEF Store, Handling, Steps
<1>2. /\ InHand(s) /\ IsRequest(reqs[s])
      /\ reqs[s].op \in {"POST", "PUT", "DELETE"} /\ reqs[s].row \in Row
      /\ reqs[s].op = "DELETE" => reqs[s].row.status = "stopped"
      /\ \A t \in Handling \ {s} : /\ Apart(s, t) /\ InHand(t)
                                   /\ reqs[t].row.id # reqs[s].row.id /\ reqs[t].row.id \in Ids
  BY <1>1, Working DEF Consistent
<1>3. Heaped /\ reqs[s].at = list
  BY <1>2 DEF Consistent, InHand
<1>4. PICK row, i, p, new :
        /\ row = reqs[s].row /\ i = reqs[s].idx
        /\ p = IF reqs[s].pc = "store" THEN "ok" ELSE "failed"
        /\ new = CASE reqs[s].op = "POST"   -> Appended(list, row)
                   [] reqs[s].op = "PUT"    -> Overwritten(list, i, row)
                   [] reqs[s].op = "DELETE" -> Removed(list, i)
  OBVIOUS
<1>5. /\ list' = new.head
      /\ reqs' = [reqs EXCEPT ![s].at = Empty, ![s].idx = 0, ![s].pc = p]
      /\ arrays' = Collect(new.heap, new.head, reqs')
      /\ UNCHANGED running
  BY <1>3, <1>4, Zenon DEF Store
<1>6. Moved(reqs, reqs', s, row, p, Empty, 0) /\ p \in {"ok", "failed"}
  <2>1. Requested(reqs) /\ reqs' = [reqs EXCEPT ![s].at = Empty, ![s].idx = 0, ![s].pc = p]
    BY <1>5 DEF Consistent
  <2>2. Moved(reqs, reqs', s, reqs[s].row, p, Empty, 0)
    BY <1>2, <2>1, ToAtIdxPc
  <2>3. QED
    BY <1>4, <2>2
<1>7. running[row.id] = Served(row)
  BY <1>1, <1>2, <1>4 DEF InHand, Served
<1>8. ASSUME Listed(new.heap, new.head)
      PROVE  Listed(arrays', list') /\ \A j \in 1..list'.len : Stored(j)' = new.heap[new.head.array][j]
  BY <1>5, <1>8, Collects DEF Stored
<1>9. list.len \in Nat
  BY <1>3 DEF Heaped, SiteList
<1>stored. ASSUME Listed(arrays', list'), Replaces(s, row),
              \A t \in Handling \ {s} : list' = list /\ arrays'[list.array][reqs[t].idx] = Stored(reqs[t].idx)
       PROVE  Consistent'
  <2>1. PICK at, idx : Moved(reqs, reqs', s, row, p, at, idx)
    BY <1>6
  <2>2. row = reqs[s].row /\ UNCHANGED running /\ p \in {"ok", "failed"}
    BY <1>4, <1>5, <1>6
  <2>3. QED
    BY <1>1, <1>7, <1>stored, <2>1, <2>2, Changed
<1>10. CASE reqs[s].op = "POST"
  <2>1. Handling \ {s} = {}
    BY <1>2, <1>10 DEF Apart
  <2>2. \A j \in 1..list.len : Stored(j).id # row.id
    BY <1>2, <1>4, <1>10 DEF InHand, Unlisted
  <2>3. new = Appended(list, row)
    BY <1>4, <1>10
  <2>4. /\ Listed(new.heap, new.head) /\ new.head.len = list.len + 1
        /\ \A j \in 1..list.len : new.heap[new.head.array][j] = Stored(j)
        /\ new.heap[new.head.array][list.len + 1] = row
    <3>1. row \in Row /\ Slots # {} /\ \A t \in Handling : reqs[t].at = list
      BY <1>2, <1>3, <1>4, <2>1
    <3>2. QED
      BY <1>3, <2>2, <2>3, <3>1, Appends
  <2>5. PICK n : n = list.len + 1
    OBVIOUS
  <2>6. /\ Listed(arrays', list') /\ list'.len = n
        /\ \A j \in 1..list'.len : Stored(j)' = new.heap[new.head.array][j]
    BY <1>5, <1>8, <2>4, <2>5
  <2>7. n \in 1..n /\ \A j : j \in 1..n <=> j \in 1..list.len \/ j = n
    BY <1>9, <2>5
  <2>8. Stored(n)' = row /\ \A j \in 1..list.len : j \in 1..n /\ Stored(j)' = Stored(j)
    BY <2>4, <2>5, <2>6, <2>7
  <2>9. /\ \A j \in 1..list'.len :
             \/ Stored(j)' = row
             \/ \E k \in 1..list.len : Stored(j)' = Stored(k) /\ Stored(k).id # row.id
        /\ \A k \in 1..list.len : \E j \in 1..list'.len : Stored(j)' = Stored(k)
        /\ \E j \in 1..list'.len : Stored(j)' = row
    BY <2>2, <2>6, <2>7, <2>8
  <2>10. QED
    BY <1>stored, <1>10, <2>1, <2>6, <2>9 DEF Replaces
<1>11. ASSUME reqs[s].op \in {"PUT", "DELETE"}
       PROVE  /\ i \in 1..list.len /\ Stored(i).id = row.id
              /\ \A k \in 1..list.len : Stored(k).id = row.id => k = i
  <2>1. i \in 1..list.len /\ Stored(i).id = row.id
    BY <1>2, <1>4, <1>11 DEF InHand
  <2>2. QED
    BY <1>3, <2>1 DEF Heaped, SiteList, Stored
<1>12. CASE reqs[s].op = "PUT"
  <2>1. new = Overwritten(list, i, row) /\ row \in Row
    BY <1>2, <1>4, <1>12
  <2>2. /\ Listed(new.heap, new.head) /\ new.head = list
        /\ \A j \in 1..list.len : new.heap[list.array][j] = IF j = i THEN row ELSE Stored(j)
    BY <1>3, <1>11, <1>12, <2>1, Overwrites
  <2>3. /\ Listed(arrays', list') /\ list' = list
        /\ \A j \in 1..list.len : Stored(j)' = IF j = i THEN row ELSE Stored(j)
    BY <1>5, <1>8, <2>2
  <2>4. /\ \A j \in 1..list'.len :
             \/ Stored(j)' = row
             \/ \E k \in 1..list.len : Stored(j)' = Stored(k) /\ Stored(k).id # row.id
        /\ \A k \in 1..list.len : Stored(k).id # row.id => \E j \in 1..list'.len : Stored(j)' = Stored(k)
        /\ \E j \in 1..list'.len : Stored(j)' = row
    BY <1>11, <1>12, <2>3
  <2>5. QED
    <3>1. ASSUME NEW t \in Handling \ {s} PROVE list' = list /\ arrays'[list.array][reqs[t].idx] = Stored(reqs[t].idx)
      <4>1. reqs[t].op = "PUT" /\ InHand(t) /\ reqs[t].row.id # row.id
        BY <1>2, <1>4, <3>1 DEF Apart
      <4>2. reqs[t].idx \in 1..list.len /\ Stored(reqs[t].idx).id # row.id
        BY <4>1 DEF InHand
      <4>3. reqs[t].idx # i
        BY <1>11, <1>12, <4>2
      <4>4. QED
        BY <2>3, <4>2, <4>3 DEF Stored
    <3>2. Replaces(s, row)
      BY <1>12, <2>3, <2>4 DEF Replaces
    <3>3. QED
      BY <1>stored, <2>3, <3>1, <3>2
<1>13. CASE reqs[s].op = "DELETE"
  <2>1. new = Removed(list, i)
    BY <1>4, <1>13
  <2>2. /\ Listed(new.heap, new.head) /\ new.head.array = list.array /\ new.head.len = list.len - 1
        /\ \A j \in 1..list.len - 1 : new.heap[list.array][j] = Stored(IF j < i THEN j ELSE j + 1)
    BY <1>3, <1>11, <1>13, <2>1, Removes
  <2>3. PICK n : n = list.len - 1
    OBVIOUS
  <2>4. /\ Listed(arrays', list') /\ list'.len = n
        /\ \A j \in 1..n : Stored(j)' = Stored(IF j < i THEN j ELSE j + 1)
    BY <1>5, <1>8, <2>2, <2>3
  <2>5. \A j \in 1..n : (IF j < i THEN j ELSE j + 1) \in 1..list.len \ {i}
    BY <1>9, <1>11, <1>13, <2>3
  <2>6. \A k \in 1..list.len \ {i} : \E j \in 1..n : k = IF j < i THEN j ELSE j + 1
    <3>1. ASSUME NEW k \in 1..list.len \ {i} PROVE \E j \in 1..n : k = IF j < i THEN j ELSE j + 1
      <4>1. CASE k < i
        <5>1. k \in 1..n /\ k = IF k < i THEN k ELSE k + 1
          BY <1>9, <1>11, <1>13, <2>3, <4>1
        <5>2. QED
          BY <5>1
      <4>2. CASE k > i
        <5>1. k - 1 \in 1..n /\ k = IF k - 1 < i THEN k - 1 ELSE k - 1 + 1
          BY <1>9, <1>11, <1>13, <2>3, <4>2
        <5>2. QED
          BY <5>1
      <4>3. QED
        BY <1>9, <1>11, <1>13, <3>1, <4>1, <4>2
    <3>2. QED
      BY <3>1
  <2>7. /\ \A j \in 1..list'.len : \E k \in 1..list.len : Stored(j)' = Stored(k) /\ Stored(k).id # row.id
        /\ \A k \in 1..list.len : Stored(k).id # row.id => \E j \in 1..list'.len : Stored(j)' = Stored(k)
    <3>1. \A j \in 1..list'.len : \E k \in 1..list.len : Stored(j)' = Stored(k) /\ Stored(k).id # row.id
      BY <1>11, <1>13, <2>4, <2>5
    <3>2. \A k \in 1..list.len : Stored(k).id # row.id => \E j \in 1..list'.len : Stored(j)' = Stored(k)
      BY <1>11, <1>13, <2>4, <2>6
    <3>3. QED
      BY <3>1, <3>2
  <2>8. QED
    <3>1. Handling \ {s} = {}
      BY <1>2, <1>13 DEF Apart
    <3>2. Replaces(s, row)
      BY <1>13, <2>7 DEF Replaces
    <3>3. QED
      BY <1>stored, <2>4, <3>1, <3>2
<1>14. QED
  BY <1>2, <1>10, <1>12, <1>13

\* Every step of a handler.
LEMMA ServeKeeps ==
  ASSUME ~IsRequest(None), Consistent, NEW s \in Slots, Handle(s), ~Clashes(s)
  PROVE  Consistent'
BY BeginKeeps, StopKeeps, StartKeeps, StoreKeeps DEF Handle

-----------------------------------------------------------------------------
(* What the page sends are rows it has seen. *)

\* The rows the page has, and will have, are rows of the server.
RowsOf(answer) == \A i \in DOMAIN answer.rows : answer.rows[i] \in Row

Seen ==
  /\ hook.data # Null => RowsOf(hook.data)
  /\ \A i \in DOMAIN hook.calls : hook.calls[i].state = "answered" => RowsOf(hook.calls[i].value)
  /\ editing # Null => editing \in Row

\* A row that can be pressed.
LEMMA Pressed ==
  ASSUME Seen, NEW i \in Clickable
  PROVE  Shown[i] \in Row
BY DEF Seen, RowsOf, Clickable, Shown

\* The server answers rows.
LEMMA ListingRows ==
  ASSUME Consistent
  PROVE  RowsOf(Listing)
<1>1. \A i \in 1..list.len : Sites[i] \in Row
  BY SitesAre DEF Consistent, Heaped, SiteList, Stored
<1>2. \A i \in 1..list.len : Annotated[i] \in Row
  <2>1. ASSUME NEW row \in Row
        PROVE  [row EXCEPT !.status = "active"] \in Row /\ [row EXCEPT !.status = "stopped"] \in Row
    BY DEF Row, Status
  <2>2. QED
    BY <1>1, <2>1, Zenon DEF Annotated
<1>3. DOMAIN Annotated = 1..list.len
  BY Zenon DEF Annotated
<1>4. Listing.rows = Annotated
  BY DEF Listing
<1>5. QED
  BY <1>2, <1>3, <1>4 DEF RowsOf

\* A call of the list is answered, or fails.
LEMMA HookSees ==
  ASSUME IsHook(hook), Consistent, Seen, NEW i \in 1..MaxCalls, List(i) \/ Lose(i)
  PROVE  Seen'
<1>1. i \in DOMAIN hook.calls /\ UNCHANGED editing
  BY DEF List, Lose, Pending, ui
<1>2. PICK x : /\ hook' = [hook EXCEPT !.calls[i] = x]
               /\ x.state = "answered" => RowsOf(x.value)
  <2>1. CASE List(i)
    <3>1. Answered(Listing).value = Listing
      BY DEF Answered
    <3>2. hook' = [hook EXCEPT !.calls[i] = Answered(Listing)]
      BY <2>1, Zenon DEF List, Answer
    <3>3. QED
      BY <3>1, <3>2, ListingRows, Zenon
  <2>2. CASE Lose(i)
    <3>1. Refused.state # "answered"
      BY DEF Refused
    <3>2. hook' = [hook EXCEPT !.calls[i] = Refused]
      BY <2>2, Zenon DEF Lose, Refuse
    <3>3. QED
      BY <3>1, <3>2, Zenon
  <2>3. QED
    BY <2>1, <2>2
<1>3. PICK c : c = [hook.calls EXCEPT ![i] = x]
  BY Zenon
<1>4. PICK S : hook.calls \in Seq(S)
  BY DEF IsHook
<1>5. c \in Seq(S \cup {x}) /\ \A j \in DOMAIN c : j \in DOMAIN hook.calls /\ c[j] = IF j = i THEN x ELSE hook.calls[j]
  BY <1>1, <1>3, <1>4
<1>6. hook' = [hook EXCEPT !.calls = c]
  BY <1>2, <1>3, Zenon
<1>7. hook'.data = hook.data /\ hook'.calls = c
  BY <1>5, <1>6, Replies
<1>8. QED
  BY <1>1, <1>2, <1>5, <1>7 DEF Seen

\* A call settles.
LEMMA ReceiveSees ==
  ASSUME IsHook(hook), Seen, NEW i \in 1..MaxCalls, Receive(i)
  PROVE  Seen'
<1>1. i \in DOMAIN hook.calls /\ UNCHANGED editing
  BY DEF Receive, Settled, ui
<1>2. /\ hook'.data = IF hook.calls[i].state = "answered" THEN hook.calls[i].value ELSE hook.data
      /\ hook'.calls = Except(hook.calls, i)
  <2>1. hook' = Settle(hook, i)
    BY DEF Receive
  <2>2. QED
    BY <1>1, <2>1, Settles, Zenon
<1>3. \A j \in DOMAIN hook'.calls : \E k \in DOMAIN hook.calls : hook'.calls[j] = hook.calls[k]
  BY <1>1, <1>2 DEF Except, IsHook
<1>4. hook'.data # Null => RowsOf(hook'.data)
  BY <1>1, <1>2 DEF Seen
<1>5. ASSUME NEW j \in DOMAIN hook'.calls, hook'.calls[j].state = "answered" PROVE RowsOf(hook'.calls[j].value)
  BY <1>3, <1>5, Zenon DEF Seen
<1>6. QED
  BY <1>1, <1>4, <1>5 DEF Seen

\* What the page and the other operator ask for.
LEMMA Asks ==
  ASSUME Seen, NEW op, NEW row, NEW by, NEW why, 
         \/ \E i \in Clickable :
              op = "PUT" /\ row = [Shown[i] EXCEPT !.status = IF @ = "active" THEN "stopped" ELSE "active"]
         \/ \E i \in Clickable : op = "DELETE" /\ row = Named(Shown[i].id)
         \/ \E port \in 1..MaxPort + 1 : editing # Null /\ op = "PUT" /\ row = [editing EXCEPT !.port = port]
         \/ \E id \in Ids, port \in 1..MaxPort + 1 : op = "POST" /\ row = NewSite(id, port)
         \/ \E id \in Ids : op = "DELETE" /\ row = Named(id)
         \/ \E id \in Ids, port \in 1..MaxPort + 1, status \in {"active", "stopped"} :
              op = "PUT" /\ row = [id |-> id, port |-> port, status |-> status]
  PROVE  /\ op \in {"POST", "PUT", "DELETE"} /\ row \in Row
         /\ op = "DELETE" => row.status = "stopped"
         /\ op = "POST" => row.status = "active"
<1>0. 0 \in 0..MaxPort + 1 /\ \A port \in 1..MaxPort + 1 : port \in 0..MaxPort + 1
  BY ServerAssumption
<1>1. CASE \E i \in Clickable :
             op = "PUT" /\ row = [Shown[i] EXCEPT !.status = IF @ = "active" THEN "stopped" ELSE "active"]
  <2>1. PICK old \in Row : op = "PUT" /\ row = [old EXCEPT !.status = IF @ = "active" THEN "stopped" ELSE "active"]
    BY <1>1, Pressed
  <2>2. row \in Row
    BY <2>1 DEF Row, Status
  <2>3. QED
    BY <2>1, <2>2
<1>2. CASE \E i \in Clickable : op = "DELETE" /\ row = Named(Shown[i].id)
  <2>1. PICK old \in Row : op = "DELETE" /\ row = Named(old.id)
    BY <1>2, Pressed
  <2>2. QED
    BY <1>0, <2>1 DEF Row, Named, Status
<1>3. CASE \E port \in 1..MaxPort + 1 : editing # Null /\ op = "PUT" /\ row = [editing EXCEPT !.port = port]
  <2>1. PICK old \in Row, port \in 0..MaxPort + 1 : op = "PUT" /\ row = [old EXCEPT !.port = port]
    BY <1>0, <1>3 DEF Seen
  <2>2. row \in Row
    BY <2>1 DEF Row
  <2>3. QED
    BY <2>1, <2>2
<1>4. CASE \E id \in Ids, port \in 1..MaxPort + 1 : op = "POST" /\ row = NewSite(id, port)
  BY <1>0, <1>4 DEF Row, NewSite, Status
<1>5. CASE \E id \in Ids : op = "DELETE" /\ row = Named(id)
  BY <1>0, <1>5 DEF Row, Named, Status
<1>6. CASE \E id \in Ids, port \in 1..MaxPort + 1, status \in {"active", "stopped"} :
             op = "PUT" /\ row = [id |-> id, port |-> port, status |-> status]
  BY <1>0, <1>6 DEF Row, Status
<1>7. QED
  BY <1>1, <1>2, <1>3, <1>4, <1>5, <1>6

\* Until two changes clash, the servers that run are those of the sites stored as active,
\* however many updates of different sites are handled at once and whatever fails in between:
\* handleCreateSite, handleUpdateSite and handleDeleteSite with StartSite and StopSite. None
\* is no request.
THEOREM RegisteredHolds ==
  ASSUME ~IsRequest(None)
  PROVE  Spec => []Registered
<1>1. Init => Consistent /\ Seen
  <2> SUFFICES ASSUME Init PROVE Consistent /\ Seen
    OBVIOUS
  <2>1. PICK ids \in [1..Found -> Ids] :
          /\ \A i, j \in 1..Found : ids[i] = ids[j] => i = j
          /\ arrays = [a \in Arrays |->
                         IF a = 1 THEN [i \in 1..Found |-> [id |-> ids[i], port |-> i, status |-> "active"]]
                         ELSE <<>>]
    BY DEF Init, ServerInit
  <2>2. /\ list = [array |-> 1, len |-> Found] /\ running = [id \in Ids |-> IndexOf(id, Sites)]
        /\ reqs = [s \in Slots |-> None]
    BY DEF Init, ServerInit
  <2>3. Requested(reqs) /\ Asked /\ Handling = {}
    BY <2>2 DEF Requested, Asked, Handling
  <2>4. 1 \in Arrays
    <3>1. Cardinality(Slots) \in Nat
      BY ServerAssumption, FS_CardinalityType
    <3>2. QED
      BY <3>1 DEF Arrays
  <2>5. \A i \in 1..Found : Stored(i) = [id |-> ids[i], port |-> i, status |-> "active"] /\ Stored(i) \in Row
    <3>1. \A i \in 1..Found : Stored(i) = [id |-> ids[i], port |-> i, status |-> "active"]
      BY <2>1, <2>2, <2>4 DEF Stored
    <3>2. Found \in Nat /\ MaxPort \in Nat /\ Found <= MaxPort
      BY ServerAssumption
    <3>3. \A i \in 1..Found : ids[i] \in Ids /\ i \in 0..MaxPort + 1
      BY <2>1, <3>2
    <3>4. QED
      BY <3>1, <3>3 DEF Row, Status
  <2>heap. Heaped
    <3>1. PICK cells : cells = [i \in 1..Found |-> [id |-> ids[i], port |-> i, status |-> "active"]]
      OBVIOUS
    <3>2. Found \in Nat /\ arrays[1] = cells /\ \A i \in 1..Found : cells[i] = Stored(i)
      BY <2>1, <2>2, <2>4, <3>1, ServerAssumption DEF Stored
    <3>3. cells \in Seq(Row \cup {None}) /\ Len(cells) = Found
      <4>1. cells = [i \in 1..Found |-> cells[i]] /\ \A i \in 1..Found : cells[i] \in Row \cup {None}
        BY <2>5, <3>1, <3>2
      <4>2. QED
        BY <3>2, <4>1
    <3>4. \A i, j \in 1..Found : cells[i].id = cells[j].id => i = j
      BY <2>1, <3>1
    <3>5. SiteList(list, cells)
      BY <2>2, <2>5, <3>2, <3>3, <3>4 DEF SiteList
    <3>6. QED
      BY <2>1, <2>2, <2>4, <3>2, <3>5 DEF Heaped
  <2>agree. Agree
    <3>1. ASSUME NEW i \in 1..list.len PROVE running[Stored(i).id] = Served(Stored(i))
      <4>1. Found \in Nat /\ i \in 1..Found /\ list.len = Found
        BY <2>2, <3>1, ServerAssumption
      <4>2. Stored(i).id \in Ids /\ Stored(i).id = ids[i] /\ Served(Stored(i)) = i
        BY <2>1, <2>5, <4>1 DEF Served
      <4>3. IndexOf(ids[i], Sites) # 0
        BY <2>heap, <3>1, <4>2, NotFound DEF Unlisted
      <4>4. PICK k : k = IndexOf(ids[i], Sites)
        OBVIOUS
      <4>5. k \in 1..list.len /\ Stored(k).id = ids[i]
        BY <2>heap, <4>3, <4>4, FoundSite
      <4>6. k = i
        BY <2>1, <2>5, <4>1, <4>5
      <4>7. QED
        BY <2>2, <4>2, <4>4, <4>6
    <3>2. ASSUME NEW id \in Ids, running[id] # 0 PROVE \E i \in 1..list.len : Stored(i).id = id
      <4>1. PICK k : k = IndexOf(id, Sites) /\ k # 0
        BY <2>2, <3>2
      <4>2. QED
        BY <2>heap, <4>1, FoundSite
    <3>3. QED
      BY <2>2, <3>1, <3>2 DEF Agree
  <2>6. Seen
    <3>1. Unmounted.calls = <<>> /\ <<>> \in Seq({}) /\ Unmounted.data = Null
      BY DEF Unmounted
    <3>2. IsHook(Unmounted)
      <4>1. Unmounted = Hook(Unmounted.data, Unmounted.loading, Unmounted.error, Unmounted.calls, Unmounted.newest)
        BY DEF Unmounted, Hook
      <4>2. QED
        BY <3>1, <4>1 DEF IsHook
    <3>3. hook = Load(Unmounted) /\ editing = Null
      BY DEF Init, Mount
    <3>4. /\ hook.data = Null
          /\ \A i \in DOMAIN hook.calls : hook.calls[i] = Sent \/ (i \in DOMAIN Unmounted.calls)
      BY <3>1, <3>2, <3>3, Loads, Zenon
    <3>5. Sent.state # "answered"
      BY DEF Sent
    <3>6. QED
      BY <3>1, <3>3, <3>4, <3>5 DEF Seen
  <2>7. QED
    BY <2>3, <2>heap, <2>agree, <2>6 DEF Consistent, AllApart
<1>2. IInv /\ (~clashed => Consistent /\ Seen) /\ [Next]_vars => (~clashed' => Consistent' /\ Seen')
  <2> SUFFICES ASSUME IInv, ~clashed => Consistent /\ Seen, [Next]_vars, ~clashed' PROVE Consistent' /\ Seen'
    OBVIOUS
  <2>clash. ~clashed /\ \A s \in Slots : Serve(s) => ~Clashes(s)
    <3>1. CASE \E s \in Slots : Serve(s)
      <4>1. ~clashed /\ \A s \in Slots : Serve(s) => ~Clashes(s)
        BY <3>1 DEF Serve
      <4>2. QED
        BY <4>1
    <3>2. CASE UNCHANGED clashed /\ ~\E s \in Slots : Serve(s)
      BY <3>2
    <3>3. UNCHANGED clashed \/ \E s \in Slots : Serve(s)
      BY DEF Next, Progress, Network, OpenCreate, Cancel, OpenEdit, Toggle, Delete, Submit, Send, OtherChanges, Other,
             Lose, List, Receive, Drop, Failed, Done, past, vars
    <3>4. QED
      BY <3>1, <3>2, <3>3
  <2>now. Consistent /\ Seen
    BY <2>clash
  <2>0. IsHook(hook)
    BY DEF IInv
  <2>1. ASSUME UNCHANGED server PROVE Consistent'
    <3>1. UNCHANGED <<arrays, list, running, reqs>>
      BY <2>1 DEF server
    <3>2. Requested(reqs') /\ Asked' /\ Handling' = Handling
      BY <2>now, <3>1 DEF Consistent, Asked, Handling
    <3>3. QED
      BY <2>now, <3>1, <3>2, Undisturbed
  <2>2. ASSUME UNCHANGED <<hook, editing>> PROVE Seen'
    BY <2>now, <2>2 DEF Seen
  <2>3. ASSUME NEW op, NEW row, NEW by, NEW why, Free # {}, 
               op \in {"POST", "PUT", "DELETE"}, row \in Row,
               op = "DELETE" => row.status = "stopped",
               op = "POST" => row.status = "active",
               reqs' = [reqs EXCEPT ![FirstFree] = Request(op, row, by, why)],
               UNCHANGED <<arrays, list, running, hook, editing>>
        PROVE  Consistent' /\ Seen'
    BY <2>now, <2>2, <2>3, Arrives
  <2>4. ASSUME NEW s \in Slots, Replied(s), reqs' = [reqs EXCEPT ![s] = None], UNCHANGED <<arrays, list, running>>
        PROVE  Consistent'
    BY <2>now, <2>4, Ends
  <2>5. CASE OpenCreate \/ Cancel
    BY <2>now, <2>1, <2>5 DEF OpenCreate, Cancel, ResetForm, Seen
  <2>6. ASSUME NEW i \in Clickable, OpenEdit(i) PROVE Consistent' /\ Seen'
    BY <2>now, <2>1, <2>6, Pressed DEF OpenEdit, Seen
  <2>7. ASSUME NEW i \in Clickable, Toggle(i) \/ Delete(i) PROVE Consistent' /\ Seen'
    <3>1. CASE Toggle(i)
      <4>1. PICK row : /\ row = [Shown[i] EXCEPT !.status = IF @ = "active" THEN "stopped" ELSE "active"]
                       /\ Send("PUT", row, "toggle")
        BY <3>1, Zenon DEF Toggle
      <4>2. row \in Row
        BY <2>now, <4>1, Asks
      <4>3. QED
        BY <2>3, <4>1, <4>2 DEF Send, ui
    <3>2. CASE Delete(i)
      <4>1. PICK row : row = Named(Shown[i].id) /\ Send("DELETE", row, "delete")
        BY <3>2, Zenon DEF Delete
      <4>2. row \in Row /\ row.status = "stopped"
        BY <2>now, <4>1, Asks
      <4>3. QED
        BY <2>3, <4>1, <4>2 DEF Send, ui
    <3>3. QED
      BY <2>7, <3>1, <3>2
  <2>8. ASSUME NEW id \in Ids, NEW port \in 1..MaxPort + 1, Submit(id, port) PROVE Consistent' /\ Seen'
    <3>1. CASE editing # Null
      <4>1. PICK row : row = [editing EXCEPT !.port = port] /\ Send("PUT", row, "submit")
        BY <2>8, <3>1, Zenon DEF Submit
      <4>2. row \in Row
        BY <2>now, <3>1, <4>1, Asks
      <4>3. QED
        BY <2>3, <4>1, <4>2 DEF Send, ui
    <3>2. CASE editing = Null
      <4>1. PICK row : row = NewSite(id, port) /\ Send("POST", row, "submit")
        BY <2>8, <3>2, Zenon DEF Submit
      <4>2. row \in Row /\ row.status = "active"
        BY <2>now, <4>1, Asks
      <4>3. QED
        BY <2>3, <4>1, <4>2 DEF Send, ui
    <3>3. QED
      BY <3>1, <3>2
  <2>9. ASSUME NEW id \in Ids, OtherChanges(id) PROVE Consistent' /\ Seen'
    <3>1. PICK op, row :
            /\ Other(op, row)
            /\ \/ op = "DELETE" /\ row = Named(id)
               \/ \E port \in 1..MaxPort + 1 : op = "POST" /\ row = NewSite(id, port)
               \/ \E port \in 1..MaxPort + 1, status \in {"active", "stopped"} :
                    op = "PUT" /\ row = [id |-> id, port |-> port, status |-> status]
      <4>1. Ports \subseteq 1..MaxPort + 1
        BY ServerAssumption DEF Ports
      <4>2. QED
        BY <2>9, <4>1, Zenon DEF OtherChanges
    <3>2. /\ op \in {"POST", "PUT", "DELETE"} /\ row \in Row
          /\ op = "DELETE" => row.status = "stopped"
          /\ op = "POST" => row.status = "active"
      BY <2>now, <3>1, Asks
    <3>3. QED
      BY <2>3, <3>1, <3>2 DEF Other, ui
  <2>10. ASSUME NEW i \in 1..MaxCalls, List(i) \/ Lose(i) PROVE Consistent' /\ Seen'
    BY <2>0, <2>now, <2>1, <2>10, HookSees DEF List, Lose
  <2>11. ASSUME NEW i \in 1..MaxCalls, Receive(i) PROVE Consistent' /\ Seen'
    BY <2>0, <2>now, <2>1, <2>11, ReceiveSees DEF Receive
  <2>12. ASSUME NEW s \in Slots, Drop(s) \/ Failed(s) PROVE Consistent' /\ Seen'
    BY <2>2, <2>4, <2>12 DEF Drop, Failed, ui
  <2>13. ASSUME NEW s \in Slots, Serve(s) PROVE Consistent' /\ Seen'
    BY <2>2, <2>clash, <2>now, <2>13, ServeKeeps DEF Serve, ui
  <2>14. ASSUME NEW s \in Slots, Done(s) PROVE Consistent' /\ Seen'
    <3>1. Consistent'
      BY <2>4, <2>14 DEF Done
    <3>2. hook' = Load(hook) /\ (editing' = Null \/ editing' = editing)
      BY <2>14 DEF Done, ResetForm, ui
    <3>3. /\ hook'.data = hook.data
          /\ \A i \in DOMAIN hook'.calls :
               hook'.calls[i] = Sent \/ (i \in DOMAIN hook.calls /\ hook'.calls[i] = hook.calls[i])
      BY <2>0, <3>2, Loads, Zenon
    <3>4. Sent.state # "answered"
      BY DEF Sent
    <3>5. QED
      BY <2>now, <3>1, <3>2, <3>3, <3>4 DEF Seen
  <2>15. CASE UNCHANGED vars
    BY <2>1, <2>2, <2>15 DEF vars, ui
  <2>16. QED
    BY <2>5, <2>6, <2>7, <2>8, <2>9, <2>10, <2>11, <2>12, <2>13, <2>14, <2>15 DEF Next, Progress, Network
<1>3. (~clashed => Consistent) => Registered
  <2> SUFFICES ASSUME Consistent, Handling = {} 
               PROVE  /\ \A i \in DOMAIN Sites : running[Sites[i].id] = Served(Sites[i])
                      /\ \A id \in Ids : running[id] # 0 => \E i \in DOMAIN Sites : Sites[i].id = id
    BY DEF Registered, InStep, Served
  <2>1. DOMAIN Sites = 1..list.len /\ \A i \in 1..list.len : Sites[i] = Stored(i)
    BY SitesAre DEF Consistent
  <2>2. \A id : ~Ahead(id)
    BY DEF Ahead
  <2>3. QED
    BY <2>1, <2>2 DEF Consistent, Agree
<1>4. QED
  BY <1>1, <1>2, <1>3, Inductive, PTL DEF Spec

=============================================================================
