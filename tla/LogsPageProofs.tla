--------------------------- MODULE LogsPageProofs ---------------------------
(***************************************************************************)
(* That the stream of the logs has no gap until its window is full, for    *)
(* any sizes of the buffer, of the window and of what the stream begins    *)
(* with, and however many entries come between two ticks.                  *)
(*                                                                         *)
(* The server counts what it has sent of the window, which is less than    *)
(* what it has sent when the stream began with the end of a longer window: *)
(* the tick then repeats entries, and leaves none out.                     *)
(***************************************************************************)
EXTENDS LogsPage, FiniteSetTheorems, TLAPS

Typed ==
  /\ written \in Nat
  /\ lastSent \in Nat
  /\ streamed \in Seq(Nat)
  /\ conn \in {"dialed", "open", "gone", "closed"}

Occurs(n) == \E i \in DOMAIN streamed : streamed[i] = n

\* All from the first entry sent to the top-th was sent, and nothing after it.
SentUpTo(top) ==
  /\ lastSent <= top
  /\ \A i \in DOMAIN streamed : 1 <= streamed[i] /\ streamed[i] <= top
  /\ \A n \in Nat : streamed[1] <= n /\ n <= top => Occurs(n)

\* From the first entry on, the stream is the log.
Exact == Len(streamed) = lastSent /\ \A i \in DOMAIN streamed : streamed[i] = i

IInv ==
  /\ Typed
  /\ conn = "dialed" => streamed = <<>> /\ lastSent = 0
  /\ written <= Window =>
       /\ lastSent <= written
       /\ streamed = <<>> => lastSent = 0
       /\ streamed # <<>> => \E top \in 0..written : SentUpTo(top)
       /\ streamed # <<>> /\ streamed[1] = 1 => Exact

-----------------------------------------------------------------------------
\* The most recent entries, as long as the buffer has dropped nothing that is asked for.
LEMMA RecentIs ==
  ASSUME written \in Nat, NEW n \in Nat, n <= Keep
  PROVE  /\ Recent(n) \in Seq(Nat)
         /\ Len(Recent(n)) = Least(n, written)
         /\ \A i \in 1..Least(n, written) : Recent(n)[i] = written - Least(n, written) + i
<1>1. Least(n, Least(written, Keep)) = Least(n, written) /\ Least(n, written) \in Nat /\ Least(n, written) <= written
  <2>1. Keep \in Nat
    BY LogsAssumption
  <2>2. QED
    BY <2>1 DEF Least
<1>2. Recent(n) = [i \in 1..Least(n, written) |-> written - Least(n, written) + i]
  BY <1>1 DEF Recent
<1>3. QED
  BY <1>1, <1>2

LEMMA UpgradeKeeps == IInv /\ Upgrade => IInv'
<1> SUFFICES ASSUME IInv, Upgrade PROVE IInv'
  OBVIOUS
<1> DEFINE k == Least(First, written)
<1>1. First \in Nat \ {0} /\ Window \in Nat \ {0} /\ Keep \in Nat /\ First <= Keep /\ First <= Window
  BY LogsAssumption
<1>2. k \in Nat /\ k <= written /\ k <= First /\ (k = First \/ k = written)
  BY <1>1 DEF Least, IInv, Typed
<1>3. /\ streamed' \in Seq(Nat) /\ Len(streamed') = k
      /\ \A i \in 1..k : streamed'[i] = written - k + i
      /\ lastSent' = k /\ conn' = "open" /\ written' = written
  BY <1>1, RecentIs DEF Upgrade, IInv, Typed
<1> HIDE DEF k
<1>4. Typed'
  BY <1>2, <1>3 DEF IInv, Typed
<1>5. streamed' = <<>> => lastSent' = 0
  BY <1>3
<1>6. ASSUME streamed' # <<>> PROVE \E top \in 0..written' : SentUpTo(top)'
  <2>1. k > 0 /\ streamed'[1] = written - k + 1 /\ written \in Nat
    BY <1>2, <1>3, <1>6 DEF IInv, Typed
  <2>2. \A i \in DOMAIN streamed' : 1 <= streamed'[i] /\ streamed'[i] <= written
    BY <1>2, <1>3, <2>1
  <2>3. ASSUME NEW n \in Nat, streamed'[1] <= n, n <= written PROVE Occurs(n)'
    <3>1. n - (written - k) \in 1..k
      BY <1>2, <2>1, <2>3
    <3>2. n - (written - k) \in DOMAIN streamed' /\ streamed'[n - (written - k)] = n
      BY <1>2, <1>3, <2>1, <3>1
    <3>3. QED
      BY <3>2 DEF Occurs
  <2>4. SentUpTo(written)'
    BY <1>2, <1>3, <2>2, <2>3 DEF SentUpTo
  <2>5. QED
    BY <1>3, <2>1, <2>4 DEF SentUpTo
<1>7. streamed' # <<>> /\ streamed'[1] = 1 => Exact'
  <2> SUFFICES ASSUME streamed' # <<>>, streamed'[1] = 1 PROVE Exact'
    OBVIOUS
  <2>1. written \in Nat /\ k > 0 /\ 1 \in 1..k
    BY <1>2, <1>3 DEF IInv, Typed
  <2>2. streamed'[1] = written - k + 1
    BY <1>3, <2>1
  <2>3. written = k
    BY <1>2, <2>1, <2>2
  <2>4. \A i \in 1..k : streamed'[i] = i
    BY <1>2, <1>3, <2>3
  <2>5. QED
    BY <1>3, <2>4 DEF Exact
<1>8. QED
  BY <1>2, <1>3, <1>4, <1>5, <1>6, <1>7 DEF IInv

LEMMA TickKeeps == IInv /\ Tick => IInv'
<1> SUFFICES ASSUME IInv, Tick PROVE IInv'
  OBVIOUS
<1> DEFINE w == Least(Window, written)
           new == SubSeq(Recent(Window), lastSent + 1, w)
<1>1. Window \in Nat \ {0} /\ Window <= Keep
  BY LogsAssumption
<1>2. w \in Nat /\ (written <= Window => w = written)
  BY <1>1 DEF Least, IInv, Typed
<1>3. /\ Recent(Window) \in Seq(Nat) /\ Len(Recent(Window)) = w
      /\ \A i \in 1..w : Recent(Window)[i] = written - w + i
  BY <1>1, RecentIs DEF IInv, Typed
<1>4. /\ lastSent < w /\ lastSent' = w /\ UNCHANGED <<conn, written>> /\ conn = "open"
      /\ streamed' = streamed \o new
  BY <1>3 DEF Tick, Send
<1>5. lastSent \in Nat /\ streamed \in Seq(Nat) /\ written \in Nat
  BY DEF IInv, Typed
<1>6. /\ new \in Seq(Nat) /\ Len(new) = w - lastSent
      /\ \A i \in 1..w - lastSent : new[i] = written - w + lastSent + i
  <2> DEFINE all == Recent(Window)
  <2> HIDE DEF all, w
  <2>1. all \in Seq(Nat) /\ Len(all) = w /\ \A i \in 1..w : all[i] = written - w + i
    BY <1>3 DEF all
  <2>2. new = SubSeq(all, lastSent + 1, w)
    BY DEF new, all
  <2>3. new \in Seq(Nat) /\ Len(new) = w - lastSent
    BY <1>2, <1>4, <1>5, <2>1, <2>2
  <2>4. ASSUME NEW i \in 1..w - lastSent PROVE new[i] = written - w + lastSent + i
    <3>1. new[i] = all[lastSent + i] /\ lastSent + i \in 1..w
      BY <1>2, <1>4, <1>5, <2>1, <2>2
    <3>2. QED
      BY <1>2, <1>5, <2>1, <3>1
  <2>5. QED
    BY <2>3, <2>4
<1> HIDE DEF w, new
<1>7. /\ streamed' \in Seq(Nat) /\ Len(streamed') = Len(streamed) + Len(new) /\ streamed' # <<>>
      /\ \A i \in 1..Len(streamed) : streamed'[i] = streamed[i]
      /\ \A i \in 1..Len(new) : streamed'[Len(streamed) + i] = new[i]
  <2>1. Len(new) > 0 /\ new \in Seq(Nat)
    BY <1>2, <1>4, <1>5, <1>6
  <2>2. streamed' \in Seq(Nat) /\ Len(streamed') = Len(streamed) + Len(new)
    BY <1>4, <1>5, <2>1
  <2>3. streamed' # <<>>
    BY <1>5, <2>1, <2>2
  <2>4. \A i \in 1..Len(streamed) : streamed'[i] = streamed[i]
    BY <1>4, <1>5, <2>1
  <2>5. \A i \in 1..Len(new) : streamed'[Len(streamed) + i] = new[i]
    BY <1>4, <1>5, <2>1
  <2>6. QED
    BY <2>2, <2>3, <2>4, <2>5
<1>8. Typed'
  BY <1>2, <1>4, <1>7 DEF IInv, Typed
<1>9. ASSUME written <= Window PROVE SentUpTo(written)' /\ (streamed'[1] = 1 => Exact')
  <2>1. w = written /\ \A i \in 1..Len(new) : new[i] = lastSent + i
    BY <1>2, <1>5, <1>6, <1>9
  <2>2. /\ Len(streamed) \in Nat /\ Len(new) = written - lastSent
        /\ DOMAIN streamed = 1..Len(streamed) /\ DOMAIN streamed' = 1..(Len(streamed) + Len(new))
        /\ written' = written /\ lastSent' = written /\ lastSent < written
    BY <1>2, <1>4, <1>5, <1>6, <1>7, <2>1
  <2>3. \A i \in DOMAIN streamed' : i \in 1..Len(streamed) \/ (i - Len(streamed) \in 1..Len(new) /\ streamed'[i] = new[i - Len(streamed)])
    <3>1. ASSUME NEW i \in DOMAIN streamed', i \notin 1..Len(streamed)
          PROVE  i - Len(streamed) \in 1..Len(new) /\ streamed'[i] = new[i - Len(streamed)]
      <4>1. i - Len(streamed) \in 1..Len(new) /\ i = Len(streamed) + (i - Len(streamed))
        BY <1>5, <1>6, <1>7, <3>1
      <4>2. QED
        BY <1>7, <4>1
    <3>2. QED
      BY <3>1
  <2>4. CASE streamed = <<>>
    <3>1. lastSent = 0
      BY <1>4, <1>9, <2>4 DEF IInv
    <3>2. \A i \in DOMAIN streamed' : streamed'[i] = i /\ i <= written
      BY <1>5, <1>6, <1>7, <2>1, <2>3, <2>4, <3>1
    <3>3. Exact'
      BY <1>4, <1>5, <1>6, <1>7, <2>1, <2>4, <3>1, <3>2 DEF Exact
    <3>4. ASSUME NEW n \in Nat, streamed'[1] <= n, n <= written PROVE Occurs(n)'
      <4>1. n \in DOMAIN streamed'
        BY <1>4, <1>5, <1>6, <1>7, <2>1, <2>4, <3>1, <3>2, <3>4
      <4>2. QED
        BY <3>2, <4>1 DEF Occurs
    <3>5. QED
      <4>1. \A i \in DOMAIN streamed' : 1 <= streamed'[i] /\ streamed'[i] <= written
        BY <2>2, <3>2
      <4>2. SentUpTo(written)'
        BY <1>5, <2>2, <3>4, <4>1 DEF SentUpTo
      <4>3. QED
        BY <3>3, <4>2
  <2>5. CASE streamed # <<>>
    <3>1. PICK top \in 0..written : SentUpTo(top)
      BY <1>9, <2>5 DEF IInv
    <3>2. streamed'[1] = streamed[1] /\ 1 \in DOMAIN streamed
      <4>1. 1 \in 1..Len(streamed)
        BY <1>5, <2>5
      <4>2. QED
        BY <1>7, <2>2, <4>1
    <3>3. \A i \in DOMAIN streamed' : 1 <= streamed'[i] /\ streamed'[i] <= written
      <4>1. ASSUME NEW i \in 1..Len(streamed) PROVE 1 <= streamed'[i] /\ streamed'[i] <= written
        <5>1. streamed'[i] = streamed[i] /\ streamed[i] \in Nat /\ i \in DOMAIN streamed
          BY <1>5, <1>7, <2>2
        <5>2. 1 <= streamed[i] /\ streamed[i] <= top
          BY <3>1, <5>1 DEF SentUpTo
        <5>3. QED
          BY <1>5, <5>1, <5>2
      <4>2. ASSUME NEW i \in DOMAIN streamed', i - Len(streamed) \in 1..Len(new),
                   streamed'[i] = new[i - Len(streamed)]
            PROVE  1 <= streamed'[i] /\ streamed'[i] <= written
        <5>1. streamed'[i] = lastSent + (i - Len(streamed))
          BY <2>1, <4>2
        <5>2. QED
          BY <1>5, <2>2, <4>2, <5>1
      <4>3. QED
        BY <2>3, <4>1, <4>2
    <3>4. ASSUME NEW n \in Nat, streamed'[1] <= n, n <= written PROVE Occurs(n)'
      <4>1. CASE n <= top
        <5>1. PICK i \in DOMAIN streamed : streamed[i] = n
          BY <3>1, <3>2, <3>4, <4>1 DEF SentUpTo, Occurs
        <5>2. i \in DOMAIN streamed' /\ streamed'[i] = n
          BY <1>7, <2>2, <5>1
        <5>3. QED
          BY <5>2 DEF Occurs
      <4>2. CASE n > top
        <5>1. n - lastSent \in 1..Len(new)
          BY <1>5, <1>6, <2>1, <3>1, <3>4, <4>2 DEF SentUpTo
        <5>2. new[n - lastSent] = n
          BY <1>5, <2>1, <5>1
        <5>3. Len(streamed) + (n - lastSent) \in DOMAIN streamed'
          BY <1>5, <1>6, <1>7, <5>1
        <5>4. streamed'[Len(streamed) + (n - lastSent)] = n
          BY <1>7, <5>1, <5>2
        <5>5. QED
          BY <5>3, <5>4 DEF Occurs
      <4>3. QED
        BY <3>1, <4>1, <4>2
    <3>5. streamed'[1] = 1 => Exact'
      <4> SUFFICES ASSUME streamed'[1] = 1 PROVE Exact'
        OBVIOUS
      <4>1. Len(streamed) = lastSent /\ \A i \in DOMAIN streamed : streamed[i] = i
        BY <1>9, <2>5, <3>2 DEF IInv, Exact
      <4>2. \A i \in DOMAIN streamed' : streamed'[i] = i
        BY <1>5, <1>7, <2>1, <2>3, <4>1
      <4>3. Len(streamed') = lastSent'
        BY <1>5, <1>7, <2>2, <4>1
      <4>4. QED
        BY <4>2, <4>3 DEF Exact
    <3>6. QED
      <4>1. SentUpTo(written)'
        BY <2>2, <1>5, <3>3, <3>4 DEF SentUpTo
      <4>2. QED
        BY <3>5, <4>1
  <2>6. QED
    BY <2>4, <2>5
<1>10. QED
  <2>1. written' = written /\ lastSent' = w /\ conn' = "open" /\ streamed' # <<>> /\ written \in Nat
    BY <1>4, <1>5, <1>7
  <2>2. ASSUME written <= Window PROVE lastSent' <= written' /\ \E top \in 0..written' : SentUpTo(top)'
    <3>1. w = written /\ SentUpTo(written)' /\ written \in 0..written'
      BY <1>2, <1>9, <2>1, <2>2
    <3>2. QED
      BY <2>1, <3>1 DEF SentUpTo
  <2>3. QED
    BY <1>8, <1>9, <2>1, <2>2 DEF IInv

THEOREM Inductive == Spec => []IInv
<1>1. Init => IInv
  <2>1. <<>> \in Seq(Nat)
    OBVIOUS
  <2>2. QED
    BY <2>1, LogsAssumption DEF Init, IInv, Typed
<1>2. IInv /\ [Next]_vars => IInv'
  <2> SUFFICES ASSUME IInv, [Next]_vars PROVE IInv'
    OBVIOUS
  <2>1. ASSUME UNCHANGED <<lastSent, streamed>>, written' \in {written, written + 1}, conn' \in {conn, "gone", "closed"}
        PROVE  IInv'
    <3>1. /\ Typed' /\ (written' <= Window => written <= Window)
          /\ written <= written' /\ (conn' = "dialed" => conn = "dialed")
      BY <2>1, LogsAssumption DEF IInv, Typed
    <3>2. \A top : SentUpTo(top)' <=> SentUpTo(top)
      BY <2>1 DEF SentUpTo, Occurs
    <3>3. \A top \in 0..written : top \in 0..written'
      BY <2>1 DEF IInv, Typed
    <3>4. conn' = "dialed" => streamed' = <<>> /\ lastSent' = 0
      BY <2>1, <3>1 DEF IInv
    <3>5. ASSUME written' <= Window
          PROVE  /\ lastSent' <= written'
                 /\ streamed' = <<>> => lastSent' = 0
                 /\ streamed' # <<>> => \E top \in 0..written' : SentUpTo(top)'
                 /\ streamed' # <<>> /\ streamed'[1] = 1 => Exact'
      <4>1. written <= Window /\ lastSent' = lastSent /\ streamed' = streamed
        BY <2>1, <3>1, <3>5
      <4>2. lastSent' <= written'
        BY <2>1, <3>1, <4>1 DEF IInv, Typed
      <4>3. streamed' # <<>> => \E top \in 0..written' : SentUpTo(top)'
        BY <3>2, <3>3, <4>1 DEF IInv
      <4>4. streamed' = <<>> => lastSent' = 0
        BY <2>1, <4>1 DEF IInv
      <4>5. Exact' <=> Exact
        BY <4>1 DEF Exact
      <4>6. streamed' # <<>> /\ streamed'[1] = 1 => Exact'
        BY <4>1, <4>5 DEF IInv
      <4>7. QED
        BY <4>2, <4>3, <4>4, <4>6
    <3>6. QED
      BY <3>1, <3>4, <3>5 DEF IInv
  <2>2. CASE Add
    BY <2>1, <2>2 DEF Add, stream
  <2>3. CASE Break \/ Vanish
    BY <2>1, <2>3 DEF Break, Vanish
  <2>4. CASE Events \/ Poll \/ Refresh
    BY <2>1, <2>4 DEF Events, OnOpen, OnClose, OnMessage, Event, Poll, Refresh, stream
  <2>5. ASSUME NEW i \in 1..MaxCalls, Handle(i) \/ Receive(i) \/ Lose(i) PROVE IInv'
    BY <2>1, <2>5 DEF Handle, Receive, Lose, stream
  <2>6. CASE UNCHANGED vars
    BY <2>1, <2>6 DEF vars, stream
  <2>7. QED
    BY <2>2, <2>3, <2>4, <2>5, <2>6, UpgradeKeeps, TickKeeps DEF Next, Answers
<1>3. QED
  BY <1>1, <1>2, PTL DEF Spec

\* Until the window is full the stream leaves nothing out (handleWSLogs, its ticker), and
\* repeats nothing if it began with all there was.
THEOREM NoGapHolds == Spec => []NoGap
<1>1. IInv => NoGap
  <2> SUFFICES ASSUME IInv, written <= Window PROVE NoGap
    BY DEF NoGap
  <2>1. ASSUME NEW i \in DOMAIN streamed, NEW n \in streamed[1]..streamed[i] PROVE Occurrences(n) # {}
    <3>1. streamed # <<>> /\ streamed[1] \in Nat /\ streamed[i] \in Nat
      BY DEF IInv, Typed
    <3>2. PICK top \in 0..written : SentUpTo(top)
      BY <3>1 DEF IInv
    <3>3. n \in Nat /\ streamed[1] <= n /\ n <= top
      BY <3>1, <3>2 DEF SentUpTo, IInv, Typed
    <3>4. QED
      BY <3>2, <3>3 DEF SentUpTo, Occurs, Occurrences
  <2>2. ASSUME streamed # <<>>, streamed[1] = 1, NEW n \in 1..written PROVE Cardinality(Occurrences(n)) <= 1
    <3>1. Occurrences(n) \subseteq {n}
      BY <2>2 DEF IInv, Exact, Occurrences
    <3>2. IsFiniteSet({n}) /\ Cardinality({n}) = 1
      BY FS_Singleton
    <3>3. QED
      BY <3>1, <3>2, FS_Subset
  <2>3. QED
    BY <2>1, <2>2 DEF NoGap
<1>2. QED
  BY <1>1, Inductive, PTL

=============================================================================
