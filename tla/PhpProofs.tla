------------------------------ MODULE PhpProofs ------------------------------
(***************************************************************************)
(* Proofs about the way to php-fpm: FastCGIPool, for every number of       *)
(* requests, connections and workers, and the scanner of CgiResponse, for  *)
(* every output and every way to cut it.                                   *)
(*                                                                         *)
(* Accounted and Bounded are inductive together: a handler that passes the *)
(* limit does so in the critical section that counts it.  OneOwner needs   *)
(* that a handler past Get has a connection, CleanReuse that its own       *)
(* connection is quiet before it sends and after it has read to the end.   *)
(*                                                                         *)
(* What the scanner has in its buffer begins at the beginning of a line    *)
(* (Buffered, AtLine): so the CRLF it takes for the empty line ends one,   *)
(* and is not before the end of the headers (PastHeaders).  And what it    *)
(* has kept is how the whole parser splits the output up to there (Kept),  *)
(* which with the next line is still a beginning of the header block's     *)
(* lines: so both parsers refuse it, or neither.                           *)
(***************************************************************************)
EXTENDS FastCGIPool, CgiResponse, FiniteSetTheorems, SequenceTheorems,
        WellFoundedInduction, TLAPS

\* A handler has a connection from the end of Get until Put.
HolderHasClient == \A r \in Requests : pc[r] \in Holding => client[r] \in Clients

Typed == TypeOK /\ HolderHasClient

Counted == Accounted /\ Bounded

\* What CleanReuse follows from.
Quiet ==
  /\ CleanReuse
  /\ \A r \in Requests : pc[r] \in {"have", "keep"} => chan[client[r]] = "quiet"
  /\ \A c \in Clients : php[c] = "none" => chan[c] = "quiet" /\ c \notin open

IInv == Typed /\ Counted /\ OneOwner /\ Quiet

-----------------------------------------------------------------------------
\* Taking the connection returned last leaves the others as they were.
LEMMA TakeLast ==
  ASSUME NEW s \in Seq(Clients), Len(s) > 0,
         NEW t, t = SubSeq(s, 1, Len(s) - 1)
  PROVE  /\ t \in Seq(Clients)
         /\ Len(t) = Len(s) - 1
         /\ \A i \in 1..(Len(s) - 1) : t[i] = s[i]
         /\ s[Len(s)] \in Clients
<1> DEFINE n == Len(s) - 1
<1>1. /\ n \in Nat
      /\ Len(s) = n + 1
      /\ s[Len(s)] \in Clients
  OBVIOUS
<1>2. t = SubSeq(s, 1, n)
  OBVIOUS
<1> HIDE DEF n
<1>3. \A i \in 1..n : s[i] \in Clients
  BY <1>1
<1>4. /\ SubSeq(s, 1, n) \in Seq(Clients)
      /\ Len(SubSeq(s, 1, n)) = n
      /\ \A i \in 1..n : SubSeq(s, 1, n)[i] = s[i]
  BY <1>1, <1>3, SubSeqProperties
<1>5. /\ t \in Seq(Clients)
      /\ Len(t) = n
      /\ \A i \in 1..n : t[i] = s[i]
  BY <1>2, <1>4, Zenon
<1>6. QED
  BY <1>1, <1>5 DEF n

\* Every step keeps the variables in their types.
LEMMA TypeStep == Typed /\ [Next]_vars => Typed'
<1> SUFFICES ASSUME Typed, [Next]_vars PROVE Typed'
  OBVIOUS
<1> USE PoolAssumption DEF Typed, TypeOK, HolderHasClient, Holding, Handling, Ends
<1>1. Len(idle) \in Nat
  OBVIOUS
<1>2. ASSUME NEW r \in Requests, GetClosed(r) PROVE Typed'
  BY <1>1, <1>2 DEF GetClosed, Goto
<1>3. ASSUME NEW r \in Requests, GetIdle(r) PROVE Typed'
  BY <1>1, <1>3, TakeLast DEF GetIdle, Goto
<1>4. ASSUME NEW r \in Requests, GetExhausted(r) PROVE Typed'
  BY <1>1, <1>4 DEF GetExhausted, ReapExpired, CloseAll, Goto
<1>5. ASSUME NEW r \in Requests, GetReserves(r) PROVE Typed'
  BY <1>1, <1>5 DEF GetReserves, ReapExpired, CloseAll, Goto
<1>6. ASSUME NEW r \in Requests, DialOk(r) PROVE Typed'
  BY <1>1, <1>6 DEF DialOk, Goto
<1>7. ASSUME NEW r \in Requests, DialFails(r) PROVE Typed'
  BY <1>1, <1>7 DEF DialFails, Goto
<1>8. ASSUME NEW r \in Requests, TooLarge(r) PROVE Typed'
  BY <1>1, <1>8 DEF TooLarge, Goto
<1>9. ASSUME NEW r \in Requests, Send(r) PROVE Typed'
  BY <1>1, <1>9 DEF Send, Goto
<1>10. ASSUME NEW r \in Requests, SendFails(r) PROVE Typed'
  BY <1>1, <1>10 DEF SendFails, Goto
<1>11. ASSUME NEW r \in Requests, ReadToEnd(r) PROVE Typed'
  BY <1>1, <1>11 DEF ReadToEnd, Goto
<1>12. ASSUME NEW r \in Requests, ReadBroken(r) PROVE Typed'
  BY <1>1, <1>12 DEF ReadBroken
<1>13. ASSUME NEW r \in Requests, GiveUp(r) PROVE Typed'
  BY <1>1, <1>13 DEF GiveUp
<1>14. ASSUME NEW r \in Requests, PutKeeps(r) PROVE Typed'
  BY <1>1, <1>14, AppendProperties DEF PutKeeps, Return
<1>15. ASSUME NEW r \in Requests, PutCloses(r) PROVE Typed'
  BY <1>1, <1>15 DEF PutCloses, Return, CloseAll
<1>16. ASSUME NEW c \in Clients, Accept(c) PROVE Typed'
  BY <1>1, <1>16 DEF Accept
<1>17. ASSUME NEW c \in Clients, Finish(c) PROVE Typed'
  BY <1>1, <1>17 DEF Finish, Running
<1>18. ASSUME NEW c \in Clients, WorkerExits(c) PROVE Typed'
  BY <1>1, <1>18 DEF WorkerExits, HangUp
<1>19. CASE Close
  BY <1>1, <1>19 DEF Close, CloseAll
<1>20. CASE Expire
  BY <1>1, <1>20 DEF Expire
<1>21. CASE FpmStops
  BY <1>1, <1>21 DEF FpmStops, HangUp
<1>22. CASE FpmStarts
  BY <1>1, <1>22 DEF FpmStarts
<1>23. CASE UNCHANGED vars
  BY <1>23 DEF vars
<1>24. QED
  BY <1>2, <1>3, <1>4, <1>5, <1>6, <1>7, <1>8, <1>9, <1>10, <1>11, <1>12, <1>13, <1>14, <1>15, <1>16, <1>17, <1>18, <1>19, <1>20, <1>21, <1>22, <1>23
     DEF Next, Get, Dial, Serve, Put

-----------------------------------------------------------------------------
\* What a handler's move does to the number of connections it stands for.
LEMMA CountOne ==
  ASSUME Typed, NEW r \in Requests, NEW to \in Handling, pc' = [pc EXCEPT ![r] = to]
  PROVE  /\ to \in Holding \cup {"dialing"} =>
              Cardinality(Outstanding') =
                IF r \in Outstanding THEN Cardinality(Outstanding)
                ELSE Cardinality(Outstanding) + 1
         /\ to \notin Holding \cup {"dialing"} =>
              Cardinality(Outstanding') =
                IF r \in Outstanding THEN Cardinality(Outstanding) - 1
                ELSE Cardinality(Outstanding)
<1>1. IsFiniteSet(Outstanding)
  BY PoolAssumption, FS_Subset DEF Outstanding
<1>2. Outstanding' = IF to \in Holding \cup {"dialing"}
                     THEN Outstanding \cup {r} ELSE Outstanding \ {r}
  BY DEF Typed, TypeOK, Outstanding, Holding, Handling
<1>3. ASSUME to \in Holding \cup {"dialing"}
      PROVE  Cardinality(Outstanding') =
               IF r \in Outstanding THEN Cardinality(Outstanding)
               ELSE Cardinality(Outstanding) + 1
  <2>1. Outstanding' = Outstanding \cup {r}
    BY <1>2, <1>3
  <2>2. QED
    BY <1>1, <2>1, FS_AddElement
<1>4. ASSUME to \notin Holding \cup {"dialing"}
      PROVE  Cardinality(Outstanding') =
               IF r \in Outstanding THEN Cardinality(Outstanding) - 1
               ELSE Cardinality(Outstanding)
  <2>1. Outstanding' = Outstanding \ {r}
    BY <1>2, <1>4
  <2>2. QED
    BY <1>1, <2>1, FS_RemoveElement
<1>5. QED
  BY <1>3, <1>4

\* Every step keeps the count and the bound.
LEMMA CountStep == Typed /\ Counted /\ [Next]_vars => Counted'
<1> SUFFICES ASSUME Typed, Counted, [Next]_vars PROVE Counted'
  OBVIOUS
<1>1. /\ Len(idle) \in Nat
      /\ expired \in 0..Len(idle)
      /\ activeCount \in Int
      /\ MaxActive \in Nat
      /\ Cardinality(Outstanding) \in Nat
      /\ Len(<<>>) = 0
      /\ \A r \in Requests : r \in Outstanding <=> pc[r] \in Holding \cup {"dialing"}
  BY PoolAssumption, FS_Subset, FS_CardinalityType DEF Typed, TypeOK, Outstanding
<1> USE DEF Counted, Accounted, Bounded
<1>2. ASSUME NEW r \in Requests, GetClosed(r) PROVE Counted'
  <2>1. /\ pc' = [pc EXCEPT ![r] = "done"]
        /\ "done" \in Handling /\ "done" \notin Holding \cup {"dialing"}
        /\ r \notin Outstanding
    BY <1>1, <1>2 DEF GetClosed, Goto, Holding, Handling
  <2>2. Cardinality(Outstanding') = Cardinality(Outstanding)
    BY <2>1, CountOne
  <2>3. UNCHANGED <<idle, activeCount, closed>>
    BY <1>2 DEF GetClosed, Goto
  <2>4. QED
    BY <1>1, <2>2, <2>3
<1>3. ASSUME NEW r \in Requests, GetIdle(r) PROVE Counted'
  <2>1. /\ pc' = [pc EXCEPT ![r] = "have"]
        /\ "have" \in Handling /\ "have" \in Holding \cup {"dialing"}
        /\ r \notin Outstanding
    BY <1>1, <1>3 DEF GetIdle, Goto, Holding, Handling
  <2>2. Cardinality(Outstanding') = Cardinality(Outstanding) + 1
    BY <2>1, CountOne
  <2>3. UNCHANGED <<activeCount, closed>>
    BY <1>3 DEF GetIdle, Goto
  <2>4. Len(idle) > 0 /\ idle \in Seq(Clients) /\ idle' = SubSeq(idle, 1, Len(idle) - 1)
    BY <1>1, <1>3 DEF GetIdle, Typed, TypeOK
  <2>5. Len(idle') = Len(idle) - 1
    BY ONLY <2>4, TakeLast
  <2>6. QED
    BY <1>1, <2>2, <2>3, <2>5
<1>4. ASSUME NEW r \in Requests, GetExhausted(r) PROVE Counted'
  <2>1. /\ pc' = [pc EXCEPT ![r] = "done"]
        /\ "done" \in Handling /\ "done" \notin Holding \cup {"dialing"}
        /\ r \notin Outstanding
    BY <1>1, <1>4 DEF GetExhausted, ReapExpired, CloseAll, Goto, Holding, Handling
  <2>2. Cardinality(Outstanding') = Cardinality(Outstanding)
    BY <2>1, CountOne
  <2>3. /\ idle' = <<>> /\ UNCHANGED closed
        /\ activeCount' = activeCount - Len(idle)
    BY <1>4 DEF GetExhausted, ReapExpired, CloseAll, Goto
  <2>4. QED
    BY <1>1, <2>2, <2>3
<1>5. ASSUME NEW r \in Requests, GetReserves(r) PROVE Counted'
  <2>1. /\ pc' = [pc EXCEPT ![r] = "dialing"]
        /\ "dialing" \in Handling /\ "dialing" \in Holding \cup {"dialing"}
        /\ r \notin Outstanding
    BY <1>1, <1>5 DEF GetReserves, ReapExpired, CloseAll, Goto, Holding, Handling
  <2>2. Cardinality(Outstanding') = Cardinality(Outstanding) + 1
    BY <2>1, CountOne
  <2>3. /\ idle' = <<>> /\ UNCHANGED closed /\ ~closed
        /\ activeCount - Len(idle) < MaxActive
        /\ activeCount' = activeCount - Len(idle) + 1
    BY <1>5 DEF GetReserves, ReapExpired, CloseAll, Goto
  <2>4. QED
    BY <1>1, <2>2, <2>3
<1>6. ASSUME NEW r \in Requests, DialOk(r) PROVE Counted'
  <2>1. /\ pc' = [pc EXCEPT ![r] = "have"]
        /\ "have" \in Handling /\ "have" \in Holding \cup {"dialing"}
        /\ r \in Outstanding
    BY <1>1, <1>6 DEF DialOk, Goto, Holding, Handling
  <2>2. Cardinality(Outstanding') = Cardinality(Outstanding)
    BY <2>1, CountOne
  <2>3. UNCHANGED <<idle, activeCount, closed>>
    BY <1>6 DEF DialOk, Goto
  <2>4. QED
    BY <1>1, <2>2, <2>3
<1>7. ASSUME NEW r \in Requests, DialFails(r) PROVE Counted'
  <2>1. /\ pc' = [pc EXCEPT ![r] = "done"]
        /\ "done" \in Handling /\ "done" \notin Holding \cup {"dialing"}
        /\ r \in Outstanding
    BY <1>1, <1>7 DEF DialFails, Goto, Holding, Handling
  <2>2. Cardinality(Outstanding') = Cardinality(Outstanding) - 1
    BY <2>1, CountOne
  <2>3. /\ UNCHANGED <<idle, closed>>
        /\ activeCount' = activeCount - 1
    BY <1>7 DEF DialFails, Goto
  <2>4. QED
    BY <1>1, <2>2, <2>3
<1>8. ASSUME NEW r \in Requests, TooLarge(r) PROVE Counted'
  <2>1. /\ pc' = [pc EXCEPT ![r] = "keep"]
        /\ "keep" \in Handling /\ "keep" \in Holding \cup {"dialing"}
        /\ r \in Outstanding
    BY <1>1, <1>8 DEF TooLarge, Goto, Holding, Handling
  <2>2. Cardinality(Outstanding') = Cardinality(Outstanding)
    BY <2>1, CountOne
  <2>3. UNCHANGED <<idle, activeCount, closed>>
    BY <1>8 DEF TooLarge, Goto
  <2>4. QED
    BY <1>1, <2>2, <2>3
<1>9. ASSUME NEW r \in Requests, Send(r) PROVE Counted'
  <2>1. /\ pc' = [pc EXCEPT ![r] = "sent"]
        /\ "sent" \in Handling /\ "sent" \in Holding \cup {"dialing"}
        /\ r \in Outstanding
    BY <1>1, <1>9 DEF Send, Goto, Holding, Handling
  <2>2. Cardinality(Outstanding') = Cardinality(Outstanding)
    BY <2>1, CountOne
  <2>3. UNCHANGED <<idle, activeCount, closed>>
    BY <1>9 DEF Send, Goto
  <2>4. QED
    BY <1>1, <2>2, <2>3
<1>10. ASSUME NEW r \in Requests, SendFails(r) PROVE Counted'
  <2>1. /\ pc' = [pc EXCEPT ![r] = "drop"]
        /\ "drop" \in Handling /\ "drop" \in Holding \cup {"dialing"}
        /\ r \in Outstanding
    BY <1>1, <1>10 DEF SendFails, Goto, Holding, Handling
  <2>2. Cardinality(Outstanding') = Cardinality(Outstanding)
    BY <2>1, CountOne
  <2>3. UNCHANGED <<idle, activeCount, closed>>
    BY <1>10 DEF SendFails, Goto
  <2>4. QED
    BY <1>1, <2>2, <2>3
<1>11. ASSUME NEW r \in Requests, ReadToEnd(r) PROVE Counted'
  <2>1. /\ pc' = [pc EXCEPT ![r] = "keep"]
        /\ "keep" \in Handling /\ "keep" \in Holding \cup {"dialing"}
        /\ r \in Outstanding
    BY <1>1, <1>11 DEF ReadToEnd, Goto, Holding, Handling
  <2>2. Cardinality(Outstanding') = Cardinality(Outstanding)
    BY <2>1, CountOne
  <2>3. UNCHANGED <<idle, activeCount, closed>>
    BY <1>11 DEF ReadToEnd, Goto
  <2>4. QED
    BY <1>1, <2>2, <2>3
<1>12. ASSUME NEW r \in Requests, ReadBroken(r) PROVE Counted'
  <2>1. PICK to \in {"keep", "drop"} : pc' = [pc EXCEPT ![r] = to]
    BY <1>12 DEF ReadBroken
  <2>2. /\ to \in Handling /\ to \in Holding \cup {"dialing"}
        /\ r \in Outstanding
        /\ UNCHANGED <<idle, activeCount, closed>>
    BY <1>1, <1>12, <2>1 DEF ReadBroken, Holding, Handling
  <2>3. Cardinality(Outstanding') = Cardinality(Outstanding)
    BY <2>1, <2>2, CountOne
  <2>4. QED
    BY <1>1, <2>2, <2>3
<1>13. ASSUME NEW r \in Requests, GiveUp(r) PROVE Counted'
  <2>1. /\ pc' = [pc EXCEPT ![r] = "drop"]
        /\ "drop" \in Handling /\ "drop" \in Holding \cup {"dialing"}
        /\ r \in Outstanding
    BY <1>1, <1>13 DEF GiveUp, Holding, Handling
  <2>2. Cardinality(Outstanding') = Cardinality(Outstanding)
    BY <2>1, CountOne
  <2>3. UNCHANGED <<idle, activeCount, closed>>
    BY <1>13 DEF GiveUp
  <2>4. QED
    BY <1>1, <2>2, <2>3
<1>14. ASSUME NEW r \in Requests, PutKeeps(r) PROVE Counted'
  <2>1. /\ pc' = [pc EXCEPT ![r] = "done"]
        /\ "done" \in Handling /\ "done" \notin Holding \cup {"dialing"}
        /\ r \in Outstanding
    BY <1>1, <1>14 DEF PutKeeps, Return, Holding, Handling
  <2>2. Cardinality(Outstanding') = Cardinality(Outstanding) - 1
    BY <2>1, CountOne
  <2>3. UNCHANGED <<activeCount, closed>>
    BY <1>14 DEF PutKeeps, Return
  <2>4. idle \in Seq(Clients) /\ client[r] \in Clients /\ idle' = Append(idle, client[r])
    BY <1>14 DEF PutKeeps, Typed, TypeOK, HolderHasClient, Holding
  <2>5. Len(idle') = Len(idle) + 1
    BY <2>4, AppendProperties
  <2>6. QED
    BY <1>1, <2>2, <2>3, <2>5
<1>15. ASSUME NEW r \in Requests, PutCloses(r) PROVE Counted'
  <2>1. /\ pc' = [pc EXCEPT ![r] = "done"]
        /\ "done" \in Handling /\ "done" \notin Holding \cup {"dialing"}
        /\ r \in Outstanding
    BY <1>1, <1>15 DEF PutCloses, Return, CloseAll, Holding, Handling
  <2>2. Cardinality(Outstanding') = Cardinality(Outstanding) - 1
    BY <2>1, CountOne
  <2>3. /\ UNCHANGED <<idle, closed>>
        /\ activeCount' = activeCount - 1
    BY <1>15 DEF PutCloses, Return, CloseAll
  <2>4. QED
    BY <1>1, <2>2, <2>3
<1>16. ASSUME NEW c \in Clients, Accept(c) PROVE Counted'
  <2>1. Outstanding' = Outstanding
    BY <1>16 DEF Accept, Outstanding
  <2>2. QED
    BY <1>1, <1>16, <2>1 DEF Accept
<1>17. ASSUME NEW c \in Clients, Finish(c) PROVE Counted'
  <2>1. Outstanding' = Outstanding
    BY <1>17 DEF Finish, Running, Outstanding
  <2>2. QED
    BY <1>1, <1>17, <2>1 DEF Finish, Running
<1>18. ASSUME NEW c \in Clients, WorkerExits(c) PROVE Counted'
  <2>1. Outstanding' = Outstanding
    BY <1>18 DEF WorkerExits, HangUp, Outstanding
  <2>2. QED
    BY <1>1, <1>18, <2>1 DEF WorkerExits, HangUp
<1>19. CASE Close
  <2>1. Outstanding' = Outstanding
    BY <1>19 DEF Close, CloseAll, Outstanding
  <2>2. QED
    BY <1>1, <1>19, <2>1 DEF Close, CloseAll
<1>20. CASE Expire
  <2>1. Outstanding' = Outstanding
    BY <1>20 DEF Expire, Outstanding
  <2>2. QED
    BY <1>1, <1>20, <2>1 DEF Expire
<1>21. CASE FpmStops
  <2>1. Outstanding' = Outstanding
    BY <1>21 DEF FpmStops, HangUp, Outstanding
  <2>2. QED
    BY <1>1, <1>21, <2>1 DEF FpmStops, HangUp
<1>22. CASE FpmStarts
  <2>1. Outstanding' = Outstanding
    BY <1>22 DEF FpmStarts, Outstanding
  <2>2. QED
    BY <1>1, <1>22, <2>1 DEF FpmStarts
<1>23. CASE UNCHANGED vars
  <2>1. Outstanding' = Outstanding
    BY <1>23 DEF vars, Outstanding
  <2>2. QED
    BY <1>23, <2>1 DEF vars
<1>24. QED
  BY <1>2, <1>3, <1>4, <1>5, <1>6, <1>7, <1>8, <1>9, <1>10, <1>11, <1>12, <1>13, <1>14, <1>15, <1>16, <1>17, <1>18, <1>19, <1>20, <1>21, <1>22, <1>23
     DEF Next, Get, Dial, Serve, Put

-----------------------------------------------------------------------------
\* A place before the last one.
LEMMA BelowLast ==
  ASSUME NEW n \in Nat, n > 0, NEW i \in 1..(n - 1)
  PROVE  i \in 1..n /\ n \in 1..n /\ i # n
OBVIOUS

\* Every step leaves each open connection with one owner.
LEMMA OwnerStep == Typed /\ OneOwner /\ [Next]_vars => OneOwner'
<1> SUFFICES ASSUME Typed, OneOwner, [Next]_vars PROVE OneOwner'
  OBVIOUS
<1>1. /\ idle \in Seq(Clients) /\ Len(idle) \in Nat
      /\ expired \in 0..Len(idle)
      /\ pc \in [Requests -> Handling]
      /\ client \in [Requests -> Clients \cup {Nobody}]
      /\ \A r \in Requests : pc[r] \in Holding => client[r] \in Clients
      /\ Nobody \notin Clients
      /\ DOMAIN idle = 1..Len(idle)
      /\ open \in SUBSET Clients
  BY PoolAssumption DEF Typed, TypeOK, HolderHasClient
<1> USE <1>1 DEF OneOwner, Holding
<1>2. ASSUME NEW r \in Requests, GetClosed(r) PROVE OneOwner'
  <2>1. /\ UNCHANGED <<idle, client, open, closed>>
        /\ \A q \in Requests : pc'[q] \in Holding <=> pc[q] \in Holding
    BY <1>2 DEF GetClosed, Goto
  <2>2. Held' = Held /\ InPool' = InPool
    BY <2>1 DEF Held, InPool
  <2>3. QED
    BY <2>1, <2>2
<1>3. ASSUME NEW r \in Requests, GetIdle(r) PROVE OneOwner'
  <2>1. /\ Len(idle) > 0 /\ idle' = SubSeq(idle, 1, Len(idle) - 1)
        /\ ~closed /\ closed' = closed
    BY <1>3 DEF GetIdle
  <2>2. /\ idle' \in Seq(Clients)
        /\ Len(idle') = Len(idle) - 1
        /\ \A i \in 1..(Len(idle) - 1) : idle'[i] = idle[i]
        /\ idle[Len(idle)] \in Clients
        /\ Len(idle) > 0
    BY ONLY <1>1, <2>1, TakeLast
  <2>3. /\ pc[r] = "new" /\ pc' = [pc EXCEPT ![r] = "have"]
        /\ client' = [client EXCEPT ![r] = idle[Len(idle)]]
        /\ open' = open
    BY <1>3 DEF GetIdle, Goto
  <2>4. DOMAIN idle' = 1..(Len(idle) - 1)
    BY <2>2
  <2>5. InPool' = InPool \ {idle[Len(idle)]}
    <3>1. ASSUME NEW c \in InPool'
          PROVE  c \in InPool \ {idle[Len(idle)]}
      <4>1. PICK i \in 1..(Len(idle) - 1) : c = idle'[i]
        BY <3>1, <2>4 DEF InPool
      <4>2. c = idle[i]
        BY <4>1, <2>2
      <4>3. i \in DOMAIN idle /\ i # Len(idle) /\ Len(idle) \in DOMAIN idle
        <5>1. Len(idle) \in Nat /\ Len(idle) > 0 /\ DOMAIN idle = 1..Len(idle)
          BY <1>1, <2>2
        <5>2. i \in 1..(Len(idle) - 1)
          OBVIOUS
        <5>3. QED
          BY <5>1, <5>2, BelowLast
      <4>4. idle[i] # idle[Len(idle)]
        BY <4>3
      <4>5. QED
        BY <4>2, <4>3, <4>4 DEF InPool
    <3>2. ASSUME NEW c \in InPool, c # idle[Len(idle)]
          PROVE  c \in InPool'
      <4>1. PICK i \in DOMAIN idle : c = idle[i]
        BY <3>2 DEF InPool
      <4>2. i \in 1..(Len(idle) - 1) /\ idle'[i] = c
        BY <4>1, <3>2, <2>2
      <4>3. QED
        BY <4>2, <2>4 DEF InPool
    <3>3. QED
      BY <3>1, <3>2
  <2>6. Held' = Held \cup {idle[Len(idle)]}
    BY <2>2, <2>3 DEF Held
  <2>7. idle[Len(idle)] \in InPool
    BY <2>1 DEF InPool
  <2>8. \A q \in Requests : pc[q] \in Holding => client[q] # idle[Len(idle)]
    BY <2>7 DEF Held
  <2>9. \A i, j \in DOMAIN idle' : idle'[i] = idle'[j] => i = j
    BY <2>1, <2>2, <2>4
  <2>10. \A p, q \in Requests :
           pc'[p] \in Holding /\ pc'[q] \in Holding /\ client'[p] = client'[q] => p = q
    BY <2>2, <2>3, <2>8
  <2>11. QED
    BY <2>1, <2>3, <2>5, <2>6, <2>7, <2>9, <2>10
<1>4. ASSUME NEW r \in Requests, GetExhausted(r) PROVE OneOwner'
  <2>1. /\ idle' = <<>> /\ open' = open \ InPool
        /\ client' = client
        /\ \A q \in Requests : pc'[q] \in Holding <=> pc[q] \in Holding
    BY <1>4 DEF GetExhausted, ReapExpired, CloseAll, Goto
  <2>2. Held' = Held
    BY <2>1 DEF Held
  <2>3. InPool' = {} /\ DOMAIN idle' = {}
    BY <2>1 DEF InPool
  <2>4. QED
    BY <2>1, <2>2, <2>3
<1>5. ASSUME NEW r \in Requests, GetReserves(r) PROVE OneOwner'
  <2>1. /\ idle' = <<>> /\ open' = open \ InPool
        /\ client' = client
        /\ \A q \in Requests : pc'[q] \in Holding <=> pc[q] \in Holding
    BY <1>5 DEF GetReserves, ReapExpired, CloseAll, Goto
  <2>2. Held' = Held
    BY <2>1 DEF Held
  <2>3. InPool' = {} /\ DOMAIN idle' = {}
    BY <2>1 DEF InPool
  <2>4. QED
    BY <2>1, <2>2, <2>3
<1>6. ASSUME NEW r \in Requests, DialOk(r) PROVE OneOwner'
  <2>1. PICK c \in Clients :
          /\ c \notin open
          /\ client' = [client EXCEPT ![r] = c]
          /\ open' = open \cup {c}
    BY <1>6 DEF DialOk
  <2>2. /\ pc[r] = "dialing" /\ pc' = [pc EXCEPT ![r] = "have"]
        /\ UNCHANGED <<idle, closed>>
    BY <1>6 DEF DialOk, Goto
  <2>3. Held' = Held \cup {c}
    BY <2>1, <2>2 DEF Held
  <2>4. InPool' = InPool
    BY <2>2 DEF InPool
  <2>5. \A q \in Requests : pc[q] \in Holding => client[q] # c
    BY <2>1 DEF Held
  <2>6. \A p, q \in Requests :
          pc'[p] \in Holding /\ pc'[q] \in Holding /\ client'[p] = client'[q] => p = q
    BY <2>1, <2>2, <2>5
  <2>7. QED
    BY <2>1, <2>2, <2>3, <2>4, <2>6
<1>7. ASSUME NEW r \in Requests, DialFails(r) PROVE OneOwner'
  <2>1. /\ UNCHANGED <<idle, client, open, closed>>
        /\ \A q \in Requests : pc'[q] \in Holding <=> pc[q] \in Holding
    BY <1>7 DEF DialFails, Goto
  <2>2. Held' = Held /\ InPool' = InPool
    BY <2>1 DEF Held, InPool
  <2>3. QED
    BY <2>1, <2>2
<1>8. ASSUME NEW r \in Requests, TooLarge(r) PROVE OneOwner'
  <2>1. /\ UNCHANGED <<idle, client, open, closed>>
        /\ \A q \in Requests : pc'[q] \in Holding <=> pc[q] \in Holding
    BY <1>8 DEF TooLarge, Goto
  <2>2. Held' = Held /\ InPool' = InPool
    BY <2>1 DEF Held, InPool
  <2>3. QED
    BY <2>1, <2>2
<1>9. ASSUME NEW r \in Requests, Send(r) PROVE OneOwner'
  <2>1. /\ UNCHANGED <<idle, client, open, closed>>
        /\ \A q \in Requests : pc'[q] \in Holding <=> pc[q] \in Holding
    BY <1>9 DEF Send, Goto
  <2>2. Held' = Held /\ InPool' = InPool
    BY <2>1 DEF Held, InPool
  <2>3. QED
    BY <2>1, <2>2
<1>10. ASSUME NEW r \in Requests, SendFails(r) PROVE OneOwner'
  <2>1. /\ UNCHANGED <<idle, client, open, closed>>
        /\ \A q \in Requests : pc'[q] \in Holding <=> pc[q] \in Holding
    BY <1>10 DEF SendFails, Goto
  <2>2. Held' = Held /\ InPool' = InPool
    BY <2>1 DEF Held, InPool
  <2>3. QED
    BY <2>1, <2>2
<1>11. ASSUME NEW r \in Requests, ReadToEnd(r) PROVE OneOwner'
  <2>1. /\ UNCHANGED <<idle, client, open, closed>>
        /\ \A q \in Requests : pc'[q] \in Holding <=> pc[q] \in Holding
    BY <1>11 DEF ReadToEnd, Goto
  <2>2. Held' = Held /\ InPool' = InPool
    BY <2>1 DEF Held, InPool
  <2>3. QED
    BY <2>1, <2>2
<1>12. ASSUME NEW r \in Requests, ReadBroken(r) PROVE OneOwner'
  <2>1. /\ UNCHANGED <<idle, client, open, closed>>
        /\ \A q \in Requests : pc'[q] \in Holding <=> pc[q] \in Holding
    BY <1>12 DEF ReadBroken
  <2>2. Held' = Held /\ InPool' = InPool
    BY <2>1 DEF Held, InPool
  <2>3. QED
    BY <2>1, <2>2
<1>13. ASSUME NEW r \in Requests, GiveUp(r) PROVE OneOwner'
  <2>1. /\ UNCHANGED <<idle, client, open, closed>>
        /\ \A q \in Requests : pc'[q] \in Holding <=> pc[q] \in Holding
    BY <1>13 DEF GiveUp
  <2>2. Held' = Held /\ InPool' = InPool
    BY <2>1 DEF Held, InPool
  <2>3. QED
    BY <2>1, <2>2
<1>14. ASSUME NEW r \in Requests, PutKeeps(r) PROVE OneOwner'
  <2>1. /\ pc[r] \in {"keep", "drop"} /\ pc' = [pc EXCEPT ![r] = "done"]
        /\ client' = [client EXCEPT ![r] = Nobody]
        /\ client[r] \in Clients
    BY <1>14 DEF PutKeeps, PutCloses, Return
  <2>2. Held' = Held \ {client[r]} /\ client[r] \in Held
    BY <2>1 DEF Held
  <2>3. \A p, q \in Requests :
          pc'[p] \in Holding /\ pc'[q] \in Holding /\ client'[p] = client'[q] => p = q
    BY <2>1
  <2>4. /\ ~closed /\ UNCHANGED <<open, closed>>
        /\ idle' = Append(idle, client[r])
    BY <1>14 DEF PutKeeps, Return
  <2>5. /\ idle' \in Seq(Clients)
        /\ Len(idle') = Len(idle) + 1
        /\ \A i \in 1..Len(idle) : idle'[i] = idle[i]
        /\ idle'[Len(idle) + 1] = client[r]
    BY ONLY <1>1, <2>1, <2>4, AppendProperties
  <2>6. DOMAIN idle' = 1..(Len(idle) + 1)
    BY <2>5
  <2>7. InPool' = InPool \cup {client[r]}
    BY <2>5, <2>6 DEF InPool
  <2>8. \A i \in DOMAIN idle : idle[i] # client[r]
    BY <2>2 DEF InPool
  <2>9. \A i, j \in DOMAIN idle' : idle'[i] = idle'[j] => i = j
    BY <2>5, <2>6, <2>8
  <2>10. QED
    BY <2>2, <2>3, <2>4, <2>7, <2>9
<1>15. ASSUME NEW r \in Requests, PutCloses(r) PROVE OneOwner'
  <2>1. /\ pc[r] \in {"keep", "drop"} /\ pc' = [pc EXCEPT ![r] = "done"]
        /\ client' = [client EXCEPT ![r] = Nobody]
        /\ client[r] \in Clients
    BY <1>15 DEF PutKeeps, PutCloses, Return
  <2>2. Held' = Held \ {client[r]} /\ client[r] \in Held
    BY <2>1 DEF Held
  <2>3. \A p, q \in Requests :
          pc'[p] \in Holding /\ pc'[q] \in Holding /\ client'[p] = client'[q] => p = q
    BY <2>1
  <2>4. UNCHANGED <<idle, closed>> /\ open' = open \ {client[r]}
    BY <1>15 DEF PutCloses, CloseAll, Return
  <2>5. InPool' = InPool
    BY <2>4 DEF InPool
  <2>6. QED
    BY <2>2, <2>3, <2>4, <2>5
<1>16. ASSUME NEW c \in Clients, Accept(c) PROVE OneOwner'
  <2>1. /\ UNCHANGED <<idle, client, open, closed>>
        /\ \A q \in Requests : pc'[q] \in Holding <=> pc[q] \in Holding
    BY <1>16 DEF Accept
  <2>2. Held' = Held /\ InPool' = InPool
    BY <2>1 DEF Held, InPool
  <2>3. QED
    BY <2>1, <2>2
<1>17. ASSUME NEW c \in Clients, Finish(c) PROVE OneOwner'
  <2>1. /\ UNCHANGED <<idle, client, open, closed>>
        /\ \A q \in Requests : pc'[q] \in Holding <=> pc[q] \in Holding
    BY <1>17 DEF Finish, Running
  <2>2. Held' = Held /\ InPool' = InPool
    BY <2>1 DEF Held, InPool
  <2>3. QED
    BY <2>1, <2>2
<1>18. ASSUME NEW c \in Clients, WorkerExits(c) PROVE OneOwner'
  <2>1. /\ UNCHANGED <<idle, client, open, closed>>
        /\ \A q \in Requests : pc'[q] \in Holding <=> pc[q] \in Holding
    BY <1>18 DEF WorkerExits, HangUp
  <2>2. Held' = Held /\ InPool' = InPool
    BY <2>1 DEF Held, InPool
  <2>3. QED
    BY <2>1, <2>2
<1>19. CASE Close
  <2>1. /\ idle' = <<>> /\ open' = open \ InPool
        /\ client' = client
        /\ \A q \in Requests : pc'[q] \in Holding <=> pc[q] \in Holding
    BY <1>19 DEF Close, CloseAll
  <2>2. Held' = Held
    BY <2>1 DEF Held
  <2>3. InPool' = {} /\ DOMAIN idle' = {}
    BY <2>1 DEF InPool
  <2>4. QED
    BY <2>1, <2>2, <2>3
<1>20. CASE Expire
  <2>1. /\ UNCHANGED <<idle, client, open, closed>>
        /\ \A q \in Requests : pc'[q] \in Holding <=> pc[q] \in Holding
    BY <1>20 DEF Expire
  <2>2. Held' = Held /\ InPool' = InPool
    BY <2>1 DEF Held, InPool
  <2>3. QED
    BY <2>1, <2>2
<1>21. CASE FpmStops
  <2>1. /\ UNCHANGED <<idle, client, open, closed>>
        /\ \A q \in Requests : pc'[q] \in Holding <=> pc[q] \in Holding
    BY <1>21 DEF FpmStops, HangUp
  <2>2. Held' = Held /\ InPool' = InPool
    BY <2>1 DEF Held, InPool
  <2>3. QED
    BY <2>1, <2>2
<1>22. CASE FpmStarts
  <2>1. /\ UNCHANGED <<idle, client, open, closed>>
        /\ \A q \in Requests : pc'[q] \in Holding <=> pc[q] \in Holding
    BY <1>22 DEF FpmStarts
  <2>2. Held' = Held /\ InPool' = InPool
    BY <2>1 DEF Held, InPool
  <2>3. QED
    BY <2>1, <2>2
<1>23. CASE UNCHANGED vars
  <2>1. /\ UNCHANGED <<idle, client, open, closed>>
        /\ \A q \in Requests : pc'[q] \in Holding <=> pc[q] \in Holding
    BY <1>23 DEF vars
  <2>2. Held' = Held /\ InPool' = InPool
    BY <2>1 DEF Held, InPool
  <2>3. QED
    BY <2>1, <2>2
<1>24. QED
  BY <1>2, <1>3, <1>4, <1>5, <1>6, <1>7, <1>8, <1>9, <1>10, <1>11, <1>12, <1>13, <1>14, <1>15, <1>16, <1>17, <1>18, <1>19, <1>20, <1>21, <1>22, <1>23
     DEF Next, Get, Dial, Serve, Put

-----------------------------------------------------------------------------
\* Every step leaves the connections in the pool with nothing to read.
LEMMA QuietStep == Typed /\ OneOwner /\ Quiet /\ [Next]_vars => Quiet'
<1> SUFFICES ASSUME Typed, OneOwner, Quiet, [Next]_vars PROVE Quiet'
  OBVIOUS
<1>1. /\ idle \in Seq(Clients) /\ Len(idle) \in Nat
      /\ expired \in 0..Len(idle)
      /\ pc \in [Requests -> Handling]
      /\ client \in [Requests -> Clients \cup {Nobody}]
      /\ chan \in [Clients -> {"quiet", "asked", "answered"}]
      /\ php \in [Clients -> Ends]
      /\ \A r \in Requests : pc[r] \in Holding => client[r] \in Clients
      /\ InPool \subseteq Clients
      /\ DOMAIN idle = 1..Len(idle)
  BY DEF Typed, TypeOK, HolderHasClient, InPool
<1>2. /\ InPool \cap Held = {}
      /\ \A q \in Requests : pc[q] \in Holding => client[q] \in Held
      /\ \A q, r \in Requests :
           pc[q] \in Holding /\ pc[r] \in Holding /\ client[q] = client[r] => q = r
      /\ open = InPool \cup Held
  BY DEF OneOwner, Held
<1> USE <1>1, <1>2 DEF Quiet, CleanReuse, Holding
<1>3. ASSUME NEW r \in Requests, GetClosed(r) PROVE Quiet'
  BY <1>3 DEF GetClosed, Goto, InPool
<1>4. ASSUME NEW r \in Requests, GetIdle(r) PROVE Quiet'
  <2>1. /\ Len(idle) > 0 /\ idle' = SubSeq(idle, 1, Len(idle) - 1)
        /\ pc' = [pc EXCEPT ![r] = "have"]
        /\ client' = [client EXCEPT ![r] = idle[Len(idle)]]
        /\ UNCHANGED <<chan, php, open>>
    BY <1>4 DEF GetIdle, Goto
  <2>2. /\ idle' \in Seq(Clients)
        /\ Len(idle') = Len(idle) - 1
        /\ \A i \in 1..(Len(idle) - 1) : idle'[i] = idle[i]
    BY ONLY <1>1, <2>1, TakeLast
  <2>3. InPool' \subseteq InPool /\ idle[Len(idle)] \in InPool
    <3>1. DOMAIN idle' = 1..(Len(idle) - 1)
      BY <2>2
    <3>2. ASSUME NEW c \in InPool' PROVE c \in InPool
      <4>1. PICK i \in 1..(Len(idle) - 1) : c = idle'[i]
        BY <3>1, <3>2 DEF InPool
      <4>2. c = idle[i] /\ i \in DOMAIN idle
        BY <4>1, <2>2
      <4>3. QED
        BY <4>2 DEF InPool
    <3>3. QED
      BY <3>2, <2>1 DEF InPool
  <2>4. QED
    BY <2>1, <2>3
<1>5. ASSUME NEW r \in Requests, GetExhausted(r) PROVE Quiet'
  <2>1. /\ InPool' = {}
        /\ client' = client /\ pc' = [pc EXCEPT ![r] = "done"]
        /\ chan' = [c \in Clients |-> IF c \in {b \in InPool : ~Running(b)} THEN "quiet" ELSE chan[c]]
        /\ php' = [c \in Clients |-> IF c \in {b \in InPool : ~Running(b)} THEN "none" ELSE php[c]]
        /\ open' = open \ InPool
    BY <1>5 DEF GetExhausted, ReapExpired, CloseAll, Goto, InPool
  <2>2. QED
    BY <2>1
<1>6. ASSUME NEW r \in Requests, GetReserves(r) PROVE Quiet'
  <2>1. /\ InPool' = {}
        /\ client' = client /\ pc' = [pc EXCEPT ![r] = "dialing"]
        /\ chan' = [c \in Clients |-> IF c \in {b \in InPool : ~Running(b)} THEN "quiet" ELSE chan[c]]
        /\ php' = [c \in Clients |-> IF c \in {b \in InPool : ~Running(b)} THEN "none" ELSE php[c]]
        /\ open' = open \ InPool
    BY <1>6 DEF GetReserves, ReapExpired, CloseAll, Goto, InPool
  <2>2. QED
    BY <2>1
<1>7. ASSUME NEW r \in Requests, DialOk(r) PROVE Quiet'
  <2>1. PICK c \in Clients :
          /\ php[c] = "none"
          /\ client' = [client EXCEPT ![r] = c]
          /\ php' = [php EXCEPT ![c] = "queued"]
          /\ open' = open \cup {c}
    BY <1>7 DEF DialOk
  <2>2. /\ pc' = [pc EXCEPT ![r] = "have"]
        /\ UNCHANGED <<idle, chan>>
    BY <1>7 DEF DialOk, Goto
  <2>3. QED
    BY <2>1, <2>2 DEF InPool
<1>8. ASSUME NEW r \in Requests, DialFails(r) PROVE Quiet'
  BY <1>8 DEF DialFails, Goto, InPool
<1>9. ASSUME NEW r \in Requests, TooLarge(r) PROVE Quiet'
  BY <1>9 DEF TooLarge, Goto, InPool
<1>10. ASSUME NEW r \in Requests, Send(r) PROVE Quiet'
  BY <1>10 DEF Send, Goto, InPool
<1>11. ASSUME NEW r \in Requests, SendFails(r) PROVE Quiet'
  BY <1>11 DEF SendFails, Goto, InPool
<1>12. ASSUME NEW r \in Requests, ReadToEnd(r) PROVE Quiet'
  BY <1>12 DEF ReadToEnd, Goto, InPool
<1>13. ASSUME NEW r \in Requests, ReadBroken(r) PROVE Quiet'
  <2>1. PICK to \in {"keep", "drop"} : pc' = [pc EXCEPT ![r] = to]
    BY <1>13 DEF ReadBroken
  <2>2. /\ pc[r] = "sent" /\ UNCHANGED <<idle, client, php, open>>
        /\ chan' = [chan EXCEPT ![client[r]] = "quiet"]
    BY <1>13 DEF ReadBroken
  <2>3. QED
    BY <2>1, <2>2 DEF InPool
<1>14. ASSUME NEW r \in Requests, GiveUp(r) PROVE Quiet'
  BY <1>14 DEF GiveUp, InPool
<1>15. ASSUME NEW r \in Requests, PutKeeps(r) PROVE Quiet'
  <2>1. /\ pc[r] = "keep" /\ pc' = [pc EXCEPT ![r] = "done"]
        /\ client' = [client EXCEPT ![r] = Nobody]
        /\ idle' = Append(idle, client[r])
        /\ UNCHANGED <<chan, php, open>>
    BY <1>15 DEF PutKeeps, Return
  <2>2. /\ idle' \in Seq(Clients)
        /\ Len(idle') = Len(idle) + 1
        /\ \A i \in 1..Len(idle) : idle'[i] = idle[i]
        /\ idle'[Len(idle) + 1] = client[r]
    BY <2>1, AppendProperties
  <2>3. DOMAIN idle' = 1..(Len(idle) + 1)
    BY <2>2
  <2>4. InPool' \subseteq InPool \cup {client[r]}
    BY <2>2, <2>3 DEF InPool
  <2>5. QED
    BY <2>1, <2>4
<1>16. ASSUME NEW r \in Requests, PutCloses(r) PROVE Quiet'
  BY <1>16 DEF PutCloses, Return, CloseAll, InPool
<1>17. ASSUME NEW c \in Clients, Accept(c) PROVE Quiet'
  BY <1>17 DEF Accept, InPool
<1>18. ASSUME NEW c \in Clients, Finish(c) PROVE Quiet'
  BY <1>18 DEF Finish, Running, InPool
<1>19. ASSUME NEW c \in Clients, WorkerExits(c) PROVE Quiet'
  BY <1>19 DEF WorkerExits, HangUp, InPool
<1>20. CASE Close
  <2>1. /\ InPool' = {}
        /\ UNCHANGED <<pc, client>>
        /\ chan' = [c \in Clients |-> IF c \in {b \in InPool : ~Running(b)} THEN "quiet" ELSE chan[c]]
        /\ php' = [c \in Clients |-> IF c \in {b \in InPool : ~Running(b)} THEN "none" ELSE php[c]]
        /\ open' = open \ InPool
    BY <1>20 DEF Close, CloseAll, InPool
  <2>2. QED
    BY <2>1
<1>21. CASE Expire
  BY <1>21 DEF Expire, InPool
<1>22. CASE FpmStops
  BY <1>22 DEF FpmStops, HangUp, InPool
<1>23. CASE FpmStarts
  BY <1>23 DEF FpmStarts, InPool
<1>24. CASE UNCHANGED vars
  BY <1>24 DEF vars, InPool
<1>25. QED
  BY <1>3, <1>4, <1>5, <1>6, <1>7, <1>8, <1>9, <1>10, <1>11, <1>12, <1>13, <1>14, <1>15, <1>16, <1>17, <1>18, <1>19, <1>20, <1>21, <1>22, <1>23, <1>24
     DEF Next, Get, Dial, Serve, Put

-----------------------------------------------------------------------------
\* The invariant holds of every reachable state.
THEOREM Inductive == Spec => []IInv
<1>1. Init => IInv
  <2> SUFFICES ASSUME Init PROVE IInv
    OBVIOUS
  <2>1. Len(<<>>) = 0 /\ <<>> \in Seq(Clients) /\ DOMAIN <<>> = {}
    OBVIOUS
  <2>2. InPool = {} /\ Held = {} /\ Outstanding = {}
    BY <2>1 DEF Init, InPool, Held, Outstanding, Holding
  <2>3. TypeOK
    <3>1. idle \in Seq(Clients) /\ Len(idle) <= MaxIdle /\ expired \in 0..Len(idle)
      BY <2>1, PoolAssumption DEF Init
    <3>2. activeCount \in Int
      BY DEF Init
    <3>7. closed \in BOOLEAN /\ fpm \in BOOLEAN
      BY Zenon DEF Init
    <3>3. pc \in [Requests -> Handling] /\ client \in [Requests -> Clients \cup {Nobody}]
      BY DEF Init, Handling
    <3>4. chan \in [Clients -> {"quiet", "asked", "answered"}] /\ php \in [Clients -> Ends]
      BY DEF Init, Ends
    <3>5. open \in SUBSET Clients
      BY DEF Init
    <3>6. QED
      BY <3>1, <3>2, <3>3, <3>4, <3>5, <3>7 DEF TypeOK
  <2>8. Typed
    BY <2>3 DEF Init, Typed, HolderHasClient, Holding
  <2>4. Counted
    BY <2>1, <2>2, PoolAssumption, FS_EmptySet DEF Init, Counted, Accounted, Bounded
  <2>5. OneOwner
    BY <2>1, <2>2 DEF Init, OneOwner, Holding
  <2>6. Quiet
    BY <2>2 DEF Init, Quiet, CleanReuse
  <2>7. QED
    BY <2>4, <2>5, <2>6, <2>8 DEF IInv
<1>2. IInv /\ [Next]_vars => IInv'
  BY TypeStep, CountStep, OwnerStep, QuietStep DEF IInv
<1>3. QED
  BY <1>1, <1>2, PTL DEF Spec

\* Every variable keeps its type; the pool is never over MaxIdle.
THEOREM TypeCorrect == Spec => []TypeOK
<1>1. IInv => TypeOK
  BY DEF IInv, Typed
<1>2. QED
  BY <1>1, Inductive, PTL

\* The count is of what it limits.
THEOREM CountHolds == Spec => []Accounted
<1>1. IInv => Accounted
  BY DEF IInv, Counted
<1>2. QED
  BY <1>1, Inductive, PTL

\* The limit holds: no more than MaxActive connections are pooled, borrowed or being dialled.
THEOREM BoundHolds == Spec => []Bounded
<1>1. IInv => Bounded
  BY DEF IInv, Counted
<1>2. QED
  BY <1>1, Inductive, PTL

\* No connection leaks, and none is shared.
THEOREM OneOwnerHolds == Spec => []OneOwner
<1>1. IInv => OneOwner
  BY DEF IInv
<1>2. QED
  BY <1>1, Inductive, PTL

\* A connection is reused only when the response before was read to its end.
THEOREM CleanReuseHolds == Spec => []CleanReuse
<1>1. IInv => CleanReuse
  BY DEF IInv, Quiet
<1>2. QED
  BY <1>1, Inductive, PTL
-----------------------------------------------------------------------------
(* Induction over numbers, by the least that fails, and recursion by induction *)

\* Of some numbers one is the least.
LEMMA Least ==
  ASSUME NEW S \in SUBSET Nat, S # {}
  PROVE  \E m \in S : \A k \in S : m <= k
<1> DEFINE less == OpToRel(LAMBDA m, n : m < n, Nat)
<1>1. IsWellFoundedOn(less, Nat)
  BY NatLessThanWellFounded DEF less
<1>2. PICK r \in S : \A s \in S : <<s, r>> \notin less
  BY <1>1, WFMin
<1>3. \A m, n \in Nat : m < n => <<m, n>> \in less
  BY DEF OpToRel
<1>4. \A s \in S : r <= s
  <2> HIDE DEF less
  <2>1. ASSUME NEW s \in S PROVE r <= s
    <3>1. s \in Nat /\ r \in Nat /\ <<s, r>> \notin less
      BY <1>2
    <3>2. ~(s < r)
      BY <1>3, <3>1, Zenon
    <3>3. QED
      BY <3>1, <3>2
  <2>2. QED
    BY <2>1
<1>5. QED
  BY <1>4

\* Induction: what holds of 0, and of k + 1 if of k, holds up to n.
LEMMA Climb ==
  ASSUME NEW n \in Nat, NEW S, 0 \in S, \A k \in 0..n - 1 : k \in S => k + 1 \in S
  PROVE  \A k \in 0..n : k \in S
<1> SUFFICES ASSUME NEW k \in 0..n, k \notin S PROVE FALSE
  OBVIOUS
<1> DEFINE bad == {i \in 0..n : i \notin S}
<1>1. PICK m \in bad : \A i \in bad : m <= i
  <2>1. bad \in SUBSET Nat /\ bad # {}
    OBVIOUS
  <2> HIDE DEF bad
  <2>2. QED
    BY <2>1, Least
<1>2. m # 0 /\ m \in 0..n /\ m \notin S
  OBVIOUS
<1>3. m - 1 \in 0..n - 1 /\ m - 1 \notin bad
  BY <1>1, <1>2
<1>4. m - 1 \in S
  BY <1>3
<1>5. QED
  BY <1>2, <1>3, <1>4

\* The end of such a climb.
LEMMA ClimbTo ==
  ASSUME NEW n \in Nat, NEW S, 0 \in S, \A k \in 0..n - 1 : k \in S => k + 1 \in S
  PROVE  n \in S
BY Climb

\* g begins with base and takes a step for every number.
Steps(g, n, base, step) == g = [i \in 0..n |-> IF i = 0 THEN base ELSE step[i][g[i - 1]]]

\* Primitive recursion: the function that takes a step for every number exists.
LEMMA Recursion ==
  ASSUME NEW n \in Nat, NEW V, NEW base \in V, NEW step \in [1..n -> [V -> V]]
  PROVE  \E g : g \in [0..n -> V] /\ Steps(g, n, base, step)
<1> DEFINE Solves(g, k) == g \in [0..k -> V] /\ g[0] = base /\ \A i \in 1..k : g[i] = step[i][g[i - 1]]
           S == {k \in Nat : \E g : Solves(g, k)}
<1>1. 0 \in S
  <2>1. Solves([i \in 0..0 |-> base], 0)
    OBVIOUS
  <2>2. QED
    BY <2>1
<1>2. ASSUME NEW k \in 0..n - 1, k \in S PROVE k + 1 \in S
  <2>1. PICK g : Solves(g, k)
    BY <1>2
  <2>2. PICK h : h = [i \in 0..k + 1 |-> IF i = k + 1 THEN step[k + 1][g[k]] ELSE g[i]]
    OBVIOUS
  <2>3. g[k] \in V /\ step[k + 1] \in [V -> V]
    BY <2>1
  <2>4. h \in [0..k + 1 -> V]
    BY <2>1, <2>2, <2>3
  <2>5. h[0] = base
    BY <2>1, <2>2
  <2>6. ASSUME NEW i \in 1..k + 1 PROVE h[i] = step[i][h[i - 1]]
    <3>1. CASE i = k + 1
      BY <2>2, <3>1
    <3>2. CASE i # k + 1
      <4>1. i \in 1..k /\ i - 1 \in 0..k /\ i - 1 # k + 1
        BY <3>2
      <4>2. h[i] = g[i] /\ h[i - 1] = g[i - 1]
        BY <2>2, <3>2, <4>1
      <4>3. QED
        BY <2>1, <4>1, <4>2
    <3>3. QED
      BY <3>1, <3>2
  <2>7. Solves(h, k + 1)
    BY <2>4, <2>5, <2>6
  <2>8. k + 1 \in Nat /\ \E f : Solves(f, k + 1)
    <3> HIDE DEF Solves
    <3>1. QED
      BY <2>7
  <2>9. QED
    BY <2>8
<1>3. n \in S
  <2> HIDE DEF S
  <2>1. \A k \in 0..n : k \in S
    BY <1>1, <1>2, Climb
  <2>2. QED
    BY <2>1
<1>4. PICK g : Solves(g, n)
  BY <1>3
<1>5. g = [i \in 0..n |-> IF i = 0 THEN base ELSE step[i][g[i - 1]]]
  <2>1. PICK h : h = [i \in 0..n |-> IF i = 0 THEN base ELSE step[i][g[i - 1]]]
    OBVIOUS
  <2>2. \A i \in 0..n : h[i] = g[i]
    BY <1>4, <2>1
  <2>3. g = [i \in 0..n |-> g[i]] /\ h = [i \in 0..n |-> h[i]]
    BY <1>4, <2>1
  <2>4. g = h
    BY <2>2, <2>3
  <2>5. QED
    BY <2>1, <2>4
<1>6. QED
  BY <1>4, <1>5 DEF Steps

\* Two functions that start alike and go on alike end alike.
LEMMA Agree ==
  ASSUME NEW n \in Nat, NEW u, NEW w, u[0] = w[0], \A k \in 0..n - 1 : u[k] = w[k] => u[k + 1] = w[k + 1]
  PROVE  u[n] = w[n]
<1>1. PICK S : S = {k \in 0..n : u[k] = w[k]}
  OBVIOUS
<1>2. 0 \in S
  BY <1>1
<1>3. \A k \in 0..n - 1 : k \in S => k + 1 \in S
  BY <1>1
<1>4. n \in S
  BY <1>2, <1>3, ClimbTo
<1>5. QED
  BY <1>1, <1>4

-----------------------------------------------------------------------------
(* CgiResponse *)

\* The first of some positions is one of them, and none comes before it.
LEMMA FirstIsLeast ==
  ASSUME NEW positions \in SUBSET Nat, positions # {}
  PROVE  First(positions) \in positions /\ \A i \in positions : First(positions) <= i
BY Least, Zenon DEF First

\* What CRLF and the empty line are made of.
LEMMA EndSymbols ==
  /\ CRLF \in Seq({CR, LF}) /\ Len(CRLF) = 2 /\ CRLF[1] = CR /\ CRLF[2] = LF
  /\ Terminator \in Seq({CR, LF}) /\ Len(Terminator) = 4
  /\ Terminator[1] = CR /\ Terminator[2] = LF /\ Terminator[3] = CR /\ Terminator[4] = LF
<1>1. PICK c, l : c = CR /\ l = LF
  OBVIOUS
<1>2. CRLF = <<c, l>>
  BY <1>1 DEF CRLF
<1>3. CRLF \in Seq({c, l}) /\ Len(CRLF) = 2 /\ CRLF[1] = c /\ CRLF[2] = l
  BY <1>2
<1>4. PICK w, t : w \in Seq({c, l}) /\ w = CRLF /\ t = w \o w
  BY <1>3
<1>5. t \in Seq({c, l}) /\ Len(t) = 4 /\ t[1] = c /\ t[2] = l /\ t[3] = c /\ t[4] = l
  <2>1. Len(w) = 2 /\ w[1] = c /\ w[2] = l
    BY <1>3, <1>4
  <2>2. /\ w \o w \in Seq({c, l}) /\ Len(w \o w) = Len(w) + Len(w)
        /\ \A i \in 1..Len(w) + Len(w) : (w \o w)[i] = IF i <= Len(w) THEN w[i] ELSE w[i - Len(w)]
    BY <1>4, ConcatProperties
  <2>3. t \in Seq({c, l}) /\ Len(t) = 4 /\ \A i \in 1..4 : t[i] = IF i <= 2 THEN w[i] ELSE w[i - 2]
    BY <1>4, <2>1, <2>2
  <2>4. t[1] = w[1] /\ t[2] = w[2] /\ t[3] = w[1] /\ t[4] = w[2]
    BY <2>3
  <2>5. QED
    BY <2>1, <2>3, <2>4
<1>6. QED
  BY <1>1, <1>3, <1>4, <1>5 DEF Terminator

\* Where a CRLF, an empty line and the end of one are found.
LEMMA CRLFAt ==
  ASSUME NEW S, NEW s \in Seq(S), NEW i \in Nat
  PROVE  /\ i \in Occurrences(CRLF, s) => i \in 1..Len(s) - 1 /\ s[i] = CR /\ s[i + 1] = LF
         /\ i \in Occurrences(Terminator, s) => i \in 1..Len(s) - 3
         /\ i \in 1..Len(s) - 3 /\ s[i] = CR /\ s[i + 1] = LF /\ s[i + 2] = CR /\ s[i + 3] = LF
            => i \in Occurrences(Terminator, s)
         /\ IsPrefix(CRLF, s) <=> Len(s) >= 2 /\ s[1] = CR /\ s[2] = LF
<1>1. ASSUME i \in Occurrences(CRLF, s) PROVE i \in 1..Len(s) - 1 /\ s[i] = CR /\ s[i + 1] = LF
  <2>1. i \in 1..Len(s) - 1 /\ SubSeq(s, i, i + 1) = CRLF
    BY <1>1, EndSymbols DEF Occurrences
  <2>2. SubSeq(s, i, i + 1)[1] = s[i] /\ SubSeq(s, i, i + 1)[2] = s[i + 1]
    BY <2>1
  <2>3. QED
    BY <2>1, <2>2, EndSymbols, Zenon
<1>2. i \in Occurrences(Terminator, s) => i \in 1..Len(s) - 3
  BY EndSymbols DEF Occurrences
<1>3. ASSUME i \in 1..Len(s) - 3, s[i] = CR, s[i + 1] = LF, s[i + 2] = CR, s[i + 3] = LF
      PROVE  i \in Occurrences(Terminator, s)
  <2>1. PICK part : part = SubSeq(s, i, i + 3)
    OBVIOUS
  <2>2. part \in Seq(S) /\ Len(part) = 4 /\ part[1] = s[i] /\ part[2] = s[i + 1] /\ part[3] = s[i + 2] /\ part[4] = s[i + 3]
    BY <1>3, <2>1
  <2>3. part = Terminator
    <3>1. PICK whole : whole = Terminator
      OBVIOUS
    <3>2. Len(whole) = 4 /\ whole[1] = CR /\ whole[2] = LF /\ whole[3] = CR /\ whole[4] = LF
      BY <3>1, EndSymbols
    <3>3. \A k \in 1..4 : part[k] = whole[k]
      BY <1>3, <2>2, <3>2
    <3>4. PICK both : both = S \cup {CR, LF}
      OBVIOUS
    <3>5. part \in Seq(both)
      BY <2>2, <3>4
    <3>6. whole \in Seq(both)
      BY <3>1, <3>4, EndSymbols
    <3>7. part = whole
      BY <2>2, <3>2, <3>3, <3>5, <3>6, SeqEqual
    <3>8. QED
      BY <3>1, <3>7
  <2>4. QED
    BY <1>3, <2>1, <2>3, EndSymbols DEF Occurrences
<1>4. IsPrefix(CRLF, s) <=> Len(s) >= 2 /\ s[1] = CR /\ s[2] = LF
  <2>1. SubSeq(CRLF, 1, 2) = CRLF
    BY EndSymbols
  <2>2. ASSUME Len(s) >= 2 PROVE SubSeq(s, 1, 2) = CRLF <=> s[1] = CR /\ s[2] = LF
    <3>1. PICK part : part = SubSeq(s, 1, 2)
      OBVIOUS
    <3>2. part \in Seq(S) /\ Len(part) = 2 /\ part[1] = s[1] /\ part[2] = s[2]
      BY <2>2, <3>1
    <3>3. QED
      BY <3>1, <3>2, EndSymbols
  <2>3. QED
    BY <2>1, <2>2, EndSymbols DEF IsPrefix
<1>5. QED
  BY <1>1, <1>2, <1>3, <1>4

\* A beginning of an end of a sequence is a part of every longer end.
LEMMA PartOfEnd ==
  ASSUME NEW S, NEW s \in Seq(S), NEW a \in 1..Len(s) + 1, NEW b \in a..Len(s) + 1, NEW n \in 1..Len(s) - b + 1
  PROVE  \E i, j \in DOMAIN SubSeq(s, a, Len(s)) :
           SubSeq(SubSeq(s, b, Len(s)), 1, n) = SubSeq(SubSeq(s, a, Len(s)), i, j)
<1>1. PICK u, v : u = SubSeq(s, b, Len(s)) /\ v = SubSeq(s, a, Len(s))
  OBVIOUS
<1>2. /\ u \in Seq(S) /\ Len(u) = Len(s) - b + 1 /\ \A i \in 1..Len(u) : u[i] = s[b + i - 1]
      /\ v \in Seq(S) /\ Len(v) = Len(s) - a + 1 /\ \A i \in 1..Len(v) : v[i] = s[a + i - 1]
  BY <1>1
<1>3. PICK w, i, j : w = SubSeq(u, 1, n) /\ i = b - a + 1 /\ j = b - a + n
  OBVIOUS
<1>4. w \in Seq(S) /\ Len(w) = n /\ \A k \in 1..n : w[k] = u[k]
  BY <1>2, <1>3
<1>5. i \in 1..Len(v) /\ j \in i..Len(v) /\ j - i + 1 = n
  BY <1>2, <1>3
<1>6. PICK x : x = SubSeq(v, i, j)
  OBVIOUS
<1>7. x \in Seq(S) /\ Len(x) = n /\ \A k \in 1..n : x[k] = v[i + k - 1]
  BY <1>2, <1>5, <1>6
<1>8. ASSUME NEW k \in 1..n PROVE x[k] = w[k]
  <2>1. i + k - 1 \in 1..Len(v) /\ k \in 1..Len(u) /\ a + (i + k - 1) - 1 = b + k - 1
    BY <1>2, <1>3, <1>5
  <2>2. v[i + k - 1] = s[a + (i + k - 1) - 1] /\ u[k] = s[b + k - 1]
    BY <1>2, <2>1
  <2>3. QED
    BY <1>4, <1>7, <2>1, <2>2
<1>9. w = x
  BY <1>4, <1>7, <1>8
<1>10. i \in DOMAIN v /\ j \in DOMAIN v
  BY <1>2, <1>5
<1>11. QED
  BY <1>1, <1>3, <1>6, <1>9, <1>10

\* What the scanner has dealt with, before its buffer.
Behind == Len(stdout) - unread - Len(buf)

Buffered ==
  /\ stdout \in Seq(Symbols) /\ buf \in Seq(Symbols)
  /\ unread \in 0..Len(stdout)
  /\ Len(buf) + unread <= Len(stdout)
  /\ phase = "scan" => \A i \in 1..Len(buf) : buf[i] = stdout[Behind + i]

\* The scanner is at the beginning of a line, or of nothing any more.
AtLine ==
  phase = "scan" =>
    \/ Behind = 0
    \/ Behind >= 2 /\ stdout[Behind - 1] = CR /\ stdout[Behind] = LF
    \/ buf = <<>> /\ unread = 0

\* When the copy begins the empty line has been read.
PastHeaders == phase = "copy" => \E t \in Terminators(stdout) : t + 3 <= Behind

Scanned ==
  /\ ~IsPrefix(CRLF, stdout)
  /\ phase \in {"scan", "copy", "done", "failed", "cut"}
  /\ Buffered /\ AtLine /\ PastHeaders /\ BodyIsBody

\* Another line is scanned, or the answer is an error.
LEMMA AddLineStays ==
  ASSUME NEW line, AddLine(line), phase = "scan"
  PROVE  phase' \in {"scan", "done"}
BY DEF AddLine, Answer

\* The empty line the scanner finds ends the first CRLF after the lines before.
LEMMA EmptyLine ==
  ASSUME Scanned, phase = "scan", IsPrefix(CRLF, buf)
  PROVE  Behind - 1 \in Terminators(stdout) /\ Behind >= 2
<1>0. \A i \in 1..Len(buf) : buf[i] = stdout[Behind + i]
  BY DEF Scanned, Buffered
<1>1. /\ stdout \in Seq(Symbols) /\ buf \in Seq(Symbols) /\ unread \in 0..Len(stdout)
      /\ Len(buf) + unread <= Len(stdout)
      /\ Len(stdout) \in Nat /\ Len(buf) \in Nat /\ Behind \in Nat
      /\ Behind = Len(stdout) - unread - Len(buf)
  BY DEF Scanned, Buffered, Behind
<1>2. \A s \in Seq(Symbols) : IsPrefix(CRLF, s) <=> Len(s) >= 2 /\ s[1] = CR /\ s[2] = LF
  BY CRLFAt
<1>3. Len(buf) >= 2 /\ buf[1] = CR /\ buf[2] = LF
  BY <1>1, <1>2
<1>4. stdout[Behind + 1] = CR /\ stdout[Behind + 2] = LF
  <2>1. 1 \in 1..Len(buf) /\ 2 \in 1..Len(buf)
    BY <1>1, <1>3
  <2>2. buf[1] = stdout[Behind + 1] /\ buf[2] = stdout[Behind + 2]
    BY <1>0, <2>1
  <2>3. QED
    BY <1>3, <2>2
<1>5. Behind # 0
  <2> SUFFICES ASSUME Behind = 0 PROVE FALSE
    OBVIOUS
  <2>1. stdout[1] = CR /\ stdout[2] = LF
    BY <1>4
  <2>2. Len(stdout) >= 2
    BY <1>1, <1>3
  <2>3. ~IsPrefix(CRLF, stdout)
    BY DEF Scanned
  <2>4. QED
    BY <1>1, <1>2, <2>1, <2>2, <2>3
<1>6. Behind >= 2 /\ stdout[Behind - 1] = CR /\ stdout[Behind] = LF
  BY <1>3, <1>5 DEF Scanned, AtLine
<1>7. PICK t \in Nat : t = Behind - 1
  BY <1>1, <1>6
<1>8. t \in 1..Len(stdout) - 3 /\ stdout[t] = CR /\ stdout[t + 1] = LF /\ stdout[t + 2] = CR /\ stdout[t + 3] = LF
  BY <1>1, <1>3, <1>4, <1>6, <1>7
<1>9. QED
  BY <1>1, <1>6, <1>7, <1>8, CRLFAt DEF Terminators

\* Whatever the records are, the buffer is a part of the output that begins with
\* a line, and what is copied was behind the empty line (scanCRLFHeaders and
\* ParseResponseStream).
THEOREM ScannedInductive == ResponseSpec => []Scanned
<1>1. ResponseInit => Scanned
  <2> SUFFICES ASSUME ResponseInit PROVE Scanned
    OBVIOUS
  <2>1. stdout \in Seq(Symbols) /\ ~IsPrefix(CRLF, stdout) /\ unread = Len(stdout) /\ buf = <<>> /\ phase = "scan" /\ sent = <<>>
    BY ResponseAssumption DEF ResponseInit
  <2>2. Len(buf) = 0 /\ Len(stdout) \in Nat /\ buf \in Seq(Symbols)
    BY <2>1
  <2>3. Behind = 0
    <3>1. unread = Len(stdout)
      BY <2>1
    <3>2. QED
      BY <2>2, <3>1 DEF Behind
  <2>4. QED
    BY <2>1, <2>2, <2>3 DEF Scanned, Buffered, AtLine, PastHeaders, BodyIsBody
<1>2. Scanned /\ [ResponseNext]_responseVars => Scanned'
  <2> SUFFICES ASSUME Scanned, [ResponseNext]_responseVars PROVE Scanned'
    OBVIOUS
  <2>0. /\ stdout \in Seq(Symbols) /\ buf \in Seq(Symbols)
        /\ unread \in 0..Len(stdout)
        /\ Len(buf) + unread <= Len(stdout)
        /\ Len(stdout) \in Nat /\ Len(buf) \in Nat /\ Behind \in Nat
        /\ Behind = Len(stdout) - unread - Len(buf)
    BY DEF Scanned, Buffered, Behind
  <2>a. phase = "scan" => \A i \in 1..Len(buf) : buf[i] = stdout[Behind + i]
    BY DEF Scanned, Buffered
  <2>1. ASSUME stdout' = stdout, sent' = sent, phase' \in {"done", "failed"}, unread' = unread, buf' \in Seq(Symbols), Len(buf') <= Len(buf)
        PROVE  Scanned'
    BY <2>0, <2>1 DEF Scanned, Buffered, AtLine, PastHeaders, BodyIsBody, Terminators
  <2>2. CASE ScanLine
    <3> DEFINE end == First(Occurrences(CRLF, buf))
    <3>1. /\ phase = "scan" /\ phase' \in {"scan", "done"} /\ UNCHANGED <<stdout, unread, sent>>
          /\ buf' = SubSeq(buf, end + 2, Len(buf)) /\ Occurrences(CRLF, buf) # {}
      BY <2>2, AddLineStays DEF ScanLine
    <3>2. Occurrences(CRLF, buf) \in SUBSET Nat
      BY <2>0 DEF Occurrences
    <3>3. end \in Occurrences(CRLF, buf) /\ end \in Nat
      BY <3>1, <3>2, FirstIsLeast
    <3>4. end \in 1..Len(buf) - 1 /\ buf[end] = CR /\ buf[end + 1] = LF
      BY <2>0, <3>3, CRLFAt
    <3> HIDE DEF end
    <3>5. /\ buf' \in Seq(Symbols) /\ Len(buf') = Len(buf) - end - 1
          /\ \A i \in 1..Len(buf') : buf'[i] = buf[end + 1 + i]
      <4>1. PICK from \in Nat : from = end + 2
        BY <3>3
      <4>2. from >= 2 /\ from <= Len(buf) + 1 /\ buf' = SubSeq(buf, from, Len(buf))
        BY <2>0, <3>1, <3>4, <4>1
      <4>3. /\ buf' \in Seq(Symbols) /\ Len(buf') = Len(buf) - from + 1
            /\ \A i \in 1..Len(buf') : buf'[i] = buf[from - 1 + i]
        BY <2>0, <4>2
      <4>4. Len(buf) - from + 1 = Len(buf) - end - 1 /\ from - 1 = end + 1
        BY <2>0, <3>3, <4>1
      <4>5. QED
        BY <4>3, <4>4
    <3>6. Behind' = Behind + end + 1
      <4>1. Behind' = Len(stdout) - unread - Len(buf')
        BY <3>1 DEF Behind
      <4>2. QED
        BY <2>0, <3>4, <3>5, <4>1
    <3>7. Buffered'
      BY <2>0, <2>a, <3>1, <3>4, <3>5, <3>6 DEF Buffered
    <3>8. AtLine'
      <4>1. Behind' >= 2 /\ Behind' - 1 = Behind + end
        BY <2>0, <3>4, <3>6
      <4>2. stdout[Behind + end] = CR /\ stdout[Behind + (end + 1)] = LF
        <5>1. end \in 1..Len(buf) /\ end + 1 \in 1..Len(buf)
          BY <2>0, <3>4
        <5>2. buf[end] = stdout[Behind + end] /\ buf[end + 1] = stdout[Behind + (end + 1)]
          BY <2>a, <3>1, <5>1
        <5>3. QED
          BY <3>4, <5>2
      <4>3. stdout[Behind'] = LF /\ stdout[Behind' - 1] = CR
        <5>1. Behind' = Behind + (end + 1)
          BY <2>0, <3>4, <3>6
        <5>2. QED
          BY <4>1, <4>2, <5>1
      <4>4. QED
        BY <3>1, <4>1, <4>3 DEF AtLine
    <3>9. QED
      BY <3>1, <3>7, <3>8 DEF Scanned, PastHeaders, BodyIsBody, Terminators
  <2>3. CASE ScanTerminator
    <3>1. /\ phase = "scan" /\ phase' \in {"copy", "done"} /\ UNCHANGED <<stdout, unread, sent>>
          /\ buf' = SubSeq(buf, 3, Len(buf)) /\ IsPrefix(CRLF, buf)
      BY <2>3 DEF ScanTerminator, Answer
    <3>2. \A s \in Seq(Symbols) : IsPrefix(CRLF, s) <=> Len(s) >= 2 /\ s[1] = CR /\ s[2] = LF
      BY CRLFAt
    <3>3. Len(buf) >= 2 /\ buf[1] = CR /\ buf[2] = LF
      BY <2>0, <3>1, <3>2
    <3>8. Behind - 1 \in Terminators(stdout)
      BY <3>1, EmptyLine
    <3>9. buf' \in Seq(Symbols) /\ Len(buf') = Len(buf) - 2
      <4>1. \A n \in Nat : n >= 2 /\ Len(buf) = n => SubSeq(buf, 3, n) \in Seq(Symbols) /\ Len(SubSeq(buf, 3, n)) = n - 2
        BY <2>0
      <4>2. QED
        BY <2>0, <3>1, <3>3, <4>1
    <3>10. Behind' = Behind + 2
      <4>1. Behind' = Len(stdout) - unread - Len(buf')
        BY <3>1 DEF Behind
      <4>2. QED
        BY <2>0, <3>9, <4>1
    <3>11. PastHeaders'
      BY <2>0, <3>1, <3>8, <3>10 DEF PastHeaders, Terminators
    <3>12. Buffered' /\ AtLine'
      BY <2>0, <3>1, <3>9 DEF Buffered, AtLine
    <3>13. QED
      BY <3>1, <3>11, <3>12 DEF Scanned, BodyIsBody, Terminators
  <2>4. CASE Fill
    <3>1. PICK n \in 1..(MaxLine - Len(buf)) : n <= unread /\ buf' = buf \o SubSeq(Rest, 1, n) /\ unread' = unread - n
      BY <2>4 DEF Fill
    <3>2. phase = "scan" /\ UNCHANGED <<stdout, phase, sent>> /\ n \in Nat /\ n >= 1
      BY <2>4, <3>1, ResponseAssumption DEF Fill
    <3>3. PICK part : part = SubSeq(Rest, 1, n)
      OBVIOUS
    <3>4. /\ part \in Seq(Symbols) /\ Len(part) = n
          /\ \A i \in 1..n : part[i] = stdout[Len(stdout) - unread + i]
      <4>1. /\ Rest \in Seq(Symbols) /\ Len(Rest) = unread
            /\ \A i \in 1..unread : Rest[i] = stdout[Len(stdout) - unread + i]
        BY <2>0 DEF Rest
      <4>2. QED
        BY <2>0, <3>1, <3>2, <3>3, <4>1
    <3>5. /\ buf' \in Seq(Symbols) /\ Len(buf') = Len(buf) + n
          /\ \A i \in 1..Len(buf) : buf'[i] = buf[i]
          /\ \A i \in 1..n : buf'[Len(buf) + i] = part[i]
      BY <2>0, <3>1, <3>2, <3>3, <3>4
    <3>6. Behind' = Behind
      BY <2>0, <3>1, <3>2, <3>5 DEF Behind
    <3>7. Buffered'
      <4>1. ASSUME NEW i \in 1..Len(buf') PROVE buf'[i] = stdout[Behind + i]
        <5>1. CASE i <= Len(buf)
          <6>1. i \in 1..Len(buf)
            BY <2>0, <3>2, <3>5, <5>1
          <6>2. buf'[i] = buf[i] /\ buf[i] = stdout[Behind + i]
            BY <2>a, <3>2, <3>5, <6>1
          <6>3. QED
            BY <6>2
        <5>2. CASE i > Len(buf)
          <6>0. i - Len(buf) \in 1..n /\ i = Len(buf) + (i - Len(buf))
            BY <2>0, <3>2, <3>5, <5>2
          <6>1. PICK j \in 1..n : i = Len(buf) + j
            BY <6>0
          <6>2. buf'[i] = stdout[Len(stdout) - unread + j]
            BY <3>4, <3>5, <6>1
          <6>3. Len(stdout) - unread + j = Behind + i
            BY <2>0, <6>1 DEF Behind
          <6>4. QED
            BY <6>2, <6>3
        <5>3. QED
          BY <2>0, <3>5, <5>1, <5>2
      <4>2. QED
        BY <2>0, <3>1, <3>2, <3>5, <3>6, <4>1 DEF Buffered
    <3>8. AtLine'
      BY <2>0, <3>1, <3>2, <3>5, <3>6 DEF Scanned, AtLine
    <3>9. QED
      BY <3>2, <3>7, <3>8 DEF Scanned, PastHeaders, BodyIsBody, Terminators
  <2>5. CASE LineTooLong
    BY <2>0, <2>1, <2>5 DEF LineTooLong, Answer
  <2>f. CASE ReadFails
    BY <2>0, <2>1, <2>f DEF ReadFails, Answer
  <2>6. CASE LastLine
    <3>1. /\ phase = "scan" /\ phase' \in {"scan", "done"} /\ UNCHANGED <<stdout, unread, sent>>
          /\ buf' = <<>> /\ unread = 0
      BY <2>6, AddLineStays DEF LastLine
    <3>2. Buffered' /\ AtLine'
      BY <2>0, <3>1 DEF Buffered, AtLine
    <3>3. QED
      BY <3>1, <3>2 DEF Scanned, PastHeaders, BodyIsBody, Terminators
  <2>7. CASE NoTerminator
    BY <2>0, <2>1, <2>7 DEF NoTerminator, Answer
  <2>8. CASE Copy \/ CopyFails
    <3>1. /\ phase = "copy" /\ phase' \in {"done", "cut"} /\ UNCHANGED <<stdout, buf>>
          /\ \E n \in 0..unread : sent' = SubSeq(Rest, 1, n) /\ unread' = unread - n
      <4>1. CASE Copy
        <5>1. sent' = Rest /\ unread' = 0
          BY <4>1 DEF Copy
        <5>2. Rest \in Seq(Symbols) /\ Len(Rest) = unread
          BY <2>0 DEF Rest
        <5>3. Rest = SubSeq(Rest, 1, unread) /\ unread \in 0..unread /\ unread - unread = 0
          BY <2>0, <5>2
        <5>4. QED
          BY <4>1, <5>1, <5>3 DEF Copy
      <4>2. CASE CopyFails
        BY <4>2 DEF CopyFails
      <4>3. QED
        BY <2>8, <4>1, <4>2
    <3>2. PICK n \in 0..unread : sent' = SubSeq(Rest, 1, n) /\ unread' = unread - n
      BY <3>1
    <3>3. PICK t \in Terminators(stdout) : t + 3 <= Behind
      BY <3>1 DEF Scanned, PastHeaders
    <3>4. Terminators(stdout) \in SUBSET Nat
      BY <2>0, CRLFAt DEF Terminators, Occurrences
    <3>5. PICK f : f = First(Terminators(stdout))
      OBVIOUS
    <3>6. f \in Nat /\ f <= t /\ f >= 1 /\ f <= Len(stdout) - 3
      <4>1. f \in Terminators(stdout) /\ f \in Nat /\ t \in Nat /\ f <= t
        BY <3>3, <3>4, <3>5, FirstIsLeast
      <4>2. f \in 1..Len(stdout) - 3
        BY <2>0, <4>1, CRLFAt DEF Terminators
      <4>3. QED
        BY <2>0, <4>1, <4>2
    <3>7. sent' # <<>> => \E i, k \in DOMAIN BodyOf(stdout) : sent' = SubSeq(BodyOf(stdout), i, k)
      <4>1. PICK a, b : a = f + 4 /\ b = Len(stdout) - unread + 1
        OBVIOUS
      <4>2. a \in 1..Len(stdout) + 1 /\ b \in a..Len(stdout) + 1 /\ (n # 0 => n \in 1..Len(stdout) - b + 1)
        BY <2>0, <3>2, <3>3, <3>4, <3>6, <4>1 DEF Behind
      <4>3. Rest = SubSeq(stdout, b, Len(stdout)) /\ BodyOf(stdout) = SubSeq(stdout, a, Len(stdout))
        BY <3>3, <3>5, <4>1 DEF Rest, BodyOf
      <4>4. n = 0 => sent' = <<>>
        BY <3>2
      <4>5. n # 0 => \E i, k \in DOMAIN SubSeq(stdout, a, Len(stdout)) :
                       SubSeq(SubSeq(stdout, b, Len(stdout)), 1, n) = SubSeq(SubSeq(stdout, a, Len(stdout)), i, k)
        BY <2>0, <4>2, PartOfEnd
      <4>6. QED
        BY <3>2, <4>3, <4>4, <4>5
    <3>8. BodyIsBody'
      BY <3>1, <3>3, <3>7 DEF BodyIsBody, BodyOf, Terminators
    <3>9. Buffered'
      <4>1. unread' \in 0..Len(stdout) /\ Len(buf) + unread' <= Len(stdout)
        BY <2>0, <3>2
      <4>2. QED
        BY <2>0, <3>1, <4>1 DEF Buffered
    <3>10. QED
      BY <3>1, <3>8, <3>9 DEF Scanned, AtLine, PastHeaders
  <2>9. CASE UNCHANGED responseVars
    BY <2>9 DEF responseVars, Scanned, Buffered, AtLine, PastHeaders, BodyIsBody, Behind, Terminators, BodyOf
  <2>10. QED
    BY <2>2, <2>3, <2>4, <2>5, <2>f, <2>6, <2>7, <2>8, <2>9 DEF ResponseNext
<1>3. QED
  BY <1>1, <1>2, PTL DEF ResponseSpec

\* No header is sent as body.
THEOREM BodyIsBodyHolds == ResponseSpec => []BodyIsBody
<1>1. Scanned => BodyIsBody
  BY DEF Scanned
<1>2. QED
  BY <1>1, ScannedInductive, PTL

\* The headers a script may make the gateway keep: the buffer never holds more
\* than one line's limit, and no more headers are kept than allowed
\* (ParseResponseStream).
THEOREM ResponseTypes == ResponseSpec => []ResponseTypeOK
<1> DEFINE TInv == ResponseTypeOK /\ lines \in Seq(Seq(Symbols))
<1>1. ResponseInit => TInv
  <2> SUFFICES ASSUME ResponseInit PROVE TInv
    OBVIOUS
  <2>1. stdout \in Outputs /\ stdout \in Seq(Symbols) /\ unread = Len(stdout) /\ buf = <<>> /\ lines = <<>> /\ phase = "scan"
    BY ResponseAssumption DEF ResponseInit
  <2>2. Len(buf) = 0 /\ Len(lines) = 0 /\ lines \in Seq(Seq(Symbols)) /\ unread \in 0..Len(stdout)
    BY <2>1
  <2>3. QED
    BY <2>1, <2>2, ResponseAssumption DEF ResponseTypeOK
<1>2. TInv /\ Scanned /\ Scanned' /\ [ResponseNext]_responseVars => TInv'
  <2> SUFFICES ASSUME TInv, Scanned, Scanned', [ResponseNext]_responseVars PROVE TInv'
    OBVIOUS
  <2>0. /\ stdout \in Outputs /\ stdout \in Seq(Symbols) /\ buf \in Seq(Symbols) /\ lines \in Seq(Seq(Symbols))
        /\ Len(buf) \in Nat /\ Len(buf) <= MaxLine /\ Len(lines) <= MaxCount /\ MaxLine \in Nat /\ MaxCount \in Nat
        /\ unread' \in 0..Len(stdout') /\ phase' \in {"scan", "copy", "done", "failed", "cut"}
    <3>1. buf \in Seq(Symbols) /\ stdout \in Seq(Symbols)
      BY DEF Scanned, Buffered
    <3>2. unread' \in 0..Len(stdout') /\ phase' \in {"scan", "copy", "done", "failed", "cut"}
      BY DEF Scanned, Buffered
    <3>3. stdout \in Outputs /\ Len(buf) <= MaxLine /\ Len(lines) <= MaxCount
      BY DEF ResponseTypeOK
    <3>4. MaxLine \in Nat /\ MaxCount \in Nat
      BY ResponseAssumption
    <3>5. QED
      BY <3>1, <3>2, <3>3, <3>4
  <2>1. ASSUME stdout' = stdout, Len(buf') <= MaxLine, lines' \in Seq(Seq(Symbols)), Len(lines') <= MaxCount
        PROVE  TInv'
    BY <2>0, <2>1 DEF ResponseTypeOK
  <2>2. ASSUME NEW line \in Seq(Symbols), AddLine(line)
        PROVE  lines' \in Seq(Seq(Symbols)) /\ Len(lines') <= MaxCount
    <3>1. \/ lines' = lines
          \/ lines' = Append(lines, line) /\ Len(Append(lines, line)) <= MaxCount
      BY <2>2 DEF AddLine
    <3>2. Append(lines, line) \in Seq(Seq(Symbols))
      BY <2>0
    <3>3. QED
      BY <2>0, <3>1, <3>2
  <2>3. CASE ScanLine
    <3> DEFINE end == First(Occurrences(CRLF, buf))
    <3>1. /\ stdout' = stdout /\ buf' = SubSeq(buf, end + 2, Len(buf)) /\ AddLine(SubSeq(buf, 1, end - 1))
          /\ Occurrences(CRLF, buf) # {}
      BY <2>3 DEF ScanLine
    <3>2. Occurrences(CRLF, buf) \in SUBSET Nat
      BY <2>0 DEF Occurrences
    <3>3. end \in Occurrences(CRLF, buf) /\ end \in Nat
      BY <3>1, <3>2, FirstIsLeast
    <3>4. end \in 1..Len(buf) - 1
      BY <2>0, <3>3, CRLFAt
    <3> HIDE DEF end
    <3>5. PICK from, to : from = end + 2 /\ to = end - 1
      OBVIOUS
    <3>6. from \in 1..Len(buf) + 1 /\ to \in 0..Len(buf)
      BY <2>0, <3>3, <3>4, <3>5
    <3>7. Len(SubSeq(buf, from, Len(buf))) <= MaxLine
      BY <2>0, <3>6
    <3>8. SubSeq(buf, 1, to) \in Seq(Symbols)
      BY <2>0, <3>6
    <3>9. QED
      BY <2>1, <2>2, <3>1, <3>5, <3>7, <3>8
  <2>4. CASE ScanTerminator
    <3>1. stdout' = stdout /\ lines' = lines /\ buf' = SubSeq(buf, 3, Len(buf))
      BY <2>4 DEF ScanTerminator
    <3>2. Len(SubSeq(buf, 3, Len(buf))) <= MaxLine
      BY <2>0
    <3>3. QED
      BY <2>0, <2>1, <3>1, <3>2
  <2>5. CASE Fill
    <3>1. PICK n \in 1..(MaxLine - Len(buf)) : n <= unread /\ buf' = buf \o SubSeq(Rest, 1, n) /\ unread' = unread - n
      BY <2>5 DEF Fill
    <3>2. stdout' = stdout /\ lines' = lines
      BY <2>5 DEF Fill
    <3>3. Rest \in Seq(Symbols) /\ Len(Rest) = unread /\ unread \in Nat
      BY <2>0 DEF Rest, ResponseTypeOK
    <3>4. PICK part : part = SubSeq(Rest, 1, n)
      OBVIOUS
    <3>5. part \in Seq(Symbols) /\ Len(part) = n /\ n \in Nat
      BY <2>0, <3>1, <3>3, <3>4
    <3>6. Len(buf') = Len(buf) + n
      BY <2>0, <3>1, <3>4, <3>5
    <3>7. Len(buf') <= MaxLine
      BY <2>0, <3>1, <3>5, <3>6
    <3>8. QED
      BY <2>0, <2>1, <3>2, <3>7
  <2>6. CASE LastLine
    <3>1. stdout' = stdout /\ buf' = <<>> /\ AddLine(buf)
      BY <2>6 DEF LastLine
    <3>2. Len(buf') <= MaxLine
      BY <2>0, <3>1
    <3>3. QED
      BY <2>0, <2>1, <2>2, <3>1, <3>2
  <2>7. CASE LineTooLong \/ NoTerminator \/ Copy \/ ReadFails \/ CopyFails \/ UNCHANGED responseVars
    BY <2>0, <2>1, <2>7 DEF LineTooLong, NoTerminator, Copy, ReadFails, CopyFails, responseVars
  <2>8. QED
    BY <2>3, <2>4, <2>5, <2>6, <2>7 DEF ResponseNext
<1>3. QED
  BY <1>1, <1>2, ScannedInductive, PTL DEF ResponseSpec

-----------------------------------------------------------------------------
(* How a header block is split into lines *)

\* The lines of a text over T, and the part of one after them.
Splits(T) == [lines : Seq(Seq(T)), part : Seq(T)]

\* The last of a part, and what is before it.
LEMMA PartEnd ==
  ASSUME NEW T, NEW s \in Seq(T), NEW c \in T
  PROVE  Append(s, c) # <<>> /\ Last(Append(s, c)) = c /\ Front(Append(s, c)) = s
<1>1. PICK longer : longer = Append(s, c)
  OBVIOUS
<1>2. PICK n : n = Len(s)
  OBVIOUS
<1>3. /\ longer \in Seq(T) /\ Len(longer) = n + 1 /\ n \in Nat
      /\ longer[n + 1] = c /\ \A i \in 1..n : longer[i] = s[i]
  BY <1>1, <1>2, AppendProperties, LenProperties
<1>4. longer # <<>>
  <2>1. Len(<<>>) = 0
    OBVIOUS
  <2>2. QED
    BY <1>3, <2>1
<1>5. Last(longer) = c
  BY <1>3, Zenon DEF Last
<1>6. Front(longer) = s
  <2>1. PICK f : f = SubSeq(longer, 1, n)
    OBVIOUS
  <2>2. f \in Seq(T) /\ Len(f) = n /\ \A i \in 1..n : f[i] = longer[i]
    BY <1>3, <2>1
  <2>3. f = s
    BY <1>2, <1>3, <2>2, SeqEqual
  <2>4. Len(longer) - 1 = n
    BY <1>3
  <2>5. QED
    BY <2>1, <2>3, <2>4, Zenon DEF Front
<1>7. QED
  BY <1>1, <1>4, <1>5, <1>6

\* A symbol goes to the part or ends it.
LEMMA TakeSymbolSplits ==
  ASSUME NEW T, NEW split \in Splits(T), NEW symbol \in T
  PROVE  TakeSymbol(split, symbol) \in Splits(T)
<1>1. PICK W : W = Seq(T)
  OBVIOUS
<1>2. split \in [lines : Seq(W), part : W] /\ split.lines \in Seq(W) /\ split.part \in W
  BY <1>1 DEF Splits
<1>3. PICK line : line = Front(split.part)
  OBVIOUS
<1>4. ASSUME split.part # <<>> PROVE line \in W
  <2>1. PICK n : n = Len(split.part)
    OBVIOUS
  <2>2. n \in Nat /\ split.part \in Seq(T)
    BY <1>1, <1>2, <2>1, LenProperties
  <2>3. SubSeq(split.part, 1, n - 1) \in Seq(T)
    BY <2>1, <2>2
  <2>4. QED
    BY <1>1, <1>3, <2>1, <2>3 DEF Front
<1>5. CASE symbol = LF /\ split.part # <<>> /\ Last(split.part) = CR
  <2>1. line \in W
    BY <1>4, <1>5
  <2>2. Append(split.lines, line) \in Seq(W) /\ <<>> \in W
    BY <1>1, <1>2, <2>1
  <2>3. PICK list : list = IF line = <<>> THEN split.lines ELSE Append(split.lines, line)
    OBVIOUS
  <2>4. TakeSymbol(split, symbol) = [lines |-> list, part |-> <<>>]
    BY <1>3, <1>5, <2>3, Zenon DEF TakeSymbol
  <2>5. list \in Seq(W)
    BY <1>2, <2>2, <2>3
  <2>6. QED
    BY <1>1, <2>2, <2>4, <2>5 DEF Splits
<1>6. CASE ~(symbol = LF /\ split.part # <<>> /\ Last(split.part) = CR)
  <2>1. TakeSymbol(split, symbol) = [split EXCEPT !.part = Append(split.part, symbol)]
    BY <1>6, Zenon DEF TakeSymbol
  <2>2. PICK longer : longer = Append(split.part, symbol)
    OBVIOUS
  <2>3. longer \in W
    BY <1>1, <1>2, <2>2
  <2>4. [split EXCEPT !.part = longer] \in [lines : Seq(W), part : W]
    BY <1>2, <2>3
  <2>5. QED
    BY <1>1, <2>1, <2>2, <2>4 DEF Splits
<1>7. QED
  BY <1>5, <1>6

\* A symbol that does not end a line goes to the part, and one that does ends the part.
LEMMA TakeOther ==
  ASSUME NEW T, NEW split \in Splits(T), NEW symbol \in T,
         ~(symbol = LF /\ split.part # <<>> /\ Last(split.part) = CR)
  PROVE  TakeSymbol(split, symbol) = [lines |-> split.lines, part |-> Append(split.part, symbol)]
<1>1. TakeSymbol(split, symbol) = [split EXCEPT !.part = Append(split.part, symbol)]
  BY Zenon DEF TakeSymbol
<1>2. PICK longer : longer = Append(split.part, symbol)
  OBVIOUS
<1>3. PICK W : W = Seq(T)
  OBVIOUS
<1>4. split \in [lines : Seq(W), part : W]
  BY <1>3 DEF Splits
<1>5. [split EXCEPT !.part = longer] = [lines |-> split.lines, part |-> longer]
  BY <1>4
<1>6. QED
  BY <1>1, <1>2, <1>5

\* The LF after a CR ends the line, which counts unless it is empty.
LEMMA TakeEnd ==
  ASSUME NEW T, NEW list \in Seq(Seq(T)), NEW part \in Seq(T), CR \in T
  PROVE  TakeSymbol([lines |-> list, part |-> Append(part, CR)], LF)
           = [lines |-> IF part = <<>> THEN list ELSE Append(list, part), part |-> <<>>]
<1>1. PICK longer : longer = Append(part, CR)
  OBVIOUS
<1>2. longer # <<>> /\ Last(longer) = CR /\ Front(longer) = part
  BY <1>1, PartEnd
<1>3. PICK split : split = [lines |-> list, part |-> longer]
  OBVIOUS
<1>4. split.lines = list /\ split.part = longer
  BY <1>3
<1>5. TakeSymbol(split, LF) = [lines |-> IF part = <<>> THEN list ELSE Append(list, part), part |-> <<>>]
  BY <1>2, <1>4, Zenon DEF TakeSymbol
<1>6. QED
  BY <1>1, <1>3, <1>5

\* Splitting: one symbol after the other.
SplitRun(text, u) ==
  /\ u[0] = [lines |-> <<>>, part |-> <<>>]
  /\ \A i \in 1..Len(text) : u[i] = TakeSymbol(u[i - 1], text[i])
  /\ Splitting(text) = u

\* Splitting is a run over the symbols.
LEMMA SplitUpto ==
  ASSUME NEW T, NEW text \in Seq(T)
  PROVE  \E u \in [0..Len(text) -> Splits(T)] : SplitRun(text, u)
<1>1. PICK n : n = Len(text)
  OBVIOUS
<1>2. PICK V : V = Splits(T)
  OBVIOUS
<1>3. PICK base : base = [lines |-> <<>>, part |-> <<>>]
  OBVIOUS
<1>4. PICK step : step = [i \in 1..n |-> [prev \in V |-> TakeSymbol(prev, text[i])]]
  OBVIOUS
<1>5. n \in Nat /\ base \in V
  <2>1. PICK W : W = Seq(T)
    OBVIOUS
  <2>2. <<>> \in W /\ <<>> \in Seq(W)
    BY <2>1, EmptySeq
  <2>3. [lines |-> <<>>, part |-> <<>>] \in [lines : Seq(W), part : W]
    BY <2>2
  <2>4. QED
    BY <1>1, <1>2, <1>3, <2>1, <2>3, LenProperties DEF Splits
<1>6. ASSUME NEW i \in 1..n, NEW prev \in V PROVE TakeSymbol(prev, text[i]) \in V
  <2>1. text[i] \in T
    BY <1>1, ElementOfSeq
  <2>2. QED
    BY <1>2, <2>1, TakeSymbolSplits
<1>7. step \in [1..n -> [V -> V]] /\ \A i \in 1..n : \A prev \in V : step[i][prev] = TakeSymbol(prev, text[i])
  BY <1>4, <1>6, Zenon
<1>8. PICK g : g \in [0..n -> V] /\ Steps(g, n, base, step)
  BY <1>5, <1>7, Recursion
<1>9. ASSUME NEW i \in 0..n, i # 0 PROVE step[i][g[i - 1]] = TakeSymbol(g[i - 1], text[i])
  <2>1. i \in 1..n /\ i - 1 \in 0..n
    BY <1>5, <1>9
  <2>2. g[i - 1] \in V
    BY <1>8, <2>1, Zenon
  <2>3. QED
    BY <1>7, <2>1, <2>2, Zenon
<1>10. g = [i \in 0..n |-> IF i = 0 THEN [lines |-> <<>>, part |-> <<>>] ELSE TakeSymbol(g[i - 1], text[i])]
  <2>1. [i \in 0..n |-> IF i = 0 THEN base ELSE step[i][g[i - 1]]]
          = [i \in 0..n |-> IF i = 0 THEN base ELSE TakeSymbol(g[i - 1], text[i])]
    BY <1>9, Zenon
  <2>2. QED
    BY <1>3, <1>8, <2>1, Zenon DEF Steps
<1>11. PICK u : /\ u = (CHOOSE f : f = [i \in 0..n |-> IF i = 0 THEN [lines |-> <<>>, part |-> <<>>] ELSE TakeSymbol(f[i - 1], text[i])])
                /\ Splitting(text) = u
  BY <1>1, Zenon DEF Splitting
<1>12. u = [i \in 0..n |-> IF i = 0 THEN base ELSE TakeSymbol(u[i - 1], text[i])]
  BY <1>3, <1>10, <1>11, Zenon
<1>13. ASSUME NEW i \in 0..n, i # 0 PROVE u[i] = TakeSymbol(u[i - 1], text[i])
  BY <1>12, <1>13, Zenon
<1>14. 0 \in 0..n /\ u[0] = base
  <2>1. 0 \in 0..n
    BY <1>5
  <2>2. QED
    BY <1>12, <2>1, Zenon
<1>15. \A i \in 1..n : i \in 0..n /\ i # 0
  BY <1>5
<1>16. u \in [0..n -> V]
  <2>1. PICK S : S = {i \in 0..n : u[i] \in V}
    OBVIOUS
  <2>2. 0 \in S
    BY <1>5, <1>14, <2>1, Zenon
  <2>3. ASSUME NEW k \in 0..n - 1, k \in S PROVE k + 1 \in S
    <3>1. k + 1 \in 0..n /\ k + 1 # 0 /\ k + 1 - 1 = k /\ k + 1 \in 1..n
      BY <1>5
    <3>2. u[k] \in V
      BY <2>1, <2>3, Zenon
    <3>3. TakeSymbol(u[k], text[k + 1]) \in V
      BY <1>6, <3>1, <3>2, Zenon
    <3>4. u[k + 1] = TakeSymbol(u[k + 1 - 1], text[k + 1])
      BY <1>13, <3>1
    <3>5. QED
      BY <2>1, <3>1, <3>3, <3>4, Zenon
  <2>4. \A i \in 0..n : i \in S
    BY <1>5, <2>2, <2>3, Climb
  <2>5. QED
    BY <1>12, <2>1, <2>4, Zenon
<1>17. SplitRun(text, u)
  BY <1>1, <1>3, <1>11, <1>13, <1>14, <1>15, Zenon DEF SplitRun
<1>18. QED
  BY <1>1, <1>2, <1>16, <1>17, Zenon

\* Size: one line after the other.
SizeRun(list, u) ==
  /\ u[0] = 0
  /\ \A i \in 1..Len(list) : u[i] = u[i - 1] + Len(list[i]) + 2
  /\ Size(list) = u[Len(list)]

\* Size is a run over the lines.
LEMMA SizeUpto ==
  ASSUME NEW T, NEW list \in Seq(Seq(T))
  PROVE  \E u \in [0..Len(list) -> Nat] : SizeRun(list, u)
<1>1. PICK n : n = Len(list)
  OBVIOUS
<1>2. PICK V : V = Nat
  OBVIOUS
<1>3. PICK base : base = 0
  OBVIOUS
<1>4. PICK step : step = [i \in 1..n |-> [prev \in V |-> prev + Len(list[i]) + 2]]
  OBVIOUS
<1>5. n \in Nat /\ base \in V
  BY <1>1, <1>2, <1>3, LenProperties
<1>6. ASSUME NEW i \in 1..n, NEW prev \in V PROVE prev + Len(list[i]) + 2 \in V
  <2>1. list[i] \in Seq(T)
    BY <1>1, ElementOfSeq
  <2>2. Len(list[i]) \in Nat
    BY <2>1, LenProperties
  <2>3. QED
    BY <1>2, <2>2
<1>7. step \in [1..n -> [V -> V]] /\ \A i \in 1..n : \A prev \in V : step[i][prev] = prev + Len(list[i]) + 2
  BY <1>4, <1>6, Zenon
<1>8. PICK g : g \in [0..n -> V] /\ Steps(g, n, base, step)
  BY <1>5, <1>7, Recursion
<1>9. ASSUME NEW i \in 0..n, i # 0 PROVE step[i][g[i - 1]] = g[i - 1] + Len(list[i]) + 2
  <2>1. i \in 1..n /\ i - 1 \in 0..n
    BY <1>5, <1>9
  <2>2. g[i - 1] \in V
    BY <1>8, <2>1, Zenon
  <2>3. QED
    BY <1>7, <2>1, <2>2, Zenon
<1>10. g = [i \in 0..n |-> IF i = 0 THEN 0 ELSE g[i - 1] + Len(list[i]) + 2]
  <2>1. [i \in 0..n |-> IF i = 0 THEN base ELSE step[i][g[i - 1]]]
          = [i \in 0..n |-> IF i = 0 THEN base ELSE g[i - 1] + Len(list[i]) + 2]
    BY <1>9, Zenon
  <2>2. QED
    BY <1>3, <1>8, <2>1, Zenon DEF Steps
<1>11. PICK u : /\ u = (CHOOSE f : f = [i \in 0..n |-> IF i = 0 THEN 0 ELSE f[i - 1] + Len(list[i]) + 2])
                /\ Size(list) = u[n]
  BY <1>1, Zenon DEF Size
<1>12. u = [i \in 0..n |-> IF i = 0 THEN base ELSE u[i - 1] + Len(list[i]) + 2]
  BY <1>3, <1>10, <1>11, Zenon
<1>13. ASSUME NEW i \in 0..n, i # 0 PROVE u[i] = u[i - 1] + Len(list[i]) + 2
  BY <1>12, <1>13, Zenon
<1>14. 0 \in 0..n /\ u[0] = base
  <2>1. 0 \in 0..n
    BY <1>5
  <2>2. QED
    BY <1>12, <2>1, Zenon
<1>15. \A i \in 1..n : i \in 0..n /\ i # 0
  BY <1>5
<1>16. u \in [0..n -> V]
  <2>1. PICK S : S = {i \in 0..n : u[i] \in V}
    OBVIOUS
  <2>2. 0 \in S
    BY <1>5, <1>14, <2>1, Zenon
  <2>3. ASSUME NEW k \in 0..n - 1, k \in S PROVE k + 1 \in S
    <3>1. k + 1 \in 0..n /\ k + 1 # 0 /\ k + 1 - 1 = k /\ k + 1 \in 1..n
      BY <1>5
    <3>2. u[k] \in V
      BY <2>1, <2>3, Zenon
    <3>3. u[k] + Len(list[k + 1]) + 2 \in V
      BY <1>6, <3>1, <3>2, Zenon
    <3>4. u[k + 1] = u[k + 1 - 1] + Len(list[k + 1]) + 2
      BY <1>13, <3>1
    <3>5. QED
      BY <2>1, <3>1, <3>3, <3>4, Zenon
  <2>4. \A i \in 0..n : i \in S
    BY <1>5, <2>2, <2>3, Climb
  <2>5. QED
    BY <1>12, <2>1, <2>4, Zenon
<1>17. SizeRun(list, u)
  BY <1>1, <1>3, <1>11, <1>13, <1>14, <1>15, Zenon DEF SizeRun
<1>18. QED
  BY <1>1, <1>2, <1>16, <1>17, Zenon

-----------------------------------------------------------------------------
\* What Splitting is at every symbol.
LEMMA SplittingIs ==
  ASSUME NEW T, NEW text \in Seq(T)
  PROVE  /\ Splitting(text) \in [0..Len(text) -> Splits(T)]
         /\ Splitting(text)[0] = [lines |-> <<>>, part |-> <<>>]
         /\ \A i \in 1..Len(text) : Splitting(text)[i] = TakeSymbol(Splitting(text)[i - 1], text[i])
<1>1. PICK u \in [0..Len(text) -> Splits(T)] : SplitRun(text, u)
  BY SplitUpto
<1>2. u = Splitting(text)
  BY <1>1 DEF SplitRun
<1>3. QED
  BY <1>1, <1>2, Zenon DEF SplitRun

\* How the beginning of a text is split does not depend on what follows.
LEMMA SplittingBegin ==
  ASSUME NEW T, NEW text \in Seq(T), NEW k \in 0..Len(text)
  PROVE  Splitting(SubSeq(text, 1, k))[k] = Splitting(text)[k]
<1>1. PICK begin : begin = SubSeq(text, 1, k)
  OBVIOUS
<1>2. begin \in Seq(T) /\ Len(begin) = k /\ \A i \in 1..k : begin[i] = text[i]
  BY <1>1
<1>3. PICK u : u = Splitting(begin)
  OBVIOUS
<1>4. PICK w : w = Splitting(text)
  OBVIOUS
<1>5. u[0] = w[0]
  BY <1>2, <1>3, <1>4, SplittingIs
<1>6. ASSUME NEW i \in 0..k - 1, u[i] = w[i] PROVE u[i + 1] = w[i + 1]
  <2>1. i + 1 \in 1..k /\ i + 1 \in 1..Len(text) /\ i + 1 - 1 = i
    BY LenProperties
  <2>2. u[i + 1] = TakeSymbol(u[i + 1 - 1], begin[i + 1])
    BY <1>2, <1>3, <2>1, SplittingIs
  <2>3. w[i + 1] = TakeSymbol(w[i + 1 - 1], text[i + 1])
    BY <1>4, <2>1, SplittingIs
  <2>4. QED
    BY <1>2, <1>6, <2>1, <2>2, <2>3
<1>7. k \in Nat
  OBVIOUS
<1>8. u[k] = w[k]
  BY <1>5, <1>6, <1>7, Agree
<1>9. QED
  BY <1>1, <1>3, <1>4, <1>8

\* A list that goes on as it began.
Begins(first, list) ==
  /\ Len(first) <= Len(list)
  /\ \A i \in 1..Len(first) : list[i] = first[i]

\* A symbol takes no line away.
LEMMA TakeKeeps ==
  ASSUME NEW T, NEW split \in Splits(T), NEW symbol \in T
  PROVE  Begins(split.lines, TakeSymbol(split, symbol).lines)
<1>1. PICK W : W = Seq(T)
  OBVIOUS
<1>2. split.lines \in Seq(W) /\ split.part \in Seq(T)
  BY <1>1 DEF Splits
<1>3. ASSUME NEW line \in W PROVE Begins(split.lines, Append(split.lines, line))
  BY <1>2, <1>3 DEF Begins
<1>4. Begins(split.lines, split.lines)
  BY <1>2 DEF Begins
<1>5. CASE symbol = LF /\ split.part # <<>> /\ Last(split.part) = CR
  <2>1. PICK line : line = Front(split.part)
    OBVIOUS
  <2>2. line \in W
    <3>1. PICK n : n = Len(split.part)
      OBVIOUS
    <3>2. n \in Nat /\ n # 0
      BY <1>2, <1>5, <3>1, EmptySeq
    <3>3. SubSeq(split.part, 1, n - 1) \in Seq(T)
      BY <1>2, <3>1, <3>2
    <3>4. QED
      BY <1>1, <2>1, <3>1, <3>3 DEF Front
  <2>3. TakeSymbol(split, symbol)
          = [lines |-> IF line = <<>> THEN split.lines ELSE Append(split.lines, line), part |-> <<>>]
    BY <1>5, <2>1, Zenon DEF TakeSymbol
  <2>4. TakeSymbol(split, symbol).lines = IF line = <<>> THEN split.lines ELSE Append(split.lines, line)
    BY <2>3
  <2>5. QED
    BY <1>3, <1>4, <2>2, <2>4
<1>6. CASE ~(symbol = LF /\ split.part # <<>> /\ Last(split.part) = CR)
  <2>1. TakeSymbol(split, symbol) = [lines |-> split.lines, part |-> Append(split.part, symbol)]
    BY <1>6, TakeOther
  <2>2. QED
    BY <1>4, <2>1
<1>7. QED
  BY <1>5, <1>6

\* A beginning of a beginning is one.
LEMMA BeginsOn ==
  ASSUME NEW W, NEW a \in Seq(W), NEW b \in Seq(W), NEW c \in Seq(W), Begins(a, b), Begins(b, c)
  PROVE  Begins(a, c)
<1>1. Len(a) \in Nat /\ Len(b) \in Nat /\ Len(c) \in Nat
  BY LenProperties
<1>2. QED
  BY <1>1 DEF Begins

\* The lines that a longer part of a text has been split into begin with those of a shorter one.
LEMMA SplittingGrows ==
  ASSUME NEW T, NEW text \in Seq(T), NEW k \in 0..Len(text), NEW m \in k..Len(text)
  PROVE  Begins(Splitting(text)[k].lines, Splitting(text)[m].lines)
<1>1. PICK u : u = Splitting(text)
  OBVIOUS
<1>2. u \in [0..Len(text) -> Splits(T)] /\ \A i \in 1..Len(text) : u[i] = TakeSymbol(u[i - 1], text[i])
  BY <1>1, SplittingIs
<1>3. PICK W : W = Seq(T)
  OBVIOUS
<1>4. \A i \in 0..Len(text) : u[i] \in Splits(T) /\ u[i].lines \in Seq(W)
  BY <1>2, <1>3 DEF Splits
<1>5. PICK n : n = Len(text)
  OBVIOUS
<1>6. n \in Nat /\ k \in 0..n /\ m \in k..n
  BY <1>5, LenProperties
<1>7. PICK S : S = {i \in 0..n - k : Begins(u[k].lines, u[k + i].lines)}
  OBVIOUS
<1>8. 0 \in S
  <2>1. u[k].lines \in Seq(W) /\ k + 0 = k /\ 0 \in 0..n - k
    BY <1>4, <1>5, <1>6
  <2>2. Begins(u[k].lines, u[k].lines)
    BY <2>1 DEF Begins
  <2>3. QED
    BY <1>7, <2>1, <2>2
<1>9. ASSUME NEW i \in 0..(n - k) - 1, i \in S PROVE i + 1 \in S
  <2>1. /\ k + i \in 0..n /\ k + (i + 1) \in 0..n /\ k + (i + 1) \in 1..n /\ k + (i + 1) - 1 = k + i
        /\ i + 1 \in 0..n - k
    BY <1>6
  <2>2. Begins(u[k].lines, u[k + i].lines)
    BY <1>7, <1>9
  <2>3. u[k + (i + 1)] = TakeSymbol(u[k + i], text[k + (i + 1)]) /\ text[k + (i + 1)] \in T
    BY <1>2, <1>5, <2>1, ElementOfSeq
  <2>4. Begins(u[k + i].lines, u[k + (i + 1)].lines)
    BY <1>4, <1>5, <2>1, <2>3, TakeKeeps
  <2>5. u[k].lines \in Seq(W) /\ u[k + i].lines \in Seq(W) /\ u[k + (i + 1)].lines \in Seq(W)
    BY <1>4, <1>5, <1>6, <2>1
  <2>6. Begins(u[k].lines, u[k + (i + 1)].lines)
    BY <2>2, <2>4, <2>5, BeginsOn
  <2>7. QED
    BY <1>7, <2>1, <2>6
<1>10. n - k \in Nat
  BY <1>6
<1>11. \A i \in 0..n - k : i \in S
  BY <1>8, <1>9, <1>10, Climb
<1>12. m - k \in 0..n - k /\ k + (m - k) = m
  BY <1>6
<1>13. QED
  BY <1>1, <1>7, <1>11, <1>12

\* No line ends in a text between two places.
Unbroken(text, from, to) ==
  \A i \in from..to : ~(text[i] = CR /\ text[i + 1] = LF)

\* From the beginning of a line, symbols go to its part until a CRLF ends it.
LEMMA SplittingLine ==
  ASSUME NEW T, NEW text \in Seq(T), NEW b \in 0..Len(text), NEW e \in Nat, b + e <= Len(text),
         Splitting(text)[b].part = <<>>, Unbroken(text, b + 1, b + e - 1)
  PROVE  Splitting(text)[b + e] = [lines |-> Splitting(text)[b].lines, part |-> SubSeq(text, b + 1, b + e)]
<1>1. PICK u : u = Splitting(text)
  OBVIOUS
<1>2. u \in [0..Len(text) -> Splits(T)] /\ \A i \in 1..Len(text) : u[i] = TakeSymbol(u[i - 1], text[i])
  BY <1>1, SplittingIs
<1>3. PICK n : n = Len(text)
  OBVIOUS
<1>4. n \in Nat /\ b \in 0..n /\ b + e <= n /\ e \in Nat /\ \A i \in 1..n : text[i] \in T
  BY <1>3, ElementOfSeq, LenProperties
<1>5. PICK list : list = u[b].lines
  OBVIOUS
<1>6. PICK S : S = {k \in 0..e : u[b + k] = [lines |-> list, part |-> SubSeq(text, b + 1, b + k)]}
  OBVIOUS
<1>7. u[b] = [lines |-> list, part |-> <<>>] /\ u[b] \in Splits(T)
  <2>1. u[b] \in Splits(T) /\ u[b].part = <<>>
    BY <1>1, <1>2, <1>3
  <2>2. u[b] = [lines |-> u[b].lines, part |-> u[b].part]
    BY <2>1 DEF Splits
  <2>3. QED
    BY <1>5, <2>1, <2>2
<1>8. 0 \in S
  <2>1. SubSeq(text, b + 1, b) = <<>>
    BY <1>4
  <2>2. b + 0 = b /\ 0 \in 0..e
    BY <1>4
  <2>3. QED
    BY <1>6, <1>7, <2>1, <2>2
<1>9. ASSUME NEW k \in 0..e - 1, k \in S PROVE k + 1 \in S
  <2>1. /\ b + k \in 0..n /\ b + (k + 1) \in 1..n /\ b + (k + 1) - 1 = b + k /\ k + 1 \in 0..e
    BY <1>4
  <2>2. PICK part : part = SubSeq(text, b + 1, b + k)
    OBVIOUS
  <2>3. part \in Seq(T) /\ Len(part) = k /\ \A i \in 1..k : part[i] = text[b + i]
    <3>1. PICK from, to : from = b + 1 /\ to = b + k
      OBVIOUS
    <3>2. from \in Int /\ to \in Int /\ \A i \in from..to : text[i] \in T
      BY <1>4, <2>1, <3>1
    <3>3. /\ part \in Seq(T) /\ Len(part) = IF from <= to THEN to - from + 1 ELSE 0
          /\ \A i \in 1..to - from + 1 : part[i] = text[from + i - 1]
      BY <2>2, <3>1, <3>2, SubSeqProperties
    <3>4. to - from + 1 = k /\ \A i \in 1..k : from + i - 1 = b + i
      BY <1>4, <3>1
    <3>5. k \in Nat /\ (from <= to <=> k # 0)
      BY <1>4, <3>1
    <3>6. QED
      BY <3>3, <3>4, <3>5
  <2>4. u[b + k] = [lines |-> list, part |-> part] /\ u[b + k] \in Splits(T)
    BY <1>2, <1>3, <1>6, <1>9, <2>1, <2>2
  <2>5. PICK symbol \in T : symbol = text[b + (k + 1)]
    BY <1>4, <2>1
  <2>6. ~(symbol = LF /\ part # <<>> /\ Last(part) = CR)
    <3> SUFFICES ASSUME symbol = LF, part # <<>>, Last(part) = CR PROVE FALSE
      OBVIOUS
    <3>1. k # 0
      BY <2>3, EmptySeq
    <3>2. Last(part) = text[b + k]
      <4>1. k \in 1..k
        BY <3>1
      <4>2. QED
        BY <2>3, <4>1 DEF Last
    <3>3. b + k \in b + 1..b + e - 1 /\ b + k + 1 = b + (k + 1)
      BY <1>4, <3>1
    <3>4. QED
      BY <2>5, <3>2, <3>3 DEF Unbroken
  <2>7. TakeSymbol(u[b + k], symbol) = [lines |-> list, part |-> Append(part, symbol)]
    <3>1. u[b + k].lines = list /\ u[b + k].part = part
      BY <2>4
    <3>2. ~(symbol = LF /\ u[b + k].part # <<>> /\ Last(u[b + k].part) = CR)
      BY <2>6, <3>1, Zenon
    <3>3. QED
      BY <2>4, <3>1, <3>2, TakeOther, Zenon
  <2>8. Append(part, symbol) = SubSeq(text, b + 1, b + (k + 1))
    <3>1. PICK longer : longer = SubSeq(text, b + 1, b + (k + 1))
      OBVIOUS
    <3>2. longer \in Seq(T) /\ Len(longer) = k + 1 /\ \A i \in 1..k + 1 : longer[i] = text[b + i]
      BY <1>3, <1>4, <2>1, <3>1
    <3>3. PICK next : next = Append(part, symbol)
      OBVIOUS
    <3>4. next \in Seq(T) /\ Len(next) = k + 1 /\ next[k + 1] = symbol /\ \A i \in 1..k : next[i] = part[i]
      BY <2>3, <3>3, AppendProperties
    <3>5. \A i \in 1..k + 1 : longer[i] = next[i]
      <4>1. \A i \in 1..k + 1 : i = k + 1 \/ i \in 1..k
        OBVIOUS
      <4>2. QED
        BY <2>3, <2>5, <3>2, <3>4, <4>1
    <3>6. QED
      BY <3>1, <3>2, <3>3, <3>4, <3>5, SeqEqual
  <2>9. u[b + (k + 1)] = TakeSymbol(u[b + k], symbol)
    BY <1>2, <1>3, <2>1, <2>5
  <2>10. QED
    BY <1>6, <2>1, <2>7, <2>8, <2>9
<1>10. e \in S
  BY <1>4, <1>8, <1>9, ClimbTo
<1>11. QED
  BY <1>1, <1>5, <1>6, <1>10

\* A line from its beginning to its CRLF, after e - 1 symbols.
LEMMA SplittingEnd ==
  ASSUME NEW T, NEW text \in Seq(T), NEW b \in 0..Len(text), NEW e \in Nat \ {0}, b + e + 1 <= Len(text),
         Splitting(text)[b].part = <<>>, Unbroken(text, b + 1, b + e - 1),
         text[b + e] = CR, text[b + e + 1] = LF
  PROVE  Splitting(text)[b + e + 1]
           = [lines |-> IF e = 1 THEN Splitting(text)[b].lines
                        ELSE Append(Splitting(text)[b].lines, SubSeq(text, b + 1, b + e - 1)),
              part |-> <<>>]
<1>1. PICK u : u = Splitting(text)
  OBVIOUS
<1>2. u \in [0..Len(text) -> Splits(T)] /\ \A i \in 1..Len(text) : u[i] = TakeSymbol(u[i - 1], text[i])
  BY <1>1, SplittingIs
<1>3. PICK n : n = Len(text)
  OBVIOUS
<1>4. n \in Nat /\ b \in 0..n /\ b + e + 1 <= n /\ e \in Nat /\ e >= 1 /\ \A i \in 1..n : text[i] \in T
  BY <1>3, ElementOfSeq, LenProperties
<1>5. PICK list : list = u[b].lines
  OBVIOUS
<1>6. PICK part : part = SubSeq(text, b + 1, b + e - 1)
  OBVIOUS
<1>7. part \in Seq(T) /\ Len(part) = e - 1 /\ \A i \in 1..e - 1 : part[i] = text[b + i]
  BY <1>3, <1>4, <1>6
<1>8. Append(part, CR) = SubSeq(text, b + 1, b + e) /\ CR \in T /\ LF \in T
  <2>0. b + e \in 1..n /\ b + e + 1 \in 1..n
    BY <1>4
  <2>1. PICK longer : longer = SubSeq(text, b + 1, b + e)
    OBVIOUS
  <2>2. longer \in Seq(T) /\ Len(longer) = e /\ \A i \in 1..e : longer[i] = text[b + i]
    BY <1>3, <1>4, <2>1
  <2>3. PICK next : next = Append(part, CR)
    OBVIOUS
  <2>4. CR \in T /\ LF \in T
    BY <1>4, <2>0
  <2>5. next \in Seq(T) /\ Len(next) = e /\ next[e] = CR /\ \A i \in 1..e - 1 : next[i] = part[i]
    BY <1>4, <1>7, <2>3, <2>4, AppendProperties
  <2>6. \A i \in 1..e : longer[i] = next[i]
    <3>1. \A i \in 1..e : i = e \/ i \in 1..e - 1
      BY <1>4
    <3>2. QED
      BY <1>7, <2>2, <2>5, <3>1
  <2>7. QED
    BY <2>1, <2>2, <2>3, <2>4, <2>5, <2>6, SeqEqual
<1>9. u[b + e] = [lines |-> list, part |-> Append(part, CR)]
  <2>1. b + e <= Len(text)
    BY <1>3, <1>4
  <2>2. u[b + e] = [lines |-> u[b].lines, part |-> SubSeq(text, b + 1, b + e)]
    BY <1>1, <2>1, SplittingLine
  <2>3. QED
    BY <1>5, <1>8, <2>2
<1>10. u[b + e + 1] = TakeSymbol(u[b + e], LF)
  <2>1. PICK k : k = b + e + 1
    OBVIOUS
  <2>2. k \in 1..Len(text) /\ k - 1 = b + e /\ text[k] = LF
    BY <1>3, <1>4, <2>1
  <2>3. u[k] = TakeSymbol(u[k - 1], text[k])
    BY <1>2, <2>2, Zenon
  <2>4. QED
    BY <2>1, <2>2, <2>3, Zenon
<1>11. list \in Seq(Seq(T))
  BY <1>2, <1>5 DEF Splits
<1>12. part = <<>> <=> e = 1
  BY <1>4, <1>7, EmptySeq
<1>13. u[b + e + 1] = [lines |-> IF part = <<>> THEN list ELSE Append(list, part), part |-> <<>>]
  <2>1. TakeSymbol([lines |-> list, part |-> Append(part, CR)], LF)
          = [lines |-> IF part = <<>> THEN list ELSE Append(list, part), part |-> <<>>]
    BY <1>7, <1>8, <1>11, TakeEnd
  <2>2. QED
    BY <1>9, <1>10, <2>1, Zenon
<1>14. QED
  BY <1>1, <1>5, <1>6, <1>12, <1>13, Zenon

\* The CRLF after a header block ends its last line.
LEMMA LinesAtEnd ==
  ASSUME NEW T, NEW text \in Seq(T), NEW t \in 1..Len(text) - 1, text[t] = CR, text[t + 1] = LF
  PROVE  Splitting(text)[t + 1] = [lines |-> LinesOf(SubSeq(text, 1, t - 1)), part |-> <<>>]
<1>1. PICK u : u = Splitting(text)
  OBVIOUS
<1>2. u \in [0..Len(text) -> Splits(T)] /\ \A i \in 1..Len(text) : u[i] = TakeSymbol(u[i - 1], text[i])
  BY <1>1, SplittingIs
<1>3. PICK n : n = Len(text)
  OBVIOUS
<1>4. n \in Nat /\ t \in 1..n /\ t + 1 \in 1..n /\ t - 1 \in 0..n /\ t + 1 - 1 = t
  BY <1>3, LenProperties
<1>5. CR \in T /\ LF \in T
  BY <1>3, <1>4, ElementOfSeq
<1>6. PICK split : split = u[t - 1]
  OBVIOUS
<1>7. split \in Splits(T) /\ split.lines \in Seq(Seq(T)) /\ split.part \in Seq(T)
  BY <1>2, <1>3, <1>4, <1>6 DEF Splits
<1>8. u[t] = TakeSymbol(split, CR) /\ u[t + 1] = TakeSymbol(u[t], LF)
  BY <1>2, <1>3, <1>4, <1>6
<1>9. CR # LF
  BY DEF CR, LF
<1>10. u[t] = [lines |-> split.lines, part |-> Append(split.part, CR)]
  BY <1>5, <1>7, <1>8, <1>9, TakeOther
<1>11. u[t + 1] = [lines |-> IF split.part = <<>> THEN split.lines ELSE Append(split.lines, split.part), part |-> <<>>]
  <2>1. PICK list, part : list = split.lines /\ part = split.part
    OBVIOUS
  <2>2. list \in Seq(Seq(T)) /\ part \in Seq(T)
    BY <1>7, <2>1
  <2>3. TakeSymbol([lines |-> list, part |-> Append(part, CR)], LF)
          = [lines |-> IF part = <<>> THEN list ELSE Append(list, part), part |-> <<>>]
    BY <1>5, <2>2, TakeEnd
  <2>4. QED
    BY <1>8, <1>10, <2>1, <2>3, Zenon
<1>12. PICK block : block = SubSeq(text, 1, t - 1)
  OBVIOUS
<1>13. block \in Seq(T) /\ Len(block) = t - 1
  BY <1>3, <1>4, <1>12
<1>14. Splitting(block)[Len(block)] = split
  BY <1>1, <1>3, <1>4, <1>6, <1>12, <1>13, SplittingBegin
<1>15. LinesOf(block) = IF split.part = <<>> THEN split.lines ELSE Append(split.lines, split.part)
  BY <1>14, Zenon DEF LinesOf
<1>16. QED
  BY <1>1, <1>11, <1>12, <1>15

-----------------------------------------------------------------------------
\* No lines have no size.
LEMMA SizeEmpty == Size(<<>>) = 0
<1>1. <<>> \in Seq(Seq(Symbols)) /\ Len(<<>>) = 0
  BY EmptySeq
<1>2. PICK u : SizeRun(<<>>, u)
  BY <1>1, SizeUpto
<1>3. QED
  BY <1>1, <1>2 DEF SizeRun

\* The size of a list is not less than that of the list it begins with.
LEMMA SizeBegins ==
  ASSUME NEW T, NEW first \in Seq(Seq(T)), NEW list \in Seq(Seq(T)), Begins(first, list)
  PROVE  Size(first) <= Size(list) /\ Size(list) \in Nat /\ Size(first) \in Nat
<1>1. PICK W : W = Seq(T)
  OBVIOUS
<1>2. PICK m : m = Len(first)
  OBVIOUS
<1>3. PICK n : n = Len(list)
  OBVIOUS
<1>4. m \in Nat /\ n \in Nat /\ m <= n /\ \A i \in 1..m : list[i] = first[i]
  BY <1>2, <1>3, LenProperties DEF Begins
<1>5. PICK u \in [0..m -> Nat] : SizeRun(first, u)
  BY <1>2, SizeUpto
<1>6. PICK w \in [0..n -> Nat] : SizeRun(list, w)
  BY <1>3, SizeUpto
<1>7. ASSUME NEW i \in 1..n PROVE Len(list[i]) \in Nat
  <2>1. list[i] \in Seq(T)
    BY <1>3, ElementOfSeq
  <2>2. QED
    BY <2>1, LenProperties
<1>8. ASSUME NEW k \in 0..m - 1, u[k] = w[k] PROVE u[k + 1] = w[k + 1]
  <2>1. k + 1 \in 1..m /\ k + 1 \in 1..n /\ k + 1 - 1 = k
    BY <1>4
  <2>2. u[k + 1] = u[k] + Len(first[k + 1]) + 2
    BY <1>2, <1>5, <2>1 DEF SizeRun
  <2>3. w[k + 1] = w[k] + Len(list[k + 1]) + 2
    BY <1>3, <1>6, <2>1 DEF SizeRun
  <2>4. QED
    BY <1>4, <1>8, <2>1, <2>2, <2>3
<1>9. u[m] = w[m]
  <2>1. u[0] = w[0]
    BY <1>5, <1>6 DEF SizeRun
  <2>2. QED
    BY <1>4, <1>8, <2>1, Agree
<1>10. PICK S : S = {k \in 0..n - m : w[m] <= w[m + k]}
  OBVIOUS
<1>11. 0 \in S
  <2>1. m \in 0..n /\ m + 0 = m /\ 0 \in 0..n - m
    BY <1>4
  <2>2. w[m] \in Nat
    BY <1>6, <2>1
  <2>3. QED
    BY <1>10, <2>1, <2>2
<1>12. ASSUME NEW k \in 0..(n - m) - 1, k \in S PROVE k + 1 \in S
  <2>1. /\ m \in 0..n /\ m + k \in 0..n /\ m + (k + 1) \in 1..n /\ m + (k + 1) - 1 = m + k
        /\ k + 1 \in 0..n - m
    BY <1>4
  <2>2. w[m + (k + 1)] = w[m + k] + Len(list[m + (k + 1)]) + 2
    BY <1>3, <1>6, <2>1 DEF SizeRun
  <2>3. w[m] \in Nat /\ w[m + k] \in Nat /\ Len(list[m + (k + 1)]) \in Nat
    BY <1>6, <1>7, <2>1
  <2>4. w[m] <= w[m + k]
    BY <1>10, <1>12
  <2>5. w[m] <= w[m + (k + 1)]
    BY <2>2, <2>3, <2>4
  <2>6. QED
    BY <1>10, <2>1, <2>5
<1>13. n - m \in S
  <2>1. n - m \in Nat
    BY <1>4
  <2>2. QED
    BY <1>11, <1>12, <2>1, ClimbTo
<1>14. m + (n - m) = n /\ m \in 0..m /\ n \in 0..n
  BY <1>4
<1>15. w[m] <= w[n] /\ w[n] \in Nat /\ u[m] \in Nat
  BY <1>5, <1>6, <1>10, <1>13, <1>14
<1>16. Size(first) = u[m] /\ Size(list) = w[n]
  BY <1>2, <1>3, <1>5, <1>6 DEF SizeRun
<1>17. QED
  BY <1>9, <1>15, <1>16

\* The whole parser takes the lines for headers.
Fine(list) ==
  /\ \A i \in DOMAIN list : Len(list[i]) <= MaxLine /\ LineOk(list[i])
  /\ Size(list) <= MaxTotal
  /\ Len(list) <= MaxCount

\* What parseHeaders takes, it takes of every beginning.
LEMMA FineBegins ==
  ASSUME NEW T, NEW first \in Seq(Seq(T)), NEW list \in Seq(Seq(T)), Begins(first, list), Fine(list)
  PROVE  Fine(first)
<1>1. Size(first) <= Size(list) /\ Size(list) \in Nat /\ Size(first) \in Nat
  BY SizeBegins
<1>2. Size(list) <= MaxTotal /\ Len(list) <= MaxCount /\ MaxTotal \in Nat /\ MaxCount \in Nat
  BY ResponseAssumption DEF Fine
<1>3. PICK m : m = Len(first)
  OBVIOUS
<1>4. PICK n : n = Len(list)
  OBVIOUS
<1>5. m \in Nat /\ n \in Nat /\ m <= n /\ DOMAIN first = 1..m /\ DOMAIN list = 1..n
  BY <1>3, <1>4, LenProperties DEF Begins
<1>6. \A i \in 1..m : i \in 1..n /\ list[i] = first[i]
  BY <1>3, <1>5 DEF Begins
<1>7. \A i \in 1..m : Len(first[i]) <= MaxLine /\ LineOk(first[i])
  BY <1>5, <1>6, Zenon DEF Fine
<1>8. Size(first) <= MaxTotal /\ Len(first) <= MaxCount
  BY <1>1, <1>2, <1>3, <1>4, <1>5
<1>9. QED
  BY <1>5, <1>7, <1>8 DEF Fine

-----------------------------------------------------------------------------
(* What the scanner keeps of a whole header block *)

\* Where the header block ends.
End == First(Terminators(stdout))

\* The first empty line, symbol by symbol.
LEMMA EndIs ==
  ASSUME stdout \in Seq(Symbols), Terminators(stdout) # {}
  PROVE  /\ End \in 1..Len(stdout) - 3 /\ \A t \in Terminators(stdout) : End <= t
         /\ stdout[End] = CR /\ stdout[End + 1] = LF /\ stdout[End + 2] = CR /\ stdout[End + 3] = LF
<1>1. PICK positions : positions = Terminators(stdout)
  OBVIOUS
<1>2. positions \in SUBSET Nat /\ positions # {}
  BY <1>1, CRLFAt DEF Terminators, Occurrences
<1>3. PICK t : t = End
  OBVIOUS
<1>4. t \in positions /\ \A i \in positions : t <= i
  BY <1>1, <1>2, <1>3, FirstIsLeast DEF End
<1>5. t \in 1..Len(stdout) - 3 /\ SubSeq(stdout, t, t + 3) = Terminator
  BY <1>1, <1>4, EndSymbols DEF Terminators, Occurrences
<1>6. PICK part : part = SubSeq(stdout, t, t + 3)
  OBVIOUS
<1>7. stdout[t] = CR /\ stdout[t + 1] = LF /\ stdout[t + 2] = CR /\ stdout[t + 3] = LF
  <2>1. part[1] = stdout[t] /\ part[2] = stdout[t + 1] /\ part[3] = stdout[t + 2] /\ part[4] = stdout[t + 3]
    <3>1. PICK from, to : from = t /\ to = t + 3
      OBVIOUS
    <3>2. from \in Int /\ to \in Int /\ \A i \in from..to : i \in 1..Len(stdout)
      BY <1>5, <3>1, LenProperties
    <3>3. \A i \in from..to : stdout[i] \in Symbols
      BY <3>2, ElementOfSeq
    <3>4. \A i \in 1..to - from + 1 : part[i] = stdout[from + i - 1]
      BY <1>6, <3>1, <3>2, <3>3, SubSeqProperties
    <3>5. t \in Int /\ to - from + 1 = 4 /\ t + 1 - 1 = t /\ t + 2 - 1 = t + 1 /\ t + 3 - 1 = t + 2 /\ t + 4 - 1 = t + 3
      BY <3>1, <3>2
    <3>6. \A i \in 1..4 : part[i] = stdout[t + i - 1]
      BY <3>1, <3>4, <3>5
    <3>7. 1 \in 1..4 /\ 2 \in 1..4 /\ 3 \in 1..4 /\ 4 \in 1..4
      OBVIOUS
    <3>8. part[1] = stdout[t + 1 - 1] /\ part[2] = stdout[t + 2 - 1] /\ part[3] = stdout[t + 3 - 1] /\ part[4] = stdout[t + 4 - 1]
      BY <3>6, <3>7, Zenon
    <3>9. QED
      BY <3>5, <3>8, Zenon
  <2>2. part = Terminator
    BY <1>5, <1>6
  <2>3. QED
    BY <2>1, <2>2, EndSymbols, Zenon
<1>8. QED
  BY <1>1, <1>3, <1>4, <1>5, <1>7

\* Where a CR is followed by an LF there is a CRLF.
LEMMA CRLFFound ==
  ASSUME NEW S, NEW s \in Seq(S), NEW i \in 1..Len(s) - 1, s[i] = CR, s[i + 1] = LF
  PROVE  i \in Occurrences(CRLF, s)
<1>1. PICK part : part = SubSeq(s, i, i + 1)
  OBVIOUS
<1>2. Len(s) \in Nat /\ i \in 1..Len(s) /\ i + 1 \in 1..Len(s)
  BY LenProperties
<1>3. part \in Seq(S) /\ Len(part) = 2 /\ part[1] = CR /\ part[2] = LF
  BY <1>1, <1>2
<1>4. part = CRLF
  <2>1. PICK whole : whole = CRLF
    OBVIOUS
  <2>2. Len(whole) = 2 /\ whole[1] = CR /\ whole[2] = LF /\ whole \in Seq({CR, LF})
    BY <2>1, EndSymbols
  <2>3. PICK both : both = S \cup {CR, LF}
    OBVIOUS
  <2>4. part \in Seq(both)
    BY <1>3, <2>3
  <2>5. whole \in Seq(both)
    BY <2>2, <2>3
  <2>6. \A k \in 1..2 : part[k] = whole[k]
    BY <1>3, <2>2
  <2>7. part = whole
    BY <1>3, <2>2, <2>4, <2>5, <2>6, SeqEqual
  <2>8. QED
    BY <2>1, <2>7
<1>5. QED
  BY <1>1, <1>4, EndSymbols DEF Occurrences

\* While it scans, the scanner is at the beginning of a line of the header block or at its
\* end, and has the lines before.
Kept ==
  phase = "scan" /\ Terminators(stdout) # {} =>
    /\ Behind <= End + 1
    /\ Splitting(stdout)[Behind] = [lines |-> lines, part |-> <<>>]
    /\ Fine(lines)
    /\ lines = <<>> => Behind = 0

\* The header block's lines, and the whole parser's answer to them.
HeaderLines == LinesOf(SubSeq(stdout, 1, End - 1))

\* ParseResponse by the lines of the header block.
LEMMA WholeAnswer ==
  ASSUME Terminators(stdout) # {}
  PROVE  ParseResponse(stdout) = IF Fine(HeaderLines) THEN Response(Headers(HeaderLines)) ELSE Rejected
BY Zenon DEF ParseResponse, ParseHeaders, HeaderLines, End, Fine, Headers

\* What is known of a scanner in the header block.
InHeaders ==
  /\ stdout \in Seq(Symbols) /\ buf \in Seq(Symbols) /\ Len(stdout) \in Nat /\ Len(buf) \in Nat
  /\ Behind \in Nat /\ unread \in Nat /\ Behind + Len(buf) + unread = Len(stdout)
  /\ \A i \in 1..Len(buf) : buf[i] = stdout[Behind + i]
  /\ Behind <= End + 1
  /\ Splitting(stdout)[Behind] = [lines |-> lines, part |-> <<>>]
  /\ Fine(lines)
  /\ lines = <<>> => Behind = 0
  /\ End \in 1..Len(stdout) - 3
  /\ stdout[End] = CR /\ stdout[End + 1] = LF /\ stdout[End + 2] = CR /\ stdout[End + 3] = LF
  /\ Splitting(stdout)[End + 1] = [lines |-> HeaderLines, part |-> <<>>]
  /\ lines \in Seq(Seq(Symbols)) /\ HeaderLines \in Seq(Seq(Symbols))
  /\ buf # <<>> => Behind # End

\* While the scanner scans, it is among the headers.
LEMMA Scanning ==
  ASSUME Scanned, Kept, phase = "scan", Terminators(stdout) # {}
  PROVE  InHeaders
<1>1. /\ stdout \in Seq(Symbols) /\ buf \in Seq(Symbols) /\ unread \in 0..Len(stdout)
      /\ Len(buf) + unread <= Len(stdout) /\ \A i \in 1..Len(buf) : buf[i] = stdout[Behind + i]
  BY DEF Scanned, Buffered
<1>2. Len(stdout) \in Nat /\ Len(buf) \in Nat
  BY <1>1, LenProperties
<1>3. Behind \in Nat /\ unread \in Nat /\ Behind + Len(buf) + unread = Len(stdout)
  BY <1>1, <1>2 DEF Behind
<1>4. /\ Behind <= End + 1 /\ Splitting(stdout)[Behind] = [lines |-> lines, part |-> <<>>]
      /\ Fine(lines) /\ (lines = <<>> => Behind = 0)
  BY DEF Kept
<1>5. /\ End \in 1..Len(stdout) - 3
      /\ stdout[End] = CR /\ stdout[End + 1] = LF /\ stdout[End + 2] = CR /\ stdout[End + 3] = LF
  BY <1>1, EndIs
<1>6. End \in 1..Len(stdout) - 1 /\ End + 1 \in 0..Len(stdout) /\ Behind \in 0..Len(stdout)
  BY <1>2, <1>3, <1>4, <1>5
<1>7. PICK t : t = End
  OBVIOUS
<1>8. Splitting(stdout)[t + 1] = [lines |-> LinesOf(SubSeq(stdout, 1, t - 1)), part |-> <<>>]
  BY <1>1, <1>5, <1>6, <1>7, LinesAtEnd
<1>9. Splitting(stdout)[End + 1] = [lines |-> HeaderLines, part |-> <<>>]
  BY <1>7, <1>8 DEF HeaderLines
<1>10. \A k \in 0..Len(stdout) : Splitting(stdout)[k].lines \in Seq(Seq(Symbols))
  BY <1>1, SplittingIs DEF Splits
<1>11. lines \in Seq(Seq(Symbols)) /\ HeaderLines \in Seq(Seq(Symbols))
  <2>1. Splitting(stdout)[Behind].lines = lines /\ Splitting(stdout)[End + 1].lines = HeaderLines
    BY <1>4, <1>9
  <2>2. QED
    BY <1>6, <1>10, <2>1
<1>12. ASSUME buf # <<>>, Behind = End PROVE FALSE
  <2>1. Behind = 0 \/ (Behind >= 2 /\ stdout[Behind - 1] = CR /\ stdout[Behind] = LF)
    BY <1>12 DEF Scanned, AtLine
  <2>2. CR # LF
    BY DEF CR, LF
  <2>3. QED
    BY <1>5, <1>12, <2>1, <2>2
<1>13. QED
  BY <1>1, <1>2, <1>3, <1>4, <1>5, <1>9, <1>11, <1>12 DEF InHeaders

\* The buffer is not at the end of the header block without the empty line, when it holds that far.
LEMMA EndInBuffer ==
  ASSUME Scanned, Kept, phase = "scan", Terminators(stdout) # {},
         Len(buf) >= 2, Behind + Len(buf) >= End + 1
  PROVE  \E p \in Occurrences(CRLF, buf) : Behind + p <= End \/ (Behind = End + 1 /\ p = 1)
<1>0. InHeaders
  BY Scanning
<1>1. /\ buf \in Seq(Symbols) /\ Len(buf) \in Nat /\ Behind \in Nat /\ Behind <= End + 1 /\ End \in Nat /\ Behind # End
      /\ \A i \in 1..Len(buf) : buf[i] = stdout[Behind + i]
      /\ stdout[End] = CR /\ stdout[End + 1] = LF /\ stdout[End + 2] = CR /\ stdout[End + 3] = LF
  <2>1. buf # <<>>
    BY EmptySeq
  <2>2. QED
    BY <2>1, <1>0 DEF InHeaders
<1>2. CASE Behind = End + 1
  <2>1. 1 \in 1..Len(buf) - 1 /\ 1 \in 1..Len(buf) /\ 2 \in 1..Len(buf)
    BY <1>1
  <2>2. Behind + 1 = End + 2 /\ Behind + 2 = End + 3
    BY <1>1, <1>2
  <2>3. buf[1] = CR /\ buf[2] = LF
    BY <1>1, <2>1, <2>2
  <2>4. buf[1 + 1] = LF
    BY <2>3
  <2>5. 1 \in Occurrences(CRLF, buf)
    BY <1>1, <2>1, <2>3, <2>4, CRLFFound
  <2>6. QED
    BY <1>2, <2>5
<1>3. CASE Behind < End
  <2>1. PICK b, t, n : b = Behind /\ t = End /\ n = Len(buf)
    OBVIOUS
  <2>a. PICK p : p = t - b
    OBVIOUS
  <2>b. b \in Nat /\ t \in Nat /\ n \in Nat /\ b < t /\ b + n >= t + 1
    BY <1>1, <1>3, <2>1
  <2>c. p \in 1..n - 1 /\ p \in 1..n /\ p + 1 \in 1..n /\ b + p = t /\ b + (p + 1) = t + 1
    BY <2>a, <2>b
  <2>2. p \in 1..Len(buf) - 1 /\ p \in 1..Len(buf) /\ p + 1 \in 1..Len(buf) /\ Behind + p = End /\ Behind + (p + 1) = End + 1
    BY <2>1, <2>c
  <2>3. buf[p] = CR /\ buf[p + 1] = LF
    BY <1>1, <2>2
  <2>4. p \in Occurrences(CRLF, buf)
    BY <1>1, <2>2, <2>3, CRLFFound
  <2>5. Behind + p <= End
    BY <1>1, <2>2
  <2>6. QED
    BY <2>4, <2>5
<1>4. QED
  BY <1>1, <1>2, <1>3

\* The scanner takes a line: it is the next of the header block.
LEMMA LineTaken ==
  ASSUME Scanned, Kept, phase = "scan", Terminators(stdout) # {}, NEW end, end = First(Occurrences(CRLF, buf)),
         Occurrences(CRLF, buf) # {}, end # 1
  PROVE  /\ end \in Nat /\ end + 1 <= Len(buf) /\ Behind + end <= End /\ end >= 2
         /\ Splitting(stdout)[Behind + end + 1] = [lines |-> Append(lines, SubSeq(buf, 1, end - 1)), part |-> <<>>]
<1>0. InHeaders
  BY Scanning
<1>1. PICK b, n : b = Behind /\ n = Len(buf)
  OBVIOUS
<1>2. /\ stdout \in Seq(Symbols) /\ buf \in Seq(Symbols) /\ b \in Nat /\ n \in Nat /\ Len(stdout) \in Nat
      /\ b + n <= Len(stdout) /\ b <= End + 1 /\ End \in Nat /\ Len(buf) = n
      /\ \A i \in 1..n : buf[i] = stdout[b + i]
      /\ Splitting(stdout)[b] = [lines |-> lines, part |-> <<>>]
  BY <1>0, <1>1 DEF InHeaders
<1>a. b \in Nat /\ n \in Nat /\ Len(stdout) \in Nat /\ b + n <= Len(stdout) /\ b <= End + 1 /\ End \in Nat
  BY <1>2
<1>3. PICK places : places = Occurrences(CRLF, buf)
  OBVIOUS
<1>4. places \in SUBSET Nat /\ places # {}
  BY <1>3 DEF Occurrences
<1>5. end \in places /\ \A i \in places : end <= i
  BY <1>3, <1>4, FirstIsLeast
<1>6. end \in 1..n - 1 /\ buf[end] = CR /\ buf[end + 1] = LF /\ end \in Nat
  BY <1>2, <1>3, <1>4, <1>5, CRLFAt
<1>7. end >= 2 /\ end \in 1..n /\ end + 1 \in 1..n
  BY <1>2, <1>6
<1>8. stdout[b + end] = CR /\ stdout[b + end + 1] = LF
  <2>1. buf[end + 1] = stdout[b + (end + 1)] /\ buf[end] = stdout[b + end]
    BY <1>2, <1>7
  <2>2. b + (end + 1) = b + end + 1
    BY <1>2, <1>6
  <2>3. QED
    BY <1>6, <2>1, <2>2
<1>9. b + end <= End
  <2>1. CASE b + n >= End + 1
    <3>1. n >= 2
      BY <1>2, <1>6
    <3>2. PICK p \in Occurrences(CRLF, buf) : Behind + p <= End \/ (Behind = End + 1 /\ p = 1)
      BY <1>1, <2>1, <3>1, EndInBuffer
    <3>3. p \in Nat /\ end <= p
      BY <1>3, <1>4, <1>5, <3>2
    <3>4. p # 1
      BY <1>7, <3>3
    <3>5. QED
      BY <1>1, <1>2, <1>6, <3>2, <3>3, <3>4
  <2>2. CASE b + n < End + 1
    BY <1>2, <1>6, <2>2
  <2>3. QED
    BY <1>2, <2>1, <2>2
<1>10. Unbroken(stdout, b + 1, b + end - 1)
  <2>1. ASSUME NEW i \in b + 1..b + end - 1, stdout[i] = CR, stdout[i + 1] = LF PROVE FALSE
    <3>1. PICK j : j = i - b
      OBVIOUS
    <3>2. j \in 1..n - 1 /\ j \in 1..n /\ j + 1 \in 1..n /\ b + j = i /\ b + (j + 1) = i + 1 /\ j < end /\ j \in Nat
      BY <1>2, <1>6, <3>1
    <3>3. buf[j] = CR /\ buf[j + 1] = LF
      BY <1>2, <2>1, <3>2
    <3>4. j \in places
      BY <1>2, <1>3, <3>2, <3>3, CRLFFound
    <3>5. QED
      BY <1>5, <1>6, <3>2, <3>4
  <2>2. QED
    BY <2>1 DEF Unbroken
<1>11. SubSeq(stdout, b + 1, b + end - 1) = SubSeq(buf, 1, end - 1)
  <2>1. PICK u : u = SubSeq(stdout, b + 1, b + end - 1)
    OBVIOUS
  <2>2. PICK w : w = SubSeq(buf, 1, end - 1)
    OBVIOUS
  <2>3. /\ w \in Seq(Symbols) /\ Len(w) = end - 1 /\ \A i \in 1..end - 1 : w[i] = buf[i]
    <3>1. PICK to : to = end - 1
      OBVIOUS
    <3>2. to \in 0..Len(buf) /\ buf \in Seq(Symbols)
      BY <1>2, <1>6, <3>1
    <3>3. w \in Seq(Symbols) /\ Len(w) = to /\ \A i \in 1..to : w[i] = buf[i]
      BY <2>2, <3>1, <3>2
    <3>4. QED
      BY <3>1, <3>3
  <2>4. u \in Seq(Symbols) /\ Len(u) = end - 1 /\ \A i \in 1..end - 1 : u[i] = stdout[b + i]
    <3>1. PICK from, to : from = b + 1 /\ to = b + end - 1
      OBVIOUS
    <3>2. from \in Int /\ to \in Int /\ \A i \in from..to : i \in 1..Len(stdout)
      BY <1>a, <1>6, <3>1
    <3>3. \A i \in from..to : stdout[i] \in Symbols
      BY <1>2, <3>2, ElementOfSeq
    <3>4. /\ u \in Seq(Symbols) /\ Len(u) = IF from <= to THEN to - from + 1 ELSE 0
          /\ \A i \in 1..to - from + 1 : u[i] = stdout[from + i - 1]
      BY <2>1, <3>1, <3>2, <3>3, SubSeqProperties
    <3>5. to - from + 1 = end - 1 /\ from <= to /\ \A i \in 1..end - 1 : from + i - 1 = b + i
      BY <1>a, <1>6, <1>7, <3>1
    <3>6. QED
      BY <3>4, <3>5
  <2>5. \A i \in 1..end - 1 : u[i] = w[i]
    <3>1. \A i \in 1..end - 1 : i \in 1..n
      BY <1>a, <1>6
    <3>2. QED
      BY <1>2, <2>3, <2>4, <3>1
  <2>6. QED
    BY <2>1, <2>2, <2>3, <2>4, <2>5, SeqEqual
<1>12. Splitting(stdout)[b + end + 1] = [lines |-> Append(lines, SubSeq(buf, 1, end - 1)), part |-> <<>>]
  <2>1. Splitting(stdout)[b].part = <<>> /\ Splitting(stdout)[b].lines = lines
    BY <1>2
  <2>2. b \in 0..Len(stdout) /\ end \in Nat \ {0} /\ b + end + 1 <= Len(stdout)
    BY <1>2, <1>6
  <2>3. Splitting(stdout)[b + end + 1]
          = [lines |-> IF end = 1 THEN Splitting(stdout)[b].lines
                       ELSE Append(Splitting(stdout)[b].lines, SubSeq(stdout, b + 1, b + end - 1)),
             part |-> <<>>]
    BY <1>2, <1>8, <1>10, <2>1, <2>2, SplittingEnd
  <2>4. QED
    BY <1>11, <2>1, <2>3, Zenon
<1>13. QED
  BY <1>1, <1>2, <1>6, <1>7, <1>9, <1>12

\* A buffer without a CRLF does not hold the end of the headers.
LEMMA NotToEnd ==
  ASSUME Scanned, Kept, phase = "scan", Terminators(stdout) # {}, Occurrences(CRLF, buf) = {}
  PROVE  unread # 0
<1>0. InHeaders
  BY Scanning
<1>1. SUFFICES ASSUME unread = 0 PROVE FALSE
  OBVIOUS
<1>2. Behind + Len(buf) = Len(stdout) /\ Behind <= End + 1 /\ End <= Len(stdout) - 3
      /\ Behind \in Nat /\ Len(buf) \in Nat /\ End \in Nat /\ Len(stdout) \in Nat
  BY <1>0, <1>1 DEF InHeaders
<1>3. Len(buf) >= 2 /\ Behind + Len(buf) >= End + 1
  BY <1>2
<1>4. QED
  BY <1>3, EndInBuffer

\* With every header shorter than the buffer no line is too long for it.
LEMMA LineFits ==
  ASSUME Scanned, Kept, phase = "scan", Terminators(stdout) # {}, Occurrences(CRLF, buf) = {}, Len(buf) = MaxLine
  PROVE  ~LinesFit
<1>0. InHeaders
  BY Scanning
<1> SUFFICES ASSUME LinesFit PROVE FALSE
  OBVIOUS
<1>1. PICK b, t : b = Behind /\ t = End
  OBVIOUS
<1>2. /\ stdout \in Seq(Symbols) /\ buf \in Seq(Symbols) /\ b \in Nat /\ t \in Nat /\ Len(stdout) \in Nat
      /\ b + MaxLine <= Len(stdout) /\ b <= t + 1 /\ t \in 1..Len(stdout) - 3
      /\ \A i \in 1..MaxLine : buf[i] = stdout[b + i]
      /\ Splitting(stdout)[b] = [lines |-> lines, part |-> <<>>]
      /\ Splitting(stdout)[t + 1] = [lines |-> HeaderLines, part |-> <<>>]
      /\ stdout[t] = CR /\ stdout[t + 1] = LF
      /\ lines = <<>> => b = 0
      /\ MaxLine \in Nat \ {0}
      /\ lines \in Seq(Seq(Symbols)) /\ HeaderLines \in Seq(Seq(Symbols))
  BY <1>0, <1>1, ResponseAssumption DEF InHeaders
<1>a. /\ b \in Nat /\ t \in Nat /\ Len(stdout) \in Nat /\ MaxLine \in Nat \ {0}
      /\ b + MaxLine <= Len(stdout) /\ b <= t + 1 /\ t \in 1..Len(stdout) - 3 /\ Len(buf) = MaxLine
  BY <1>2
<1>b. stdout[t] = CR /\ stdout[t + 1] = LF
  BY <1>2
<1>3. \A i \in 1..Len(HeaderLines) : Len(HeaderLines[i]) + 2 <= MaxLine
  <2>1. DOMAIN HeaderLines = 1..Len(HeaderLines)
    BY <1>2
  <2>2. QED
    BY <2>1, Zenon DEF LinesFit, HeaderLines, End
<1>4. \A k \in 0..t + 1 : Begins(Splitting(stdout)[k].lines, HeaderLines)
  <2>1. ASSUME NEW k \in 0..t + 1 PROVE Begins(Splitting(stdout)[k].lines, HeaderLines)
    <3>1. PICK m : m = t + 1
      OBVIOUS
    <3>2. k \in 0..Len(stdout) /\ m \in k..Len(stdout)
      BY <1>2, <3>1
    <3>3. Begins(Splitting(stdout)[k].lines, Splitting(stdout)[m].lines)
      BY <1>2, <3>2, SplittingGrows
    <3>4. Splitting(stdout)[m].lines = HeaderLines
      BY <1>2, <3>1
    <3>5. QED
      BY <3>3, <3>4
  <2>2. QED
    BY <2>1
<1>5. ~(MaxLine >= 2 /\ b + MaxLine >= t + 1)
  BY <1>1, EndInBuffer
<1>6. MaxLine = 1 => b = 0
  <2> SUFFICES ASSUME MaxLine = 1, lines # <<>> PROVE FALSE
    BY <1>2
  <2>1. Len(lines) \in Nat /\ Len(lines) # 0
    BY <1>2, EmptySeq
  <2>2. Splitting(stdout)[b].lines = lines /\ b \in 0..t + 1
    BY <1>2
  <2>3. Begins(lines, HeaderLines)
    BY <1>4, <2>2
  <2>4. Len(HeaderLines) \in Nat
    BY <1>2, LenProperties
  <2>5. 1 \in 1..Len(HeaderLines)
    BY <2>1, <2>3, <2>4 DEF Begins
  <2>6. HeaderLines[1] \in Seq(Symbols)
    BY <1>2, <2>5, ElementOfSeq
  <2>7. Len(HeaderLines[1]) \in Nat /\ Len(HeaderLines[1]) + 2 <= MaxLine
    BY <1>3, <2>5, <2>6, LenProperties
  <2>8. QED
    BY <2>7
<1>7. b + MaxLine <= t
  BY <1>a, <1>5, <1>6
<1>8. PICK ends : ends = {e \in 1..t - b : stdout[b + e] = CR /\ stdout[b + e + 1] = LF}
  OBVIOUS
<1>9. t - b \in ends
  <2>1. t - b \in 1..t - b /\ b + (t - b) = t
    BY <1>a, <1>7
  <2>2. QED
    BY <1>b, <1>8, <2>1
<1>10. PICK e \in ends : \A i \in ends : e <= i
  <2>1. ends \in SUBSET Nat /\ ends # {}
    BY <1>8, <1>9
  <2>2. QED
    BY <2>1, Least
<1>11. e \in 1..t - b /\ stdout[b + e] = CR /\ stdout[b + e + 1] = LF
  BY <1>8
<1>c. stdout[b + e] = CR /\ stdout[b + e + 1] = LF
  BY <1>11
<1>d. stdout \in Seq(Symbols)
  BY <1>2
<1>12. e >= MaxLine
  <2> SUFFICES ASSUME e < MaxLine PROVE FALSE
    BY <1>a, <1>11
  <2>1. e \in 1..Len(buf) - 1 /\ e \in 1..MaxLine /\ e + 1 \in 1..MaxLine /\ b + (e + 1) = b + e + 1
    BY <1>a, <1>11
  <2>2. buf[e] = CR /\ buf[e + 1] = LF
    BY <1>2, <1>11, <2>1
  <2>3. e \in Occurrences(CRLF, buf)
    BY <1>2, <2>1, <2>2, CRLFFound
  <2>4. QED
    BY <2>3
<1>13. e # 1
  <2> SUFFICES ASSUME e = 1 PROVE FALSE
    OBVIOUS
  <2>1. b = 0
    BY <1>a, <1>6, <1>12
  <2>2. stdout[1] = CR /\ stdout[2] = LF /\ Len(stdout) >= 2
    BY <1>a, <1>11, <2>1
  <2>3. ~IsPrefix(CRLF, stdout)
    BY DEF Scanned
  <2>4. \A s \in Seq(Symbols) : IsPrefix(CRLF, s) <=> Len(s) >= 2 /\ s[1] = CR /\ s[2] = LF
    BY CRLFAt
  <2>5. QED
    BY <1>2, <2>2, <2>3, <2>4
<1>14. Unbroken(stdout, b + 1, b + e - 1)
  <2>1. ASSUME NEW i \in b + 1..b + e - 1, stdout[i] = CR, stdout[i + 1] = LF PROVE FALSE
    <3>1. PICK j : j = i - b
      OBVIOUS
    <3>2. j \in 1..t - b /\ j < e /\ b + j = i /\ b + j + 1 = i + 1
      BY <1>a, <1>11, <3>1
    <3>3. j \in ends
      BY <1>8, <2>1, <3>2
    <3>4. QED
      BY <1>10, <1>11, <3>2, <3>3
  <2>2. QED
    BY <2>1 DEF Unbroken
<1>15. PICK line : line = SubSeq(stdout, b + 1, b + e - 1)
  OBVIOUS
<1>16. Splitting(stdout)[b + e + 1].lines = Append(lines, line)
  <2>1. Splitting(stdout)[b].part = <<>> /\ Splitting(stdout)[b].lines = lines
    BY <1>2
  <2>2. b \in 0..Len(stdout) /\ e \in Nat \ {0} /\ b + e + 1 <= Len(stdout)
    BY <1>a, <1>11
  <2>3. Splitting(stdout)[b + e + 1]
          = [lines |-> IF e = 1 THEN Splitting(stdout)[b].lines
                       ELSE Append(Splitting(stdout)[b].lines, SubSeq(stdout, b + 1, b + e - 1)),
             part |-> <<>>]
    BY <1>c, <1>d, <1>14, <2>1, <2>2, SplittingEnd
  <2>4. Splitting(stdout)[b + e + 1] = [lines |-> Append(lines, line), part |-> <<>>]
    BY <1>13, <1>15, <2>1, <2>3, Zenon
  <2>5. QED
    BY <2>4
<1>17. line \in Seq(Symbols) /\ Len(line) = e - 1
  <2>1. PICK from, to : from = b + 1 /\ to = b + e - 1
    OBVIOUS
  <2>2. from \in Int /\ to \in Int /\ \A i \in from..to : i \in 1..Len(stdout)
    BY <1>a, <1>11, <2>1
  <2>3. \A i \in from..to : stdout[i] \in Symbols
    BY <1>2, <2>2, ElementOfSeq
  <2>4. line \in Seq(Symbols) /\ Len(line) = IF from <= to THEN to - from + 1 ELSE 0
    BY <1>15, <2>1, <2>2, <2>3, SubSeqProperties
  <2>5. to - from + 1 = e - 1 /\ from <= to
    BY <1>a, <1>11, <1>13, <2>1
  <2>6. QED
    BY <2>4, <2>5
<1>18. PICK k : k = Len(lines) + 1
  OBVIOUS
<1>19. k \in 1..Len(HeaderLines) /\ HeaderLines[k] = line
  <2>1. PICK longer : longer = Append(lines, line)
    OBVIOUS
  <2>2. Len(longer) = k /\ longer[k] = line /\ k \in Nat /\ k >= 1
    BY <1>2, <1>17, <1>18, <2>1, AppendProperties, LenProperties
  <2>3. b + e + 1 \in 0..t + 1
    BY <1>a, <1>11
  <2>4. Begins(longer, HeaderLines)
    BY <1>4, <1>16, <2>1, <2>3
  <2>5. Len(HeaderLines) \in Nat
    BY <1>2, LenProperties
  <2>6. QED
    BY <2>2, <2>4, <2>5 DEF Begins
<1>20. e - 1 + 2 <= MaxLine
  BY <1>3, <1>17, <1>19
<1>21. QED
  BY <1>a, <1>11, <1>12, <1>20

\* What one more line must be, for the lines to be headers (the checks of
\* ParseResponseStream after each line).
LEMMA FineAppend ==
  ASSUME NEW list \in Seq(Seq(Symbols)), NEW line \in Seq(Symbols), Len(line) <= MaxLine, Fine(list)
  PROVE  /\ Append(list, line) \in Seq(Seq(Symbols)) /\ Append(list, line) # <<>>
         /\ Fine(Append(list, line)) <=>
              /\ Size(Append(list, line)) <= MaxTotal
              /\ Len(Append(list, line)) <= MaxCount
              /\ LineOk(line)
<1>1. PICK W : W = Seq(Symbols)
  OBVIOUS
<1>2. PICK n : n = Len(list)
  OBVIOUS
<1>3. PICK all : all = Append(list, line)
  OBVIOUS
<1>4. n \in Nat /\ all \in Seq(W) /\ Len(all) = n + 1 /\ all[n + 1] = line /\ \A i \in 1..n : all[i] = list[i]
  BY <1>1, <1>2, <1>3, AppendProperties, LenProperties
<1>5. DOMAIN all = 1..n + 1 /\ DOMAIN list = 1..n
  BY <1>1, <1>2, <1>4
<1>6. all # <<>>
  <2>1. Len(<<>>) = 0
    BY EmptySeq
  <2>2. QED
    BY <1>4, <2>1
<1>7. \A i \in 1..n : Len(all[i]) <= MaxLine /\ LineOk(all[i])
  BY <1>4, <1>5, Zenon DEF Fine
<1>8. Len(all[n + 1]) <= MaxLine /\ (LineOk(all[n + 1]) <=> LineOk(line))
  BY <1>4
<1>9. (\A i \in 1..n + 1 : Len(all[i]) <= MaxLine /\ LineOk(all[i])) <=> LineOk(line)
  <2>1. \A i \in 1..n + 1 : i = n + 1 \/ i \in 1..n
    BY <1>4
  <2>2. n + 1 \in 1..n + 1
    BY <1>4
  <2>3. QED
    BY <1>7, <1>8, <2>1, <2>2, Zenon
<1>10. Fine(all) <=> Size(all) <= MaxTotal /\ Len(all) <= MaxCount /\ LineOk(line)
  BY <1>5, <1>9, Zenon DEF Fine
<1>11. QED
  BY <1>1, <1>3, <1>4, <1>6, <1>10, Zenon

\* The next line of the header block is kept, or both parsers refuse it.
LEMMA LineKept ==
  ASSUME Scanned, Kept, ResponseTypeOK, Terminators(stdout) # {}, ScanLine
  PROVE  \/ /\ phase' = "scan" /\ UNCHANGED stdout
            /\ Behind' <= End + 1 /\ Behind' \in Nat
            /\ Splitting(stdout)[Behind'] = [lines |-> lines', part |-> <<>>]
            /\ Fine(lines') /\ lines' # <<>>
         \/ phase' = "done" /\ UNCHANGED stdout /\ response' = ParseResponse(stdout)
<1>1. PICK end : end = First(Occurrences(CRLF, buf))
  OBVIOUS
<1>2. PICK line : line = SubSeq(buf, 1, end - 1)
  OBVIOUS
<1>3. /\ phase = "scan" /\ Occurrences(CRLF, buf) # {} /\ end # 1 /\ AddLine(line)
      /\ buf' = SubSeq(buf, end + 2, Len(buf)) /\ stdout' = stdout /\ unread' = unread
  BY <1>1, <1>2 DEF ScanLine
<1>4. InHeaders
  BY <1>3, Scanning
<1>5. /\ end \in Nat /\ end + 1 <= Len(buf) /\ Behind + end <= End /\ end >= 2
      /\ Splitting(stdout)[Behind + end + 1] = [lines |-> Append(lines, line), part |-> <<>>]
  BY <1>1, <1>2, <1>3, LineTaken
<1>6. /\ stdout \in Seq(Symbols) /\ buf \in Seq(Symbols) /\ Len(stdout) \in Nat /\ Len(buf) \in Nat
      /\ Behind \in Nat /\ unread \in Nat /\ Behind + Len(buf) + unread = Len(stdout)
      /\ End \in 1..Len(stdout) - 3
  BY <1>4 DEF InHeaders
<1>7. /\ Fine(lines) /\ lines \in Seq(Seq(Symbols)) /\ HeaderLines \in Seq(Seq(Symbols))
      /\ Splitting(stdout)[End + 1] = [lines |-> HeaderLines, part |-> <<>>]
  BY <1>4 DEF InHeaders
<1>8. line \in Seq(Symbols) /\ Len(line) <= MaxLine
  <2>1. PICK to : to = end - 1
    OBVIOUS
  <2>2. to \in 0..Len(buf) /\ buf \in Seq(Symbols)
    BY <1>5, <1>6, <2>1
  <2>3. line \in Seq(Symbols) /\ Len(line) = to
    BY <1>2, <2>1, <2>2
  <2>4. Len(buf) <= MaxLine /\ MaxLine \in Nat
    BY ResponseAssumption DEF ResponseTypeOK
  <2>5. QED
    BY <1>6, <2>2, <2>3, <2>4
<1>9. Behind' = Behind + end + 1
  <2>1. PICK from : from = end + 2
    OBVIOUS
  <2>2. from \in 1..Len(buf) + 1 /\ buf' = SubSeq(buf, from, Len(buf))
    BY <1>3, <1>5, <1>6, <2>1
  <2>3. Len(buf') = Len(buf) - from + 1
    BY <1>6, <2>2
  <2>4. Behind' = Len(stdout) - unread - Len(buf')
    BY <1>3 DEF Behind
  <2>5. end \in Nat
    BY <1>5, Zenon
  <2>6. /\ Behind \in Nat /\ Len(buf) \in Nat /\ unread \in Nat /\ Len(stdout) \in Nat
        /\ Behind + Len(buf) + unread = Len(stdout)
    BY <1>6, Zenon
  <2>7. Len(buf') = Len(buf) - end - 1
    BY <2>1, <2>3, <2>5, <2>6
  <2>8. QED
    BY <2>4, <2>5, <2>6, <2>7
<1>10. PICK all : all = Append(lines, line)
  OBVIOUS
<1>11. /\ all \in Seq(Seq(Symbols)) /\ all # <<>>
       /\ Fine(all) <=> Size(all) <= MaxTotal /\ Len(all) <= MaxCount /\ LineOk(line)
  BY <1>7, <1>8, <1>10, FineAppend
<1>12. IF Fine(all) THEN lines' = all /\ UNCHANGED <<phase, response>>
       ELSE response' = Rejected /\ phase' = "done"
  BY <1>3, <1>10, <1>11, Zenon DEF AddLine, Answer
<1>13. CASE Fine(all)
  <2>1. Behind' <= End + 1 /\ Behind' \in Nat
    BY <1>5, <1>6, <1>9
  <2>2. Splitting(stdout)[Behind'] = [lines |-> all, part |-> <<>>]
    BY <1>5, <1>9, <1>10
  <2>3. lines' = all /\ phase' = "scan"
    BY <1>3, <1>12, <1>13
  <2>4. QED
    BY <1>3, <1>11, <1>13, <2>1, <2>2, <2>3
<1>14. CASE ~Fine(all)
  <2>1. PICK b, m : b = Behind + end + 1 /\ m = End + 1
    OBVIOUS
  <2>2. b \in 0..Len(stdout) /\ m \in b..Len(stdout)
    BY <1>5, <1>6, <2>1
  <2>3. Begins(Splitting(stdout)[b].lines, Splitting(stdout)[m].lines)
    BY <1>6, <2>2, SplittingGrows
  <2>4. Splitting(stdout)[b].lines = all /\ Splitting(stdout)[m].lines = HeaderLines
    BY <1>5, <1>7, <1>10, <2>1
  <2>5. ~Fine(HeaderLines)
    BY <1>7, <1>11, <1>14, <2>3, <2>4, FineBegins
  <2>6. ParseResponse(stdout) = Rejected
    BY <2>5, WholeAnswer
  <2>7. QED
    BY <1>3, <1>12, <1>14, <2>6
<1>15. QED
  BY <1>13, <1>14

\* At the empty line the scanner has the lines of the header block (parseHeaders and
\* ParseResponseStream make the same of them).
LEMMA AllKept ==
  ASSUME Scanned, Kept, Terminators(stdout) # {}, ScanTerminator
  PROVE  phase' # "scan" /\ UNCHANGED stdout /\ response' = ParseResponse(stdout)
<1>1. /\ phase = "scan" /\ IsPrefix(CRLF, buf) /\ stdout' = stdout
      /\ response' = Response(Headers(lines)) /\ phase' \in {"copy", "done"}
  BY DEF ScanTerminator, Answer
<1>2. InHeaders
  BY <1>1, Scanning
<1>3. Behind - 1 \in Terminators(stdout) /\ Behind >= 2
  BY <1>1, EmptyLine
<1>4. /\ stdout \in Seq(Symbols) /\ Behind \in Nat /\ Behind <= End + 1 /\ End \in Nat /\ Fine(lines)
      /\ Splitting(stdout)[Behind] = [lines |-> lines, part |-> <<>>]
      /\ Splitting(stdout)[End + 1] = [lines |-> HeaderLines, part |-> <<>>]
  BY <1>2 DEF InHeaders
<1>5. End <= Behind - 1
  BY <1>3, <1>4, EndIs
<1>6. Behind = End + 1
  BY <1>4, <1>5
<1>7. lines = HeaderLines
  <2>1. [lines |-> lines, part |-> <<>>] = [lines |-> HeaderLines, part |-> <<>>]
    BY <1>4, <1>6
  <2>2. QED
    BY <2>1
<1>8. ParseResponse(stdout) = Response(Headers(lines))
  BY <1>4, <1>7, WholeAnswer
<1>9. QED
  BY <1>1, <1>8

\* What the scanner has kept is the beginning of the header block's lines, up to where it
\* is; so its answer is that of the parser that has the block whole (ParseResponse and
\* ParseResponseStream).
THEOREM KeptInductive == ResponseSpec => [](Kept /\ SameAsWhole)
<1>1. ResponseInit => Kept /\ SameAsWhole
  <2> SUFFICES ASSUME ResponseInit PROVE Kept /\ SameAsWhole
    OBVIOUS
  <2>1. stdout \in Seq(Symbols) /\ unread = Len(stdout) /\ buf = <<>> /\ lines = <<>> /\ phase = "scan"
    BY ResponseAssumption DEF ResponseInit
  <2>2. Behind = 0
    <3>1. Len(stdout) \in Nat /\ Len(buf) = 0 /\ unread = Len(stdout)
      BY <2>1
    <3>2. QED
      BY <3>1 DEF Behind
  <2>3. Splitting(stdout)[Behind] = [lines |-> lines, part |-> <<>>]
    BY <2>1, <2>2, SplittingIs
  <2>4. Fine(lines)
    <3>1. Size(lines) = 0 /\ Len(lines) = 0 /\ DOMAIN lines = {}
      BY <2>1, SizeEmpty
    <3>2. QED
      BY <3>1, ResponseAssumption DEF Fine
  <2>5. ASSUME Terminators(stdout) # {} PROVE Behind <= End + 1
    <3>1. End \in Nat
      BY <2>1, <2>5, EndIs
    <3>2. QED
      BY <2>2, <3>1
  <2>6. QED
    BY <2>1, <2>2, <2>3, <2>4, <2>5 DEF Kept, SameAsWhole
<1>2. Kept /\ SameAsWhole /\ Scanned /\ ResponseTypeOK /\ [ResponseNext]_responseVars => (Kept /\ SameAsWhole)'
  <2> SUFFICES ASSUME Kept, SameAsWhole, Scanned, ResponseTypeOK, [ResponseNext]_responseVars
               PROVE  Kept' /\ SameAsWhole'
    OBVIOUS
  <2>0. stdout' = stdout
    BY DEF ResponseNext, responseVars, ScanLine, ScanTerminator, Fill, LineTooLong, LastLine, NoTerminator, Copy,
           ReadFails, CopyFails
  <2>1. Terminators(stdout)' = Terminators(stdout) /\ End' = End /\ LinesFit' = LinesFit
    BY <2>0 DEF Terminators, End, LinesFit
  <2>2. ASSUME phase' # "scan", LinesFit => response' = ParseResponse(stdout)
        PROVE  Kept' /\ SameAsWhole'
    BY <2>0, <2>1, <2>2 DEF Kept, SameAsWhole
  <2>3. ASSUME phase' = phase, response' = response, lines' = lines, Behind' = Behind
        PROVE  Kept' /\ SameAsWhole'
    BY <2>0, <2>1, <2>3 DEF Kept, SameAsWhole
  <2>4. CASE Terminators(stdout) = {}
    BY <2>1, <2>4 DEF Kept, SameAsWhole
  <2> SUFFICES ASSUME Terminators(stdout) # {} PROVE Kept' /\ SameAsWhole'
    BY <2>4
  <2>5. CASE ScanLine
    <3>1. CASE phase' = "done" /\ response' = ParseResponse(stdout)
      BY <2>2, <3>1
    <3>2. CASE /\ phase' = "scan" /\ Behind' <= End + 1
               /\ Splitting(stdout)[Behind'] = [lines |-> lines', part |-> <<>>]
               /\ Fine(lines') /\ lines' # <<>>
      <4>1. Kept'
        BY <2>0, <2>1, <3>2 DEF Kept
      <4>2. SameAsWhole'
        BY <3>2 DEF SameAsWhole
      <4>3. QED
        BY <4>1, <4>2
    <3>3. QED
      BY <2>5, <3>1, <3>2, LineKept
  <2>6. CASE ScanTerminator
    BY <2>2, <2>6, AllKept
  <2>7. CASE Fill
    <3>1. PICK n \in 1..(MaxLine - Len(buf)) : n <= unread /\ buf' = buf \o SubSeq(Rest, 1, n) /\ unread' = unread - n
      BY <2>7 DEF Fill
    <3>2. phase = "scan" /\ UNCHANGED <<lines, phase, response>> /\ n \in Nat
      BY <2>7, <3>1, ResponseAssumption DEF Fill
    <3>3. InHeaders
      BY <3>2, Scanning
    <3>4. stdout \in Seq(Symbols) /\ buf \in Seq(Symbols) /\ Len(stdout) \in Nat /\ Len(buf) \in Nat /\ unread \in Nat /\ unread <= Len(stdout)
      <4>1. Behind \in Nat /\ Behind + Len(buf) + unread = Len(stdout)
        BY <3>3 DEF InHeaders
      <4>2. QED
        BY <3>3, <4>1 DEF InHeaders
    <3>5. PICK part : part = SubSeq(Rest, 1, n)
      OBVIOUS
    <3>6. part \in Seq(Symbols) /\ Len(part) = n
      <4>1. Rest \in Seq(Symbols) /\ Len(Rest) = unread
        BY <3>4 DEF Rest
      <4>2. QED
        BY <3>1, <3>2, <3>4, <3>5, <4>1
    <3>7. Len(buf') = Len(buf) + n
      BY <3>1, <3>4, <3>5, <3>6
    <3>8. Behind' = Behind
      <4>1. Behind' = Len(stdout) - unread' - Len(buf') /\ Behind = Len(stdout) - unread - Len(buf)
        BY <2>0 DEF Behind
      <4>2. QED
        BY <3>1, <3>2, <3>4, <3>7, <4>1
    <3>9. QED
      BY <2>3, <3>2, <3>8
  <2>8. CASE LineTooLong
    <3>1. phase = "scan" /\ Occurrences(CRLF, buf) = {} /\ Len(buf) = MaxLine /\ phase' = "done"
      BY <2>8 DEF LineTooLong, Answer
    <3>2. ~LinesFit
      BY <3>1, LineFits
    <3>3. QED
      BY <2>2, <3>1, <3>2
  <2>9. CASE LastLine
    <3>1. phase = "scan" /\ Occurrences(CRLF, buf) = {} /\ unread = 0
      BY <2>9 DEF LastLine
    <3>2. QED
      BY <3>1, NotToEnd
  <2>10. CASE NoTerminator
    <3>1. phase = "scan" /\ buf = <<>> /\ unread = 0
      BY <2>10 DEF NoTerminator
    <3>2. InHeaders
      BY <3>1, Scanning
    <3>3. Behind + Len(buf) + unread = Len(stdout) /\ Behind <= End + 1 /\ End \in 1..Len(stdout) - 3
          /\ Behind \in Nat /\ Len(stdout) \in Nat
      BY <3>2 DEF InHeaders
    <3>4. Len(buf) = 0
      BY <3>1
    <3>5. QED
      BY <3>1, <3>3, <3>4
  <2>14. CASE ReadFails
    <3>1. phase' = "failed"
      BY <2>14 DEF ReadFails, Answer
    <3>2. QED
      BY <3>1 DEF Kept, SameAsWhole
  <2>11. CASE Copy \/ CopyFails
    <3>1. phase = "copy" /\ phase' \in {"done", "cut"} /\ response' = response
      BY <2>11 DEF Copy, CopyFails
    <3>2. LinesFit => response = ParseResponse(stdout)
      BY <3>1 DEF SameAsWhole
    <3>3. QED
      BY <2>2, <3>1, <3>2
  <2>12. CASE UNCHANGED responseVars
    <3>1. Behind' = Behind
      BY <2>12 DEF responseVars, Behind
    <3>2. QED
      BY <2>3, <2>12, <3>1 DEF responseVars
  <2>13. QED
    BY <2>5, <2>6, <2>7, <2>8, <2>9, <2>10, <2>11, <2>12, <2>14 DEF ResponseNext
<1>3. QED
  BY <1>1, <1>2, ScannedInductive, ResponseTypes, PTL DEF ResponseSpec

\* The stream parser answers as the parser does that has the output whole.
THEOREM SameAsWholeHolds == ResponseSpec => []SameAsWhole
<1>1. Kept /\ SameAsWhole => SameAsWhole
  OBVIOUS
<1>2. QED
  BY <1>1, KeptInductive, PTL
=============================================================================
