---------------------------- MODULE GatewayProofs ----------------------------
(***************************************************************************)
(* Proofs about RequestPath and GatewayServer, for any clients, targets,   *)
(* trees of files, routes, rules, settings and bounds.                     *)
(*                                                                         *)
(* Fresh needs that the copy a client keeps is no newer than anything it   *)
(* can see in a later request, nor its ETag newer than its body, as long   *)
(* as no release is put back; and that without precompressed files the two *)
(* are of one file.  Justified needs, for each place a request can be in,  *)
(* what it has found missing on the way there.                             *)
(*                                                                         *)
(* KnownGood needs that what the reloading goroutine has loaded stays      *)
(* valid until it is in force, although the file goes on changing; and     *)
(* Together that what is being swapped in is what was published.           *)
(*                                                                         *)
(* The rules and the paths are sequences, and what is computed of them a   *)
(* function by recursion on their length; that it exists, and what holds   *)
(* of it, is proved by the least length that fails (Least).  A list of     *)
(* rules is that in which they were added, put in order by a permutation   *)
(* (Ranked), and the decision is the verdict over the beginning looked at  *)
(* (Outcome).  A parsed path is made of segments that name something, and  *)
(* Split takes apart what Join put together.                               *)
(***************************************************************************)
EXTENDS MCRequestPath, GatewayServer, SequenceTheorems, WellFoundedInduction,
        TLAPS

-----------------------------------------------------------------------------
(* The invariant of RequestPath *)

\* The reserve of Fresh.
Excused == back /\ (setup.precompressed \/ "If-Modified-Since" \in setup.validators)

\* What is in place during a request is among what it has seen.
Watched(c) == pc[c] # "idle" => current \in seen[c] /\ php \in phpSeen[c]

\* The file to be sent was opened during the request.
Held(c) == pc[c] = "headers" \/ (pc[c] # "idle" /\ stage[c] = "sibling") => file[c].release \in seen[c]

\* Without precompressed files a copy and its ETag are of one file.
Paired(c) ==
  ~setup.precompressed =>
    /\ stage[c] # "sibling"
    /\ \A t \in Targets : cache[c][t].etag = cache[c][t].body

\* Until a release is put back, a copy is no older than its ETag, and no newer than
\* anything a later request sees.
Ascending(c) ==
  ~back =>
    /\ \A t \in Targets : /\ cache[c][t].etag.release <= cache[c][t].body.release
                          /\ cache[c][t].body.release <= current
    /\ pc[c] # "idle" =>
         \A release \in seen[c] :
           /\ release <= current
           /\ \A t \in Targets : cache[c][t].body.release <= release

\* What the request looks for, unless it is a precompressed file.
Sought(c) == IF stage[c] = "index" THEN Index[path[c]] ELSE path[c]

\* What a request is about, and what it has seen of PHP, from where it is.
Placed(c) ==
  /\ pc[c] \in {"lstat", "eval", "open", "headers", "fallback"} => path[c] \notin Scripts
  /\ pc[c] = "explicit" => path[c] \in Scripts
  /\ pc[c] \in {"stat", "info"} => TRUE \in phpSeen[c]
  /\ pc[c] # "idle" /\ stage[c] = "index" => FALSE \in phpSeen[c]

\* The name at hand is the one sought, or what it led to at some moment.
Looking(c) ==
  /\ pc[c] \in {"lstat", "eval", "open", "info"} => wanted[c] # <<>>
  /\ stage[c] # "sibling" =>
       /\ pc[c] \in {"lstat", "eval"} => Head(wanted[c]) = Sought(c)
       /\ pc[c] = "open" => \E release \in seen[c] : Head(wanted[c]) = Reached(release, Sought(c))

\* What has been found missing so far.
Missed(c) ==
  path[c] \notin Scripts =>
    /\ pc[c] \in {"fallback", "stat", "info"} \/ (pc[c] # "idle" /\ stage[c] = "index") => ~Steady(c, path[c])
    /\ pc[c] = "stat" => wanted[c] = Entries \/ ~Steady(c, Entries[1])
    /\ pc[c] = "info" => Head(wanted[c]) = Entries[1] \/ ~Steady(c, Entries[1])

Kept(c) ==
  /\ Watched(c) /\ Held(c) /\ Paired(c) /\ Ascending(c)
  /\ Placed(c) /\ Looking(c) /\ Missed(c) /\ JustifiedFor(c)
  /\ Excused \/ HasCurrent(c)

RequestInv == TypeOK /\ \A c \in Clients : Kept(c)

-----------------------------------------------------------------------------
(* Routes *)

\* A route redirects, proxies or rewrites, and rewrites to a name if at all.
LEMMA RouteKinds ==
  ASSUME NEW r \in 1..Len(Routes)
  PROVE  /\ Routes[r].kind \in {"redirect", "proxy", "rewrite"}
         /\ Routes[r].kind = "rewrite" => Routes[r].to \in Names \cup {"unchanged"}
BY RequestAssumption

\* The first route that matches is a route.
LEMMA RouteFound == ASSUME NEW t PROVE RouteOf(t) \in 0..Len(Routes)
<1> DEFINE matching == {r \in 1..Len(Routes) : t \in Routes[r].targets}
           least == CHOOSE r \in matching : \A s \in matching : r <= s
           less == OpToRel(<, Nat)
<1>1. Len(Routes) \in Nat
  BY RequestAssumption
<1> HIDE DEF less
<1>2. CASE matching # {}
  <2>1. matching \subseteq Nat
    BY <1>1
  <2>2. IsWellFoundedOn(less, Nat)
    BY NatLessThanWellFounded DEF less
  <2>3. PICK r \in matching : \A s \in matching : <<s, r>> \notin less
    BY <1>2, <2>1, <2>2, WFMin
  <2>4. \A m, n \in Nat : m < n => <<m, n>> \in less
    BY DEF less, OpToRel
  <2>5. \A s \in matching : r <= s
    <3> HIDE DEF matching
    <3>1. ASSUME NEW s \in matching PROVE r <= s
      <4>1. s \in Nat /\ r \in Nat /\ <<s, r>> \notin less
        BY <2>1, <2>3
      <4>2. ~(s < r)
        BY <2>4, <4>1, Zenon
      <4>3. QED
        BY <4>1, <4>2
    <3>2. QED
      BY <3>1
  <2>6. least \in matching
    BY <2>5
  <2>7. RouteOf(t) = least
    BY <1>2 DEF RouteOf, SelectInSeq, Min
  <2>8. QED
    BY <2>6, <2>7, <1>1
<1>3. CASE matching = {}
  BY <1>1, <1>3 DEF RouteOf, SelectInSeq
<1>4. QED
  BY <1>2, <1>3

-----------------------------------------------------------------------------
(* What moves one client leaves the others alone *)

\* Nothing of client d changes.
Same(d) ==
  /\ pc'[d] = pc[d] /\ target'[d] = target[d] /\ path'[d] = path[d]
  /\ wanted'[d] = wanted[d] /\ stage'[d] = stage[d] /\ file'[d] = file[d]
  /\ answer'[d] = answer[d] /\ cache'[d] = cache[d]
  /\ seen'[d] = seen[d] /\ phpSeen'[d] = phpSeen[d]

\* What is kept of a client to whom nothing happens.
LEMMA OthersKept ==
  ASSUME NEW d \in Clients, Kept(d), Same(d), UNCHANGED world
  PROVE  Kept(d)'
<1> USE DEF Same, world
<1>1. Watched(d)' /\ Held(d)'
  BY DEF Kept, Watched, Held
<1>2. Paired(d)' /\ Ascending(d)'
  BY DEF Kept, Paired, Ascending
<1>3. Placed(d)' /\ Looking(d)'
  BY DEF Kept, Placed, Looking, Sought
<1>4. \A n : Steady(d, n)' <=> Steady(d, n)
  BY DEF Steady
<1>5. Missed(d)'
  BY <1>4 DEF Kept, Missed
<1>6. JustifiedFor(d)'
  BY <1>4 DEF Kept, JustifiedFor, Answered
<1>7. (Excused \/ HasCurrent(d))'
  BY DEF Kept, Excused, HasCurrent, Answered
<1>8. QED
  BY <1>1, <1>2, <1>3, <1>5, <1>6, <1>7 DEF Kept

\* A step of one client keeps the invariant if it keeps it for that client.
LEMMA OneMoves ==
  ASSUME RequestInv, NEW c \in Clients, UNCHANGED world,
         \A d \in Clients \ {c} : Same(d), TypeOK', Kept(c)'
  PROVE  RequestInv'
<1>1. ASSUME NEW d \in Clients \ {c} PROVE Kept(d)'
  BY <1>1, OthersKept DEF RequestInv
<1>2. QED
  BY <1>1 DEF RequestInv

Places == {"explicit", "lstat", "eval", "open", "headers", "fallback", "stat", "info"}

\* The request of client c goes on to another place.
LEMMA Goes ==
  ASSUME RequestInv, NEW c \in Clients, pc[c] # "idle", NEW place \in Places,
         UNCHANGED <<world, target, path, history, done>>,
         pc' = [pc EXCEPT ![c] = place],
         wanted' \in [Clients -> Seq(Names)], \A d \in Clients \ {c} : wanted'[d] = wanted[d],
         stage' \in [Clients -> {"file", "sibling", "index"}], \A d \in Clients \ {c} : stage'[d] = stage[d],
         file' \in [Clients -> Copies], \A d \in Clients \ {c} : file'[d] = file[d],
         Held(c)', ~setup.precompressed => stage'[c] # "sibling",
         Placed(c)', Looking(c)', Missed(c)'
  PROVE  RequestInv'
<1> USE DEF world, history, done
<1>1. pc \in [Clients -> Places \cup {"idle"}]
  BY DEF RequestInv, TypeOK, Places
<1>2. pc'[c] = place /\ place # "idle" /\ \A d \in Clients \ {c} : pc'[d] = pc[d]
  BY <1>1 DEF Places
<1>3. TypeOK'
  <2>1. pc' \in [Clients -> {"idle", "explicit", "lstat", "eval", "open", "headers", "fallback", "stat", "info"}]
    BY <1>1 DEF Places
  <2>2. QED
    BY <2>1 DEF RequestInv, TypeOK
<1>4. \A d \in Clients \ {c} : Same(d)
  BY <1>2 DEF Same
<1>5. Kept(c)'
  <2> USE <1>2
  <2>1. Kept(c)
    BY DEF RequestInv
  <2>2. Watched(c)' /\ Paired(c)' /\ Ascending(c)'
    BY <2>1 DEF Kept, Watched, Paired, Ascending
  <2>3. JustifiedFor(c)' /\ HasCurrent(c)'
    BY DEF JustifiedFor, HasCurrent, Answered
  <2>4. QED
    BY <2>2, <2>3 DEF Kept
<1>6. QED
  BY <1>3, <1>4, <1>5, OneMoves

\* What a request may be answered besides files, and when.
Allowed(c, a) ==
  /\ a \in {"404", "script"} /\ path[c] \notin Scripts => ~Steady(c, path[c])
  /\ a = "404" =>
       /\ path[c] \in Scripts => TRUE \in phpSeen[c]
       /\ TRUE \notin phpSeen[c] => ~Steady(c, Index[path[c]])
       /\ FALSE \notin phpSeen[c] /\ path[c] \notin Scripts => ~Steady(c, Entries[1])
  /\ a = "503" => path[c] \in Scripts /\ FALSE \in phpSeen[c]
  /\ a = "script" => TRUE \in phpSeen[c]
  /\ a = "not modified" => Excused \/ cache[c][target[c]].body.release \in seen[c]

\* The request of client c is answered, but not with a file.
LEMMA Finishes ==
  ASSUME RequestInv, NEW c \in Clients, pc[c] # "idle",
         NEW a \in {"not modified", "precondition failed", "script", "403", "404", "503"},
         UNCHANGED <<world, target, path, history, cache, stage, file>>,
         Finish(c, a), Allowed(c, a)
  PROVE  RequestInv'
<1> USE DEF world, history
<1>1. /\ pc' = [pc EXCEPT ![c] = "idle"]
      /\ answer' = [answer EXCEPT ![c] = a]
      /\ wanted' = wanted
  BY DEF Finish
<1>2. /\ pc'[c] = "idle" /\ \A d \in Clients \ {c} : pc'[d] = pc[d]
      /\ answer'[c] = a /\ \A d \in Clients \ {c} : answer'[d] = answer[d]
  BY <1>1 DEF RequestInv, TypeOK
<1>3. TypeOK'
  <2>1. pc' \in [Clients -> {"idle", "explicit", "lstat", "eval", "open", "headers", "fallback", "stat", "info"}]
    BY <1>1 DEF RequestInv, TypeOK
  <2>2. answer' \in [Clients -> {"none", "static", "not modified", "precondition failed", "script",
                             "redirect", "proxy", "400", "403", "404", "503"}]
    BY <1>1 DEF RequestInv, TypeOK
  <2>3. QED
    BY <2>1, <2>2, <1>1 DEF RequestInv, TypeOK
<1>4. \A d \in Clients \ {c} : Same(d)
  BY <1>1, <1>2 DEF Same
<1>5. Kept(c)'
  <2> USE <1>2
  <2>1. Kept(c)
    BY DEF RequestInv
  <2>2. Watched(c)' /\ Held(c)' /\ Paired(c)' /\ Ascending(c)'
    BY <2>1 DEF Kept, Watched, Held, Paired, Ascending
  <2>3. Placed(c)' /\ Looking(c)' 
    BY <2>1 DEF Kept, Placed, Looking
  <2>4. \A n : Steady(c, n)' <=> Steady(c, n)
    BY DEF Steady
  <2>5. Missed(c)'
    BY DEF Missed
  <2>6. JustifiedFor(c)'
    BY <2>4 DEF JustifiedFor, Answered, Allowed
  <2>7. (Excused \/ HasCurrent(c))'
    BY DEF Allowed, HasCurrent, Excused, Answered
  <2>8. QED
    BY <2>2, <2>3, <2>5, <2>6, <2>7 DEF Kept
<1>6. QED
  BY <1>3, <1>4, <1>5, OneMoves


\* Client c is sent a file.
LEMMA Sends ==
  ASSUME RequestInv, NEW c \in Clients, pc[c] # "idle", NEW body \in Copies,
         UNCHANGED <<world, target, path, history, stage, file>>,
         Send(c, body), body.release \in seen[c],
         ~setup.precompressed => body = file[c],
         ~back => file[c].release <= body.release /\ body.release <= current
  PROVE  RequestInv'
<1> USE DEF world, history
<1> DEFINE t == target[c]
           kept == [etag |-> file[c], body |-> body]
<1>0. /\ t \in Targets /\ file[c] \in Copies
      /\ pc \in [Clients -> {"idle", "explicit", "lstat", "eval", "open", "headers", "fallback", "stat", "info"}]
      /\ cache \in [Clients -> [Targets -> [etag : Copies, body : Copies]]]
      /\ answer \in [Clients -> {"none", "static", "not modified", "precondition failed", "script",
                             "redirect", "proxy", "400", "403", "404", "503"}]
  BY DEF RequestInv, TypeOK
<1>1. /\ pc' = [pc EXCEPT ![c] = "idle"]
      /\ answer' = [answer EXCEPT ![c] = "static"]
      /\ wanted' = wanted
      /\ cache' = [cache EXCEPT ![c] = [cache[c] EXCEPT ![t] = kept]]
  BY DEF Send, Finish, Etag
<1>2. /\ pc'[c] = "idle" /\ \A d \in Clients \ {c} : pc'[d] = pc[d]
      /\ answer'[c] = "static" /\ \A d \in Clients \ {c} : answer'[d] = answer[d]
      /\ \A d \in Clients \ {c} : cache'[d] = cache[d]
      /\ cache'[c] = [cache[c] EXCEPT ![t] = kept]
  BY <1>0, <1>1
<1>3. /\ cache'[c][t] = kept
      /\ \A u \in Targets \ {t} : cache'[c][u] = cache[c][u]
      /\ cache'[c] \in [Targets -> [etag : Copies, body : Copies]]
  <2>1. kept \in [etag : Copies, body : Copies] /\ cache[c] \in [Targets -> [etag : Copies, body : Copies]]
    BY <1>0
  <2> HIDE DEF kept
  <2>2. cache'[c] = [cache[c] EXCEPT ![t] = kept] /\ t \in Targets
    BY <1>0, <1>2
  <2> HIDE DEF t
  <2>3. cache'[c] \in [Targets -> [etag : Copies, body : Copies]]
    BY <2>1, <2>2
  <2>4. cache'[c][t] = kept /\ \A u \in Targets \ {t} : cache'[c][u] = cache[c][u]
    BY <2>1, <2>2
  <2>5. QED
    BY <2>3, <2>4
<1>4. TypeOK'
  <2>1. pc' \in [Clients -> {"idle", "explicit", "lstat", "eval", "open", "headers", "fallback", "stat", "info"}]
    BY <1>0, <1>1
  <2>2. answer' \in [Clients -> {"none", "static", "not modified", "precondition failed", "script",
                             "redirect", "proxy", "400", "403", "404", "503"}]
    BY <1>0, <1>1
  <2>3. cache' \in [Clients -> [Targets -> [etag : Copies, body : Copies]]]
    BY <1>0, <1>1, <1>3
  <2>4. QED
    BY <2>1, <2>2, <2>3, <1>1 DEF RequestInv, TypeOK
<1>5. \A d \in Clients \ {c} : Same(d)
  BY <1>1, <1>2 DEF Same
<1>6. Kept(c)'
  <2> USE <1>2
  <2>1. Kept(c)
    BY DEF RequestInv
  <2>2. Watched(c)' /\ Held(c)'
    BY DEF Watched, Held
  <2>3. Paired(c)'
    <3>1. ASSUME ~setup.precompressed, NEW u \in Targets PROVE cache'[c][u].etag = cache'[c][u].body
      BY <2>1, <1>3, <3>1 DEF Kept, Paired
    <3>2. QED
      BY <2>1, <3>1 DEF Kept, Paired
  <2>4. Ascending(c)'
    <3>1. ASSUME ~back, NEW u \in Targets
          PROVE  cache'[c][u].etag.release <= cache'[c][u].body.release /\ cache'[c][u].body.release <= current
      BY <2>1, <1>3, <3>1 DEF Kept, Ascending
    <3>2. QED
      BY <3>1 DEF Ascending
  <2>5. Placed(c)' /\ Looking(c)' /\ Missed(c)'
    BY <2>1 DEF Kept, Placed, Looking, Missed
  <2>6. JustifiedFor(c)'
    BY DEF JustifiedFor, Answered
  <2>7. HasCurrent(c)'
    <3>1. cache'[c][target'[c]].body = body
      BY <1>3
    <3>2. QED
      BY <3>1 DEF HasCurrent
  <2>8. QED
    BY <2>2, <2>3, <2>4, <2>5, <2>6, <2>7 DEF Kept
<1>7. QED
  BY <1>4, <1>5, <1>6, OneMoves

-----------------------------------------------------------------------------
(* The files, and what can be said of those that were found missing *)

\* The kind of a name is not a name; the releases are numbers.
LEMMA Disk ==
  /\ Releases \subseteq Nat \ {0} /\ 1 \in Releases
  /\ \A release \in Releases, name \in Names :
       /\ Kind(release, name) \in {"none", "file", "dir"} \cup Names
       /\ Kind(release, name) \in Names <=> Kind(release, name) \notin {"none", "file", "dir"}
       /\ Reached(release, name) \in Names
<1>1. Tree \in Seq([Names -> {"none", "file", "dir"} \cup Names]) /\ Tree # <<>>
  BY RequestAssumption
<1>2. Releases = 1..Len(Tree) /\ Len(Tree) \in Nat \ {0}
  BY <1>1 DEF Releases
<1>3. ASSUME NEW release \in Releases, NEW name \in Names
      PROVE  Kind(release, name) \in {"none", "file", "dir"} \cup Names
  BY <1>1, <1>2 DEF Kind
<1>4. ASSUME NEW release \in Releases, NEW name \in Names
      PROVE  /\ Kind(release, name) \in Names <=> Kind(release, name) \notin {"none", "file", "dir"}
             /\ Reached(release, name) \in Names
  BY <1>3, RequestAssumption DEF Reached, IsLink
<1>5. Releases \subseteq Nat \ {0} /\ 1 \in Releases
  BY <1>2
<1>6. QED
  BY <1>3, <1>4, <1>5

\* Bounds, releases and those of copies are numbers.
LEMMA Numbers ==
  /\ MaxMoves \in Nat /\ MaxOutages \in Nat
  /\ Releases \subseteq Int
  /\ \A copy \in Copies : copy.release \in Int
<1>1. Releases \subseteq Int
  BY Disk
<1>2. ASSUME NEW copy \in Copies PROVE copy.release \in Int
  <2>1. CASE copy = None
    BY <2>1 DEF None
  <2>2. CASE copy \in [name : Names, release : Releases]
    BY <1>1, <2>2
  <2>3. QED
    BY <2>1, <2>2 DEF Copies
<1>3. QED
  BY <1>1, <1>2, RequestAssumption

\* What a request finds missing was not there throughout.
LEMMA NotSteady ==
  ASSUME NEW c \in Clients, NEW name \in Names, NEW release \in seen[c],
         name \in Protected \/ ~IsFile(release, name) \/ (IsLink(release, name) /\ ~Follows)
  PROVE  ~Steady(c, name)
BY DEF Steady

\* What was reached once, and is no file by now, was not there throughout.
LEMMA NotSteadyBehind ==
  ASSUME NEW c \in Clients, NEW name \in Names, seen[c] \subseteq Releases,
         NEW before \in seen[c], NEW now \in seen[c], ~IsFile(now, Reached(before, name))
  PROVE  ~Steady(c, name)
<1> SUFFICES ASSUME Steady(c, name) PROVE FALSE
  OBVIOUS
<1>1. Kind(before, name) = Kind(now, name) /\ IsFile(now, name)
  BY DEF Steady
<1>2. Reached(before, name) = Reached(now, name)
  BY <1>1 DEF Reached, IsLink
<1>3. Kind(now, Reached(now, name)) = "file"
  BY <1>1 DEF IsFile
<1>4. Reached(now, Reached(now, name)) = Reached(now, name)
  BY <1>3, RequestAssumption DEF Reached, IsLink
<1>5. QED
  BY <1>2, <1>3, <1>4 DEF IsFile

-----------------------------------------------------------------------------
(* ServeHTTP and the availability of PHP *)

\* Explicit.
LEMMA ExplicitKeeps ==
  ASSUME RequestInv, NEW c \in Clients, Explicit(c)
  PROVE  RequestInv'
<1> USE DEF At
<1>1. Kept(c) /\ pc[c] = "explicit" /\ path[c] \in Scripts
  BY DEF RequestInv, Explicit, Kept, Placed
<1>2. CASE php
  <2>1. /\ pc' = [pc EXCEPT ![c] = "stat"] /\ UNCHANGED done
        /\ wanted' = [wanted EXCEPT ![c] = wanted[c] \o Entries]
        /\ UNCHANGED <<world, target, path, history, stage, file>>
    BY <1>2 DEF Explicit, Goto, Look
  <2>2. pc'[c] = "stat"
    BY <2>1 DEF RequestInv, TypeOK
  <2>3. wanted' \in [Clients -> Seq(Names)] /\ \A d \in Clients \ {c} : wanted'[d] = wanted[d]
    <3>1. wanted[c] \in Seq(Names) /\ Entries \in Seq(Names)
      BY RequestAssumption DEF RequestInv, TypeOK
    <3>2. wanted[c] \o Entries \in Seq(Names)
      BY <3>1
    <3>3. QED
      BY <2>1, <3>2 DEF RequestInv, TypeOK
  <2>4. Held(c)' /\ Looking(c)' /\ (~setup.precompressed => stage'[c] # "sibling")
    BY <1>1, <2>1, <2>2 DEF Kept, Held, Looking, Paired, history
  <2>5. Placed(c)'
    BY <1>1, <1>2, <2>1, <2>2 DEF Kept, Placed, Watched, history
  <2>6. Missed(c)'
    BY <1>1, <2>1 DEF Missed
  <2>7. QED
    BY <1>1, <2>1, <2>3, <2>4, <2>5, <2>6, Goes DEF Places, RequestInv, TypeOK
<1>3. CASE ~php
  <2>1. Finish(c, "503") /\ UNCHANGED <<world, target, path, history, cache, stage, file>>
    BY <1>3 DEF Explicit
  <2>2. Allowed(c, "503")
    BY <1>1, <1>3 DEF Allowed, Kept, Watched, RequestInv, TypeOK
  <2>3. QED
    BY <1>1, <2>1, <2>2, Finishes
<1>4. QED
  BY <1>2, <1>3

\* Fallback.
LEMMA FallbackKeeps ==
  ASSUME RequestInv, NEW c \in Clients, Fallback(c)
  PROVE  RequestInv'
<1> USE DEF At
<1>1. Kept(c) /\ pc[c] = "fallback" /\ path[c] \notin Scripts /\ path[c] \in Names
  BY DEF RequestInv, TypeOK, Fallback, Kept, Placed
<1>2. UNCHANGED <<world, target, path, history, done, file>>
  BY DEF Fallback, Goto
<1>3. \A n : Steady(c, n)' <=> Steady(c, n)
  BY <1>2 DEF Steady, history
<1>4. CASE php
  <2>1. /\ pc' = [pc EXCEPT ![c] = "stat"]
        /\ wanted' = [wanted EXCEPT ![c] = Entries]
        /\ stage' = stage
    BY <1>4 DEF Fallback, Goto, Look
  <2>2. pc'[c] = "stat" /\ wanted'[c] = Entries
    BY <2>1 DEF RequestInv, TypeOK
  <2>3. wanted' \in [Clients -> Seq(Names)] /\ \A d \in Clients \ {c} : wanted'[d] = wanted[d]
    BY <2>1, RequestAssumption DEF RequestInv, TypeOK
  <2>4. Held(c)' /\ Looking(c)' /\ (~setup.precompressed => stage'[c] # "sibling")
    BY <1>1, <1>2, <2>1, <2>2 DEF Kept, Held, Looking, Paired, history
  <2>5. Placed(c)'
    BY <1>1, <1>2, <1>4, <2>1, <2>2 DEF Kept, Placed, Watched, history
  <2>6. Missed(c)'
    BY <1>1, <1>2, <1>3, <2>1, <2>2 DEF Kept, Missed
  <2>7. QED
    BY <1>1, <1>2, <2>1, <2>3, <2>4, <2>5, <2>6, Goes DEF Places, RequestInv, TypeOK
<1>5. CASE ~php
  <2>1. /\ pc' = [pc EXCEPT ![c] = "lstat"]
        /\ wanted' = [wanted EXCEPT ![c] = <<Index[path[c]]>>]
        /\ stage' = [stage EXCEPT ![c] = "index"]
    BY <1>5 DEF Fallback, Goto, Look
  <2>2. pc'[c] = "lstat" /\ wanted'[c] = <<Index[path[c]]>> /\ stage'[c] = "index"
    BY <2>1 DEF RequestInv, TypeOK
  <2>3. wanted' \in [Clients -> Seq(Names)] /\ \A d \in Clients \ {c} : wanted'[d] = wanted[d]
    <3>1. Index[path[c]] \in Names
      BY <1>1, RequestAssumption
    <3>2. <<Index[path[c]]>> \in Seq(Names)
      BY <3>1
    <3>3. QED
      BY <2>1, <3>2 DEF RequestInv, TypeOK
  <2>4. /\ stage' \in [Clients -> {"file", "sibling", "index"}]
        /\ \A d \in Clients \ {c} : stage'[d] = stage[d]
    BY <2>1 DEF RequestInv, TypeOK
  <2>5. Held(c)' /\ Looking(c)'
    BY <1>1, <1>2, <2>2 DEF Kept, Held, Looking, Sought
  <2>6. Placed(c)'
    BY <1>1, <1>2, <1>5, <2>2 DEF Kept, Placed, Watched, history, RequestInv, TypeOK
  <2>7. Missed(c)'
    BY <1>1, <1>2, <1>3, <2>2 DEF Kept, Missed
  <2>8. QED
    BY <1>1, <1>2, <2>1, <2>2, <2>3, <2>4, <2>5, <2>6, <2>7, Goes DEF Places, RequestInv, TypeOK
<1>6. QED
  BY <1>4, <1>5

-----------------------------------------------------------------------------
(* Resolve *)

\* Resolve finds nothing.
LEMMA UnresolvedKeeps ==
  ASSUME RequestInv, NEW c \in Clients, pc[c] \in {"lstat", "eval", "open"},
         UNCHANGED <<world, target, path, history>>, Unresolved(c),
         stage[c] # "sibling" => ~Steady(c, Sought(c))
  PROVE  RequestInv'
<1>1. /\ Kept(c) /\ path[c] \notin Scripts /\ UNCHANGED <<stage, file>>
      /\ stage[c] \in {"file", "sibling", "index"}
  BY DEF RequestInv, TypeOK, Kept, Placed, Unresolved
<1>2. \A n : Steady(c, n)' <=> Steady(c, n)
  BY DEF Steady, history
<1>3. CASE stage[c] = "file"
  <2>1. pc' = [pc EXCEPT ![c] = "fallback"] /\ UNCHANGED <<done, wanted>>
    BY <1>3 DEF Unresolved, Goto
  <2>2. pc'[c] = "fallback"
    BY <2>1 DEF RequestInv, TypeOK
  <2>3. Held(c)' /\ Looking(c)' /\ (~setup.precompressed => stage'[c] # "sibling")
    BY <1>1, <1>3, <2>2 DEF Held, Looking
  <2>4. Placed(c)'
    BY <1>1, <1>3, <2>2 DEF Placed
  <2>5. Missed(c)'
    BY <1>1, <1>2, <1>3, <2>2 DEF Missed, Sought
  <2>6. QED
    BY <1>1, <2>1, <2>3, <2>4, <2>5, Goes DEF Places, RequestInv, TypeOK
<1>4. CASE stage[c] = "sibling"
  <2>1. Send(c, file[c])
    BY <1>4 DEF Unresolved
  <2>2. file[c].release \in seen[c] /\ file[c] \in Copies /\ seen[c] \subseteq Releases
    BY <1>1, <1>4 DEF Kept, Held, RequestInv, TypeOK
  <2>3. ~back => file[c].release <= current
    BY <1>1, <2>2 DEF Kept, Ascending
  <2>4. file[c].release <= file[c].release
    <3>1. Releases \subseteq Nat
      BY Disk
    <3>2. file[c].release \in Nat
      BY <2>2, <3>1
    <3>3. QED
      BY <3>2
  <2>5. QED
    BY <1>1, <2>1, <2>2, <2>3, <2>4, Sends
<1>5. CASE stage[c] = "index"
  <2>1. Finish(c, "404") /\ UNCHANGED cache
    BY <1>5 DEF Unresolved
  <2>2. Allowed(c, "404")
    BY <1>1, <1>5 DEF Allowed, Kept, Placed, Missed, Sought
  <2>3. QED
    BY <1>1, <2>1, <2>2, Finishes
<1>6. QED
  BY <1>1, <1>3, <1>4, <1>5

\* What a request looks for is a name.
LEMMA WantsNames ==
  ASSUME RequestInv, NEW c \in Clients, pc[c] \in {"lstat", "eval", "open", "info"}
  PROVE  /\ Head(wanted[c]) \in Names /\ Sought(c) \in Names
         /\ current \in seen[c] /\ current \in Releases /\ seen[c] \subseteq Releases
<1>1. wanted[c] \in Seq(Names) /\ wanted[c] # <<>>
  BY DEF RequestInv, TypeOK, Kept, Looking
<1>2. Head(wanted[c]) \in Names
  BY <1>1
<1>3. QED
  BY <1>2, RequestAssumption DEF Sought, RequestInv, TypeOK, Kept, Watched

\* A step of Resolve that goes on to another.
LEMMA ResolveGoes ==
  ASSUME RequestInv, NEW c \in Clients, pc[c] \in {"lstat", "eval"}, NEW place \in {"eval", "open"},
         UNCHANGED <<world, target, path, history, done, stage, file>>,
         pc' = [pc EXCEPT ![c] = place], NEW name \in Names,
         wanted' = [wanted EXCEPT ![c] = <<name>>],
         stage[c] # "sibling" =>
           /\ place = "eval" => name = Sought(c)
           /\ place = "open" => \E release \in seen[c] : name = Reached(release, Sought(c))
  PROVE  RequestInv'
<1>1. Kept(c) /\ path[c] \notin Scripts
  BY DEF RequestInv, TypeOK, Kept, Placed
<1>2. pc'[c] = place /\ wanted'[c] = <<name>>
  BY DEF RequestInv, TypeOK
<1>3. wanted' \in [Clients -> Seq(Names)] /\ \A d \in Clients \ {c} : wanted'[d] = wanted[d]
  <2>1. <<name>> \in Seq(Names)
    OBVIOUS
  <2>2. QED
    BY <2>1 DEF RequestInv, TypeOK
<1>4. Held(c)' /\ Placed(c)' /\ (~setup.precompressed => stage'[c] # "sibling")
  BY <1>1, <1>2 DEF Kept, Held, Placed, Paired, history
<1>5. Looking(c)'
  <2>1. wanted'[c] # <<>> /\ Head(wanted'[c]) = name
    BY <1>2
  <2>2. Sought(c)' = Sought(c) /\ \A release, n : Reached(release, n)' = Reached(release, n)
    BY DEF Sought, Reached, IsLink, Kind
  <2>3. QED
    BY <1>2, <2>1, <2>2 DEF Looking, history
<1>6. Missed(c)'
  <2>1. \A n : Steady(c, n)' <=> Steady(c, n)
    BY DEF Steady, history
  <2>2. QED
    BY <1>1, <1>2, <2>1 DEF Kept, Missed
<1>7. QED
  BY <1>3, <1>4, <1>5, <1>6, Goes DEF Places, RequestInv, TypeOK

\* Lstat.
LEMMA LstatKeeps ==
  ASSUME RequestInv, NEW c \in Clients, Lstat(c)
  PROVE  RequestInv'
<1> DEFINE name == Head(wanted[c])
<1>1. /\ pc[c] = "lstat" /\ UNCHANGED <<world, target, path, history>>
      /\ name \in Names /\ Sought(c) \in Names
      /\ current \in seen[c] /\ current \in Releases /\ seen[c] \subseteq Releases
      /\ stage[c] # "sibling" => name = Sought(c)
  BY WantsNames DEF Lstat, At, RequestInv, Kept, Looking
<1>2. CASE name \in Protected \/ Kind(current, name) = "none" \/ (IsLink(current, name) /\ ~Follows)
  <2>1. Unresolved(c)
    BY <1>2 DEF Lstat
  <2>2. Kind(current, name) = "none" => ~IsFile(current, name)
    BY <1>1, Disk DEF IsFile, Reached, IsLink
  <2>3. ~Steady(c, name)
    BY <1>1, <1>2, <2>2, NotSteady
  <2>4. QED
    BY <1>1, <2>1, <2>3, UnresolvedKeeps
<1>3. CASE ~(name \in Protected \/ Kind(current, name) = "none" \/ (IsLink(current, name) /\ ~Follows))
  <2> DEFINE place == IF IsLink(current, name) THEN "eval" ELSE "open"
  <2>1. pc' = [pc EXCEPT ![c] = place] /\ UNCHANGED <<done, wanted, stage, file>>
    BY <1>3 DEF Lstat, Goto
  <2>2. pc'[c] = place
    BY <2>1 DEF RequestInv, TypeOK
  <2>3. Kept(c) /\ path[c] \notin Scripts
    BY <1>1 DEF RequestInv, Kept, Placed
  <2>4. Held(c)' /\ (~setup.precompressed => stage'[c] # "sibling")
    BY <1>1, <2>1, <2>2, <2>3 DEF Kept, Held, Paired, history
  <2>5. Placed(c)'
    <3>1. pc'[c] \in {"eval", "open"}
      BY <2>2
    <3>2. UNCHANGED <<path, stage, phpSeen>>
      BY <1>1, <2>1 DEF history
    <3> HIDE DEF name
    <3>3. QED
      BY <1>1, <2>3, <3>1, <3>2 DEF Kept, Placed
  <2>6. Looking(c)'
    <3>1. ~IsLink(current, name) => name = Reached(current, name)
      BY DEF Reached
    <3>2. /\ Sought(c)' = Sought(c) /\ wanted' = wanted /\ seen' = seen /\ stage' = stage
          /\ \A release, n : Reached(release, n)' = Reached(release, n)
      BY <1>1, <2>1 DEF Sought, Reached, IsLink, Kind, history
    <3>3. wanted[c] # <<>>
      BY <1>1, <2>3 DEF Kept, Looking
    <3>4. QED
      BY <1>1, <2>2, <3>1, <3>2, <3>3 DEF Looking
  <2>7. Missed(c)'
    <3>1. \A n : Steady(c, n)' <=> Steady(c, n)
      BY <1>1 DEF Steady, history
    <3>2. QED
      BY <1>1, <2>1, <2>2, <2>3, <3>1 DEF Kept, Missed
  <2>8. QED
    BY <1>1, <2>1, <2>4, <2>5, <2>6, <2>7, Goes DEF Places, RequestInv, TypeOK
<1>4. QED
  BY <1>2, <1>3

\* Eval.
LEMMA EvalKeeps ==
  ASSUME RequestInv, NEW c \in Clients, Eval(c)
  PROVE  RequestInv'
<1> DEFINE name == Head(wanted[c])
<1>1. /\ pc[c] = "eval" /\ UNCHANGED <<world, target, path, history>>
      /\ name \in Names /\ Sought(c) \in Names
      /\ current \in seen[c] /\ current \in Releases /\ seen[c] \subseteq Releases
      /\ stage[c] # "sibling" => name = Sought(c)
  BY WantsNames DEF Eval, At, RequestInv, Kept, Looking
<1>2. CASE ~Exists(current, name)
  <2>1. Unresolved(c)
    BY <1>2 DEF Eval
  <2>2. ~IsFile(current, name)
    BY <1>2 DEF Exists, IsFile
  <2>3. ~Steady(c, name)
    BY <1>1, <2>2, NotSteady
  <2>4. QED
    BY <1>1, <2>1, <2>3, UnresolvedKeeps
<1>3. CASE Exists(current, name)
  <2>1. /\ pc' = [pc EXCEPT ![c] = "open"]
        /\ wanted' = [wanted EXCEPT ![c] = <<Reached(current, name)>>]
        /\ UNCHANGED <<done, stage, file>>
    BY <1>3 DEF Eval, Goto, Look
  <2>2. Reached(current, name) \in Names
    BY <1>1, Disk
  <2>3. QED
    BY <1>1, <2>1, <2>2, ResolveGoes
<1>4. QED
  BY <1>2, <1>3

\* Open.
LEMMA OpenKeeps ==
  ASSUME RequestInv, NEW c \in Clients, Open(c)
  PROVE  RequestInv'
<1> DEFINE name == Head(wanted[c])
           copy == [name |-> Reached(current, name), release |-> current]
<1>1. /\ pc[c] = "open" /\ UNCHANGED <<world, target, path, history>>
      /\ name \in Names /\ Sought(c) \in Names
      /\ current \in seen[c] /\ current \in Releases /\ seen[c] \subseteq Releases
      /\ stage[c] # "sibling" => \E release \in seen[c] : name = Reached(release, Sought(c))
      /\ Kept(c) /\ path[c] \notin Scripts
  BY WantsNames DEF Open, At, RequestInv, Kept, Looking, Placed
<1>2. copy \in Copies /\ copy.release = current
  <2>1. Reached(current, name) \in Names
    BY <1>1, Disk
  <2>2. QED
    BY <1>1, <2>1 DEF Copies
<1> HIDE DEF copy
<1>3. CASE ~IsFile(current, name)
  <2>1. Unresolved(c)
    BY <1>3 DEF Open
  <2>2. stage[c] # "sibling" => ~Steady(c, Sought(c))
    BY <1>1, <1>3, NotSteadyBehind
  <2>3. QED
    BY <1>1, <2>1, <2>2, UnresolvedKeeps
<1>4. CASE IsFile(current, name) /\ stage[c] = "sibling"
  <2>1. Send(c, copy) /\ UNCHANGED <<stage, file>>
    BY <1>4 DEF Open, copy
  <2>2. setup.precompressed
    BY <1>1, <1>4 DEF Kept, Paired
  <2>3. file[c].release \in seen[c]
    BY <1>1, <1>4 DEF Kept, Held
  <2>4. ~back => file[c].release <= current /\ current <= current
    BY <1>1, <2>3 DEF Kept, Ascending
  <2>5. QED
    BY <1>1, <1>2, <2>1, <2>2, <2>4, Sends
<1>5. CASE IsFile(current, name) /\ stage[c] # "sibling"
  <2>1. /\ pc' = [pc EXCEPT ![c] = "headers"]
        /\ file' = [file EXCEPT ![c] = copy]
        /\ UNCHANGED <<done, wanted, stage>>
    BY <1>5 DEF Open, Goto, copy
  <2>2. pc'[c] = "headers" /\ file'[c] = copy
    BY <2>1 DEF RequestInv, TypeOK
  <2>3. file' \in [Clients -> Copies] /\ \A d \in Clients \ {c} : file'[d] = file[d]
    BY <1>2, <2>1 DEF RequestInv, TypeOK
  <2>4. Held(c)' /\ Placed(c)' /\ (~setup.precompressed => stage'[c] # "sibling")
    BY <1>1, <1>2, <1>5, <2>1, <2>2 DEF Kept, Held, Placed, history
  <2>5. Looking(c)'
    BY <2>2 DEF Looking
  <2>6. Missed(c)'
    <3>1. \A n : Steady(c, n)' <=> Steady(c, n)
      BY <1>1 DEF Steady, history
    <3>2. QED
      BY <1>1, <2>1, <2>2, <3>1 DEF Kept, Missed
  <2>7. QED
    BY <1>1, <2>1, <2>3, <2>4, <2>5, <2>6, Goes DEF Places, RequestInv, TypeOK
<1>6. QED
  BY <1>3, <1>4, <1>5

-----------------------------------------------------------------------------
(* serveStatic *)

\* What a client is told it has, it has: a copy that is confirmed is of the
\* release of the file that was opened.
LEMMA Confirmed ==
  ASSUME RequestInv, NEW c \in Clients, pc[c] = "headers", NotModified(c)
  PROVE  Excused \/ cache[c][target[c]].body.release \in seen[c]
<1> DEFINE kept == cache[c][target[c]]
<1> SUFFICES ASSUME ~Excused PROVE kept.body.release \in seen[c]
  OBVIOUS
<1>1. /\ kept \in [etag : Copies, body : Copies] /\ target[c] \in Targets
      /\ current \in Releases /\ seen[c] \subseteq Releases
      /\ file[c] \in Copies /\ file[c].release \in seen[c]
  BY DEF RequestInv, TypeOK, Kept, Held
<1>2. Paired(c) /\ Ascending(c)
  BY DEF RequestInv, Kept
<1>3. CASE ~back
  <2>1. kept.etag.release <= kept.body.release /\ kept.body.release <= file[c].release
    BY <1>1, <1>2, <1>3 DEF Ascending
  <2>2. file[c].release <= kept.etag.release
    <3>1. file[c].release \in Nat
      <4>1. Releases \subseteq Nat
        BY Disk
      <4>2. QED
        BY <1>1, <4>1
    <3>2. QED
      BY <3>1 DEF NotModified, Etag
  <2>3. /\ file[c].release \in Int /\ kept.etag.release \in Int /\ kept.body.release \in Int
    <3>1. kept.etag \in Copies /\ kept.body \in Copies
      BY <1>1
    <3>2. QED
      BY <1>1, <3>1, Numbers
  <2>4. kept.body.release = file[c].release
    BY <2>1, <2>2, <2>3
  <2>5. QED
    BY <1>1, <2>4
<1>4. CASE back
  <2>1. ~setup.precompressed /\ "If-Modified-Since" \notin setup.validators
    BY <1>4 DEF Excused
  <2>2. kept.etag = file[c] /\ kept.etag = kept.body
    BY <1>1, <1>2, <2>1 DEF NotModified, Etag, Paired
  <2>3. QED
    BY <1>1, <2>2
<1>5. QED
  BY <1>3, <1>4 DEF RequestInv, TypeOK

\* Headers.
LEMMA HeadersKeeps ==
  ASSUME RequestInv, NEW c \in Clients, Headers(c)
  PROVE  RequestInv'
<1>1. /\ pc[c] = "headers" /\ UNCHANGED <<world, target, path, history, file>>
      /\ Kept(c) /\ path[c] \notin Scripts /\ path[c] \in Names
  BY DEF Headers, At, RequestInv, TypeOK, Kept, Placed
<1>2. CASE target[c] \in Protected
  <2>1. Finish(c, "403") /\ UNCHANGED <<cache, stage>>
    BY <1>2 DEF Headers
  <2>2. QED
    BY <1>1, <2>1, Finishes DEF Allowed
<1>3. CASE target[c] \notin Protected /\ Fails(c)
  <2>1. Finish(c, "precondition failed") /\ UNCHANGED <<cache, stage>>
    BY <1>3 DEF Headers
  <2>2. QED
    BY <1>1, <2>1, Finishes DEF Allowed
<1>4. CASE target[c] \notin Protected /\ ~Fails(c) /\ NotModified(c)
  <2>1. Finish(c, "not modified") /\ UNCHANGED <<cache, stage>>
    BY <1>4 DEF Headers
  <2>2. Allowed(c, "not modified")
    BY <1>1, <1>4, Confirmed DEF Allowed
  <2>3. QED
    BY <1>1, <2>1, <2>2, Finishes
<1>5. CASE target[c] \notin Protected /\ ~Fails(c) /\ ~NotModified(c) /\ setup.precompressed
  <2> DEFINE name == Sibling[Sought(c)]
  <2>1. /\ pc' = [pc EXCEPT ![c] = "lstat"]
        /\ wanted' = [wanted EXCEPT ![c] = <<name>>]
        /\ stage' = [stage EXCEPT ![c] = "sibling"]
        /\ UNCHANGED done
    BY <1>5 DEF Headers, Goto, Look, Sought
  <2>2. name \in Names
    BY <1>1, RequestAssumption DEF Sought
  <2>3. wanted' \in [Clients -> Seq(Names)] /\ \A d \in Clients \ {c} : wanted'[d] = wanted[d]
    <3>1. <<name>> \in Seq(Names)
      BY <2>2
    <3> HIDE DEF name
    <3>2. QED
      BY <2>1, <3>1 DEF RequestInv, TypeOK
  <2>4. /\ stage' \in [Clients -> {"file", "sibling", "index"}]
        /\ \A d \in Clients \ {c} : stage'[d] = stage[d]
    BY <2>1 DEF RequestInv, TypeOK
  <2>5. pc'[c] = "lstat" /\ wanted'[c] # <<>> /\ stage'[c] = "sibling"
    BY <2>1 DEF RequestInv, TypeOK
  <2>6. Held(c)' /\ Looking(c)' /\ Placed(c)' /\ Missed(c)'
    BY <1>1, <2>5 DEF Kept, Held, Looking, Placed, Missed, history
  <2>7. QED
    BY <1>1, <1>5, <2>1, <2>3, <2>4, <2>6, Goes DEF Places, RequestInv, TypeOK
<1>6. CASE target[c] \notin Protected /\ ~Fails(c) /\ ~NotModified(c) /\ ~setup.precompressed
  <2>1. Send(c, file[c]) /\ UNCHANGED stage
    BY <1>6 DEF Headers
  <2>2. file[c].release \in seen[c] /\ file[c] \in Copies /\ seen[c] \subseteq Releases
    BY <1>1 DEF Kept, Held, RequestInv, TypeOK
  <2>3. ~back => file[c].release <= current
    BY <1>1, <2>2 DEF Kept, Ascending
  <2>4. file[c].release <= file[c].release
    <3>1. Releases \subseteq Nat
      BY Disk
    <3>2. file[c].release \in Nat
      BY <2>2, <3>1
    <3>3. QED
      BY <3>2
  <2>5. QED
    BY <1>1, <2>1, <2>2, <2>3, <2>4, Sends
<1>7. QED
  BY <1>2, <1>3, <1>4, <1>5, <1>6

-----------------------------------------------------------------------------
(* servePHP *)

\* Stat.
LEMMA StatKeeps ==
  ASSUME RequestInv, NEW c \in Clients, Stat(c)
  PROVE  RequestInv'
<1>1. /\ pc[c] = "stat" /\ UNCHANGED <<world, target, path, history, stage, file>>
      /\ Kept(c) /\ path[c] \in Names /\ wanted[c] \in Seq(Names) /\ current \in seen[c]
      /\ TRUE \in phpSeen[c] /\ (path[c] \notin Scripts => ~Steady(c, path[c]))
      /\ path[c] \notin Scripts => wanted[c] = Entries \/ ~Steady(c, Entries[1])
  BY DEF Stat, At, RequestInv, TypeOK, Kept, Placed, Watched, Missed
<1>2. \A n : Steady(c, n)' <=> Steady(c, n)
  BY <1>1 DEF Steady, history
<1>3. Entries \in Seq(Names) /\ Entries # <<>>
  BY RequestAssumption
<1>4. ASSUME NEW place \in {"stat", "info"}, NEW names \in Seq(Names),
             pc' = [pc EXCEPT ![c] = place], UNCHANGED done,
             wanted' = [wanted EXCEPT ![c] = names],
             place = "info" => names # <<>>,
             path[c] \notin Scripts => \/ ~Steady(c, Entries[1])
                                       \/ place = "info" /\ Head(names) = Entries[1]
      PROVE  RequestInv'
  <2>1. pc'[c] = place /\ wanted'[c] = names
    BY <1>4 DEF RequestInv, TypeOK
  <2>2. wanted' \in [Clients -> Seq(Names)] /\ \A d \in Clients \ {c} : wanted'[d] = wanted[d]
    BY <1>4 DEF RequestInv, TypeOK
  <2>3. Held(c)' /\ Looking(c)' /\ (~setup.precompressed => stage'[c] # "sibling")
    BY <1>1, <1>4, <2>1 DEF Kept, Held, Looking, Paired, history
  <2>4. Placed(c)'
    BY <1>1, <1>4, <2>1 DEF Kept, Placed, history
  <2>5. Missed(c)'
    BY <1>1, <1>2, <1>4, <2>1 DEF Kept, Missed
  <2>6. QED
    BY <1>1, <1>4, <2>2, <2>3, <2>4, <2>5, Goes DEF Places, RequestInv, TypeOK
<1>5. CASE wanted[c] = <<>>
  <2>1. Finish(c, "404") /\ UNCHANGED cache
    BY <1>5 DEF Stat
  <2>2. Allowed(c, "404")
    BY <1>1, <1>3, <1>5 DEF Allowed
  <2>3. QED
    BY <1>1, <2>1, <2>2, Finishes
<1>6. CASE wanted[c] # <<>> /\ Exists(current, Head(wanted[c]))
  <2>1. /\ pc' = [pc EXCEPT ![c] = "info"] /\ UNCHANGED done
        /\ wanted' = [wanted EXCEPT ![c] = <<Head(wanted[c])>>]
    BY <1>6 DEF Stat, Goto, Look
  <2>2. Head(wanted[c]) \in Names
    BY <1>1, <1>6
  <2>3. /\ <<Head(wanted[c])>> \in Seq(Names) /\ <<Head(wanted[c])>> # <<>>
        /\ Head(<<Head(wanted[c])>>) = Head(wanted[c])
    BY <2>2
  <2>4. path[c] \notin Scripts => ~Steady(c, Entries[1]) \/ Head(wanted[c]) = Entries[1]
    BY <1>1, <1>3
  <2>5. QED
    BY <1>4, <2>1, <2>3, <2>4
<1>7. CASE wanted[c] # <<>> /\ ~Exists(current, Head(wanted[c]))
  <2>1. /\ pc' = [pc EXCEPT ![c] = "stat"] /\ UNCHANGED done
        /\ wanted' = [wanted EXCEPT ![c] = Tail(wanted[c])]
    BY <1>7 DEF Stat, Goto, Look
  <2>2. Tail(wanted[c]) \in Seq(Names) /\ Head(wanted[c]) \in Names
    BY <1>1, <1>7
  <2>3. ~Steady(c, Head(wanted[c]))
    BY <1>1, <1>7, <2>2, NotSteady DEF Exists, IsFile
  <2>4. path[c] \notin Scripts => ~Steady(c, Entries[1])
    BY <1>1, <1>3, <2>3
  <2>5. QED
    BY <1>4, <2>1, <2>2, <2>4
<1>8. QED
  BY <1>5, <1>6, <1>7

\* Info.
LEMMA InfoKeeps ==
  ASSUME RequestInv, NEW c \in Clients, Info(c)
  PROVE  RequestInv'
<1> DEFINE name == Head(wanted[c])
           reply == IF name \notin Protected /\ IsFile(current, name) THEN "script" ELSE "404"
<1>1. /\ pc[c] = "info" /\ UNCHANGED <<world, target, path, history, cache, stage, file>>
      /\ Finish(c, reply)
      /\ TRUE \in phpSeen[c] /\ (path[c] \notin Scripts => ~Steady(c, path[c]))
      /\ path[c] \notin Scripts => name = Entries[1] \/ ~Steady(c, Entries[1])
      /\ name \in Names /\ current \in seen[c]
  BY WantsNames DEF Info, At, RequestInv, Kept, Placed, Missed
<1>2. reply = "404" => ~Steady(c, name)
  BY <1>1, NotSteady
<1> HIDE DEF name
<1>3. reply \in {"404", "script"}
  OBVIOUS
<1> HIDE DEF reply
<1>4. Allowed(c, reply)
  BY <1>1, <1>2, <1>3 DEF Allowed
<1>5. QED
  BY <1>1, <1>3, <1>4, Finishes

-----------------------------------------------------------------------------
(* The surroundings and the beginning *)

\* What a client has seen grows while its request is under way.
LEMMA Witnessed ==
  ASSUME RequestInv, NEW release \in Releases, NEW up \in BOOLEAN, Witness(release, up),
         NEW c \in Clients
  PROVE  /\ seen'[c] = IF pc[c] = "idle" THEN seen[c] ELSE seen[c] \cup {release}
         /\ phpSeen'[c] = IF pc[c] = "idle" THEN phpSeen[c] ELSE phpSeen[c] \cup {up}
         /\ \A n : ~Steady(c, n) => ~Steady(c, n)'
<1>1. /\ seen'[c] = IF pc[c] = "idle" THEN seen[c] ELSE seen[c] \cup {release}
      /\ phpSeen'[c] = IF pc[c] = "idle" THEN phpSeen[c] ELSE phpSeen[c] \cup {up}
  BY DEF Witness
<1>2. seen[c] \subseteq seen'[c]
  BY <1>1
<1>3. ASSUME NEW n, Steady(c, n)' PROVE Steady(c, n)
  BY <1>2, <1>3 DEF Steady, IsFile, IsLink, Reached, Kind
<1>4. QED
  BY <1>1, <1>3

\* The surroundings change, and what each client is about stays.
LEMMA WorldChanges ==
  ASSUME RequestInv, Witness(current', php'), current' \in Releases, php' \in BOOLEAN,
         UNCHANGED <<setup, pc, wanted, request, done>>,
         back' \in BOOLEAN, moves' \in 0..MaxMoves, outages' \in 0..MaxOutages,
         back => back', ~back' => current <= current'
  PROVE  RequestInv'
<1> USE DEF request, done
<1>1. TypeOK'
  <2>1. seen' \in [Clients -> SUBSET Releases]
    BY DEF Witness, RequestInv, TypeOK
  <2>2. phpSeen' \in [Clients -> SUBSET BOOLEAN]
    BY DEF Witness, RequestInv, TypeOK
  <2>3. QED
    BY <2>1, <2>2 DEF RequestInv, TypeOK
<1>2. ASSUME NEW c \in Clients PROVE Kept(c)'
  <2>1. /\ seen'[c] = IF pc[c] = "idle" THEN seen[c] ELSE seen[c] \cup {current'}
        /\ phpSeen'[c] = IF pc[c] = "idle" THEN phpSeen[c] ELSE phpSeen[c] \cup {php'}
        /\ \A n : ~Steady(c, n) => ~Steady(c, n)'
    BY Witnessed
  <2>2. Kept(c)
    BY DEF RequestInv
  <2>3. Watched(c)' /\ Held(c)' /\ Paired(c)'
    BY <2>1, <2>2 DEF Kept, Watched, Held, Paired
  <2>4. Ascending(c)'
    <3>1. Releases \subseteq Int /\ \A copy \in Copies : copy.release \in Int
      BY Numbers
    <3>2. /\ current \in Int /\ current' \in Int /\ seen[c] \subseteq Int
          /\ \A t \in Targets : cache[c][t].body.release \in Int
      <4>1. \A t \in Targets : cache[c][t].body \in Copies
        BY DEF RequestInv, TypeOK
      <4>2. QED
        BY <3>1, <4>1 DEF RequestInv, TypeOK
    <3>3. SUFFICES ASSUME ~back'
                   PROVE  /\ \A t \in Targets : /\ cache[c][t].etag.release <= cache[c][t].body.release
                                                /\ cache[c][t].body.release <= current'
                          /\ pc[c] # "idle" =>
                               \A release \in seen'[c] :
                                 /\ release <= current'
                                 /\ \A t \in Targets : cache[c][t].body.release <= release
      BY DEF Ascending
    <3>4. ~back /\ current <= current' /\ Ascending(c)
      BY <2>2, <3>3 DEF Kept
    <3>5. ASSUME NEW t \in Targets
          PROVE  /\ cache[c][t].etag.release <= cache[c][t].body.release
                 /\ cache[c][t].body.release <= current'
      BY <3>2, <3>4 DEF Ascending
    <3>6. ASSUME pc[c] # "idle", NEW release \in seen'[c]
          PROVE  release <= current' /\ \A t \in Targets : cache[c][t].body.release <= release
      <4>1. CASE release \in seen[c]
        BY <3>2, <3>4, <3>6, <4>1 DEF Ascending
      <4>2. CASE release = current'
        BY <3>2, <3>5, <4>2
      <4>3. QED
        BY <2>1, <3>6, <4>1, <4>2
    <3>7. QED
      BY <3>5, <3>6
  <2>5. Placed(c)'
    BY <2>1, <2>2 DEF Kept, Placed
  <2>6. Looking(c)'
    <3>1. seen[c] \subseteq seen'[c]
      BY <2>1
    <3>2. Sought(c)' = Sought(c) /\ \A release, n : Reached(release, n)' = Reached(release, n)
      BY DEF Sought, Reached, IsLink, Kind
    <3>3. QED
      BY <2>2, <3>1, <3>2 DEF Kept, Looking
  <2>7. Missed(c)'
    BY <2>1, <2>2 DEF Kept, Missed
  <2>8. JustifiedFor(c)'
    BY <2>1, <2>2 DEF Kept, JustifiedFor, Answered
  <2>9. (Excused \/ HasCurrent(c))'
    BY <2>1, <2>2 DEF Kept, Excused, HasCurrent, Answered, RequestInv, TypeOK
  <2>10. QED
    BY <2>3, <2>4, <2>5, <2>6, <2>7, <2>8, <2>9 DEF Kept
<1>3. QED
  BY <1>1, <1>2 DEF RequestInv

\* Move and PhpChanges.
LEMMA SurroundingsKeep ==
  ASSUME RequestInv, (\E release \in Releases : Move(release)) \/ PhpChanges
  PROVE  RequestInv'
<1>1. /\ current \in Releases /\ moves \in 0..MaxMoves /\ outages \in 0..MaxOutages
      /\ back \in BOOLEAN /\ php \in BOOLEAN
  BY DEF RequestInv, TypeOK
<1>2. /\ Releases \subseteq Int /\ current \in Int
      /\ MaxMoves \in Nat /\ MaxOutages \in Nat /\ moves \in Nat /\ outages \in Nat
  BY <1>1, Numbers
<1>3. ASSUME NEW release \in Releases, Move(release) PROVE RequestInv'
  <2>1. /\ current' = release /\ php' = php /\ outages' = outages
        /\ UNCHANGED <<setup, pc, wanted, request, done>>
        /\ moves' = moves + 1 /\ moves < MaxMoves
        /\ back' = (back \/ release < current)
        /\ Witness(current', php')
    BY <1>3 DEF Move
  <2>2. moves' \in 0..MaxMoves
    BY <1>2, <2>1
  <2>3. ~back' => current <= current'
    <3>1. release \in Int
      BY <1>2
    <3>2. ~back' => ~(release < current)
      BY <2>1
    <3>3. QED
      BY <1>2, <2>1, <3>1, <3>2
  <2>4. back' \in BOOLEAN /\ (back => back')
    BY <1>1, <2>1
  <2>5. QED
    BY <1>1, <2>1, <2>2, <2>3, <2>4, WorldChanges
<1>4. ASSUME PhpChanges PROVE RequestInv'
  <2>1. /\ current' = current /\ php' = ~php
        /\ UNCHANGED <<setup, back, moves, pc, wanted, request, done>>
        /\ Witness(current', php')
    BY <1>4 DEF PhpChanges
  <2>2. outages' \in 0..MaxOutages
    <3>1. outages' = outages \/ (outages' = outages + 1 /\ outages < MaxOutages)
      BY <1>4 DEF PhpChanges
    <3>2. QED
      BY <1>1, <1>2, <3>1
  <2>3. current <= current'
    BY <1>2, <2>1
  <2>4. php' \in BOOLEAN
    BY <1>1, <2>1
  <2>5. QED
    BY <1>1, <2>1, <2>2, <2>3, <2>4, WorldChanges
<1>5. QED
  BY <1>3, <1>4

\* Begin: what is answered at once says nothing of the files.
LEMMA BeginKeeps ==
  ASSUME RequestInv, NEW c \in Clients, NEW t \in Targets, Begin(c, t)
  PROVE  RequestInv'
<1> DEFINE r    == RouteOf(t)
           name == IF r = 0 THEN Normalized[t] ELSE Rewrite(r, Normalized[t])
<1>1. /\ UNCHANGED <<world, cache>> /\ pc[c] = "idle"
      /\ target' = [target EXCEPT ![c] = t]
      /\ stage' = [stage EXCEPT ![c] = "file"]
      /\ file' = [file EXCEPT ![c] = None]
      /\ seen' = [seen EXCEPT ![c] = {current}]
      /\ phpSeen' = [phpSeen EXCEPT ![c] = {php}]
  BY DEF Begin
<1>2. /\ target'[c] = t /\ stage'[c] = "file" /\ file'[c] = None
      /\ seen'[c] = {current} /\ phpSeen'[c] = {php}
      /\ \A d \in Clients \ {c} : /\ target'[d] = target[d] /\ stage'[d] = stage[d] /\ file'[d] = file[d]
                                  /\ seen'[d] = seen[d] /\ phpSeen'[d] = phpSeen[d]
  BY <1>1 DEF RequestInv, TypeOK
<1>3. /\ target' \in [Clients -> Targets] /\ stage' \in [Clients -> {"file", "sibling", "index"}]
      /\ file' \in [Clients -> Copies] /\ seen' \in [Clients -> SUBSET Releases]
      /\ phpSeen' \in [Clients -> SUBSET BOOLEAN]
  BY <1>1 DEF RequestInv, TypeOK, Copies
<1>4. r = 0 \/ r \in 1..Len(Routes)
  <2>1. Len(Routes) \in Nat /\ r \in 0..Len(Routes)
    BY RouteFound, RequestAssumption
  <2> HIDE DEF r
  <2>2. QED
    BY <2>1
<1>5. /\ Kept(c) /\ current \in Releases
      /\ answer \in [Clients -> {"none", "static", "not modified", "precondition failed", "script",
                                 "redirect", "proxy", "400", "403", "404", "503"}]
      /\ pc \in [Clients -> {"idle", "explicit", "lstat", "eval", "open", "headers", "fallback", "stat", "info"}]
      /\ path \in [Clients -> Names] /\ wanted \in [Clients -> Seq(Names)]
  BY DEF RequestInv, TypeOK
<1>6. Held(c)' /\ Watched(c)' /\ Paired(c)' /\ Ascending(c)'
  <2>1. current \in Int
    BY <1>5, Numbers
  <2>2. current <= current
    BY <2>1
  <2>3. Paired(c)'
    BY <1>1, <1>2, <1>5 DEF Paired, Kept, world
  <2>4. Ascending(c)'
    BY <1>1, <1>2, <1>5, <2>2 DEF Ascending, Kept, world
  <2>5. Watched(c)'
    BY <1>1, <1>2 DEF Watched, world
  <2>6. Held(c)'
    <3>1. pc'[c] # "headers"
      BY <1>5 DEF Begin
    <3>2. QED
      BY <1>2, <3>1 DEF Held
  <2>7. QED
    BY <2>3, <2>4, <2>5, <2>6
<1>7. ASSUME NEW a \in {"400", "403", "redirect", "proxy"},
             answer' = [answer EXCEPT ![c] = a], UNCHANGED <<pc, path, wanted>>
      PROVE  RequestInv'
  <2>1. answer'[c] = a /\ \A d \in Clients \ {c} : answer'[d] = answer[d]
    BY <1>5, <1>7
  <2>2. TypeOK'
    <3>1. answer' \in [Clients -> {"none", "static", "not modified", "precondition failed", "script",
                                   "redirect", "proxy", "400", "403", "404", "503"}]
      BY <1>5, <1>7
    <3>2. QED
      BY <1>1, <1>3, <1>7, <3>1 DEF RequestInv, TypeOK, world
  <2>3. \A d \in Clients \ {c} : Same(d)
    BY <1>1, <1>2, <1>7, <2>1 DEF Same
  <2>4. Kept(c)'
    <3>1. Placed(c)' /\ Looking(c)' /\ Missed(c)'
      BY <1>1, <1>2, <1>7 DEF Placed, Looking, Missed
    <3>2. JustifiedFor(c)' /\ HasCurrent(c)'
      BY <2>1 DEF JustifiedFor, HasCurrent, Answered
    <3>3. QED
      BY <1>6, <3>1, <3>2 DEF Kept
  <2>5. QED
    BY <1>1, <2>2, <2>3, <2>4, OneMoves
<1>8. ASSUME Normalized[t] # "rejected", r # 0 => Routes[r].kind = "rewrite",
             answer' = [answer EXCEPT ![c] = "none"],
             path' = [path EXCEPT ![c] = name],
             wanted' = [wanted EXCEPT ![c] = <<name>>],
             pc' = [pc EXCEPT ![c] = IF name \in Scripts THEN "explicit" ELSE "lstat"]
      PROVE  RequestInv'
  <2>1. name \in Names
    <3>1. Normalized[t] \in Names
      BY <1>8, RequestAssumption
    <3>2. CASE r = 0
      BY <3>1, <3>2
    <3>3. CASE r # 0
      <4>1. Routes[r].to \in Names \cup {"unchanged"}
        <5> HIDE DEF r
        <5>1. QED
          BY <1>4, <1>8, <3>3, RouteKinds
      <4>2. QED
        BY <3>1, <3>3, <4>1 DEF Rewrite
    <3>4. QED
      BY <3>2, <3>3
  <2> HIDE DEF name, r
  <2>2. <<name>> \in Seq(Names) /\ <<name>> # <<>> /\ Head(<<name>>) = name
    BY <2>1
  <2>3. /\ answer'[c] = "none" /\ path'[c] = name /\ wanted'[c] = <<name>>
        /\ pc'[c] = IF name \in Scripts THEN "explicit" ELSE "lstat"
        /\ \A d \in Clients \ {c} : /\ answer'[d] = answer[d] /\ path'[d] = path[d]
                                    /\ wanted'[d] = wanted[d] /\ pc'[d] = pc[d]
    BY <1>5, <1>8
  <2>4. TypeOK'
    <3>1. /\ answer' \in [Clients -> {"none", "static", "not modified", "precondition failed", "script",
                                      "redirect", "proxy", "400", "403", "404", "503"}]
          /\ path' \in [Clients -> Names] /\ wanted' \in [Clients -> Seq(Names)]
      BY <1>5, <1>8, <2>1, <2>2
    <3>2. pc' \in [Clients -> {"idle", "explicit", "lstat", "eval", "open", "headers", "fallback", "stat", "info"}]
      BY <1>5, <1>8
    <3>3. QED
      BY <1>1, <1>3, <3>1, <3>2 DEF RequestInv, TypeOK, world
  <2>5. \A d \in Clients \ {c} : Same(d)
    BY <1>1, <1>2, <2>3 DEF Same
  <2>6. Kept(c)'
    <3>1. Placed(c)' /\ Missed(c)'
      BY <1>2, <2>3 DEF Placed, Missed
    <3>2. Looking(c)'
      BY <1>2, <2>2, <2>3 DEF Looking, Sought
    <3>3. JustifiedFor(c)' /\ HasCurrent(c)'
      BY <2>3 DEF JustifiedFor, HasCurrent, Answered
    <3>4. QED
      BY <1>6, <3>1, <3>2, <3>3 DEF Kept
  <2>7. QED
    BY <1>1, <2>4, <2>5, <2>6, OneMoves
<1>9. CASE Denied(t)
  BY <1>7, <1>9 DEF Begin
<1>10. CASE ~Denied(t) /\ Normalized[t] = "rejected"
  BY <1>7, <1>10 DEF Begin
<1>11. CASE ~Denied(t) /\ Normalized[t] # "rejected" /\ r # 0 /\ Routes[r].kind # "rewrite"
  <2>1. Routes[r].kind \in {"redirect", "proxy"}
    <3>1. r \in 1..Len(Routes) /\ Routes[r].kind # "rewrite"
      BY <1>4, <1>11
    <3> HIDE DEF r
    <3>2. Routes[r].kind \in {"redirect", "proxy", "rewrite"}
      BY <3>1, RouteKinds
    <3>3. QED
      BY <3>1, <3>2
  <2>2. answer' = [answer EXCEPT ![c] = Routes[r].kind] /\ UNCHANGED <<pc, path, wanted>>
    BY <1>11 DEF Begin
  <2>3. QED
    BY <1>7, <2>1, <2>2
<1>12. CASE ~Denied(t) /\ Normalized[t] # "rejected" /\ (r # 0 => Routes[r].kind = "rewrite")
  <2>1. /\ answer' = [answer EXCEPT ![c] = "none"]
        /\ path' = [path EXCEPT ![c] = name]
        /\ wanted' = [wanted EXCEPT ![c] = <<name>>]
        /\ pc' = [pc EXCEPT ![c] = IF name \in Scripts THEN "explicit" ELSE "lstat"]
    BY <1>12 DEF Begin
  <2>2. QED
    BY <1>8, <1>12, <2>1
<1>13. QED
  BY <1>9, <1>10, <1>11, <1>12

\* Nothing is under way at first.
LEMMA RequestStarts == Init => RequestInv
<1> SUFFICES ASSUME Init PROVE RequestInv
  OBVIOUS
<1>1. /\ setup \in Setups /\ current = 1 /\ back = FALSE /\ moves = 0 /\ php \in BOOLEAN /\ outages = 0
      /\ 1 \in Releases
  BY Disk DEF Init
<1>2. /\ target \in [Clients -> Targets] /\ path \in [Clients -> Names]
  BY DEF Init
<1>3. /\ cache \in [Clients -> [Targets -> [etag : Copies, body : Copies]]]
      /\ \A c \in Clients, t \in Targets : cache[c][t].etag = None /\ cache[c][t].body = None
  BY DEF Init, Copies
<1>4. /\ pc \in [Clients -> {"idle"}] /\ stage \in [Clients -> {"file"}] /\ file \in [Clients -> {None}]
      /\ answer \in [Clients -> {"none"}] /\ wanted \in [Clients -> {<<>>}]
      /\ seen \in [Clients -> {{}}] /\ phpSeen \in [Clients -> {{}}]
  BY DEF Init
<1>5. TypeOK
  <2>1. moves \in 0..MaxMoves /\ outages \in 0..MaxOutages
    BY <1>1, Numbers
  <2>2. wanted \in [Clients -> Seq(Names)]
    <3>1. <<>> \in Seq(Names)
      OBVIOUS
    <3>2. QED
      BY <1>4, <3>1
  <2>3. /\ pc \in [Clients -> {"idle", "explicit", "lstat", "eval", "open", "headers", "fallback", "stat", "info"}]
        /\ stage \in [Clients -> {"file", "sibling", "index"}] /\ file \in [Clients -> Copies]
        /\ answer \in [Clients -> {"none", "static", "not modified", "precondition failed", "script",
                                   "redirect", "proxy", "400", "403", "404", "503"}]
        /\ seen \in [Clients -> SUBSET Releases] /\ phpSeen \in [Clients -> SUBSET BOOLEAN]
    BY <1>4 DEF Copies
  <2>4. QED
    BY <1>1, <1>2, <1>3, <2>1, <2>2, <2>3 DEF TypeOK
<1>6. ASSUME NEW c \in Clients PROVE Kept(c)
  <2>1. pc[c] = "idle" /\ stage[c] = "file" /\ answer[c] = "none"
    BY <1>4
  <2>2. Watched(c) /\ Held(c) /\ Placed(c) /\ Looking(c) /\ Missed(c)
    BY <2>1 DEF Watched, Held, Placed, Looking, Missed
  <2>3. Paired(c) /\ Ascending(c)
    BY <1>1, <1>3, <2>1 DEF Paired, Ascending, None
  <2>4. JustifiedFor(c) /\ HasCurrent(c)
    BY <2>1 DEF JustifiedFor, HasCurrent, Answered
  <2>5. QED
    BY <2>2, <2>3, <2>4 DEF Kept
<1>7. QED
  BY <1>5, <1>6 DEF RequestInv

-----------------------------------------------------------------------------
\* The inductive invariant: what a request was about, has found missing and holds, from where
\* it is, and what a client's copy is worth (ServeHTTP, Resolve, serveStatic).
THEOREM RequestInductive == Spec => []RequestInv
<1>1. RequestInv /\ [Next]_vars => RequestInv'
  <2> SUFFICES ASSUME RequestInv, [Next]_vars PROVE RequestInv'
    OBVIOUS
  <2>1. CASE Next
    BY <2>1, SurroundingsKeep, BeginKeeps, ExplicitKeeps, FallbackKeeps, HeadersKeeps, LstatKeeps,
       EvalKeeps, OpenKeeps, StatKeeps, InfoKeeps DEF Next
  <2>2. CASE UNCHANGED vars
    <3>1. \A d \in Clients : Same(d)
      BY <2>2 DEF vars, request, done, history, Same
    <3>2. UNCHANGED world /\ TypeOK'
      BY <2>2 DEF vars, request, done, history, world, RequestInv, TypeOK
    <3>3. QED
      BY <3>1, <3>2, OthersKept DEF RequestInv
  <2>3. QED
    BY <2>1, <2>2
<1>2. QED
  BY RequestStarts, <1>1, PTL DEF Spec

\* What a client has once it is answered was in place at some moment of its request, whatever
\* the releases do between any two calls to the file system; after one was put back, if there
\* are no precompressed files and no dates are sent (serveStatic).
THEOREM FreshHolds == Spec => []Fresh
<1>1. RequestInv => Fresh
  BY DEF RequestInv, Kept, Excused, Fresh
<1>2. QED
  BY <1>1, RequestInductive, PTL

\* No file, index or front controller that is there throughout a request is said to be
\* missing, and no script while PHP is down (ServeHTTP, Resolve, resolveScript).
THEOREM JustifiedHolds == Spec => []Justified
<1>1. RequestInv => Justified
  BY DEF RequestInv, Kept, JustifiedFor, Justified
<1>2. QED
  BY <1>1, RequestInductive, PTL

-----------------------------------------------------------------------------
(* GatewayServer *)

Loaded == reloading \in {"compiling", "swapping"} => candidate.ok
Swapping == reloading = "swapping" => published = candidate
Judged == snapshot = [r \in Requests |-> snapshot[r]]

ServerInv == KnownGood /\ Together /\ Loaded /\ Swapping /\ Judged

\* What the process was started with was loaded.
LEMMA Started == ServerInit => ServerInv
<1> SUFFICES ASSUME ServerInit PROVE ServerInv
  OBVIOUS
<1>1. configFile \in Configs /\ configFile.ok
  BY DEF ServerInit
<1>2. published.ok /\ state.ok
  BY <1>1 DEF ServerInit, Configs
<1>3. KnownGood
  BY <1>2 DEF ServerInit, KnownGood
<1>4. Together /\ Loaded /\ Swapping /\ Judged
  BY DEF ServerInit, Together, Loaded, Swapping, Judged
<1>5. QED
  BY <1>3, <1>4 DEF ServerInv

\* No step of the reload puts in force what was not loaded.
LEMMA ReloadingKeeps == ServerInv /\ Reloading => ServerInv'
<1> SUFFICES ASSUME ServerInv, Reloading PROVE ServerInv'
  OBVIOUS
<1> USE DEF ServerInv, KnownGood, Together, Loaded, Swapping, Judged, Proceed
<1>1. CASE TakeSighup
  BY <1>1 DEF TakeSighup
<1>2. CASE LoadFails
  BY <1>2 DEF LoadFails
<1>3. CASE Load
  BY <1>3 DEF Load
<1>4. CASE Publish
  BY <1>4 DEF Publish
<1>5. CASE Store
  BY <1>5 DEF Store
<1>6. CASE StopReloading
  BY <1>6 DEF StopReloading
<1>7. QED
  BY <1>1, <1>2, <1>3, <1>4, <1>5, <1>6 DEF Reloading

\* A request is judged by what the handler has.
LEMMA ServingKeeps ==
  ASSUME ServerInv, NEW r \in Requests, Accept(r) \/ Serving(r)
  PROVE  ServerInv'
<1>1. CASE Judge(r)
  <2>1. /\ snapshot' = [snapshot EXCEPT ![r] = state]
        /\ UNCHANGED <<published, state, reloading, candidate>>
    BY <1>1 DEF Judge, reload
  <2>2. /\ snapshot' = [s \in Requests |-> snapshot'[s]]
        /\ \A s \in Requests : snapshot'[s] = IF s = r THEN state ELSE snapshot[s]
    BY <2>1 DEF ServerInv, Judged
  <2>3. KnownGood'
    BY <2>1, <2>2 DEF ServerInv, KnownGood
  <2>4. QED
    BY <2>1, <2>2, <2>3 DEF ServerInv, Together, Loaded, Swapping, Judged
<1>2. CASE Accept(r) \/ Answer(r) \/ RunScript(r) \/ ScriptFails(r)
  <2>1. UNCHANGED <<published, state, reloading, candidate, snapshot>>
    BY <1>2 DEF Accept, Answer, RunScript, ScriptFails, reload
  <2>2. QED
    BY <2>1 DEF ServerInv, KnownGood, Together, Loaded, Swapping, Judged
<1>3. QED
  BY <1>1, <1>2 DEF Serving

\* The file, the signals and the shutdown leave it to the reload.
LEMMA OthersKeep ==
  ServerInv /\ (Edit \/ Sighup \/ Interrupt \/ Drained \/ DrainTimesOut \/ Closing \/ UNCHANGED serverVars)
    => ServerInv'
<1> SUFFICES ASSUME ServerInv,
                    Edit \/ Sighup \/ Interrupt \/ Drained \/ DrainTimesOut \/ Closing \/ UNCHANGED serverVars
             PROVE  ServerInv'
  OBVIOUS
<1>1. UNCHANGED <<published, state, reloading, candidate, snapshot>>
  BY DEF Edit, Sighup, Interrupt, Drained, DrainTimesOut, Closing, ListenReturns, ClosePool,
         StopFpm, Exit, serverVars, reload
<1>2. QED
  BY <1>1 DEF ServerInv, KnownGood, Together, Loaded, Swapping, Judged

\* The inductive invariant: what is published, in force, or on its way there was loaded and
\* validated (gatewayHandler.reload, Reloader.Reload).
THEOREM ServerInductive == ServerSpec => []ServerInv
<1>1. ServerInv /\ [ServerNext]_serverVars => ServerInv'
  BY ReloadingKeeps, ServingKeeps, OthersKeep DEF ServerNext
<1>2. QED
  BY Started, <1>1, PTL DEF ServerSpec

\* Nothing unvalidated is ever in force, and no request is judged by it, however the file
\* changes during a reload.
THEOREM KnownGoodHolds == ServerSpec => []KnownGood
<1>1. ServerInv => KnownGood
  BY DEF ServerInv
<1>2. QED
  BY <1>1, ServerInductive, PTL

\* Reloader and handler differ only between the two steps of a swap.
THEOREM TogetherHolds == ServerSpec => []Together
<1>1. ServerInv => Together
  BY DEF ServerInv
<1>2. QED
  BY <1>1, ServerInductive, PTL

-----------------------------------------------------------------------------
(* Induction over numbers, by the least that fails, and recursion by induction *)

\* Of some numbers one is the least.
LEMMA Least ==
  ASSUME NEW S \in SUBSET Nat, S # {}
  PROVE  \E m \in S : \A k \in S : m <= k
<1> DEFINE less == OpToRel(LAMBDA m, n : m < n, Nat)
<1>1. IsWellFoundedOn(less, Nat)
  BY NatLessThanWellFounded DEF less
<1>2. PICK r \in S : \A s \in S : <<s, r>> \notin less
  BY <1>1, WFMin
<1>3. \A m, n \in Nat : m < n => <<m, n>> \in less
  BY DEF OpToRel
<1>4. \A s \in S : r <= s
  <2> HIDE DEF less
  <2>1. ASSUME NEW s \in S PROVE r <= s
    <3>1. s \in Nat /\ r \in Nat /\ <<s, r>> \notin less
      BY <1>2
    <3>2. ~(s < r)
      BY <1>3, <3>1, Zenon
    <3>3. QED
      BY <3>1, <3>2
  <2>2. QED
    BY <2>1
<1>5. QED
  BY <1>4

\* Induction: what holds of 0, and of k + 1 if of k, holds up to n.
LEMMA Climb ==
  ASSUME NEW n \in Nat, NEW S, 0 \in S, \A k \in 0..n - 1 : k \in S => k + 1 \in S
  PROVE  \A k \in 0..n : k \in S
<1> SUFFICES ASSUME NEW k \in 0..n, k \notin S PROVE FALSE
  OBVIOUS
<1> DEFINE bad == {i \in 0..n : i \notin S}
<1>1. PICK m \in bad : \A i \in bad : m <= i
  <2>1. bad \in SUBSET Nat /\ bad # {}
    OBVIOUS
  <2> HIDE DEF bad
  <2>2. QED
    BY <2>1, Least
<1>2. m # 0 /\ m \in 0..n /\ m \notin S
  OBVIOUS
<1>3. m - 1 \in 0..n - 1 /\ m - 1 \notin bad
  BY <1>1, <1>2
<1>4. m - 1 \in S
  BY <1>3
<1>5. QED
  BY <1>2, <1>3, <1>4

\* The end of such a climb.
LEMMA ClimbTo ==
  ASSUME NEW n \in Nat, NEW S, 0 \in S, \A k \in 0..n - 1 : k \in S => k + 1 \in S
  PROVE  n \in S
BY Climb

\* g begins with base and takes a step for every number.
Steps(g, n, base, step) == g = [i \in 0..n |-> IF i = 0 THEN base ELSE step[i][g[i - 1]]]

\* Primitive recursion: the function that takes a step for every number exists.
LEMMA Recursion ==
  ASSUME NEW n \in Nat, NEW V, NEW base \in V, NEW step \in [1..n -> [V -> V]]
  PROVE  \E g : g \in [0..n -> V] /\ Steps(g, n, base, step)
<1> DEFINE Solves(g, k) == g \in [0..k -> V] /\ g[0] = base /\ \A i \in 1..k : g[i] = step[i][g[i - 1]]
           S == {k \in Nat : \E g : Solves(g, k)}
<1>1. 0 \in S
  <2>1. Solves([i \in 0..0 |-> base], 0)
    OBVIOUS
  <2>2. QED
    BY <2>1
<1>2. ASSUME NEW k \in 0..n - 1, k \in S PROVE k + 1 \in S
  <2>1. PICK g : Solves(g, k)
    BY <1>2
  <2>2. PICK h : h = [i \in 0..k + 1 |-> IF i = k + 1 THEN step[k + 1][g[k]] ELSE g[i]]
    OBVIOUS
  <2>3. g[k] \in V /\ step[k + 1] \in [V -> V]
    BY <2>1
  <2>4. h \in [0..k + 1 -> V]
    BY <2>1, <2>2, <2>3
  <2>5. h[0] = base
    BY <2>1, <2>2
  <2>6. ASSUME NEW i \in 1..k + 1 PROVE h[i] = step[i][h[i - 1]]
    <3>1. CASE i = k + 1
      BY <2>2, <3>1
    <3>2. CASE i # k + 1
      <4>1. i \in 1..k /\ i - 1 \in 0..k /\ i - 1 # k + 1
        BY <3>2
      <4>2. h[i] = g[i] /\ h[i - 1] = g[i - 1]
        BY <2>2, <3>2, <4>1
      <4>3. QED
        BY <2>1, <4>1, <4>2
    <3>3. QED
      BY <3>1, <3>2
  <2>7. Solves(h, k + 1)
    BY <2>4, <2>5, <2>6
  <2>8. k + 1 \in Nat /\ \E f : Solves(f, k + 1)
    <3> HIDE DEF Solves
    <3>1. QED
      BY <2>7
  <2>9. QED
    BY <2>8
<1>3. n \in S
  <2> HIDE DEF S
  <2>1. \A k \in 0..n : k \in S
    BY <1>1, <1>2, Climb
  <2>2. QED
    BY <2>1
<1>4. PICK g : Solves(g, n)
  BY <1>3
<1>5. g = [i \in 0..n |-> IF i = 0 THEN base ELSE step[i][g[i - 1]]]
  <2>1. PICK h : h = [i \in 0..n |-> IF i = 0 THEN base ELSE step[i][g[i - 1]]]
    OBVIOUS
  <2>2. \A i \in 0..n : h[i] = g[i]
    BY <1>4, <2>1
  <2>3. g = [i \in 0..n |-> g[i]] /\ h = [i \in 0..n |-> h[i]]
    BY <1>4, <2>1
  <2>4. g = h
    BY <2>2, <2>3
  <2>5. QED
    BY <2>1, <2>4
<1>6. QED
  BY <1>4, <1>5 DEF Steps

-----------------------------------------------------------------------------
(* The rules a request is decided by: PolicyRules *)

\* Lists of what the engine takes for a rule.
Modes == {"allow", "deny", "observe"}

\* The last k of 0..n of which something holds that holds of 0.
LEMMA Latest ==
  ASSUME NEW n \in Nat, NEW S, 0 \in S
  PROVE  \E k \in 0..n : k \in S /\ \A i \in k + 1..n : i \notin S
<1> DEFINE behind == {j \in 0..n : n - j \in S}
<1>1. behind \in SUBSET Nat /\ n \in behind
  OBVIOUS
<1>2. PICK j \in behind : \A i \in behind : j <= i
  <2> HIDE DEF behind
  <2>1. QED
    BY <1>1, Least
<1>3. ASSUME NEW i \in n - j + 1..n PROVE i \notin S
  <2>1. n - i \in 0..n /\ n - (n - i) = i /\ ~(j <= n - i)
    OBVIOUS
  <2>2. n - i \notin behind
    BY <1>2, <2>1
  <2>3. QED
    BY <2>1, <2>2
<1>4. n - j \in 0..n /\ n - j \in S
  OBVIOUS
<1>5. QED
  BY <1>3, <1>4

\* The rules are those added first, in order of priority and age: p tells which is where.
RankedBy(rules, added, n, p) ==
  /\ p \in [1..n -> 1..n]
  /\ \A i \in 1..n : rules[i] = added[p[i]]
  /\ \A m \in 1..n : \E i \in 1..n : p[i] = m
  /\ \A i, j \in 1..n :
       i < j => \/ added[p[i]].priority < added[p[j]].priority
                \/ added[p[i]].priority = added[p[j]].priority /\ p[i] < p[j]

Ranked(rules, added, n) == Len(rules) = n /\ \E p : RankedBy(rules, added, n, p)

\* The list with the new rule behind the k-th.
InsertedAt(longer, rules, rule, k) ==
  /\ k = 0 \/ rules[k].priority <= rule.priority
  /\ \A i \in k + 1..Len(rules) : rules[i].priority > rule.priority
  /\ \A i \in 1..k : longer[i] = rules[i]
  /\ longer[k + 1] = rule
  /\ \A i \in k + 1..Len(rules) : longer[i + 1] = rules[i]

\* AddRule: where the new rule goes.
LEMMA AddRuleAt ==
  ASSUME NEW R, \A r \in R : r.priority \in Int, NEW rules \in Seq(R), NEW rule \in R
  PROVE  /\ AddRule(rules, rule) \in Seq(R)
         /\ Len(AddRule(rules, rule)) = Len(rules) + 1
         /\ \E k \in 0..Len(rules) : InsertedAt(AddRule(rules, rule), rules, rule, k)
<1> DEFINE Fits(k) == /\ k = 0 \/ rules[k].priority <= rule.priority
                      /\ \A i \in k + 1..Len(rules) : rules[i].priority > rule.priority
<1>1. \E k \in 0..Len(rules) : Fits(k)
  <2> DEFINE S == {k \in 0..Len(rules) : k = 0 \/ rules[k].priority <= rule.priority}
  <2>1. Len(rules) \in Nat /\ 0 \in S
    OBVIOUS
  <2>2. PICK k \in 0..Len(rules) : k \in S /\ \A i \in k + 1..Len(rules) : i \notin S
    <3> HIDE DEF S
    <3>1. QED
      BY <2>1, Latest
  <2>3. ASSUME NEW i \in k + 1..Len(rules) PROVE rules[i].priority > rule.priority
    <3>1. i \in 1..Len(rules) /\ i # 0 /\ i \notin S
      BY <2>2
    <3>2. rules[i].priority \in Int /\ rule.priority \in Int
      BY <3>1
    <3>3. QED
      BY <3>1, <3>2
  <2>4. QED
    BY <2>2, <2>3
<1>2. PICK k : k = CHOOSE j \in 0..Len(rules) : Fits(j)
  OBVIOUS
<1>3. k \in 0..Len(rules) /\ Fits(k)
  <2> HIDE DEF Fits
  <2>1. QED
    BY <1>1, <1>2
<1>4. AddRule(rules, rule) = SubSeq(rules, 1, k) \o <<rule>> \o SubSeq(rules, k + 1, Len(rules))
  BY <1>2 DEF AddRule
<1>5. PICK front : front = SubSeq(rules, 1, k)
  OBVIOUS
<1>6. PICK rest : rest = SubSeq(rules, k + 1, Len(rules))
  OBVIOUS
<1>7. front \in Seq(R) /\ Len(front) = k /\ \A i \in 1..k : front[i] = rules[i]
  BY <1>3, <1>5
<1>8. rest \in Seq(R) /\ Len(rest) = Len(rules) - k /\ \A i \in 1..Len(rules) - k : rest[i] = rules[k + i]
  BY <1>3, <1>6
<1>9. AddRule(rules, rule) = front \o <<rule>> \o rest
  BY <1>4, <1>5, <1>6
<1> HIDE DEF Fits
<1>a. PICK m, n : m = Len(rules) /\ n = k + 1
  OBVIOUS
<1>b. m \in Nat /\ k \in 0..m /\ k \in Nat /\ n \in Nat /\ n = k + 1 /\ Len(rules) = m
  BY <1>3, <1>a, LenProperties
<1>c. PICK upto : upto = Append(front, rule)
  OBVIOUS
<1>d. upto \in Seq(R) /\ Len(upto) = n /\ upto[n] = rule /\ \A i \in 1..k : upto[i] = front[i]
  BY <1>7, <1>a, <1>c, AppendProperties
<1>e. PICK whole : whole = upto \o rest
  OBVIOUS
<1>f. AddRule(rules, rule) = whole
  <2>1. upto = front \o <<rule>>
    BY <1>7, <1>c, AppendIsConcat
  <2>2. QED
    BY <1>9, <1>e, <2>1, Zenon
<1>g. /\ whole \in Seq(R) /\ Len(whole) = n + (m - k)
      /\ \A i \in 1..n + (m - k) : whole[i] = IF i <= n THEN upto[i] ELSE rest[i - n]
  <2>1. /\ whole \in Seq(R) /\ Len(whole) = Len(upto) + Len(rest)
        /\ \A i \in 1..Len(upto) + Len(rest) : whole[i] = IF i <= Len(upto) THEN upto[i] ELSE rest[i - Len(upto)]
    BY <1>8, <1>d, <1>e, ConcatProperties
  <2>2. Len(upto) = n /\ Len(rest) = m - k
    BY <1>8, <1>b, <1>d, Zenon
  <2>3. QED
    BY <2>1, <2>2, Zenon
<1>10. AddRule(rules, rule) \in Seq(R) /\ Len(AddRule(rules, rule)) = Len(rules) + 1
  <2>1. n + (m - k) = m + 1
    BY <1>b
  <2>2. QED
    BY <1>b, <1>f, <1>g, <2>1, Zenon
<1>11. ASSUME NEW i \in 1..k PROVE AddRule(rules, rule)[i] = rules[i]
  <2>1. i \in 1..n + (m - k) /\ i <= n
    BY <1>b
  <2>2. QED
    BY <1>7, <1>d, <1>f, <1>g, <2>1, Zenon
<1>12. AddRule(rules, rule)[k + 1] = rule
  <2>1. n \in 1..n + (m - k) /\ n <= n
    BY <1>b
  <2>2. QED
    BY <1>b, <1>d, <1>f, <1>g, <2>1, Zenon
<1>13. ASSUME NEW i \in k + 1..Len(rules) PROVE AddRule(rules, rule)[i + 1] = rules[i]
  <2>0. PICK j : j = i + 1
    OBVIOUS
  <2>1. j \in 1..n + (m - k) /\ ~(j <= n) /\ j - n = i - k /\ i - k \in 1..m - k /\ k + (i - k) = i
    BY <1>b, <2>0
  <2>a. whole[j] = IF j <= n THEN upto[j] ELSE rest[j - n]
    BY <1>g, <2>1, Zenon
  <2>2. whole[i + 1] = rest[i - k]
    BY <2>0, <2>1, <2>a, Zenon
  <2>3. rest[i - k] = rules[k + (i - k)]
    BY <1>8, <1>b, <2>1, Zenon
  <2>4. QED
    BY <1>f, <2>1, <2>2, <2>3, Zenon
<1>14. InsertedAt(AddRule(rules, rule), rules, rule, k)
  BY <1>3, <1>11, <1>12, <1>13 DEF Fits, InsertedAt
<1>15. QED
  BY <1>3, <1>10, <1>14

\* AddRule keeps the order.
LEMMA AddRuleRanked ==
  ASSUME NEW R, \A r \in R : r.priority \in Int, NEW added \in Seq(R), NEW n \in 0..Len(added) - 1,
         NEW rules \in Seq(R), Ranked(rules, added, n)
  PROVE  Ranked(AddRule(rules, added[n + 1]), added, n + 1)
<1>1. n \in Nat /\ n + 1 \in 1..Len(added) /\ added[n + 1] \in R /\ Len(rules) = n
  BY DEF Ranked
<1> DEFINE rule == added[n + 1]
           longer == AddRule(rules, rule)
<1>2. PICK p : RankedBy(rules, added, n, p)
  BY DEF Ranked
<1>3. rule \in R
  BY <1>1
<1>4. PICK k \in 0..n : longer \in Seq(R) /\ Len(longer) = n + 1 /\ InsertedAt(longer, rules, rule, k)
  <2> HIDE DEF rule
  <2>1. /\ longer \in Seq(R) /\ Len(longer) = Len(rules) + 1
        /\ \E k \in 0..Len(rules) : InsertedAt(longer, rules, rule, k)
    BY <1>3, AddRuleAt
  <2> HIDE DEF longer
  <2>2. QED
    BY <1>1, <2>1
<1>5. PICK q : q = [i \in 1..n + 1 |-> IF i <= k THEN p[i] ELSE IF i = k + 1 THEN n + 1 ELSE p[i - 1]]
  OBVIOUS
<1>6. ASSUME NEW i \in 1..n PROVE p[i] \in 1..n /\ rules[i] = added[p[i]]
  BY <1>2 DEF RankedBy
<1>a. ASSUME NEW i \in 1..n, NEW j \in 1..n, i < j
      PROVE  \/ added[p[i]].priority < added[p[j]].priority
             \/ added[p[i]].priority = added[p[j]].priority /\ p[i] < p[j]
  BY <1>2, <1>a, Zenon DEF RankedBy
<1>7. ASSUME NEW i \in 1..n + 1
      PROVE  /\ q[i] \in 1..n + 1
             /\ \/ i <= k /\ i \in 1..n /\ q[i] = p[i]
                \/ i = k + 1 /\ q[i] = n + 1
                \/ i > k + 1 /\ i - 1 \in k + 1..n /\ i - 1 \in 1..n /\ q[i] = p[i - 1]
  <2>1. CASE i <= k
    <3>1. i \in 1..n /\ q[i] = p[i]
      BY <1>1, <1>5, <2>1
    <3>2. QED
      BY <1>1, <1>6, <2>1, <3>1
  <2>2. CASE i = k + 1
    BY <1>1, <1>5, <2>2
  <2>3. CASE i > k + 1
    <3>1. i - 1 \in k + 1..n /\ i - 1 \in 1..n /\ q[i] = p[i - 1]
      BY <1>1, <1>5, <2>3
    <3>2. QED
      BY <1>1, <1>6, <2>3, <3>1
  <2>4. QED
    BY <1>1, <2>1, <2>2, <2>3
<1>8. ASSUME NEW i \in 1..n + 1 PROVE longer[i] = added[q[i]]
  <2> HIDE DEF longer
  <2>1. CASE i <= k
    <3>1. longer[i] = rules[i]
      BY <1>4, <2>1 DEF InsertedAt
    <3>2. i \in 1..n /\ q[i] = p[i]
      BY <1>1, <1>7, <2>1
    <3>3. QED
      BY <1>6, <3>1, <3>2
  <2>2. CASE i = k + 1
    <3>1. longer[i] = rule
      BY <1>4, <2>2 DEF InsertedAt
    <3>2. q[i] = n + 1
      BY <1>1, <1>7, <2>2
    <3>3. QED
      BY <3>1, <3>2
  <2>3. CASE i > k + 1
    <3>1. longer[i] = rules[i - 1]
      <4>1. i - 1 \in k + 1..Len(rules) /\ i - 1 + 1 = i
        BY <1>1, <2>3
      <4>2. QED
        BY <1>4, <4>1 DEF InsertedAt
    <3>2. i - 1 \in 1..n /\ q[i] = p[i - 1]
      BY <1>1, <1>7, <2>3
    <3>3. QED
      BY <1>6, <3>1, <3>2
  <2>4. QED
    BY <1>1, <2>1, <2>2, <2>3
<1>9. ASSUME NEW m \in 1..n + 1 PROVE \E i \in 1..n + 1 : q[i] = m
  <2>1. CASE m = n + 1
    <3>1. k + 1 \in 1..n + 1 /\ q[k + 1] = n + 1
      BY <1>1, <1>5
    <3>2. QED
      BY <2>1, <3>1
  <2>2. CASE m # n + 1
    <3>1. PICK i \in 1..n : p[i] = m
      BY <1>1, <1>2, <2>2 DEF RankedBy
    <3>2. CASE i <= k
      <4>1. i \in 1..n + 1 /\ q[i] = m
        BY <1>5, <3>1, <3>2
      <4>2. QED
        BY <4>1
    <3>3. CASE i > k
      <4>1. i + 1 \in 1..n + 1 /\ q[i + 1] = m
        BY <1>5, <3>1, <3>3
      <4>2. QED
        BY <4>1
    <3>4. QED
      BY <3>2, <3>3
  <2>3. QED
    BY <2>1, <2>2
<1>10. ASSUME NEW i \in 1..n PROVE added[p[i]].priority \in Int /\ rules[i].priority = added[p[i]].priority
  <2>1. p[i] \in 1..Len(added) /\ added[p[i]] \in R
    BY <1>1, <1>6
  <2>2. QED
    BY <1>6, <2>1
<1>11. rule.priority \in Int
  BY <1>1
<1>12. \A i \in 1..k : rules[i].priority <= rule.priority
  <2>1. ASSUME NEW i \in 1..k PROVE rules[i].priority <= rule.priority
    <3>1. i \in 1..n /\ k \in 1..n /\ rules[k].priority <= rule.priority
      BY <1>1, <1>4 DEF InsertedAt
    <3>2. CASE i = k
      BY <3>1, <3>2
    <3>3. CASE i < k
      <4>1. \/ added[p[i]].priority < added[p[k]].priority
            \/ added[p[i]].priority = added[p[k]].priority /\ p[i] < p[k]
        BY <1>a, <3>1, <3>3, Zenon
      <4>2. QED
        BY <1>1, <1>10, <1>11, <3>1, <4>1
    <3>4. QED
      BY <3>2, <3>3
  <2>2. QED
    BY <2>1
<1>13. ASSUME NEW i \in 1..n + 1, NEW j \in 1..n + 1, i < j
       PROVE  \/ added[q[i]].priority < added[q[j]].priority
              \/ added[q[i]].priority = added[q[j]].priority /\ q[i] < q[j]
  <2> HIDE DEF longer
  <2>1. CASE j <= k
    <3>1. i \in 1..n /\ j \in 1..n /\ q[i] = p[i] /\ q[j] = p[j]
      BY <1>7, <1>13, <2>1
    <3>2. QED
      BY <1>a, <1>13, <3>1, Zenon
  <2>2. CASE j = k + 1
    <3>1. i \in 1..k /\ i \in 1..n /\ q[i] = p[i] /\ q[j] = n + 1
      BY <1>1, <1>7, <1>13, <2>2
    <3>2. p[i] \in 1..n
      BY <1>6, <3>1
    <3>3. added[p[i]].priority <= rule.priority
      BY <1>10, <1>12, <3>1
    <3>4. QED
      BY <1>1, <1>10, <1>11, <3>1, <3>2, <3>3
  <2>3. CASE j > k + 1 /\ i = k + 1
    <3>1. j - 1 \in k + 1..n /\ j - 1 \in 1..n /\ q[j] = p[j - 1] /\ q[i] = n + 1
      BY <1>7, <2>3
    <3>2. added[p[j - 1]].priority > rule.priority
      BY <1>1, <1>4, <1>10, <3>1 DEF InsertedAt
    <3>3. QED
      BY <1>1, <1>10, <1>11, <3>1, <3>2
  <2>4. CASE j > k + 1 /\ i <= k
    <3>1. i \in 1..n /\ j - 1 \in 1..n /\ i < j - 1 /\ q[i] = p[i] /\ q[j] = p[j - 1]
      BY <1>1, <1>7, <2>4
    <3>2. PICK x \in 1..n, y \in 1..n : x = i /\ y = j - 1
      BY <3>1
    <3>3. x < y /\ q[i] = p[x] /\ q[j] = p[y]
      BY <3>1, <3>2
    <3>4. \/ added[p[x]].priority < added[p[y]].priority
          \/ added[p[x]].priority = added[p[y]].priority /\ p[x] < p[y]
      BY <1>a, <3>3, Zenon
    <3>5. QED
      BY <3>3, <3>4, Zenon
  <2>5. CASE j > k + 1 /\ i > k + 1
    <3>1. i - 1 \in 1..n /\ j - 1 \in 1..n /\ i - 1 < j - 1 /\ q[i] = p[i - 1] /\ q[j] = p[j - 1]
      <4>1. i \in 1..n + 1 /\ j \in 1..n + 1 /\ ~(i <= k) /\ i # k + 1 /\ ~(j <= k) /\ j # k + 1
        BY <1>1, <2>5
      <4>2. i - 1 < j - 1
        BY <1>1, <1>13
      <4>3. QED
        BY <1>7, <4>1, <4>2, Zenon
    <3>2. PICK x \in 1..n, y \in 1..n : x = i - 1 /\ y = j - 1
      BY <3>1
    <3>3. x < y /\ q[i] = p[x] /\ q[j] = p[y]
      BY <3>1, <3>2
    <3>4. \/ added[p[x]].priority < added[p[y]].priority
          \/ added[p[x]].priority = added[p[y]].priority /\ p[x] < p[y]
      BY <1>a, <3>3, Zenon
    <3>5. QED
      BY <3>3, <3>4, Zenon
  <2>6. QED
    BY <2>1, <2>2, <2>3, <2>4, <2>5
<1>14. QED
  <2> HIDE DEF longer
  <2>1. Ranked(longer, added, n + 1)
    <3>1. RankedBy(longer, added, n + 1, q)
      <4>1. q \in [1..n + 1 -> 1..n + 1]
        BY <1>5, <1>7
      <4>2. QED
        BY <4>1, <1>8, <1>9, <1>13 DEF RankedBy
    <3>2. Len(longer) = n + 1
      BY <1>4
    <3> HIDE DEF longer
    <3>3. QED
      BY <3>1, <3>2 DEF Ranked
  <2>2. QED
    BY <2>1 DEF longer

\* Engine: the rules in order, whatever the order they were added in.
LEMMA EngineRanked ==
  ASSUME NEW R, \A r \in R : r.priority \in Int, NEW added \in Seq(R)
  PROVE  Engine(added) \in Seq(R) /\ Ranked(Engine(added), added, Len(added))
<1>1. PICK n : n = Len(added)
  OBVIOUS
<1>2. PICK V : V = Seq(R)
  OBVIOUS
<1>3. PICK nil : nil = <<>>
  OBVIOUS
<1>4. PICK step : step = [i \in 1..n |-> [rules \in V |-> AddRule(rules, added[i])]]
  OBVIOUS
<1>5. n \in Nat /\ nil \in V /\ \A i \in 1..n : added[i] \in R
  BY <1>1, <1>2, <1>3
<1>6. ASSUME NEW i \in 1..n, NEW rules \in V PROVE AddRule(rules, added[i]) \in V
  <2>1. added[i] \in R /\ rules \in Seq(R)
    BY <1>2, <1>5
  <2>2. QED
    BY <1>2, <2>1, AddRuleAt
<1>7. step \in [1..n -> [V -> V]] /\ \A i \in 1..n : \A rules \in V : step[i][rules] = AddRule(rules, added[i])
  BY <1>4, <1>6, Zenon
<1>8. PICK upto : upto \in [0..n -> V] /\ Steps(upto, n, nil, step)
  BY <1>5, <1>7, Recursion
<1>9. ASSUME NEW i \in 0..n, i # 0 PROVE step[i][upto[i - 1]] = AddRule(upto[i - 1], added[i])
  <2>1. i \in 1..n /\ i - 1 \in 0..n
    BY <1>5, <1>9
  <2>2. upto[i - 1] \in V
    BY <1>8, <2>1, Zenon
  <2>3. QED
    BY <1>7, <2>1, <2>2, Zenon
<1>10. upto = [i \in 0..n |-> IF i = 0 THEN <<>> ELSE AddRule(upto[i - 1], added[i])]
  <2>1. [i \in 0..n |-> IF i = 0 THEN nil ELSE step[i][upto[i - 1]]]
          = [i \in 0..n |-> IF i = 0 THEN nil ELSE AddRule(upto[i - 1], added[i])]
    BY <1>9, Zenon
  <2>2. QED
    BY <1>3, <1>8, <2>1, Zenon DEF Steps
<1>11. PICK u : /\ u = (CHOOSE f : f = [i \in 0..n |-> IF i = 0 THEN <<>> ELSE AddRule(f[i - 1], added[i])])
                /\ Engine(added) = u[n]
  BY <1>1, Zenon DEF Engine
<1>12. u = [i \in 0..n |-> IF i = 0 THEN <<>> ELSE AddRule(u[i - 1], added[i])]
  BY <1>10, <1>11, Zenon
<1>13. \A i \in 0..n : u[i] = IF i = 0 THEN <<>> ELSE AddRule(u[i - 1], added[i])
  BY <1>12, Zenon
<1>14. PICK S : S = {i \in 0..n : u[i] \in V /\ Ranked(u[i], added, i)}
  OBVIOUS
<1>15. 0 \in S
  <2>1. 0 \in 0..n
    BY <1>5
  <2>2. u[0] = <<>>
    BY <1>13, <2>1, Zenon
  <2>3. Ranked(<<>>, added, 0)
    <3>1. PICK p : p = [i \in 1..0 |-> i]
      OBVIOUS
    <3>2. RankedBy(<<>>, added, 0, p)
      <4>1. \A i \in 1..0 : FALSE
        OBVIOUS
      <4>2. p \in [1..0 -> 1..0]
        BY <3>1
      <4>3. QED
        BY <4>1, <4>2, Zenon DEF RankedBy
    <3>3. Len(<<>>) = 0
      OBVIOUS
    <3>4. QED
      BY <3>2, <3>3, Zenon DEF Ranked
  <2>4. QED
    BY <1>3, <1>5, <1>14, <2>1, <2>2, <2>3, Zenon
<1>16. ASSUME NEW k \in 0..n - 1, k \in S PROVE k + 1 \in S
  <2>1. k + 1 \in 0..n /\ k + 1 # 0 /\ k + 1 - 1 = k /\ k + 1 \in 1..n
    BY <1>5
  <2>2. u[k + 1] = AddRule(u[k], added[k + 1])
    <3>1. u[k + 1] = IF k + 1 = 0 THEN <<>> ELSE AddRule(u[k + 1 - 1], added[k + 1])
      BY <1>13, <2>1
    <3>2. QED
      BY <2>1, <3>1, Zenon
  <2>3. u[k] \in V /\ Ranked(u[k], added, k)
    BY <1>14, <1>16, Zenon
  <2>4. AddRule(u[k], added[k + 1]) \in V
    BY <1>6, <2>1, <2>3, Zenon
  <2>5. Ranked(AddRule(u[k], added[k + 1]), added, k + 1)
    <3>1. u[k] \in Seq(R) /\ k \in 0..Len(added) - 1
      BY <1>1, <1>2, <2>3
    <3>2. QED
      BY <2>3, <3>1, AddRuleRanked
  <2>6. QED
    BY <1>14, <2>1, <2>2, <2>4, <2>5, Zenon
<1>17. n \in S
  <2>1. \A k \in 0..n : k \in S
    BY <1>5, <1>15, <1>16, Climb
  <2>2. QED
    BY <1>5, <2>1
<1>18. QED
  BY <1>1, <1>2, <1>11, <1>14, <1>17

-----------------------------------------------------------------------------
\* What a decision d says of the first k rules.
Outcome(rules, tests, k, d) ==
  /\ d \in Modes
  /\ d = "deny" <=> \E i \in 1..k : Matches(rules[i], tests) /\ rules[i].mode = "deny"
  /\ d # "deny" =>
       /\ (\A i \in 1..k : ~Matches(rules[i], tests)) => d = "allow"
       /\ \A i \in 1..k : Matches(rules[i], tests) /\ (\A j \in i + 1..k : ~Matches(rules[j], tests))
                           => d = rules[i].mode

\* The decision after one more rule.
Decide(d, rule, tests) ==
  IF d = "deny" \/ ~Matches(rule, tests) THEN d
  ELSE IF rule.mode = "allow" /\ d # "observe" THEN d
  ELSE rule.mode

\* One more rule, and the decision is still the outcome of the rules so far (EvaluateRule).
LEMMA DecideOutcome ==
  ASSUME NEW rules, NEW tests, NEW k \in Nat, NEW d, Outcome(rules, tests, k, d), rules[k + 1].mode \in Modes
  PROVE  Outcome(rules, tests, k + 1, Decide(d, rules[k + 1], tests))
<1> DEFINE rule == rules[k + 1]
           e == Decide(d, rule, tests)
<1>1. \A i \in 1..k + 1 : i \in 1..k \/ i = k + 1
  OBVIOUS
<1>2. k + 1 \in 1..k + 1 /\ \A i \in 1..k : i \in 1..k + 1
  OBVIOUS
<1>3. d \in Modes /\ (d = "deny" <=> \E i \in 1..k : Matches(rules[i], tests) /\ rules[i].mode = "deny")
  BY DEF Outcome
<1>4. CASE d = "deny"
  <2>1. e = "deny"
    BY <1>4 DEF Decide
  <2> HIDE DEF e
  <2>2. \E i \in 1..k + 1 : Matches(rules[i], tests) /\ rules[i].mode = "deny"
    BY <1>2, <1>3, <1>4, Zenon
  <2>3. Outcome(rules, tests, k + 1, e)
    BY <1>3, <1>4, <2>1, <2>2, Zenon DEF Outcome
  <2>4. QED
    BY <2>3 DEF e
<1>5. CASE d # "deny" /\ ~Matches(rule, tests)
  <2>1. e = d
    BY <1>5 DEF Decide
  <2> HIDE DEF e
  <2>2. (\E i \in 1..k + 1 : Matches(rules[i], tests) /\ rules[i].mode = "deny") <=> FALSE
    BY <1>1, <1>3, <1>5, Zenon
  <2>3. (\A i \in 1..k + 1 : ~Matches(rules[i], tests)) => d = "allow"
    BY <1>2, <1>5, Zenon DEF Outcome
  <2>4. ASSUME NEW i \in 1..k + 1, Matches(rules[i], tests), \A j \in i + 1..k + 1 : ~Matches(rules[j], tests)
        PROVE  d = rules[i].mode
    <3>1. i \in 1..k
      BY <1>1, <1>5, <2>4, Zenon
    <3>2. \A j \in i + 1..k : j \in i + 1..k + 1
      BY <3>1
    <3>3. QED
      BY <1>5, <2>4, <3>1, <3>2, Zenon DEF Outcome
  <2>5. Outcome(rules, tests, k + 1, e)
    BY <1>3, <1>5, <2>1, <2>2, <2>3, <2>4, Zenon DEF Outcome
  <2>6. QED
    BY <2>5 DEF e
<1>6. CASE d # "deny" /\ Matches(rule, tests)
  <2>1. e = rule.mode /\ e \in Modes
    BY <1>3, <1>6 DEF Decide, Modes
  <2> HIDE DEF e
  <2>2. e = "deny" <=> \E i \in 1..k + 1 : Matches(rules[i], tests) /\ rules[i].mode = "deny"
    BY <1>1, <1>2, <1>3, <1>6, <2>1, Zenon
  <2>3. ~(\A i \in 1..k + 1 : ~Matches(rules[i], tests))
    BY <1>2, <1>6, Zenon
  <2>4. ASSUME NEW i \in 1..k + 1, Matches(rules[i], tests), \A j \in i + 1..k + 1 : ~Matches(rules[j], tests)
        PROVE  e = rules[i].mode
    <3>1. i = k + 1 \/ k + 1 \in i + 1..k + 1
      OBVIOUS
    <3>2. QED
      BY <1>6, <2>1, <2>4, <3>1, Zenon
  <2>5. Outcome(rules, tests, k + 1, e)
    BY <2>1, <2>2, <2>3, <2>4, Zenon DEF Outcome
  <2>6. QED
    BY <2>5 DEF e
<1>7. QED
  BY <1>4, <1>5, <1>6

\* EvaluateRule: what the whole list comes to.
LEMMA EvaluateRuleOutcome ==
  ASSUME NEW R, \A r \in R : r.mode \in Modes, NEW rules \in Seq(R), NEW tests
  PROVE  Outcome(rules, tests, Len(rules), EvaluateRule(rules, tests))
<1>1. PICK n : n = Len(rules)
  OBVIOUS
<1>2. PICK step : step = [i \in 1..n |-> [d \in Modes |-> Decide(d, rules[i], tests)]]
  OBVIOUS
<1>3. n \in Nat /\ "allow" \in Modes /\ \A i \in 1..n : rules[i].mode \in Modes
  BY <1>1 DEF Modes
<1>4. ASSUME NEW i \in 1..n, NEW d \in Modes PROVE Decide(d, rules[i], tests) \in Modes
  BY <1>3, Zenon DEF Decide
<1>5. step \in [1..n -> [Modes -> Modes]] /\ \A i \in 1..n : \A d \in Modes : step[i][d] = Decide(d, rules[i], tests)
  BY <1>2, <1>4, Zenon
<1>6. PICK upto : upto \in [0..n -> Modes] /\ Steps(upto, n, "allow", step)
  BY <1>3, <1>5, Recursion
<1>7. ASSUME NEW i \in 0..n, i # 0 PROVE step[i][upto[i - 1]] = Decide(upto[i - 1], rules[i], tests)
  <2>1. i \in 1..n /\ i - 1 \in 0..n
    BY <1>3, <1>7
  <2>2. upto[i - 1] \in Modes
    BY <1>6, <2>1, Zenon
  <2>3. QED
    BY <1>5, <2>1, <2>2, Zenon
<1>8. upto = [i \in 0..n |-> IF i = 0 THEN "allow" ELSE Decide(upto[i - 1], rules[i], tests)]
  <2>1. [i \in 0..n |-> IF i = 0 THEN "allow" ELSE step[i][upto[i - 1]]]
          = [i \in 0..n |-> IF i = 0 THEN "allow" ELSE Decide(upto[i - 1], rules[i], tests)]
    BY <1>7, Zenon
  <2>2. QED
    BY <1>6, <2>1, Zenon DEF Steps
<1>9. PICK u : /\ u = (CHOOSE f : f = [i \in 0..n |-> IF i = 0 THEN "allow" ELSE Decide(f[i - 1], rules[i], tests)])
               /\ EvaluateRule(rules, tests) = u[n]
  BY <1>1, Zenon DEF EvaluateRule, Decide
<1>10. u = [i \in 0..n |-> IF i = 0 THEN "allow" ELSE Decide(u[i - 1], rules[i], tests)]
  BY <1>8, <1>9, Zenon
<1>11. \A i \in 0..n : u[i] = IF i = 0 THEN "allow" ELSE Decide(u[i - 1], rules[i], tests)
  BY <1>10, Zenon
<1>12. PICK S : S = {i \in 0..n : Outcome(rules, tests, i, u[i])}
  OBVIOUS
<1>13. 0 \in S
  <2>1. 0 \in 0..n /\ \A i \in 1..0 : FALSE
    BY <1>3
  <2>2. u[0] = "allow"
    BY <1>11, <2>1, Zenon
  <2>3. Outcome(rules, tests, 0, "allow")
    BY <1>3, <2>1 DEF Outcome
  <2>4. QED
    BY <1>12, <2>1, <2>2, <2>3, Zenon
<1>14. ASSUME NEW k \in 0..n - 1, k \in S PROVE k + 1 \in S
  <2>1. k \in Nat /\ k + 1 \in 0..n /\ k + 1 # 0 /\ k + 1 - 1 = k /\ k + 1 \in 1..n
    BY <1>3
  <2>2. u[k + 1] = Decide(u[k], rules[k + 1], tests)
    <3>1. u[k + 1] = IF k + 1 = 0 THEN "allow" ELSE Decide(u[k + 1 - 1], rules[k + 1], tests)
      BY <1>11, <2>1
    <3>2. QED
      BY <2>1, <3>1, Zenon
  <2>3. Outcome(rules, tests, k, u[k])
    BY <1>12, <1>14, Zenon
  <2>4. Outcome(rules, tests, k + 1, Decide(u[k], rules[k + 1], tests))
    BY <1>3, <2>1, <2>3, DecideOutcome
  <2>5. QED
    BY <1>12, <2>1, <2>2, <2>4, Zenon
<1>15. n \in S
  <2>1. \A k \in 0..n : k \in S
    BY <1>3, <1>13, <1>14, Climb
  <2>2. QED
    BY <1>3, <2>1
<1>16. QED
  BY <1>1, <1>9, <1>12, <1>15, Zenon

\* Whatever the order the rules were added in, the engine comes to the verdict
\* that their modes, priorities and ages say (AddRule, EvaluateRule).
THEOREM RulesDecided ==
  ASSUME NEW R, \A r \in R : r.mode \in Modes /\ r.priority \in Int, NEW added \in Seq(R), NEW tests
  PROVE  EvaluateRule(Engine(added), tests) = Verdict(added, tests)
<1>1. PICK rules : rules = Engine(added)
  OBVIOUS
<1>2. PICK n : n = Len(added)
  OBVIOUS
<1>3. PICK d : d = EvaluateRule(rules, tests)
  OBVIOUS
<1>4. n \in Nat /\ \A i \in 1..n : added[i] \in R
  BY <1>2
<1>5. rules \in Seq(R) /\ Ranked(rules, added, n)
  BY <1>1, <1>2, EngineRanked
<1>6. PICK p : Len(rules) = n /\ RankedBy(rules, added, n, p)
  BY <1>5, Zenon DEF Ranked
<1>7. Outcome(rules, tests, n, d)
  <2>1. Outcome(rules, tests, Len(rules), d)
    BY <1>3, <1>5, EvaluateRuleOutcome
  <2>2. QED
    BY <1>6, <2>1, Zenon
<1>8. ASSUME NEW i \in 1..n PROVE p[i] \in 1..n /\ rules[i] = added[p[i]]
  BY <1>6 DEF RankedBy
<1>9. ASSUME NEW m \in 1..n PROVE \E i \in 1..n : p[i] = m
  BY <1>6, Zenon DEF RankedBy
<1>10. PICK matching : matching = {i \in 1..n : Matches(added[i], tests)}
  OBVIOUS
<1>11. (\E i \in matching : added[i].mode = "deny")
         <=> \E i \in 1..n : Matches(rules[i], tests) /\ rules[i].mode = "deny"
  <2>1. ASSUME NEW m \in matching, added[m].mode = "deny"
        PROVE  \E i \in 1..n : Matches(rules[i], tests) /\ rules[i].mode = "deny"
    <3>1. m \in 1..n /\ Matches(added[m], tests)
      BY <1>10, Zenon
    <3>2. PICK i \in 1..n : p[i] = m
      BY <1>9, <3>1, Zenon
    <3>3. QED
      BY <1>8, <2>1, <3>1, <3>2, Zenon
  <2>2. ASSUME NEW i \in 1..n, Matches(rules[i], tests), rules[i].mode = "deny"
        PROVE  \E m \in matching : added[m].mode = "deny"
    <3>1. p[i] \in matching /\ added[p[i]].mode = "deny"
      BY <1>8, <1>10, <2>2, Zenon
    <3>2. QED
      BY <3>1, Zenon
  <2>3. QED
    BY <2>1, <2>2, Zenon
<1> DEFINE Later(i, j) == added[i].priority > added[j].priority \/ (added[i].priority = added[j].priority /\ i >= j)
           last == CHOOSE i \in matching : \A j \in matching : Later(i, j)
<1>12. CASE d = "deny"
  <2>1. \E i \in matching : added[i].mode = "deny"
    BY <1>7, <1>11, <1>12, Zenon DEF Outcome
  <2>2. Verdict(added, tests) = "deny"
    BY <1>2, <1>10, <2>1, Zenon DEF Verdict
  <2>3. QED
    BY <1>1, <1>3, <1>12, <2>2, Zenon
<1>13. CASE d # "deny" /\ matching = {}
  <2>1. \A i \in 1..n : ~Matches(rules[i], tests)
    BY <1>8, <1>10, <1>13, Zenon
  <2>2. d = "allow"
    BY <1>7, <1>13, <2>1, Zenon DEF Outcome
  <2>3. Verdict(added, tests) = "allow"
    BY <1>2, <1>10, <1>13, Zenon DEF Verdict
  <2>4. QED
    BY <1>1, <1>3, <2>2, <2>3, Zenon
<1>14. CASE d # "deny" /\ matching # {}
  <2>1. PICK S : S = {0} \cup {i \in 1..n : Matches(rules[i], tests)}
    OBVIOUS
  <2>2. PICK k \in 0..n : k \in S /\ \A i \in k + 1..n : i \notin S
    <3>1. 0 \in S
      BY <2>1
    <3>2. QED
      BY <1>4, <3>1, Latest
  <2>3. \A i \in 1..n : Matches(rules[i], tests) => i <= k
    BY <1>4, <2>1, <2>2
  <2>4. k \in 1..n /\ Matches(rules[k], tests)
    <3>1. PICK m \in matching : TRUE
      BY <1>14, Zenon
    <3>2. m \in 1..n /\ Matches(added[m], tests)
      BY <1>10, Zenon
    <3>3. PICK i \in 1..n : p[i] = m
      BY <1>9, <3>2, Zenon
    <3>4. Matches(rules[i], tests)
      BY <1>8, <3>2, <3>3, Zenon
    <3>5. k # 0
      BY <1>4, <2>3, <3>4
    <3>6. QED
      BY <2>1, <2>2, <3>5
  <2>5. d = rules[k].mode
    <3>1. \A j \in k + 1..n : ~Matches(rules[j], tests)
      BY <1>4, <2>3
    <3>2. QED
      BY <1>7, <1>14, <2>4, <3>1, Zenon DEF Outcome
  <2>6. p[k] \in matching
    BY <1>8, <1>10, <2>4, Zenon
  <2>7. ASSUME NEW m \in matching PROVE Later(p[k], m)
    <3>1. m \in 1..n /\ Matches(added[m], tests)
      BY <1>10, Zenon
    <3>2. PICK i \in 1..n : p[i] = m
      BY <1>9, <3>1, Zenon
    <3>3. i <= k
      BY <1>8, <2>3, <3>1, <3>2, Zenon
    <3>4. p[k] \in 1..n /\ added[m].priority \in Int /\ added[p[k]].priority \in Int
      BY <1>4, <1>8, <2>4, <3>1
    <3>5. CASE i = k
      BY <3>1, <3>2, <3>4, <3>5
    <3>6. CASE i < k
      <4>1. \/ added[p[i]].priority < added[p[k]].priority
            \/ added[p[i]].priority = added[p[k]].priority /\ p[i] < p[k]
        BY <1>6, <2>4, <3>6 DEF RankedBy
      <4>2. QED
        BY <3>1, <3>2, <3>4, <4>1
    <3>7. QED
      BY <1>4, <3>3, <3>5, <3>6
  <2>8. ASSUME NEW i \in matching, \A j \in matching : Later(i, j) PROVE i = p[k]
    <3>1. Later(i, p[k]) /\ Later(p[k], i)
      BY <2>6, <2>7, <2>8
    <3>2. i \in 1..n /\ p[k] \in 1..n /\ added[i].priority \in Int /\ added[p[k]].priority \in Int
      BY <1>4, <1>8, <1>10, <2>4
    <3>3. QED
      BY <1>4, <3>1, <3>2
  <2>9. last = p[k]
    <3> HIDE DEF Later
    <3>1. QED
      BY <2>6, <2>7, <2>8
  <2>10. Verdict(added, tests) = added[last].mode
    <3>1. ~(\E i \in matching : added[i].mode = "deny")
      BY <1>7, <1>11, <1>14, Zenon DEF Outcome
    <3>2. QED
      BY <1>2, <1>10, <1>14, <3>1, Zenon DEF Verdict
  <2>11. added[last].mode = rules[k].mode
    BY <1>8, <2>4, <2>9, Zenon
  <2>12. QED
    BY <1>1, <1>3, <2>5, <2>10, <2>11, Zenon
<1>15. QED
  BY <1>12, <1>13, <1>14, Zenon

-----------------------------------------------------------------------------
(* The paths that are normal: PathSyntax *)

\* What Split makes of one more token.
SplitStep(parts, token) ==
  IF token = "/" THEN Append(parts, <<>>)
  ELSE [parts EXCEPT ![Len(parts)] = Append(@, token)]

\* The lists of parts that tokens of a set make up.
Parts(T) == Seq(Seq(T \ {"/"})) \ {<<>>}

\* A token goes to the last part or opens another.
LEMMA SplitStepParts ==
  ASSUME NEW T, NEW parts \in Parts(T), NEW token \in T
  PROVE  SplitStep(parts, token) \in Parts(T)
<1>1. PICK W : W = Seq(T \ {"/"})
  OBVIOUS
<1>2. parts \in Seq(W) /\ parts # <<>>
  BY <1>1 DEF Parts
<1>3. Len(parts) \in 1..Len(parts)
  BY <1>2, EmptySeq
<1>4. parts[Len(parts)] \in W
  BY <1>2, <1>3, ElementOfSeq
<1>5. CASE token = "/"
  <2>1. <<>> \in W
    BY <1>1, EmptySeq
  <2>2. Append(parts, <<>>) \in Seq(W) /\ Append(parts, <<>>) # <<>>
    BY <1>2, <2>1, AppendProperties
  <2>3. QED
    BY <1>1, <1>5, <2>2 DEF SplitStep, Parts
<1>6. CASE token # "/"
  <2>1. PICK longer : longer = Append(parts[Len(parts)], token)
    OBVIOUS
  <2>2. longer \in W
    <3>1. token \in T \ {"/"}
      BY <1>6
    <3>2. QED
      BY <1>1, <1>4, <2>1, <3>1, AppendProperties
  <2>3. PICK next : next = [parts EXCEPT ![Len(parts)] = longer]
    OBVIOUS
  <2>4. next \in Seq(W) /\ Len(next) = Len(parts)
    BY <1>2, <1>3, <2>2, <2>3, ExceptSeq
  <2>5. next # <<>>
    BY <1>2, <1>3, <2>4, EmptySeq
  <2>6. SplitStep(parts, token) = next
    BY <1>6, <2>1, <2>3, Zenon DEF SplitStep
  <2>7. QED
    BY <1>1, <2>4, <2>5, <2>6 DEF Parts
<1>7. QED
  BY <1>5, <1>6

\* Split: one token after the other.
SplitRun(text, u) ==
  /\ u[0] = << <<>> >>
  /\ \A i \in 1..Len(text) : u[i] = SplitStep(u[i - 1], text[i])
  /\ Split(text) = u[Len(text)]

\* Split is a run over the tokens.
LEMMA SplitUpto ==
  ASSUME NEW T, NEW text \in Seq(T)
  PROVE  \E u \in [0..Len(text) -> Parts(T)] : SplitRun(text, u)
<1>1. PICK n : n = Len(text)
  OBVIOUS
<1>2. PICK V : V = Parts(T)
  OBVIOUS
<1>3. PICK base : base = << <<>> >>
  OBVIOUS
<1>4. PICK step : step = [i \in 1..n |-> [prev \in V |-> SplitStep(prev, text[i])]]
  OBVIOUS
<1>5. n \in Nat /\ base \in V
  <2>1. PICK W : W = Seq(T \ {"/"})
    OBVIOUS
  <2>2. <<>> \in W
    BY <2>1, EmptySeq
  <2>3. << <<>> >> \in Seq(W) /\ << <<>> >> # <<>>
    BY <2>2
  <2>4. QED
    BY <1>1, <1>2, <1>3, <2>1, <2>3, LenProperties DEF Parts
<1>6. ASSUME NEW i \in 1..n, NEW prev \in V PROVE SplitStep(prev, text[i]) \in V
  <2>1. text[i] \in T
    BY <1>1, ElementOfSeq
  <2>2. QED
    BY <1>2, <2>1, SplitStepParts
<1>7. step \in [1..n -> [V -> V]] /\ \A i \in 1..n : \A prev \in V : step[i][prev] = SplitStep(prev, text[i])
  BY <1>4, <1>6, Zenon
<1>8. PICK g : g \in [0..n -> V] /\ Steps(g, n, base, step)
  BY <1>5, <1>7, Recursion
<1>9. ASSUME NEW i \in 0..n, i # 0 PROVE step[i][g[i - 1]] = SplitStep(g[i - 1], text[i])
  <2>1. i \in 1..n /\ i - 1 \in 0..n
    BY <1>5, <1>9
  <2>2. g[i - 1] \in V
    BY <1>8, <2>1, Zenon
  <2>3. QED
    BY <1>7, <2>1, <2>2, Zenon
<1>10. g = [i \in 0..n |-> IF i = 0 THEN << <<>> >> ELSE SplitStep(g[i - 1], text[i])]
  <2>1. [i \in 0..n |-> IF i = 0 THEN base ELSE step[i][g[i - 1]]]
          = [i \in 0..n |-> IF i = 0 THEN base ELSE SplitStep(g[i - 1], text[i])]
    BY <1>9, Zenon
  <2>2. QED
    BY <1>3, <1>8, <2>1, Zenon DEF Steps
<1>11. PICK u : /\ u = (CHOOSE f : f = [i \in 0..n |-> IF i = 0 THEN << <<>> >> ELSE SplitStep(f[i - 1], text[i])])
                /\ Split(text) = u[n]
  BY <1>1, Zenon DEF Split, SplitStep
<1>12. u = [i \in 0..n |-> IF i = 0 THEN base ELSE SplitStep(u[i - 1], text[i])]
  BY <1>3, <1>10, <1>11, Zenon
<1>13. ASSUME NEW i \in 0..n, i # 0 PROVE u[i] = SplitStep(u[i - 1], text[i])
  BY <1>12, <1>13, Zenon
<1>14. 0 \in 0..n /\ u[0] = base
  <2>1. 0 \in 0..n
    BY <1>5
  <2>2. QED
    BY <1>12, <2>1, Zenon
<1>15. \A i \in 1..n : i \in 0..n /\ i # 0
  BY <1>5
<1>16. u \in [0..n -> V]
  <2>1. PICK S : S = {i \in 0..n : u[i] \in V}
    OBVIOUS
  <2>2. 0 \in S
    BY <1>5, <1>14, <2>1, Zenon
  <2>3. ASSUME NEW k \in 0..n - 1, k \in S PROVE k + 1 \in S
    <3>1. k + 1 \in 0..n /\ k + 1 # 0 /\ k + 1 - 1 = k /\ k + 1 \in 1..n
      BY <1>5
    <3>2. u[k] \in V
      BY <2>1, <2>3, Zenon
    <3>3. SplitStep(u[k], text[k + 1]) \in V
      BY <1>6, <3>1, <3>2, Zenon
    <3>4. u[k + 1] = SplitStep(u[k + 1 - 1], text[k + 1])
      BY <1>13, <3>1
    <3>5. QED
      BY <2>1, <3>1, <3>3, <3>4, Zenon
  <2>4. \A i \in 0..n : i \in S
    BY <1>5, <2>2, <2>3, Climb
  <2>5. QED
    BY <1>12, <2>1, <2>4, Zenon
<1>17. SplitRun(text, u)
  BY <1>1, <1>3, <1>11, <1>13, <1>14, <1>15, Zenon DEF SplitRun
<1>18. QED
  BY <1>1, <1>2, <1>16, <1>17, Zenon

-----------------------------------------------------------------------------
\* A beginning one longer.
LEMMA SubSeqNext ==
  ASSUME NEW S, NEW seq \in Seq(S), NEW k \in 0..Len(seq) - 1
  PROVE  /\ SubSeq(seq, 1, k) \in Seq(S) /\ seq[k + 1] \in S
         /\ SubSeq(seq, 1, k + 1) = Append(SubSeq(seq, 1, k), seq[k + 1])
<1>1. Len(seq) \in Nat /\ k \in Int /\ k + 1 \in Int /\ k + 1 \in 1..Len(seq)
  BY LenProperties
<1>2. \A i \in 1..k + 1 : seq[i] \in S
  BY <1>1, ElementOfSeq
<1>3. PICK shorter : shorter = SubSeq(seq, 1, k)
  OBVIOUS
<1>4. PICK longer : longer = SubSeq(seq, 1, k + 1)
  OBVIOUS
<1>5. shorter \in Seq(S) /\ Len(shorter) = k /\ \A i \in 1..k : shorter[i] = seq[i]
  BY <1>1, <1>2, <1>3, SubSeqProperties
<1>6. longer \in Seq(S) /\ Len(longer) = k + 1 /\ \A i \in 1..k + 1 : longer[i] = seq[i]
  BY <1>1, <1>2, <1>4, SubSeqProperties
<1>7. seq[k + 1] \in S
  BY <1>1, <1>2
<1>8. PICK next : next = Append(shorter, seq[k + 1])
  OBVIOUS
<1>9. /\ next \in Seq(S) /\ Len(next) = k + 1 /\ next[k + 1] = seq[k + 1]
      /\ \A i \in 1..k : next[i] = shorter[i]
  BY <1>5, <1>7, <1>8, AppendProperties
<1>10. \A i \in 1..k + 1 : longer[i] = next[i]
  BY <1>1, <1>5, <1>6, <1>9
<1>11. longer = next
  BY <1>6, <1>9, <1>10, SeqEqual
<1>12. QED
  BY <1>3, <1>4, <1>5, <1>7, <1>8, <1>11

\* Joining and appending.
LEMMA ConcatAppend ==
  ASSUME NEW S, NEW a \in Seq(S), NEW b \in Seq(S), NEW c \in S
  PROVE  a \o Append(b, c) = Append(a \o b, c)
<1>1. Append(b, c) = b \o <<c>> /\ <<c>> \in Seq(S)
  BY AppendIsConcat
<1>2. a \o b \in Seq(S)
  BY ConcatProperties
<1>3. Append(a \o b, c) = (a \o b) \o <<c>>
  BY <1>2, AppendIsConcat
<1>4. (a \o b) \o <<c>> = a \o (b \o <<c>>)
  BY <1>1, ConcatAssociative
<1>5. QED
  BY <1>1, <1>3, <1>4, Zenon

\* A token goes to the last part.
LEMMA SplitStepLast ==
  ASSUME NEW W, NEW list \in Seq(W), NEW s \in W, NEW token, token # "/", Append(s, token) \in W
  PROVE  SplitStep(Append(list, s), token) = Append(list, Append(s, token))
<1> DEFINE t == Append(s, token)
<1>0. t \in W
  OBVIOUS
<1> HIDE DEF t
<1>1. PICK a : a = Append(list, s)
  OBVIOUS
<1>2. PICK b : b = Append(list, t)
  OBVIOUS
<1>3. PICK n : n = Len(list)
  OBVIOUS
<1>4. n \in Nat
  BY <1>3, LenProperties
<1>5. a \in Seq(W) /\ Len(a) = n + 1 /\ a[n + 1] = s /\ \A i \in 1..n : a[i] = list[i]
  BY <1>1, <1>3, AppendProperties
<1>6. b \in Seq(W) /\ Len(b) = n + 1 /\ b[n + 1] = t /\ \A i \in 1..n : b[i] = list[i]
  BY <1>0, <1>2, <1>3, AppendProperties
<1>7. PICK e : e = [a EXCEPT ![n + 1] = t]
  OBVIOUS
<1>8. n + 1 \in 1..Len(a)
  BY <1>4, <1>5
<1>9. /\ e \in Seq(W) /\ Len(e) = Len(a)
      /\ \A j \in 1..Len(a) : e[j] = IF j = n + 1 THEN t ELSE a[j]
  BY <1>0, <1>5, <1>7, <1>8, ExceptSeq
<1>10. \A j \in 1..n + 1 : e[j] = b[j]
  BY <1>4, <1>5, <1>6, <1>9
<1>11. e = b
  BY <1>5, <1>6, <1>9, <1>10, SeqEqual
<1>12. SplitStep(a, token) = [a EXCEPT ![Len(a)] = Append(a[Len(a)], token)]
  BY Zenon DEF SplitStep
<1>13. Len(a) = n + 1 /\ a[n + 1] = s
  BY <1>5
<1>14. QED
  BY <1>1, <1>2, <1>7, <1>11, <1>12, <1>13, Zenon DEF t

\* Two functions that start alike and go on alike end alike.
LEMMA Agree ==
  ASSUME NEW n \in Nat, NEW u, NEW w, u[0] = w[0], \A k \in 0..n - 1 : u[k] = w[k] => u[k + 1] = w[k + 1]
  PROVE  u[n] = w[n]
<1>1. PICK S : S = {k \in 0..n : u[k] = w[k]}
  OBVIOUS
<1>2. 0 \in S
  BY <1>1
<1>3. \A k \in 0..n - 1 : k \in S => k + 1 \in S
  BY <1>1
<1>4. n \in S
  BY <1>2, <1>3, ClimbTo
<1>5. QED
  BY <1>1, <1>4

-----------------------------------------------------------------------------
\* An empty text is one empty part.
LEMMA SplitEmpty == Split(<<>>) = << <<>> >>
<1>1. <<>> \in Seq(Tokens) /\ Len(<<>>) = 0
  BY EmptySeq
<1>2. PICK u : SplitRun(<<>>, u)
  BY <1>1, SplitUpto
<1>3. QED
  BY <1>1, <1>2, Zenon DEF SplitRun

\* There is always a part.
LEMMA SplitTyped ==
  ASSUME NEW T, NEW text \in Seq(T)
  PROVE  Split(text) \in Parts(T)
<1>1. PICK n : n = Len(text)
  OBVIOUS
<1>2. n \in 0..n
  BY <1>1, LenProperties
<1>3. PICK u \in [0..n -> Parts(T)] : SplitRun(text, u)
  BY <1>1, SplitUpto
<1>4. QED
  BY <1>1, <1>2, <1>3, Zenon DEF SplitRun

\* One more token is one more step of Split.
LEMMA SplitAppend ==
  ASSUME NEW T, NEW text \in Seq(T), NEW token \in T
  PROVE  Split(Append(text, token)) = SplitStep(Split(text), token)
<1>1. PICK n : n = Len(text)
  OBVIOUS
<1>2. PICK longer : longer = Append(text, token)
  OBVIOUS
<1>3. n \in Nat /\ longer \in Seq(T) /\ Len(longer) = n + 1 /\ longer[n + 1] = token /\ \A i \in 1..n : longer[i] = text[i]
  BY <1>1, <1>2, AppendProperties, LenProperties
<1>4. PICK u : SplitRun(text, u)
  BY SplitUpto
<1>5. PICK w : SplitRun(longer, w)
  BY <1>3, SplitUpto
<1>6. ASSUME NEW k \in 0..n - 1, u[k] = w[k] PROVE u[k + 1] = w[k + 1]
  <2>1. k + 1 \in 1..n /\ k + 1 \in 1..n + 1 /\ k + 1 - 1 = k
    BY <1>3
  <2>2. u[k + 1] = SplitStep(u[k], text[k + 1])
    BY <1>1, <1>4, <2>1 DEF SplitRun
  <2>3. w[k + 1] = SplitStep(w[k], longer[k + 1])
    BY <1>3, <1>5, <2>1 DEF SplitRun
  <2>4. QED
    BY <1>3, <1>6, <2>1, <2>2, <2>3, Zenon
<1>7. u[n] = w[n]
  <2>1. u[0] = w[0]
    BY <1>4, <1>5, Zenon DEF SplitRun
  <2>2. QED
    BY <1>3, <1>6, <2>1, Agree
<1>8. w[n + 1] = SplitStep(w[n], longer[n + 1])
  <2>1. n + 1 \in 1..n + 1 /\ n + 1 - 1 = n
    BY <1>3
  <2>2. QED
    BY <1>3, <1>5, <2>1 DEF SplitRun
<1>9. QED
  BY <1>1, <1>2, <1>3, <1>4, <1>5, <1>7, <1>8, Zenon DEF SplitRun

\* A part is what follows a slash.
LEMMA SplitSegment ==
  ASSUME NEW T, "/" \in T, NEW text \in Seq(T), NEW seg \in Seq(T \ {"/"})
  PROVE  Split(Append(text, "/") \o seg) = Append(Split(text), seg)
<1>1. PICK n : n = Len(seg)
  OBVIOUS
<1>2. PICK W : W = Seq(T \ {"/"})
  OBVIOUS
<1>3. PICK slashed : slashed = Append(text, "/")
  OBVIOUS
<1>4. PICK parts : parts = Split(text)
  OBVIOUS
<1>5. n \in Nat /\ slashed \in Seq(T) /\ parts \in Seq(W)
  BY <1>1, <1>2, <1>3, <1>4, LenProperties, AppendProperties, SplitTyped DEF Parts
<1>6. PICK S : S = {k \in 0..n : Split(slashed \o SubSeq(seg, 1, k)) = Append(parts, SubSeq(seg, 1, k))}
  OBVIOUS
<1>7. 0 \in S
  <2>1. SubSeq(seg, 1, 0) = <<>>
    BY SubSeqEmpty
  <2>2. slashed \o <<>> = slashed
    BY <1>5, ConcatEmptySeq
  <2>3. Split(slashed) = SplitStep(parts, "/")
    BY <1>3, <1>4, SplitAppend
  <2>4. SplitStep(parts, "/") = Append(parts, <<>>)
    BY DEF SplitStep
  <2>5. 0 \in 0..n
    BY <1>5
  <2>6. QED
    BY <1>6, <2>1, <2>2, <2>3, <2>4, <2>5, Zenon
<1>8. ASSUME NEW k \in 0..n - 1, k \in S PROVE k + 1 \in S
  <2>1. PICK begun : begun = SubSeq(seg, 1, k)
    OBVIOUS
  <2>2. PICK token : token = seg[k + 1]
    OBVIOUS
  <2>3. begun \in W /\ token \in T \ {"/"} /\ SubSeq(seg, 1, k + 1) = Append(begun, token)
    BY <1>1, <1>2, <2>1, <2>2, SubSeqNext
  <2>4. Split(slashed \o begun) = Append(parts, begun)
    BY <1>6, <1>8, <2>1, Zenon
  <2>5. begun \in Seq(T) /\ token \in T /\ token # "/" /\ slashed \o begun \in Seq(T)
    <3>1. begun \in Seq(T)
      BY <1>2, <2>3, SeqMonotonic
    <3>2. QED
      BY <1>5, <2>3, <3>1, ConcatProperties
  <2>6. slashed \o Append(begun, token) = Append(slashed \o begun, token)
    BY <1>5, <2>5, ConcatAppend
  <2>7. Split(Append(slashed \o begun, token)) = SplitStep(Append(parts, begun), token)
    BY <2>4, <2>5, SplitAppend
  <2>8. Append(begun, token) \in W
    BY <1>2, <2>3, AppendProperties
  <2>9. SplitStep(Append(parts, begun), token) = Append(parts, Append(begun, token))
    BY <1>5, <2>3, <2>5, <2>8, SplitStepLast
  <2>10. k + 1 \in 0..n
    BY <1>5
  <2>11. QED
    BY <1>6, <2>3, <2>6, <2>7, <2>9, <2>10, Zenon
<1>9. n \in S
  BY <1>5, <1>7, <1>8, ClimbTo
<1>10. SubSeq(seg, 1, n) = seg
  BY <1>1, SubSeqFull
<1>11. QED
  BY <1>3, <1>4, <1>6, <1>9, <1>10, Zenon

\* What Join makes of one more segment.
JoinStep(text, seg) == text \o <<"/">> \o seg

\* A slash and a segment are text.
LEMMA JoinStepTyped ==
  ASSUME NEW T, "/" \in T, NEW text \in Seq(T), NEW seg \in Seq(T)
  PROVE  JoinStep(text, seg) \in Seq(T)
<1>1. <<"/">> \in Seq(T)
  OBVIOUS
<1>2. text \o <<"/">> \in Seq(T)
  BY <1>1, ConcatProperties
<1>3. (text \o <<"/">>) \o seg \in Seq(T)
  BY <1>2, ConcatProperties
<1>4. QED
  BY <1>3 DEF JoinStep

\* Join: one segment after the other.
JoinRun(segments, u) ==
  /\ u[0] = <<>>
  /\ \A i \in 1..Len(segments) : u[i] = JoinStep(u[i - 1], segments[i])
  /\ Join(segments) = u[Len(segments)]

\* Join is a run over the segments.
LEMMA JoinUpto ==
  ASSUME NEW T, "/" \in T, NEW segments \in Seq(Seq(T)), segments # <<>>
  PROVE  \E u \in [0..Len(segments) -> Seq(T)] : JoinRun(segments, u)
<1>1. PICK n : n = Len(segments)
  OBVIOUS
<1>2. PICK V : V = Seq(T)
  OBVIOUS
<1>3. PICK base : base = <<>>
  OBVIOUS
<1>4. PICK step : step = [i \in 1..n |-> [prev \in V |-> JoinStep(prev, segments[i])]]
  OBVIOUS
<1>5. n \in Nat /\ base \in V
  BY <1>1, <1>2, <1>3, EmptySeq, LenProperties
<1>6. ASSUME NEW i \in 1..n, NEW prev \in V PROVE JoinStep(prev, segments[i]) \in V
  <2>1. segments[i] \in Seq(T)
    BY <1>1, ElementOfSeq
  <2>2. QED
    BY <1>2, <2>1, JoinStepTyped
<1>7. step \in [1..n -> [V -> V]] /\ \A i \in 1..n : \A prev \in V : step[i][prev] = JoinStep(prev, segments[i])
  BY <1>4, <1>6, Zenon
<1>8. PICK g : g \in [0..n -> V] /\ Steps(g, n, base, step)
  BY <1>5, <1>7, Recursion
<1>9. ASSUME NEW i \in 0..n, i # 0 PROVE step[i][g[i - 1]] = JoinStep(g[i - 1], segments[i])
  <2>1. i \in 1..n /\ i - 1 \in 0..n
    BY <1>5, <1>9
  <2>2. g[i - 1] \in V
    BY <1>8, <2>1, Zenon
  <2>3. QED
    BY <1>7, <2>1, <2>2, Zenon
<1>10. g = [i \in 0..n |-> IF i = 0 THEN <<>> ELSE JoinStep(g[i - 1], segments[i])]
  <2>1. [i \in 0..n |-> IF i = 0 THEN base ELSE step[i][g[i - 1]]]
          = [i \in 0..n |-> IF i = 0 THEN base ELSE JoinStep(g[i - 1], segments[i])]
    BY <1>9, Zenon
  <2>2. QED
    BY <1>3, <1>8, <2>1, Zenon DEF Steps
<1>11. PICK u : /\ u = (CHOOSE f : f = [i \in 0..n |-> IF i = 0 THEN <<>> ELSE JoinStep(f[i - 1], segments[i])])
                /\ Join(segments) = u[n]
  BY <1>1, Zenon DEF Join, JoinStep
<1>12. u = [i \in 0..n |-> IF i = 0 THEN base ELSE JoinStep(u[i - 1], segments[i])]
  BY <1>3, <1>10, <1>11, Zenon
<1>13. ASSUME NEW i \in 0..n, i # 0 PROVE u[i] = JoinStep(u[i - 1], segments[i])
  BY <1>12, <1>13, Zenon
<1>14. 0 \in 0..n /\ u[0] = base
  <2>1. 0 \in 0..n
    BY <1>5
  <2>2. QED
    BY <1>12, <2>1, Zenon
<1>15. \A i \in 1..n : i \in 0..n /\ i # 0
  BY <1>5
<1>16. u \in [0..n -> V]
  <2>1. PICK S : S = {i \in 0..n : u[i] \in V}
    OBVIOUS
  <2>2. 0 \in S
    BY <1>5, <1>14, <2>1, Zenon
  <2>3. ASSUME NEW k \in 0..n - 1, k \in S PROVE k + 1 \in S
    <3>1. k + 1 \in 0..n /\ k + 1 # 0 /\ k + 1 - 1 = k /\ k + 1 \in 1..n
      BY <1>5
    <3>2. u[k] \in V
      BY <2>1, <2>3, Zenon
    <3>3. JoinStep(u[k], segments[k + 1]) \in V
      BY <1>6, <3>1, <3>2, Zenon
    <3>4. u[k + 1] = JoinStep(u[k + 1 - 1], segments[k + 1])
      BY <1>13, <3>1
    <3>5. QED
      BY <2>1, <3>1, <3>3, <3>4, Zenon
  <2>4. \A i \in 0..n : i \in S
    BY <1>5, <2>2, <2>3, Climb
  <2>5. QED
    BY <1>12, <2>1, <2>4, Zenon
<1>17. JoinRun(segments, u)
  BY <1>1, <1>3, <1>11, <1>13, <1>14, <1>15, Zenon DEF JoinRun
<1>18. QED
  BY <1>1, <1>2, <1>16, <1>17, Zenon

\* A sequence of one.
LEMMA SingleAppend ==
  ASSUME NEW S, NEW e \in S
  PROVE  <<e>> \in Seq(S) /\ <<e>> = Append(<<>>, e) /\ Len(<<e>>) = 1 /\ <<e>>[1] = e /\ <<e>> # <<>>
OBVIOUS

\* A segment is what Join puts behind a slash.
LEMMA JoinStepIs ==
  ASSUME NEW T, "/" \in T, NEW text \in Seq(T), NEW seg \in Seq(T)
  PROVE  JoinStep(text, seg) \in Seq(T) /\ JoinStep(text, seg) = Append(text, "/") \o seg
<1>1. <<"/">> \in Seq(T) /\ Append(text, "/") = text \o <<"/">>
  BY AppendIsConcat, SingleAppend
<1>2. text \o <<"/">> \in Seq(T)
  BY <1>1, ConcatProperties
<1>3. (text \o <<"/">>) \o seg \in Seq(T)
  BY <1>2, ConcatProperties
<1>4. JoinStep(text, seg) = (text \o <<"/">>) \o seg
  BY DEF JoinStep
<1>5. QED
  BY <1>1, <1>3, <1>4, Zenon

\* What is joined is text.
LEMMA JoinTyped ==
  ASSUME NEW T, "/" \in T, NEW segments \in Seq(Seq(T)), segments # <<>>
  PROVE  Join(segments) \in Seq(T)
<1>1. PICK n : n = Len(segments)
  OBVIOUS
<1>2. n \in 0..n
  BY <1>1, LenProperties
<1>3. PICK u \in [0..n -> Seq(T)] : JoinRun(segments, u)
  BY <1>1, JoinUpto
<1>4. QED
  BY <1>1, <1>2, <1>3, Zenon DEF JoinRun

\* One segment, with its slash.
LEMMA JoinSingle ==
  ASSUME NEW T, "/" \in T, NEW seg \in Seq(T)
  PROVE  Join(<<seg>>) = JoinStep(<<>>, seg)
<1>1. PICK segments : segments = <<seg>>
  OBVIOUS
<1>2. PICK W : W = Seq(T)
  OBVIOUS
<1>3. segments \in Seq(W) /\ Len(segments) = 1 /\ segments[1] = seg /\ segments # <<>>
  BY <1>1, <1>2, SingleAppend
<1>4. PICK u : JoinRun(segments, u)
  BY <1>2, <1>3, JoinUpto
<1>5. 1 \in 1..1 /\ 1 - 1 = 0
  OBVIOUS
<1>6. u[1] = JoinStep(u[0], seg)
  BY <1>3, <1>4, <1>5 DEF JoinRun
<1>7. QED
  BY <1>1, <1>3, <1>4, <1>6, Zenon DEF JoinRun

\* One more segment is one more step of Join.
LEMMA JoinAppend ==
  ASSUME NEW T, "/" \in T, NEW segments \in Seq(Seq(T)), segments # <<>>, NEW seg \in Seq(T)
  PROVE  Join(Append(segments, seg)) = JoinStep(Join(segments), seg)
<1>1. PICK n : n = Len(segments)
  OBVIOUS
<1>2. PICK W : W = Seq(T)
  OBVIOUS
<1>3. PICK longer : longer = Append(segments, seg)
  OBVIOUS
<1>4. /\ n \in Nat /\ longer \in Seq(W) /\ longer # <<>> /\ Len(longer) = n + 1 /\ longer[n + 1] = seg
      /\ \A i \in 1..n : longer[i] = segments[i]
  BY <1>1, <1>2, <1>3, AppendProperties, LenProperties
<1>5. PICK u : JoinRun(segments, u)
  BY JoinUpto
<1>6. PICK w : JoinRun(longer, w)
  BY <1>2, <1>4, JoinUpto
<1>7. ASSUME NEW k \in 0..n - 1, u[k] = w[k] PROVE u[k + 1] = w[k + 1]
  <2>1. k + 1 \in 1..n /\ k + 1 \in 1..n + 1 /\ k + 1 - 1 = k
    BY <1>4
  <2>2. u[k + 1] = JoinStep(u[k], segments[k + 1])
    BY <1>1, <1>5, <2>1 DEF JoinRun
  <2>3. w[k + 1] = JoinStep(w[k], longer[k + 1])
    BY <1>4, <1>6, <2>1 DEF JoinRun
  <2>4. QED
    BY <1>4, <1>7, <2>1, <2>2, <2>3, Zenon
<1>8. u[n] = w[n]
  <2>1. u[0] = w[0]
    BY <1>5, <1>6, Zenon DEF JoinRun
  <2>2. QED
    BY <1>4, <1>7, <2>1, Agree
<1>9. w[n + 1] = JoinStep(w[n], longer[n + 1])
  <2>1. n + 1 \in 1..n + 1 /\ n + 1 - 1 = n
    BY <1>4
  <2>2. QED
    BY <1>4, <1>6, <2>1 DEF JoinRun
<1>10. QED
  BY <1>1, <1>3, <1>4, <1>5, <1>6, <1>8, <1>9, Zenon DEF JoinRun

\* What follows the empty text before the first slash.
Rooted(segments) == << <<>> >> \o segments

\* The empty part before the first slash stays in front.
LEMMA RootedAppend ==
  ASSUME NEW W, <<>> \in W, NEW segments \in Seq(W), NEW seg \in W
  PROVE  Rooted(segments) \in Seq(W) /\ Append(Rooted(segments), seg) = Rooted(Append(segments, seg))
<1>1. PICK root : root = << <<>> >>
  OBVIOUS
<1>2. root \in Seq(W)
  BY <1>1, SingleAppend
<1>3. root \o segments \in Seq(W)
  BY <1>2, ConcatProperties
<1>4. root \o Append(segments, seg) = Append(root \o segments, seg)
  BY <1>2, ConcatAppend
<1>5. QED
  BY <1>1, <1>3, <1>4, Zenon DEF Rooted

\* Without segments there is that part alone.
LEMMA RootedEmpty ==
  ASSUME NEW W, <<>> \in W
  PROVE  Rooted(<<>>) = << <<>> >>
<1>1. PICK root : root = << <<>> >>
  OBVIOUS
<1>2. root \in Seq(W)
  BY <1>1, SingleAppend
<1>3. root \o <<>> = root
  BY <1>2, ConcatEmptySeq
<1>4. QED
  BY <1>1, <1>3, Zenon DEF Rooted

\* Split takes apart what Join puts together.
LEMMA SplitJoin ==
  ASSUME NEW T, "/" \in T, NEW segments \in Seq(Seq(T \ {"/"})), segments # <<>>
  PROVE  Split(Join(segments)) = Rooted(segments)
<1>1. PICK n : n = Len(segments)
  OBVIOUS
<1>2. PICK W : W = Seq(T \ {"/"})
  OBVIOUS
<1>3. n \in Nat /\ n # 0 /\ <<>> \in W /\ \A s \in W : s \in Seq(T)
  <2>1. \A s \in W : s \in Seq(T)
    BY <1>2, SeqMonotonic
  <2>2. n \in Nat /\ n # 0
    BY <1>1, EmptySeq, LenProperties
  <2>3. QED
    BY <1>2, <2>1, <2>2, EmptySeq
<1>4. PICK S : S = {k \in 0..n : k = 0 \/ Split(Join(SubSeq(segments, 1, k))) = Rooted(SubSeq(segments, 1, k))}
  OBVIOUS
<1>5. 0 \in S
  BY <1>3, <1>4
<1>6. ASSUME NEW k \in 0..n - 1, k \in S PROVE k + 1 \in S
  <2>1. PICK before : before = SubSeq(segments, 1, k)
    OBVIOUS
  <2>2. PICK seg : seg = segments[k + 1]
    OBVIOUS
  <2>3. before \in Seq(W) /\ seg \in W /\ SubSeq(segments, 1, k + 1) = Append(before, seg)
    BY <1>1, <1>2, <2>1, <2>2, SubSeqNext
  <2>4. Split(Join(Append(before, seg))) = Rooted(Append(before, seg))
    <3>1. CASE k = 0
      <4>1. before = <<>>
        BY <2>1, <3>1, SubSeqEmpty
      <4>2. Append(before, seg) = <<seg>>
        BY <2>3, <4>1, SingleAppend
      <4>3. Join(<<seg>>) = Append(<<>>, "/") \o seg
        <5>1. <<>> \in Seq(T) /\ seg \in Seq(T)
          BY <1>3, <2>3, EmptySeq
        <5>2. QED
          BY <5>1, JoinSingle, JoinStepIs
      <4>4. Split(Append(<<>>, "/") \o seg) = Append(Split(<<>>), seg)
        <5>1. <<>> \in Seq(T) /\ seg \in Seq(T \ {"/"})
          BY <1>2, <2>3, EmptySeq
        <5>2. QED
          BY <5>1, SplitSegment
      <4>5. Append(Rooted(<<>>), seg) = Rooted(Append(<<>>, seg)) /\ Rooted(<<>>) = Split(<<>>)
        <5>1. <<>> \in Seq(W)
          BY EmptySeq
        <5>2. QED
          BY <1>3, <2>3, <5>1, RootedAppend, RootedEmpty, SplitEmpty
      <4>6. QED
        BY <4>1, <4>2, <4>3, <4>4, <4>5, Zenon
    <3>2. CASE k # 0
      <4>1. before # <<>>
        <5>1. 1 \in 1..k /\ 1 <= k /\ k - 1 + 1 = k /\ k \in Int /\ 1 \in Int
          BY <1>3, <3>2
        <5>2. \A i \in 1..k : segments[i] \in W
          <6>1. \A i \in 1..n : segments[i] \in W
            BY <1>1, <1>2, ElementOfSeq
          <6>2. QED
            BY <1>3, <6>1
        <5>3. Len(before) = k
          BY <2>1, <5>1, <5>2, SubSeqProperties
        <5>4. QED
          BY <3>2, <5>3, EmptySeq
      <4>2. Split(Join(before)) = Rooted(before)
        BY <1>4, <1>6, <2>1, <3>2, Zenon
      <4>3. PICK X : X = Seq(T)
        OBVIOUS
      <4>4. before \in Seq(X) /\ seg \in X
        BY <1>3, <2>3, <4>3, SeqMonotonic
      <4>5. Join(before) \in Seq(T) /\ Join(Append(before, seg)) = JoinStep(Join(before), seg)
        BY <4>1, <4>3, <4>4, JoinTyped, JoinAppend
      <4>6. JoinStep(Join(before), seg) = Append(Join(before), "/") \o seg
        BY <4>3, <4>4, <4>5, JoinStepIs
      <4>7. Split(Append(Join(before), "/") \o seg) = Append(Split(Join(before)), seg)
        BY <1>2, <2>3, <4>5, SplitSegment
      <4>8. Append(Rooted(before), seg) = Rooted(Append(before, seg))
        BY <1>3, <2>3, RootedAppend
      <4>9. QED
        BY <4>2, <4>5, <4>6, <4>7, <4>8, Zenon
    <3>3. QED
      BY <3>1, <3>2
  <2>5. k + 1 \in 0..n
    BY <1>3
  <2>6. QED
    BY <1>4, <2>3, <2>4, <2>5, Zenon
<1>7. n \in S
  BY <1>3, <1>5, <1>6, ClimbTo
<1>8. SubSeq(segments, 1, n) = segments
  BY <1>1, SubSeqFull
<1>9. QED
  BY <1>3, <1>4, <1>7, <1>8, Zenon

\* A token more in the last segment is a token more in the path.
LEMMA JoinLast ==
  ASSUME NEW T, "/" \in T, NEW front \in Seq(Seq(T)), NEW last \in Seq(T), NEW token \in T
  PROVE  Join(Append(front, Append(last, token))) = Append(Join(Append(front, last)), token)
<1>1. PICK grown : grown = Append(last, token)
  OBVIOUS
<1>2. grown \in Seq(T)
  BY <1>1, AppendProperties
<1>3. ASSUME NEW text \in Seq(T) PROVE JoinStep(text, grown) = Append(JoinStep(text, last), token)
  <2>1. PICK slashed : slashed = Append(text, "/")
    OBVIOUS
  <2>2. slashed \in Seq(T)
    BY <2>1, AppendProperties
  <2>3. slashed \o Append(last, token) = Append(slashed \o last, token)
    BY <2>2, ConcatAppend
  <2>4. JoinStep(text, last) = slashed \o last /\ JoinStep(text, grown) = slashed \o grown
    BY <1>2, <2>1, JoinStepIs
  <2>5. QED
    BY <1>1, <2>3, <2>4, Zenon
<1>4. CASE front = <<>>
  <2>1. Append(front, grown) = <<grown>> /\ Append(front, last) = <<last>>
    BY <1>2, <1>4, SingleAppend
  <2>2. Join(<<grown>>) = JoinStep(<<>>, grown) /\ Join(<<last>>) = JoinStep(<<>>, last)
    BY <1>2, JoinSingle
  <2>3. <<>> \in Seq(T)
    BY EmptySeq
  <2>4. QED
    BY <1>1, <1>3, <2>1, <2>2, <2>3, Zenon
<1>5. CASE front # <<>>
  <2>1. /\ Join(front) \in Seq(T)
        /\ Join(Append(front, grown)) = JoinStep(Join(front), grown)
        /\ Join(Append(front, last)) = JoinStep(Join(front), last)
    BY <1>2, <1>5, JoinTyped, JoinAppend
  <2>2. QED
    BY <1>1, <1>3, <2>1, Zenon
<1>6. QED
  BY <1>4, <1>5

\* The segments of a path: what Split finds behind the first slash.
SegmentsOf(T, joined, segments) ==
  /\ segments \in Seq(Seq(T \ {"/"})) /\ segments # <<>>
  /\ Split(joined) = Rooted(segments)
  /\ Join(segments) = joined

\* Join puts together what Split has taken apart.
LEMMA JoinSplit ==
  ASSUME NEW T, "/" \in T, NEW joined \in Seq(T), joined # <<>>, joined[1] = "/"
  PROVE  \E segments : SegmentsOf(T, joined, segments)
<1>1. PICK n : n = Len(joined)
  OBVIOUS
<1>2. PICK W : W = Seq(T \ {"/"})
  OBVIOUS
<1>3. n \in Nat /\ n # 0 /\ <<>> \in W /\ \A s \in W : s \in Seq(T)
  <2>1. \A s \in W : s \in Seq(T)
    BY <1>2, SeqMonotonic
  <2>2. n \in Nat /\ n # 0
    BY <1>1, EmptySeq, LenProperties
  <2>3. QED
    BY <1>2, <2>1, <2>2, EmptySeq
<1>4. PICK S : S = {k \in 0..n : k = 0 \/ \E segments : SegmentsOf(T, SubSeq(joined, 1, k), segments)}
  OBVIOUS
<1>5. 0 \in S
  BY <1>3, <1>4
<1>6. ASSUME NEW k \in 0..n - 1, k \in S PROVE k + 1 \in S
  <2>1. PICK before : before = SubSeq(joined, 1, k)
    OBVIOUS
  <2>2. PICK token : token = joined[k + 1]
    OBVIOUS
  <2>3. before \in Seq(T) /\ token \in T /\ SubSeq(joined, 1, k + 1) = Append(before, token)
    BY <1>1, <2>1, <2>2, SubSeqNext
  <2>4. Split(Append(before, token)) = SplitStep(Split(before), token)
    BY <2>3, SplitAppend
  <2>5. \E segments : SegmentsOf(T, Append(before, token), segments)
    <3>1. CASE k = 0
      <4>1. before = <<>> /\ token = "/"
        BY <2>1, <2>2, <3>1, SubSeqEmpty
      <4>2. PICK segments : segments = << <<>> >>
        OBVIOUS
      <4>3. segments \in Seq(W) /\ segments # <<>> /\ segments = Append(<<>>, <<>>)
        BY <1>3, <4>2, SingleAppend
      <4>4. Split(Append(before, token)) = Rooted(segments)
        <5>1. SplitStep(Split(before), token) = Append(Split(before), <<>>)
          BY <4>1, Zenon DEF SplitStep
        <5>2. Append(Rooted(<<>>), <<>>) = Rooted(Append(<<>>, <<>>)) /\ Rooted(<<>>) = Split(<<>>)
          <6>1. <<>> \in Seq(W)
            BY EmptySeq
          <6>2. QED
            BY <1>3, <6>1, RootedAppend, RootedEmpty, SplitEmpty
        <5>3. QED
          BY <2>4, <4>1, <4>3, <5>1, <5>2, Zenon
      <4>5. Join(segments) = Append(before, token)
        <5>1. <<>> \in Seq(T)
          BY EmptySeq
        <5>2. Join(segments) = JoinStep(<<>>, <<>>)
          BY <4>2, <5>1, JoinSingle
        <5>3. JoinStep(<<>>, <<>>) = Append(<<>>, "/") \o <<>>
          BY <5>1, JoinStepIs
        <5>4. Append(<<>>, "/") \o <<>> = Append(<<>>, "/")
          <6>1. Append(<<>>, "/") \in Seq(T)
            BY <5>1, AppendProperties
          <6>2. QED
            BY <6>1, ConcatEmptySeq
        <5>5. QED
          BY <4>1, <5>2, <5>3, <5>4, Zenon
      <4>6. QED
        BY <1>2, <4>3, <4>4, <4>5, Zenon DEF SegmentsOf
    <3>2. CASE k # 0
      <4>1. PICK segments : SegmentsOf(T, before, segments)
        BY <1>4, <1>6, <2>1, <3>2, Zenon
      <4>2. segments \in Seq(W) /\ segments # <<>> /\ Split(before) = Rooted(segments) /\ Join(segments) = before
        BY <1>2, <4>1, Zenon DEF SegmentsOf
      <4>3. PICK X : X = Seq(T)
        OBVIOUS
      <4>4. \A list \in Seq(W) : list \in Seq(X)
        BY <1>3, <4>3, SeqMonotonic
      <4>5. CASE token = "/"
        <5>1. PICK longer : longer = Append(segments, <<>>)
          OBVIOUS
        <5>2. longer \in Seq(W) /\ longer # <<>>
          BY <1>3, <4>2, <5>1, AppendProperties
        <5>3. Split(Append(before, token)) = Rooted(longer)
          <6>1. SplitStep(Rooted(segments), token) = Append(Rooted(segments), <<>>)
            BY <4>5, Zenon DEF SplitStep
          <6>2. Append(Rooted(segments), <<>>) = Rooted(longer)
            BY <1>3, <4>2, <5>1, RootedAppend
          <6>3. QED
            BY <2>4, <4>2, <6>1, <6>2, Zenon
        <5>4. Join(longer) = Append(before, token)
          <6>1. segments \in Seq(Seq(T)) /\ <<>> \in Seq(T)
            BY <4>2, <4>3, <4>4, EmptySeq
          <6>2. Join(longer) = JoinStep(before, <<>>)
            BY <4>2, <5>1, <6>1, JoinAppend
          <6>3. JoinStep(before, <<>>) = Append(before, "/") \o <<>>
            BY <2>3, <6>1, JoinStepIs
          <6>4. Append(before, "/") \o <<>> = Append(before, "/")
            <7>1. Append(before, "/") \in Seq(T)
              BY <2>3, AppendProperties
            <7>2. QED
              BY <7>1, ConcatEmptySeq
          <6>5. QED
            BY <4>5, <6>2, <6>3, <6>4, Zenon
        <5>5. QED
          BY <1>2, <5>2, <5>3, <5>4, Zenon DEF SegmentsOf
      <4>6. CASE token # "/"
        <5>1. PICK front \in Seq(W), last \in W : segments = Append(front, last)
          BY <4>2, SequenceEmptyOrAppend
        <5>2. PICK grown : grown = Append(last, token)
          OBVIOUS
        <5>3. grown \in W
          <6>1. token \in T \ {"/"}
            BY <2>3, <4>6
          <6>2. QED
            BY <1>2, <5>1, <5>2, <6>1, AppendProperties
        <5>4. PICK longer : longer = Append(front, grown)
          OBVIOUS
        <5>5. longer \in Seq(W) /\ longer # <<>>
          BY <5>1, <5>3, <5>4, AppendProperties
        <5>6. Split(Append(before, token)) = Rooted(longer)
          <6>1. /\ Rooted(front) \in Seq(W)
                /\ Append(Rooted(front), last) = Rooted(segments)
                /\ Append(Rooted(front), grown) = Rooted(longer)
            BY <1>3, <5>1, <5>3, <5>4, RootedAppend
          <6>2. SplitStep(Append(Rooted(front), last), token) = Append(Rooted(front), grown)
            <7>1. Append(last, token) \in W
              BY <5>2, <5>3
            <7>2. SplitStep(Append(Rooted(front), last), token) = Append(Rooted(front), Append(last, token))
              <8>1. Rooted(front) \in Seq(W) /\ last \in W /\ token # "/"
                BY <4>6, <5>1, <6>1
              <8>2. QED
                BY <7>1, <8>1, SplitStepLast
            <7>3. QED
              BY <5>2, <7>2, Zenon
          <6>3. QED
            BY <2>4, <4>2, <6>1, <6>2, Zenon
        <5>7. Join(longer) = Append(before, token)
          <6>1. front \in Seq(Seq(T)) /\ last \in Seq(T)
            BY <1>3, <4>3, <4>4, <5>1
          <6>2. Join(Append(front, Append(last, token))) = Append(Join(Append(front, last)), token)
            BY <2>3, <6>1, JoinLast
          <6>3. QED
            BY <4>2, <5>1, <5>2, <5>4, <6>2, Zenon
        <5>8. QED
          BY <1>2, <5>5, <5>6, <5>7, Zenon DEF SegmentsOf
      <4>7. QED
        BY <4>5, <4>6
    <3>3. QED
      BY <3>1, <3>2
  <2>6. k + 1 \in 0..n
    BY <1>3
  <2>7. QED
    BY <1>4, <2>3, <2>5, <2>6, Zenon
<1>7. n \in S
  BY <1>3, <1>5, <1>6, ClimbTo
<1>8. SubSeq(joined, 1, n) = joined
  BY <1>1, SubSeqFull
<1>9. QED
  BY <1>3, <1>4, <1>7, <1>8, Zenon

-----------------------------------------------------------------------------
\* What Collapse makes of one more segment.
CollapseStep(kept, seg) ==
  IF seg \in {<<>>, <<".">>} THEN kept
  ELSE IF seg # <<".", ".">> THEN Append(kept, seg)
  ELSE IF kept = <<>> THEN <<>> ELSE Front(kept)

\* The segments of a path in normal form.
Segments(W) == Seq(W) \ {<<>>, <<".">>, <<".", ".">>}

\* Nothing to collapse is kept: ".." takes the last segment with it.
LEMMA CollapseStepPlain ==
  ASSUME NEW W, NEW kept \in Seq(Segments(W)), NEW seg \in Seq(W)
  PROVE  CollapseStep(kept, seg) \in Seq(Segments(W))
<1>1. PICK X : X = Segments(W)
  OBVIOUS
<1>2. kept \in Seq(X)
  BY <1>1
<1>3. CASE seg \in {<<>>, <<".">>}
  <2>1. CollapseStep(kept, seg) = kept
    BY <1>3, Zenon DEF CollapseStep
  <2>2. QED
    BY <1>1, <1>2, <2>1, Zenon
<1>4. CASE seg \notin {<<>>, <<".">>} /\ seg # <<".", ".">>
  <2>1. CollapseStep(kept, seg) = Append(kept, seg)
    BY <1>4, Zenon DEF CollapseStep
  <2>2. seg \in X
    BY <1>1, <1>4 DEF Segments
  <2>3. Append(kept, seg) \in Seq(X)
    BY <1>2, <2>2, AppendProperties
  <2>4. QED
    BY <1>1, <2>1, <2>3, Zenon
<1>5. CASE seg \notin {<<>>, <<".">>} /\ seg = <<".", ".">> /\ kept = <<>>
  <2>1. CollapseStep(kept, seg) = kept
    BY <1>5, Zenon DEF CollapseStep
  <2>2. QED
    BY <1>1, <1>2, <2>1, Zenon
<1>6. CASE seg \notin {<<>>, <<".">>} /\ seg = <<".", ".">> /\ kept # <<>>
  <2>1. CollapseStep(kept, seg) = Front(kept)
    BY <1>6, Zenon DEF CollapseStep
  <2>2. Len(kept) \in Nat /\ Len(kept) - 1 \in 0..Len(kept) - 1
    BY <1>2, <1>6, EmptySeq
  <2>3. SubSeq(kept, 1, Len(kept) - 1) \in Seq(X)
    BY <1>2, <2>2, SubSeqNext
  <2>4. QED
    BY <1>1, <2>1, <2>3, Zenon DEF Front
<1>7. QED
  BY <1>3, <1>4, <1>5, <1>6

\* Collapse: one segment after the other.
CollapseRun(segments, u) ==
  /\ u[0] = <<>>
  /\ \A i \in 1..Len(segments) : u[i] = CollapseStep(u[i - 1], segments[i])
  /\ Collapse(segments) = u[Len(segments)]

\* Collapse is a run over the segments.
LEMMA CollapseUpto ==
  ASSUME NEW W, NEW segments \in Seq(Seq(W))
  PROVE  \E u \in [0..Len(segments) -> Seq(Segments(W))] : CollapseRun(segments, u)
<1>1. PICK n : n = Len(segments)
  OBVIOUS
<1>2. PICK V : V = Seq(Segments(W))
  OBVIOUS
<1>3. PICK base : base = <<>>
  OBVIOUS
<1>4. PICK step : step = [i \in 1..n |-> [prev \in V |-> CollapseStep(prev, segments[i])]]
  OBVIOUS
<1>5. n \in Nat /\ base \in V
  BY <1>1, <1>2, <1>3, EmptySeq, LenProperties
<1>6. ASSUME NEW i \in 1..n, NEW prev \in V PROVE CollapseStep(prev, segments[i]) \in V
  <2>1. segments[i] \in Seq(W)
    BY <1>1, ElementOfSeq
  <2>2. QED
    BY <1>2, <2>1, CollapseStepPlain
<1>7. step \in [1..n -> [V -> V]] /\ \A i \in 1..n : \A prev \in V : step[i][prev] = CollapseStep(prev, segments[i])
  BY <1>4, <1>6, Zenon
<1>8. PICK g : g \in [0..n -> V] /\ Steps(g, n, base, step)
  BY <1>5, <1>7, Recursion
<1>9. ASSUME NEW i \in 0..n, i # 0 PROVE step[i][g[i - 1]] = CollapseStep(g[i - 1], segments[i])
  <2>1. i \in 1..n /\ i - 1 \in 0..n
    BY <1>5, <1>9
  <2>2. g[i - 1] \in V
    BY <1>8, <2>1, Zenon
  <2>3. QED
    BY <1>7, <2>1, <2>2, Zenon
<1>10. g = [i \in 0..n |-> IF i = 0 THEN <<>> ELSE CollapseStep(g[i - 1], segments[i])]
  <2>1. [i \in 0..n |-> IF i = 0 THEN base ELSE step[i][g[i - 1]]]
          = [i \in 0..n |-> IF i = 0 THEN base ELSE CollapseStep(g[i - 1], segments[i])]
    BY <1>9, Zenon
  <2>2. QED
    BY <1>3, <1>8, <2>1, Zenon DEF Steps
<1>11. PICK u : /\ u = (CHOOSE f : f = [i \in 0..n |-> IF i = 0 THEN <<>> ELSE CollapseStep(f[i - 1], segments[i])])
                /\ Collapse(segments) = u[n]
  BY <1>1, Zenon DEF Collapse, CollapseStep
<1>12. u = [i \in 0..n |-> IF i = 0 THEN base ELSE CollapseStep(u[i - 1], segments[i])]
  BY <1>3, <1>10, <1>11, Zenon
<1>13. ASSUME NEW i \in 0..n, i # 0 PROVE u[i] = CollapseStep(u[i - 1], segments[i])
  BY <1>12, <1>13, Zenon
<1>14. 0 \in 0..n /\ u[0] = base
  <2>1. 0 \in 0..n
    BY <1>5
  <2>2. QED
    BY <1>12, <2>1, Zenon
<1>15. \A i \in 1..n : i \in 0..n /\ i # 0
  BY <1>5
<1>16. u \in [0..n -> V]
  <2>1. PICK S : S = {i \in 0..n : u[i] \in V}
    OBVIOUS
  <2>2. 0 \in S
    BY <1>5, <1>14, <2>1, Zenon
  <2>3. ASSUME NEW k \in 0..n - 1, k \in S PROVE k + 1 \in S
    <3>1. k + 1 \in 0..n /\ k + 1 # 0 /\ k + 1 - 1 = k /\ k + 1 \in 1..n
      BY <1>5
    <3>2. u[k] \in V
      BY <2>1, <2>3, Zenon
    <3>3. CollapseStep(u[k], segments[k + 1]) \in V
      BY <1>6, <3>1, <3>2, Zenon
    <3>4. u[k + 1] = CollapseStep(u[k + 1 - 1], segments[k + 1])
      BY <1>13, <3>1
    <3>5. QED
      BY <2>1, <3>1, <3>3, <3>4, Zenon
  <2>4. \A i \in 0..n : i \in S
    BY <1>5, <2>2, <2>3, Climb
  <2>5. QED
    BY <1>12, <2>1, <2>4, Zenon
<1>17. CollapseRun(segments, u)
  BY <1>1, <1>3, <1>11, <1>13, <1>14, <1>15, Zenon DEF CollapseRun
<1>18. QED
  BY <1>1, <1>2, <1>16, <1>17, Zenon

\* What Collapse keeps are segments that name something.
LEMMA CollapsePlain ==
  ASSUME NEW W, NEW segments \in Seq(Seq(W))
  PROVE  Collapse(segments) \in Seq(Segments(W))
<1>1. PICK n : n = Len(segments)
  OBVIOUS
<1>2. n \in 0..n
  BY <1>1, LenProperties
<1>3. PICK u \in [0..n -> Seq(Segments(W))] : CollapseRun(segments, u)
  BY <1>1, CollapseUpto
<1>4. QED
  BY <1>1, <1>2, <1>3, Zenon DEF CollapseRun

\* Collapse leaves the segments of a path in normal form as they are.
LEMMA CollapseSame ==
  ASSUME NEW W, NEW segments \in Seq(Segments(W))
  PROVE  Collapse(Rooted(segments)) = segments
<1>1. PICK n : n = Len(segments)
  OBVIOUS
<1>2. PICK X : X = Seq(W)
  OBVIOUS
<1>3. PICK all : all = Rooted(segments)
  OBVIOUS
<1>4. <<>> \in X /\ \A s \in Segments(W) : s \in X /\ s \notin {<<>>, <<".">>} /\ s # <<".", ".">>
  BY <1>2, EmptySeq DEF Segments
<1>5. segments \in Seq(X) /\ n \in Nat
  BY <1>1, <1>4, SeqMonotonic, LenProperties
<1>6. all \in Seq(X) /\ Len(all) = n + 1 /\ all[1] = <<>> /\ \A i \in 1..n : all[i + 1] = segments[i]
  <2>1. PICK root : root = << <<>> >>
    OBVIOUS
  <2>2. root \in Seq(X) /\ Len(root) = 1 /\ root[1] = <<>>
    BY <1>4, <2>1, SingleAppend
  <2>3. all = root \o segments
    BY <1>3, <2>1 DEF Rooted
  <2>4. /\ all \in Seq(X) /\ Len(all) = 1 + n
        /\ \A i \in 1..1 + n : all[i] = IF i <= 1 THEN root[i] ELSE segments[i - 1]
    <3>1. /\ root \o segments \in Seq(X) /\ Len(root \o segments) = Len(root) + Len(segments)
          /\ \A i \in 1..Len(root) + Len(segments) :
               (root \o segments)[i] = IF i <= Len(root) THEN root[i] ELSE segments[i - Len(root)]
      BY <1>5, <2>2, ConcatProperties
    <3>2. Len(root) = 1 /\ Len(segments) = n
      BY <1>1, <2>2
    <3>3. QED
      BY <2>3, <3>1, <3>2, Zenon
  <2>5. all[1] = <<>>
    BY <1>5, <2>2, <2>4
  <2>6. ASSUME NEW i \in 1..n PROVE all[i + 1] = segments[i]
    <3>1. i + 1 \in 1..1 + n /\ ~(i + 1 <= 1) /\ i + 1 - 1 = i
      BY <1>5
    <3>2. QED
      BY <2>4, <3>1
  <2>7. QED
    BY <1>5, <2>4, <2>5, <2>6
<1>7. PICK u : CollapseRun(all, u)
  BY <1>2, <1>6, CollapseUpto
<1>8. u[1] = <<>>
  <2>1. 1 \in 1..n + 1 /\ 1 - 1 = 0
    BY <1>5
  <2>2. u[1] = CollapseStep(u[0], all[1]) /\ u[0] = <<>>
    BY <1>6, <1>7, <2>1 DEF CollapseRun
  <2>3. QED
    BY <1>6, <2>2 DEF CollapseStep
<1>9. PICK S : S = {k \in 0..n : u[k + 1] = SubSeq(segments, 1, k)}
  OBVIOUS
<1>10. 0 \in S
  <2>1. SubSeq(segments, 1, 0) = <<>> /\ 0 + 1 = 1 /\ 0 \in 0..n
    BY <1>5, SubSeqEmpty
  <2>2. QED
    BY <1>8, <1>9, <2>1, Zenon
<1>11. ASSUME NEW k \in 0..n - 1, k \in S PROVE k + 1 \in S
  <2>1. PICK kept : kept = SubSeq(segments, 1, k)
    OBVIOUS
  <2>2. PICK seg : seg = segments[k + 1]
    OBVIOUS
  <2>3. seg \in Segments(W) /\ SubSeq(segments, 1, k + 1) = Append(kept, seg)
    BY <1>1, <2>1, <2>2, SubSeqNext
  <2>4. k + 1 \in 1..n /\ k + 1 + 1 \in 1..n + 1 /\ k + 1 + 1 - 1 = k + 1 /\ k + 1 \in 0..n
    BY <1>5
  <2>5. u[k + 1 + 1] = CollapseStep(u[k + 1], all[k + 1 + 1])
    BY <1>6, <1>7, <2>4 DEF CollapseRun
  <2>6. u[k + 1] = kept
    BY <1>9, <1>11, <2>1, Zenon
  <2>7. all[k + 1 + 1] = seg
    BY <1>6, <2>2, <2>4
  <2>8. CollapseStep(kept, seg) = Append(kept, seg)
    BY <1>4, <2>3, Zenon DEF CollapseStep
  <2>9. QED
    BY <1>9, <2>3, <2>4, <2>5, <2>6, <2>7, <2>8, Zenon
<1>12. n \in S
  BY <1>5, <1>10, <1>11, ClimbTo
<1>13. SubSeq(segments, 1, n) = segments
  BY <1>1, SubSeqFull
<1>14. Collapse(all) = u[n + 1]
  BY <1>6, <1>7 DEF CollapseRun
<1>15. QED
  BY <1>3, <1>9, <1>12, <1>13, <1>14, Zenon

\* Of the path "/" nothing is left.
LEMMA CollapseRoot == Collapse(Rooted(<< <<>> >>)) = <<>>
<1>1. PICK all : all = Rooted(<< <<>> >>)
  OBVIOUS
<1>2. PICK root : root = << <<>> >>
  OBVIOUS
<1>3. PICK X : X = Seq(Tokens)
  OBVIOUS
<1>4. <<>> \in X
  BY <1>3, EmptySeq
<1>5. all \in Seq(X) /\ Len(all) = 2 /\ all[1] = <<>> /\ all[2] = <<>>
  <2>1. root \in Seq(X) /\ Len(root) = 1 /\ root[1] = <<>>
    BY <1>2, <1>4, SingleAppend
  <2>2. all = root \o root
    BY <1>1, <1>2 DEF Rooted
  <2>3. /\ all \in Seq(X) /\ Len(all) = Len(root) + Len(root)
        /\ \A i \in 1..Len(root) + Len(root) : all[i] = IF i <= Len(root) THEN root[i] ELSE root[i - Len(root)]
    BY <2>1, <2>2, ConcatProperties
  <2>4. QED
    BY <2>1, <2>3
<1>6. PICK u : CollapseRun(all, u)
  BY <1>3, <1>5, CollapseUpto
<1>7. u[0] = <<>> /\ u[1] = CollapseStep(u[0], <<>>) /\ u[2] = CollapseStep(u[1], <<>>) /\ Collapse(all) = u[2]
  <2>1. 1 \in 1..2 /\ 2 \in 1..2 /\ 1 - 1 = 0 /\ 2 - 1 = 1
    OBVIOUS
  <2>2. QED
    BY <1>5, <1>6, <2>1 DEF CollapseRun
<1>8. QED
  BY <1>1, <1>7, Zenon DEF CollapseStep

-----------------------------------------------------------------------------
\* A sequence over what is in it.
LEMMA SeqNarrowed ==
  ASSUME NEW S, NEW T, NEW seq \in Seq(S), \A i \in 1..Len(seq) : seq[i] \in T
  PROVE  seq \in Seq(T)
<1>1. PICK n : n = Len(seq)
  OBVIOUS
<1>2. n \in Nat /\ seq \in [1..n -> S]
  BY <1>1, LenProperties
<1>3. seq \in [1..n -> T]
  BY <1>1, <1>2
<1>4. QED
  BY <1>2, <1>3, SeqDef

\* Two neighbours of a sequence.
LEMMA TwoOf ==
  ASSUME NEW S, NEW seq \in Seq(S), NEW k \in 1..Len(seq) - 1
  PROVE  SubSeq(seq, k, k + 1) = <<seq[k], seq[k + 1]>>
<1>1. Len(seq) \in Nat /\ k \in Int /\ k + 1 \in Int /\ k \in 1..Len(seq) /\ k + 1 \in 1..Len(seq)
  BY LenProperties
<1>2. seq[k] \in S /\ seq[k + 1] \in S
  BY <1>1, ElementOfSeq
<1>3. PICK a : a = SubSeq(seq, k, k + 1)
  OBVIOUS
<1>4. a \in Seq(S) /\ Len(a) = 2 /\ a[1] = seq[k] /\ a[2] = seq[k + 1]
  <2>1. \A i \in k..k + 1 : seq[i] \in S
    BY <1>1, <1>2
  <2>2. /\ a \in Seq(S) /\ Len(a) = IF k <= k + 1 THEN k + 1 - k + 1 ELSE 0
        /\ \A i \in 1..k + 1 - k + 1 : a[i] = seq[k + i - 1]
    BY <1>1, <1>3, <2>1, SubSeqProperties
  <2>3. k <= k + 1 /\ k + 1 - k + 1 = 2 /\ k + 1 - 1 = k /\ k + 2 - 1 = k + 1
    BY <1>1
  <2>4. QED
    BY <2>2, <2>3
<1>5. PICK b : b = <<seq[k], seq[k + 1]>>
  OBVIOUS
<1>6. b \in Seq(S) /\ Len(b) = 2 /\ b[1] = seq[k] /\ b[2] = seq[k + 1]
  BY <1>2, <1>5
<1>7. \A i \in 1..2 : i = 1 \/ i = 2
  OBVIOUS
<1>8. a = b
  <2>1. \A i \in 1..2 : a[i] = b[i]
    BY <1>4, <1>6, <1>7, Zenon
  <2>2. QED
    BY <1>4, <1>6, <2>1, SeqEqual
<1>9. QED
  BY <1>3, <1>5, <1>8, Zenon

-----------------------------------------------------------------------------
\* Texts that PercentDecode is called on.
Legible(text) ==
  /\ text \in Seq(Tokens) /\ WellEncoded(text) /\ ~Refused(text)
  /\ \A i \in 1..Len(text) : text[i] \notin {"?", "\\"}

\* Texts that it returns: a % is left only with its digits.
Decoded ==
  {text \in Seq(Tokens \ {"?", "\\"}) :
     \A i \in 1..Len(text) : text[i] = "%" => i < Len(text) /\ text[i + 1] = "25"}

\* What PercentDecode makes of the i-th token.
DecodeStep(text, decoded, i) ==
  IF text[i] = "%" THEN decoded
  ELSE IF i = 1 \/ text[i - 1] # "%" THEN Append(decoded, text[i])
  ELSE IF text[i] = "25" THEN Append(Append(decoded, "%"), "25")
  ELSE Append(decoded, Encoded[text[i]])

\* The digits, and what those that are not refused encode.
LEMMA EncodedOf ==
  /\ Digits = {"2e", "25", "2f", "3f", "5c", "00"}
  /\ Encoded["2e"] = "." /\ Encoded["25"] = "%" /\ Encoded["00"] = "NUL"
BY DEF Encoded, Digits

\* What needs no escape may come next.
LEMMA DecodedAppend ==
  ASSUME NEW decoded \in Decoded, NEW token \in Tokens \ {"?", "\\", "%"}
  PROVE  Append(decoded, token) \in Decoded
<1>1. PICK C : C = Tokens \ {"?", "\\"}
  OBVIOUS
<1>2. PICK n : n = Len(decoded)
  OBVIOUS
<1>3. PICK longer : longer = Append(decoded, token)
  OBVIOUS
<1>4. /\ decoded \in Seq(C) /\ token \in C /\ n \in Nat
      /\ \A i \in 1..n : decoded[i] = "%" => i < n /\ decoded[i + 1] = "25"
  BY <1>1, <1>2 DEF Decoded
<1>5. longer \in Seq(C) /\ Len(longer) = n + 1 /\ longer[n + 1] = token /\ \A i \in 1..n : longer[i] = decoded[i]
  BY <1>2, <1>3, <1>4, AppendProperties
<1>6. ASSUME NEW i \in 1..n + 1, longer[i] = "%" PROVE i < n + 1 /\ longer[i + 1] = "25"
  <2>1. i \in 1..n
    BY <1>4, <1>5, <1>6
  <2>2. decoded[i] = "%"
    BY <1>5, <1>6, <2>1
  <2>3. i < n /\ decoded[i + 1] = "25"
    BY <1>4, <2>1, <2>2
  <2>4. i + 1 \in 1..n
    BY <1>4, <2>1, <2>3
  <2>5. QED
    BY <1>4, <1>5, <2>1, <2>3, <2>4
<1>7. QED
  BY <1>1, <1>3, <1>5, <1>6 DEF Decoded

\* And so may an encoded %, left as it was.
LEMMA DecodedPercent ==
  ASSUME NEW decoded \in Decoded
  PROVE  Append(Append(decoded, "%"), "25") \in Decoded
<1>1. PICK C : C = Tokens \ {"?", "\\"}
  OBVIOUS
<1>2. PICK n : n = Len(decoded)
  OBVIOUS
<1>3. PICK longer : longer = Append(decoded, "%")
  OBVIOUS
<1>4. PICK longest : longest = Append(longer, "25")
  OBVIOUS
<1>5. /\ decoded \in Seq(C) /\ n \in Nat /\ "%" \in C /\ "25" \in C
      /\ \A i \in 1..n : decoded[i] = "%" => i < n /\ decoded[i + 1] = "25"
  BY <1>1, <1>2, EncodedOf DEF Decoded, Tokens
<1>6. longer \in Seq(C) /\ Len(longer) = n + 1 /\ longer[n + 1] = "%" /\ \A i \in 1..n : longer[i] = decoded[i]
  BY <1>2, <1>3, <1>5, AppendProperties
<1>7. /\ longest \in Seq(C) /\ Len(longest) = n + 1 + 1 /\ longest[n + 1 + 1] = "25"
      /\ \A i \in 1..n + 1 : longest[i] = longer[i]
  BY <1>4, <1>5, <1>6, AppendProperties
<1>8. ASSUME NEW i \in 1..n + 2, longest[i] = "%" PROVE i < n + 2 /\ longest[i + 1] = "25"
  <2>1. CASE i \in 1..n
    <3>1. decoded[i] = "%"
      BY <1>5, <1>6, <1>7, <1>8, <2>1
    <3>2. i < n /\ decoded[i + 1] = "25"
      BY <1>5, <2>1, <3>1
    <3>3. i + 1 \in 1..n /\ i + 1 \in 1..n + 1
      BY <1>5, <2>1, <3>2
    <3>4. QED
      BY <1>5, <1>6, <1>7, <2>1, <3>2, <3>3
  <2>2. CASE i = n + 1
    BY <1>5, <1>7, <2>2
  <2>3. CASE i = n + 2
    <3>1. n + 2 = n + 1 + 1
      BY <1>5
    <3>2. longest[i] = "25"
      BY <1>7, <2>3, <3>1
    <3>3. QED
      BY <1>8, <3>2
  <2>4. QED
    BY <1>5, <2>1, <2>2, <2>3
<1>9. Len(longest) = n + 2
  BY <1>5, <1>7
<1>10. longest \in Decoded
  BY <1>1, <1>7, <1>8, <1>9 DEF Decoded
<1>11. QED
  BY <1>3, <1>4, <1>10

\* One more token of a text that is not refused leaves nothing but those (percentDecode).
LEMMA DecodeStepDecoded ==
  ASSUME NEW text, Legible(text), NEW i \in 1..Len(text), NEW decoded \in Decoded
  PROVE  DecodeStep(text, decoded, i) \in Decoded
<1>1. text \in Seq(Tokens) /\ WellEncoded(text) /\ ~Refused(text) /\ text[i] \in Tokens \ {"?", "\\"}
  <2>1. text \in Seq(Tokens) /\ WellEncoded(text) /\ ~Refused(text) /\ text[i] \notin {"?", "\\"}
    BY DEF Legible
  <2>2. QED
    BY <2>1, ElementOfSeq
<1>2. CASE text[i] = "%"
  BY <1>2, Zenon DEF DecodeStep
<1>3. CASE text[i] # "%" /\ (i = 1 \/ text[i - 1] # "%")
  <2>1. DecodeStep(text, decoded, i) = Append(decoded, text[i])
    BY <1>3, Zenon DEF DecodeStep
  <2>2. text[i] \in Tokens \ {"?", "\\", "%"}
    BY <1>1, <1>3
  <2>3. QED
    BY <2>1, <2>2, DecodedAppend
<1>4. CASE text[i] # "%" /\ i # 1 /\ text[i - 1] = "%" /\ text[i] = "25"
  <2>1. DecodeStep(text, decoded, i) = Append(Append(decoded, "%"), "25")
    BY <1>4, Zenon DEF DecodeStep
  <2>2. QED
    BY <2>1, DecodedPercent
<1>5. CASE text[i] # "%" /\ i # 1 /\ text[i - 1] = "%" /\ text[i] # "25"
  <2>1. PICK k : k = i - 1
    OBVIOUS
  <2>2. k \in 1..Len(text) - 1 /\ k \in 1..Len(text) /\ k + 1 = i /\ Len(text) \in Nat
    BY <1>1, <1>5, <2>1, LenProperties
  <2>3. text[i] \in Digits
    BY <1>1, <1>5, <2>1, <2>2 DEF WellEncoded
  <2>4. ASSUME text[i] \in {"2f", "3f", "5c"} PROVE FALSE
    <3>1. PICK digits : digits = text[i]
      OBVIOUS
    <3>2. SubSeq(text, k, k + 1) = <<"%", digits>>
      BY <1>1, <1>5, <2>1, <2>2, <3>1, TwoOf
    <3>3. Len(<<"%", digits>>) = 2
      OBVIOUS
    <3>4. k \in 1..(Len(text) + 1 - 2) /\ k + 2 - 1 = k + 1
      BY <2>2
    <3>5. Has(text, <<"%", digits>>)
      BY <3>2, <3>3, <3>4 DEF Has
    <3>6. digits \in {"2f", "3f", "5c"}
      BY <2>4, <3>1
    <3>7. QED
      BY <1>1, <3>5, <3>6, Zenon DEF Refused
  <2>5. Encoded[text[i]] \in {".", "NUL"}
    BY <1>5, <2>3, <2>4, EncodedOf
  <2>6. Encoded[text[i]] \in Tokens \ {"?", "\\", "%"}
    BY <2>5 DEF Tokens
  <2>7. DecodeStep(text, decoded, i) = Append(decoded, Encoded[text[i]])
    BY <1>5, Zenon DEF DecodeStep
  <2>8. QED
    BY <2>6, <2>7, DecodedAppend
<1>6. QED
  BY <1>2, <1>3, <1>4, <1>5

\* PercentDecode: one token after the other.
DecodeRun(text, u) ==
  /\ u[0] = <<>>
  /\ \A i \in 1..Len(text) : u[i] = DecodeStep(text, u[i - 1], i)
  /\ PercentDecode(text) = u[Len(text)]

\* PercentDecode is a run over the tokens.
LEMMA DecodeUpto ==
  ASSUME NEW text, Legible(text)
  PROVE  \E u \in [0..Len(text) -> Decoded] : DecodeRun(text, u)
<1>1. PICK n : n = Len(text)
  OBVIOUS
<1>2. PICK V : V = Decoded
  OBVIOUS
<1>3. PICK base : base = <<>>
  OBVIOUS
<1>4. PICK step : step = [i \in 1..n |-> [prev \in V |-> DecodeStep(text, prev, i)]]
  OBVIOUS
<1>5. n \in Nat /\ base \in V
  <2>1. n \in Nat
    BY <1>1, LenProperties DEF Legible
  <2>2. <<>> \in Decoded
    BY EmptySeq DEF Decoded
  <2>3. QED
    BY <1>2, <1>3, <2>1, <2>2
<1>6. ASSUME NEW i \in 1..n, NEW prev \in V PROVE DecodeStep(text, prev, i) \in V
  BY <1>1, <1>2, DecodeStepDecoded
<1>7. step \in [1..n -> [V -> V]] /\ \A i \in 1..n : \A prev \in V : step[i][prev] = DecodeStep(text, prev, i)
  BY <1>4, <1>6, Zenon
<1>8. PICK g : g \in [0..n -> V] /\ Steps(g, n, base, step)
  BY <1>5, <1>7, Recursion
<1>9. ASSUME NEW i \in 0..n, i # 0 PROVE step[i][g[i - 1]] = DecodeStep(text, g[i - 1], i)
  <2>1. i \in 1..n /\ i - 1 \in 0..n
    BY <1>5, <1>9
  <2>2. g[i - 1] \in V
    BY <1>8, <2>1, Zenon
  <2>3. QED
    BY <1>7, <2>1, <2>2, Zenon
<1>10. g = [i \in 0..n |-> IF i = 0 THEN <<>> ELSE DecodeStep(text, g[i - 1], i)]
  <2>1. [i \in 0..n |-> IF i = 0 THEN base ELSE step[i][g[i - 1]]]
          = [i \in 0..n |-> IF i = 0 THEN base ELSE DecodeStep(text, g[i - 1], i)]
    BY <1>9, Zenon
  <2>2. QED
    BY <1>3, <1>8, <2>1, Zenon DEF Steps
<1>11. PICK u : /\ u = (CHOOSE f : f = [i \in 0..n |-> IF i = 0 THEN <<>> ELSE DecodeStep(text, f[i - 1], i)])
                /\ PercentDecode(text) = u[n]
  BY <1>1, Zenon DEF PercentDecode, DecodeStep
<1>12. u = [i \in 0..n |-> IF i = 0 THEN base ELSE DecodeStep(text, u[i - 1], i)]
  BY <1>3, <1>10, <1>11, Zenon
<1>13. ASSUME NEW i \in 0..n, i # 0 PROVE u[i] = DecodeStep(text, u[i - 1], i)
  BY <1>12, <1>13, Zenon
<1>14. 0 \in 0..n /\ u[0] = base
  <2>1. 0 \in 0..n
    BY <1>5
  <2>2. QED
    BY <1>12, <2>1, Zenon
<1>15. \A i \in 1..n : i \in 0..n /\ i # 0
  BY <1>5
<1>16. u \in [0..n -> V]
  <2>1. PICK S : S = {i \in 0..n : u[i] \in V}
    OBVIOUS
  <2>2. 0 \in S
    BY <1>5, <1>14, <2>1, Zenon
  <2>3. ASSUME NEW k \in 0..n - 1, k \in S PROVE k + 1 \in S
    <3>1. k + 1 \in 0..n /\ k + 1 # 0 /\ k + 1 - 1 = k /\ k + 1 \in 1..n
      BY <1>5
    <3>2. u[k] \in V
      BY <2>1, <2>3, Zenon
    <3>3. DecodeStep(text, u[k], k + 1) \in V
      BY <1>6, <3>1, <3>2, Zenon
    <3>4. u[k + 1] = DecodeStep(text, u[k + 1 - 1], k + 1)
      BY <1>13, <3>1
    <3>5. QED
      BY <2>1, <3>1, <3>3, <3>4, Zenon
  <2>4. \A i \in 0..n : i \in S
    BY <1>5, <2>2, <2>3, Climb
  <2>5. QED
    BY <1>12, <2>1, <2>4, Zenon
<1>17. DecodeRun(text, u)
  BY <1>1, <1>3, <1>11, <1>13, <1>14, <1>15, Zenon DEF DecodeRun
<1>18. QED
  BY <1>1, <1>2, <1>16, <1>17, Zenon

\* So decoding a text that is not refused leaves nothing but those.
LEMMA DecodeDecoded ==
  ASSUME NEW text, Legible(text)
  PROVE  PercentDecode(text) \in Decoded
<1>1. PICK n : n = Len(text)
  OBVIOUS
<1>2. n \in 0..n
  BY <1>1, LenProperties DEF Legible
<1>3. PICK u \in [0..n -> Decoded] : DecodeRun(text, u)
  BY <1>1, DecodeUpto
<1>4. QED
  BY <1>1, <1>2, <1>3, Zenon DEF DecodeRun

\* Where nothing is encoded nothing is changed.
LEMMA DecodeSame ==
  ASSUME NEW text, Legible(text), \A i \in 1..Len(text) : text[i] # "%"
  PROVE  PercentDecode(text) = text
<1>1. PICK n : n = Len(text)
  OBVIOUS
<1>2. text \in Seq(Tokens) /\ n \in Nat
  BY <1>1, LenProperties DEF Legible
<1>3. PICK u : DecodeRun(text, u)
  BY DecodeUpto
<1>4. PICK S : S = {k \in 0..n : u[k] = SubSeq(text, 1, k)}
  OBVIOUS
<1>5. 0 \in S
  <2>1. SubSeq(text, 1, 0) = <<>> /\ 0 \in 0..n
    BY <1>2, SubSeqEmpty
  <2>2. QED
    BY <1>3, <1>4, <2>1, Zenon DEF DecodeRun
<1>6. ASSUME NEW k \in 0..n - 1, k \in S PROVE k + 1 \in S
  <2>1. k + 1 \in 1..n /\ k + 1 \in 0..n /\ k + 1 - 1 = k
    BY <1>2
  <2>2. SubSeq(text, 1, k + 1) = Append(SubSeq(text, 1, k), text[k + 1])
    BY <1>1, <1>2, SubSeqNext
  <2>3. u[k + 1] = DecodeStep(text, u[k], k + 1)
    BY <1>1, <1>3, <2>1 DEF DecodeRun
  <2>4. text[k + 1] # "%" /\ (k + 1 = 1 \/ text[k + 1 - 1] # "%")
    <3>1. k = 0 \/ k \in 1..n
      BY <1>2
    <3>2. CASE k = 0
      BY <1>1, <2>1, <3>2
    <3>3. CASE k \in 1..n
      BY <1>1, <2>1, <3>3
    <3>4. QED
      BY <3>1, <3>2, <3>3
  <2>5. DecodeStep(text, u[k], k + 1) = Append(u[k], text[k + 1])
    <3>1. PICK j : j = k + 1
      OBVIOUS
    <3>2. text[j] # "%" /\ (j = 1 \/ text[j - 1] # "%")
      BY <2>4, <3>1
    <3>3. DecodeStep(text, u[k], j) = Append(u[k], text[j])
      BY <3>2, Zenon DEF DecodeStep
    <3>4. QED
      BY <3>1, <3>3, Zenon
  <2>6. QED
    BY <1>4, <1>6, <2>1, <2>2, <2>3, <2>5, Zenon
<1>7. n \in S
  BY <1>2, <1>5, <1>6, ClimbTo
<1>8. SubSeq(text, 1, n) = text
  BY <1>1, <1>2, SubSeqFull
<1>9. QED
  BY <1>1, <1>3, <1>4, <1>7, <1>8, Zenon DEF DecodeRun

-----------------------------------------------------------------------------
\* RawPath: nothing but what is in front of the first question mark.
LEMMA RawPathIs ==
  ASSUME NEW raw \in Seq(Tokens)
  PROVE  /\ RawPath(raw) \in Seq(Tokens)
         /\ \A i \in 1..Len(RawPath(raw)) : RawPath(raw)[i] # "?"
         /\ (\A i \in 1..Len(raw) : raw[i] # "?") => RawPath(raw) = raw
<1>1. PICK n : n = Len(raw)
  OBVIOUS
<1>2. n \in Nat
  BY <1>1, LenProperties
<1> DEFINE Ends(k) == (k = n \/ raw[k + 1] = "?") /\ \A i \in 1..k : raw[i] # "?"
<1>3. \E k \in 0..n : Ends(k)
  <2>1. PICK S : S = {k \in 0..n : k = n \/ raw[k + 1] = "?"}
    OBVIOUS
  <2>2. S \in SUBSET Nat /\ n \in S
    BY <1>2, <2>1
  <2>3. PICK k \in S : \A i \in S : k <= i
    BY <2>2, Least
  <2>4. k \in 0..n /\ (k = n \/ raw[k + 1] = "?")
    BY <2>1, <2>3
  <2>5. ASSUME NEW i \in 1..k PROVE raw[i] # "?"
    <3>1. i - 1 \in 0..n /\ i - 1 + 1 = i /\ ~(k <= i - 1)
      BY <1>2, <2>4
    <3>2. i - 1 \notin S
      BY <2>3, <3>1
    <3>3. QED
      BY <2>1, <3>1, <3>2
  <2>6. QED
    BY <2>4, <2>5
<1>4. PICK end : end = CHOOSE k \in 0..n : Ends(k)
  OBVIOUS
<1>5. end \in 0..n /\ Ends(end)
  <2> HIDE DEF Ends
  <2>1. QED
    BY <1>3, <1>4
<1>6. RawPath(raw) = SubSeq(raw, 1, end)
  BY <1>1, <1>4 DEF RawPath
<1>7. /\ SubSeq(raw, 1, end) \in Seq(Tokens) /\ Len(SubSeq(raw, 1, end)) = end
      /\ \A i \in 1..end : SubSeq(raw, 1, end)[i] = raw[i]
  BY <1>1, <1>2, <1>5
<1>8. ASSUME \A i \in 1..n : raw[i] # "?" PROVE SubSeq(raw, 1, end) = raw
  <2>1. end = n
    BY <1>2, <1>5, <1>8
  <2>2. QED
    BY <1>1, <2>1, SubSeqFull
<1>9. QED
  BY <1>1, <1>5, <1>6, <1>7, <1>8

\* What does not occur in a sequence is none of its elements.
LEMMA InToSet ==
  ASSUME NEW S, NEW seq \in Seq(S), NEW B
  PROVE  ToSet(seq) \cap B = {} <=> \A i \in 1..Len(seq) : seq[i] \notin B
<1>1. DOMAIN seq = 1..Len(seq)
  BY LenProperties
<1>2. QED
  BY <1>1, Zenon DEF ToSet

\* What is joined begins with a slash.
LEMMA JoinBegins ==
  ASSUME NEW T, "/" \in T, NEW segments \in Seq(Seq(T)), segments # <<>>
  PROVE  Join(segments) # <<>> /\ Join(segments)[1] = "/"
<1>1. PICK n : n = Len(segments)
  OBVIOUS
<1>2. n \in Nat /\ n # 0 /\ n \in 0..n
  BY <1>1, EmptySeq, LenProperties
<1>3. PICK X : X = Seq(T)
  OBVIOUS
<1>4. PICK u \in [0..n -> X] : JoinRun(segments, u)
  BY <1>1, <1>3, JoinUpto
<1>5. \A k \in 0..n : u[k] \in X
  BY <1>4
<1>6. PICK S : S = {k \in 0..n : k = 0 \/ (u[k] # <<>> /\ u[k][1] = "/")}
  OBVIOUS
<1>7. 0 \in S
  <2>1. 0 \in 0..n
    BY <1>2
  <2>2. QED
    BY <1>6, <2>1, Zenon
<1>8. ASSUME NEW k \in 0..n - 1, k \in S PROVE k + 1 \in S
  <2>1. k + 1 \in 1..n /\ k + 1 \in 0..n /\ k \in 0..n /\ k + 1 - 1 = k
    BY <1>2
  <2>2. PICK before : before = u[k]
    OBVIOUS
  <2>3. PICK seg : seg = segments[k + 1]
    OBVIOUS
  <2>4. before \in Seq(T) /\ seg \in Seq(T)
    BY <1>1, <1>3, <1>5, <2>1, <2>2, <2>3, ElementOfSeq
  <2>5. u[k + 1] = Append(before, "/") \o seg
    <3>1. u[k + 1] = JoinStep(before, seg)
      BY <1>1, <1>4, <2>1, <2>2, <2>3 DEF JoinRun
    <3>2. QED
      BY <2>4, <3>1, JoinStepIs
  <2>6. PICK slashed : slashed = Append(before, "/")
    OBVIOUS
  <2>7. slashed \in Seq(T) /\ Len(slashed) \in Nat \ {0} /\ slashed[1] = "/"
    <3>1. /\ slashed \in Seq(T) /\ slashed # <<>> /\ Len(slashed) = Len(before) + 1
          /\ slashed[Len(before) + 1] = "/" /\ \A i \in 1..Len(before) : slashed[i] = before[i]
      <4>1. PICK slash \in T : slash = "/"
        OBVIOUS
      <4>2. slashed = Append(before, slash)
        BY <2>6, <4>1
      <4>3. slashed \in Seq(T) /\ Len(slashed) = Len(before) + 1
        BY <2>4, <4>2, AppendProperties
      <4>4. slashed # <<>>
        <5>1. Len(before) \in Nat /\ Len(<<>>) = 0
          BY <2>4, EmptySeq, LenProperties
        <5>2. QED
          BY <4>3, <5>1
      <4>5. slashed[Len(before) + 1] = slash /\ \A i \in 1..Len(before) : slashed[i] = before[i]
        BY <2>4, <4>2, AppendProperties
      <4>6. QED
        BY <4>1, <4>3, <4>4, <4>5
    <3>2. slashed[1] = "/"
      <4>1. CASE k = 0
        <5>1. before = <<>>
          BY <1>4, <2>2, <4>1, Zenon DEF JoinRun
        <5>2. Len(before) = 0
          BY <5>1, EmptySeq
        <5>3. QED
          BY <3>1, <5>2
      <4>2. CASE k # 0
        <5>1. before # <<>> /\ before[1] = "/"
          BY <1>6, <1>8, <2>2, <4>2, Zenon
        <5>2. 1 \in 1..Len(before)
          BY <2>4, <5>1, EmptySeq
        <5>3. QED
          BY <3>1, <5>1, <5>2
      <4>3. QED
        BY <4>1, <4>2
    <3>3. QED
      BY <3>1, <3>2, EmptySeq
  <2>8. PICK whole : whole = slashed \o seg
    OBVIOUS
  <2>9. whole # <<>> /\ whole[1] = "/"
    <3>1. /\ whole \in Seq(T) /\ Len(whole) = Len(slashed) + Len(seg)
          /\ \A i \in 1..Len(slashed) + Len(seg) : whole[i] = IF i <= Len(slashed) THEN slashed[i] ELSE seg[i - Len(slashed)]
      BY <2>4, <2>7, <2>8, ConcatProperties
    <3>2. 1 \in 1..Len(slashed) + Len(seg) /\ 1 <= Len(slashed) /\ Len(whole) # 0
      BY <2>4, <2>7, <3>1, LenProperties
    <3>3. whole # <<>>
      BY <3>2, EmptySeq
    <3>4. QED
      BY <2>7, <3>1, <3>2, <3>3
  <2>10. QED
    BY <1>6, <2>1, <2>5, <2>6, <2>8, <2>9, Zenon
<1>9. n \in S
  BY <1>2, <1>7, <1>8, ClimbTo
<1>10. QED
  BY <1>1, <1>2, <1>4, <1>6, <1>9, Zenon DEF JoinRun

\* What is behind the root in a list of parts.
LEMMA RootedAt ==
  ASSUME NEW W, <<>> \in W, NEW segments \in Seq(W)
  PROVE  /\ Len(Rooted(segments)) = Len(segments) + 1
         /\ \A i \in 2..Len(segments) + 1 : Rooted(segments)[i] = segments[i - 1]
<1>1. PICK root : root = << <<>> >>
  OBVIOUS
<1>2. root \in Seq(W) /\ Len(root) = 1
  BY <1>1, SingleAppend
<1>3. PICK all : all = root \o segments
  OBVIOUS
<1>4. /\ Len(all) = Len(root) + Len(segments) /\ Len(segments) \in Nat
      /\ \A i \in 1..Len(root) + Len(segments) : all[i] = IF i <= Len(root) THEN root[i] ELSE segments[i - Len(root)]
  BY <1>2, <1>3, ConcatProperties, LenProperties
<1>5. ASSUME NEW i \in 2..Len(segments) + 1 PROVE all[i] = segments[i - 1]
  <2>1. i \in 1..Len(root) + Len(segments) /\ ~(i <= Len(root))
    BY <1>2, <1>4
  <2>2. QED
    BY <1>2, <1>4, <2>1
<1>6. QED
  BY <1>1, <1>2, <1>3, <1>4, <1>5 DEF Rooted

\* What ParsePath does not reject is in normal form afterwards.
THEOREM ParsePathNormal ==
  ASSUME NEW raw \in Seq(Tokens), ParsePath(raw) # Bad
  PROVE  Normal(ParsePath(raw))
<1>1. PICK text : text = RawPath(raw)
  OBVIOUS
<1>2. PICK decoded : decoded = PercentDecode(text)
  OBVIOUS
<1>3. /\ ~Refused(text) /\ WellEncoded(text) /\ ~ContainsPercentEncoding(decoded)
      /\ ToSet(decoded) \cap Control = {}
      /\ ParsePath(raw) = Join(Collapse(Split(decoded)))
  BY <1>1, <1>2, Zenon DEF ParsePath
<1>4. Legible(text)
  <2>1. text \in Seq(Tokens) /\ \A i \in 1..Len(text) : text[i] # "?"
    BY <1>1, RawPathIs
  <2>2. ToSet(text) \cap (Control \cup {"\\"}) = {}
    BY <1>3, Zenon DEF Refused
  <2>3. \A i \in 1..Len(text) : text[i] \notin Control \cup {"\\"}
    BY <2>1, <2>2, InToSet
  <2>4. \A i \in 1..Len(text) : text[i] \notin {"?", "\\"}
    BY <2>1, <2>3
  <2>5. QED
    BY <1>3, <2>1, <2>4 DEF Legible
<1>5. PICK T : T = Tokens \ {"%", "?", "\\", "NUL"}
  OBVIOUS
<1>6. "/" \in T
  BY <1>5 DEF Tokens
<1>7. decoded \in Seq(T)
  <2>1. decoded \in Decoded
    BY <1>2, <1>4, DecodeDecoded
  <2>2. PICK C : C = Tokens \ {"?", "\\"}
    OBVIOUS
  <2>3. /\ decoded \in Seq(C) /\ Len(decoded) \in Nat
        /\ \A i \in 1..Len(decoded) : decoded[i] = "%" => i < Len(decoded) /\ decoded[i + 1] = "25"
    BY <2>1, <2>2, LenProperties DEF Decoded
  <2>4. \A i \in 1..Len(decoded) : decoded[i] \notin Control
    BY <1>3, <2>3, InToSet
  <2>5. ASSUME NEW i \in 1..Len(decoded) PROVE decoded[i] \in T
    <3>1. decoded[i] \in C
      BY <2>3, ElementOfSeq
    <3>2. decoded[i] # "%"
      <4>1. SUFFICES ASSUME decoded[i] = "%" PROVE FALSE
        OBVIOUS
      <4>2. i < Len(decoded) /\ decoded[i + 1] = "25"
        BY <2>3, <4>1
      <4>3. i \in 1..Len(decoded) - 1 /\ decoded[i + 1] \in Digits
        BY <2>3, <4>2, EncodedOf
      <4>4. QED
        BY <1>3, <4>1, <4>3 DEF ContainsPercentEncoding
    <3>3. decoded[i] # "NUL"
      BY <2>4 DEF Control
    <3>4. QED
      BY <1>5, <2>2, <3>1, <3>2, <3>3
  <2>6. QED
    BY <2>3, <2>5, SeqNarrowed
<1>8. PICK kept : kept = Collapse(Split(decoded))
  OBVIOUS
<1>9. PICK W : W = T \ {"/"}
  OBVIOUS
<1>10. kept \in Seq(Segments(W))
  <2>1. Split(decoded) \in Seq(Seq(W))
    BY <1>7, <1>9, SplitTyped DEF Parts
  <2>2. QED
    BY <1>8, <2>1, CollapsePlain
<1>11. PICK joined : joined = Join(kept)
  OBVIOUS
<1>12. CASE kept = <<>>
  <2>1. joined = <<"/">>
    BY <1>11, <1>12, Zenon DEF Join
  <2>2. joined \in Seq({"/"}) /\ Len(joined) = 1 /\ joined[1] = "/" /\ joined # <<>>
    BY <2>1, SingleAppend
  <2>3. ToSet(joined) \cap {"%", "?", "\\", "NUL"} = {}
    <3>1. \A i \in 1..Len(joined) : joined[i] \notin {"%", "?", "\\", "NUL"}
      BY <2>2
    <3>2. QED
      BY <2>2, <3>1, InToSet
  <2>4. Normal(joined)
    BY <2>1, <2>2, <2>3, Zenon DEF Normal
  <2>5. QED
    BY <1>3, <1>8, <1>11, <2>4, Zenon
<1>13. CASE kept # <<>>
  <2>1. PICK V : V = Seq(W)
    OBVIOUS
  <2>2. PICK P : P = Segments(W)
    OBVIOUS
  <2>3. <<>> \in V /\ (\A s \in P : s \in V /\ s \notin {<<>>, <<".">>, <<".", ".">>}) /\ \A s \in V : s \in Seq(T)
    <3>1. \A s \in V : s \in Seq(T)
      BY <1>9, <2>1, SeqMonotonic
    <3>2. QED
      BY <2>1, <2>2, <3>1, EmptySeq DEF Segments
  <2>4. kept \in Seq(P) /\ kept \in Seq(V)
    BY <1>10, <2>2, <2>3, SeqMonotonic
  <2>5. PICK X : X = Seq(T)
    OBVIOUS
  <2>6. kept \in Seq(X)
    BY <2>3, <2>4, <2>5, SeqMonotonic
  <2>7. joined \in Seq(T) /\ joined # <<>> /\ joined[1] = "/"
    BY <1>6, <1>11, <1>13, <2>5, <2>6, JoinTyped, JoinBegins
  <2>8. Split(joined) = Rooted(kept)
    BY <1>6, <1>9, <1>11, <1>13, <2>1, <2>4, SplitJoin
  <2>9. ASSUME NEW i \in 2..Len(Split(joined)) PROVE Split(joined)[i] \notin {<<>>, <<".">>, <<".", ".">>}
    <3>1. /\ Len(Rooted(kept)) = Len(kept) + 1 /\ Len(kept) \in Nat
          /\ \A j \in 2..Len(kept) + 1 : Rooted(kept)[j] = kept[j - 1]
      BY <2>3, <2>4, RootedAt, LenProperties
    <3>2. i \in 2..Len(kept) + 1 /\ i - 1 \in 1..Len(kept)
      BY <2>8, <3>1
    <3>3. Split(joined)[i] = kept[i - 1]
      BY <2>8, <3>1, <3>2
    <3>4. kept[i - 1] \in P
      BY <2>4, <3>2, ElementOfSeq
    <3>5. QED
      BY <2>3, <3>3, <3>4, Zenon
  <2>10. ToSet(joined) \cap {"%", "?", "\\", "NUL"} = {}
    <3>1. \A i \in 1..Len(joined) : joined[i] \notin {"%", "?", "\\", "NUL"}
      BY <1>5, <2>7, ElementOfSeq
    <3>2. QED
      BY <2>7, <3>1, InToSet
  <2>11. Normal(joined)
    BY <2>7, <2>9, <2>10, Zenon DEF Normal
  <2>12. QED
    BY <1>3, <1>8, <1>11, <2>11, Zenon
<1>14. QED
  BY <1>12, <1>13

\* A path in normal form is let through as it is.
THEOREM NormalKept ==
  ASSUME NEW raw \in Seq(Tokens), Normal(raw)
  PROVE  ParsePath(raw) = raw
<1>1. raw # <<>> /\ raw[1] = "/" /\ \A i \in 1..Len(raw) : raw[i] \notin {"%", "?", "\\", "NUL"}
  <2>1. raw # <<>> /\ raw[1] = "/" /\ ToSet(raw) \cap {"%", "?", "\\", "NUL"} = {}
    BY Zenon DEF Normal
  <2>2. QED
    BY <2>1, InToSet
<1>2. RawPath(raw) = raw
  BY <1>1, RawPathIs
<1>3. ~Refused(raw)
  <2>1. ToSet(raw) \cap (Control \cup {"\\"}) = {}
    <3>1. \A i \in 1..Len(raw) : raw[i] \notin Control \cup {"\\"}
      BY <1>1 DEF Control
    <3>2. QED
      BY <3>1, InToSet
  <2>2. ASSUME NEW digits, Has(raw, <<"%", digits>>) PROVE FALSE
    <3>1. Len(<<"%", digits>>) = 2 /\ <<"%", digits>>[1] = "%"
      OBVIOUS
    <3>2. PICK k \in 1..(Len(raw) + 1 - 2) : SubSeq(raw, k, k + 2 - 1) = <<"%", digits>>
      BY <2>2, <3>1 DEF Has
    <3>3. k \in 1..Len(raw) - 1 /\ k \in 1..Len(raw) /\ k + 2 - 1 = k + 1
      BY LenProperties
    <3>4. <<raw[k], raw[k + 1]>> = <<"%", digits>>
      BY <3>2, <3>3, TwoOf
    <3>5. raw[k] = "%"
      BY <3>4
    <3>6. QED
      BY <1>1, <3>3, <3>5
  <2>3. QED
    BY <2>1, <2>2, Zenon DEF Refused
<1>4. WellEncoded(raw)
  BY <1>1 DEF WellEncoded
<1>5. PercentDecode(raw) = raw
  <2>1. Legible(raw)
    BY <1>1, <1>3, <1>4 DEF Legible
  <2>2. QED
    BY <1>1, <2>1, DecodeSame
<1>6. ~ContainsPercentEncoding(raw)
  <2>1. \A i \in 1..Len(raw) - 1 : i \in 1..Len(raw)
    BY LenProperties
  <2>2. QED
    BY <1>1, <2>1 DEF ContainsPercentEncoding
<1>7. ToSet(raw) \cap Control = {}
  <2>1. \A i \in 1..Len(raw) : raw[i] \notin Control
    BY <1>1 DEF Control
  <2>2. QED
    BY <2>1, InToSet
<1>8. ParsePath(raw) = Join(Collapse(Split(raw)))
  BY <1>2, <1>3, <1>4, <1>5, <1>6, <1>7, Zenon DEF ParsePath
<1>9. "/" \in Tokens
  BY DEF Tokens
<1>10. PICK W : W = Tokens \ {"/"}
  OBVIOUS
<1>11. PICK V : V = Seq(W)
  OBVIOUS
<1>12. <<>> \in V
  BY <1>11, EmptySeq
<1>13. PICK segments : /\ segments \in Seq(V) /\ segments # <<>>
                       /\ Split(raw) = Rooted(segments)
                       /\ Join(segments) = raw
  BY <1>1, <1>9, <1>10, <1>11, JoinSplit DEF SegmentsOf
<1>14. CASE raw = <<"/">>
  <2>1. Split(raw) = Rooted(<< <<>> >>)
    <3>1. <<>> \in Seq(Tokens) /\ raw = Append(<<>>, "/")
      BY <1>9, <1>14, EmptySeq, SingleAppend
    <3>2. Split(raw) = SplitStep(Split(<<>>), "/")
      BY <1>9, <3>1, SplitAppend
    <3>3. SplitStep(Split(<<>>), "/") = Append(Split(<<>>), <<>>)
      BY Zenon DEF SplitStep
    <3>4. <<>> \in Seq(V) /\ << <<>> >> = Append(<<>>, <<>>)
      BY <1>12, EmptySeq, SingleAppend
    <3>5. Append(Rooted(<<>>), <<>>) = Rooted(Append(<<>>, <<>>)) /\ Rooted(<<>>) = Split(<<>>)
      BY <1>12, <3>4, RootedAppend, RootedEmpty, SplitEmpty
    <3>6. QED
      BY <3>2, <3>3, <3>4, <3>5, Zenon
  <2>2. Join(<<>>) = <<"/">>
    BY Zenon DEF Join
  <2>3. QED
    BY <1>8, <1>14, <2>1, <2>2, CollapseRoot, Zenon
<1>15. CASE raw # <<"/">>
  <2>1. PICK P : P = Segments(W)
    OBVIOUS
  <2>2. ASSUME NEW i \in 1..Len(segments) PROVE segments[i] \in P
    <3>1. /\ Len(Rooted(segments)) = Len(segments) + 1 /\ Len(segments) \in Nat
          /\ \A j \in 2..Len(segments) + 1 : Rooted(segments)[j] = segments[j - 1]
      BY <1>12, <1>13, RootedAt, LenProperties
    <3>2. i + 1 \in 2..Len(segments) + 1 /\ i + 1 - 1 = i
      BY <3>1
    <3>3. Split(raw)[i + 1] = segments[i] /\ i + 1 \in 2..Len(Split(raw))
      BY <1>13, <3>1, <3>2
    <3>4. Split(raw)[i + 1] \notin {<<>>, <<".">>, <<".", ".">>}
      BY <1>15, <3>3, Zenon DEF Normal
    <3>5. segments[i] \in V
      BY <1>13, ElementOfSeq
    <3>6. QED
      BY <1>11, <2>1, <3>3, <3>4, <3>5, Zenon DEF Segments
  <2>3. segments \in Seq(P)
    BY <1>13, <2>2, SeqNarrowed
  <2>4. Collapse(Rooted(segments)) = segments
    BY <2>1, <2>3, CollapseSame
  <2>5. QED
    BY <1>8, <1>13, <2>4, Zenon
<1>16. QED
  BY <1>14, <1>15

-----------------------------------------------------------------------------
(* What the run checks of them, for the samples it draws *)

\* The sample is drawn at the beginning, and stays.
SampleKept ==
  /\ sample.kind = "path" => sample.of \in Seq(Tokens)
  /\ sample.kind = "rules" => sample.of \in Seq(Rulings)

\* A bounded sequence is a sequence.
LEMMA BoundedIsSeq ==
  ASSUME NEW S, NEW n \in Nat, NEW s \in BoundedSeq(S, n)
  PROVE  s \in Seq(S)
BY DEF BoundedSeq, SeqOf

\* The samples of paths are texts.
LEMMA TextsAreTokens == Texts \subseteq Seq(Tokens)
<1>1. ASSUME NEW text \in BoundedSeq(Tokens \ {"3f", "5c", "\\"}, 4)
      PROVE  <<"/">> \o text \in Seq(Tokens)
  <2>1. PICK W : W = Tokens \ {"3f", "5c", "\\"}
    OBVIOUS
  <2>2. text \in Seq(W)
    BY <1>1, <2>1, BoundedIsSeq
  <2>3. \A i \in 1..Len(text) : text[i] \in Tokens
    BY <2>1, <2>2, ElementOfSeq
  <2>4. text \in Seq(Tokens)
    BY <2>2, <2>3, SeqNarrowed
  <2>5. <<"/">> \in Seq(Tokens)
    BY DEF Tokens
  <2>6. QED
    BY <2>4, <2>5, ConcatProperties
<1>2. QED
  BY <1>1 DEF Texts

\* What is drawn is a text or a list of rules.
LEMMA SampleStarts == MCInit => SampleKept
<1> SUFFICES ASSUME MCInit PROVE SampleKept
  OBVIOUS
<1>1. CASE sample = Plain
  BY <1>1 DEF SampleKept, Plain
<1>2. CASE \E text \in Texts : sample = [kind |-> "path", of |-> text]
  <2>1. PICK text \in Texts : sample = [kind |-> "path", of |-> text]
    BY <1>2
  <2>2. text \in Seq(Tokens)
    BY TextsAreTokens
  <2>3. sample.kind = "path" /\ sample.of = text
    BY <2>1
  <2>4. QED
    BY <2>2, <2>3 DEF SampleKept
<1>3. CASE \E rules \in BoundedSeq(Rulings, 3) : sample = [kind |-> "rules", of |-> rules]
  <2>1. PICK rules \in BoundedSeq(Rulings, 3) : sample = [kind |-> "rules", of |-> rules]
    BY <1>3
  <2>2. rules \in Seq(Rulings)
    BY BoundedIsSeq
  <2>3. sample.kind = "rules" /\ sample.of = rules
    BY <2>1
  <2>4. QED
    BY <2>2, <2>3 DEF SampleKept
<1>4. QED
  BY <1>1, <1>2, <1>3 DEF MCInit

\* No step changes it.
LEMMA SampleStays == SampleKept /\ [MCNext]_<<vars, sample>> => SampleKept'
BY DEF SampleKept, MCNext

\* Rulings have a mode and a priority.
LEMMA RulingsAre == \A rule \in Rulings : rule.mode \in Modes /\ rule.priority \in Int
BY DEF Rulings, Rule, Modes

\* What ParsePath lets through is in normal form, and what is in normal form it leaves as
\* it is.
THEOREM PathsNormalHolds == MCSpec => []PathsNormal
<1>1. SampleKept => PathsNormal
  BY ParsePathNormal, NormalKept DEF SampleKept, PathsNormal
<1>2. QED
  BY <1>1, SampleStarts, SampleStays, PTL DEF MCSpec

\* The engine comes to the verdict, in whatever order the rules are added.
THEOREM DecidedHolds == MCSpec => []Decided
<1>1. SampleKept => Decided
  <2> SUFFICES ASSUME SampleKept, sample.kind = "rules", NEW tests \in SUBSET {"p", "q"}
               PROVE  EvaluateRule(Engine(sample.of), tests) = Verdict(sample.of, tests)
    BY DEF Decided
  <2>1. PICK added : added = sample.of
    OBVIOUS
  <2>2. added \in Seq(Rulings)
    BY <2>1 DEF SampleKept
  <2>3. EvaluateRule(Engine(added), tests) = Verdict(added, tests)
    BY <2>2, RulingsAre, RulesDecided
  <2>4. QED
    BY <2>1, <2>3
<1>2. QED
  BY <1>1, SampleStarts, SampleStays, PTL DEF MCSpec
=============================================================================
