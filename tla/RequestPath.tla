----------------------------- MODULE RequestPath -----------------------------
(***************************************************************************)
(* The way of a request through the gateway (gatewayHandler.ServeHTTP in   *)
(* cmd/gateway/main.go): the policy, the path, the routes, then PHP or a   *)
(* file found by filesystem.Resolver and sent by serveStatic, to a client  *)
(* that keeps what it gets and asks again with the validators it got.      *)
(*                                                                         *)
(* The files are those of the release in place, which changes as a whole   *)
(* at any moment, also back to an earlier one; every call to the file      *)
(* system is a step.  The configuration is fixed: a request reads it once  *)
(* (GatewayServer).  PHP comes and goes (FpmSupervision); what a script    *)
(* answers is FastCGIPool's and CgiResponse's matter.                      *)
(***************************************************************************)
EXTENDS Integers, Sequences, SequencesExt, PathSyntax, PolicyRules

CONSTANTS
  Clients,
  Targets,      \* the paths that clients ask for
  Names,        \* paths in normal form
  Normalized,   \* what ParsePath makes of a target: a name, or "rejected"
  Scripts,      \* the names that end in .php
  Protected,    \* the names and targets with a protected segment
  Tree,         \* Tree[release][name]: "none", "file", "dir" or the name it links to
  Index,        \* the index file of each name
  Sibling,      \* the precompressed variant of each name
  Entries,      \* the front controllers, in order
  Follows,      \* symlink_mode is not deny
  Routes,       \* a sequence of [targets, kind, to], kind "redirect", "proxy" or "rewrite"
  Rules,        \* the rules of the policy, as added
  Mode,         \* the security mode
  Tests,        \* the tests of the policy that a request for each target passes
  Setups,       \* [precompressed, validators]: the setting, and what clients send
  MaxMoves,     \* bound on the changes of release
  MaxOutages    \* bound on the outages of PHP

Releases == DOMAIN Tree
None     == [name |-> "none", release |-> 0]
Copies   == [name : Names, release : Releases] \cup {None}

ASSUME RequestAssumption ==
  /\ Names \cap {"none", "file", "dir"} = {}
  /\ Scripts \subseteq Names
  /\ Entries \in Seq(Names) /\ Entries # <<>>
  /\ Normalized \in [Targets -> Names \cup {"rejected"}]
  /\ Index \in [Names -> Names] /\ Sibling \in [Names -> Names]
  /\ Tree \in Seq([Names -> {"none", "file", "dir"} \cup Names]) /\ Tree # <<>>
  /\ Len(Routes) \in Nat
  /\ \A r \in 1..Len(Routes) :
       /\ Routes[r].kind \in {"redirect", "proxy", "rewrite"}
       /\ Routes[r].kind = "rewrite" => Routes[r].to \in Names \cup {"unchanged"}
  /\ MaxMoves \in Nat /\ MaxOutages \in Nat

VARIABLES
  setup,
  current,   \* the release in place
  back,      \* an earlier release was put back in place
  moves,     \* changes of release so far
  php,       \* phpAvailable
  outages,   \* of PHP so far
  pc,        \* where the request of each client is
  target,    \* what it asks for
  path,      \* normalized
  wanted,    \* names yet to look for
  stage,     \* what they are looked for as
  file,      \* rf: the open file, to be sent
  answer,    \* the answer to the last request of each client
  cache,     \* what each client keeps of each target
  seen,      \* the releases in place during its last request
  phpSeen    \* and the values of php

world   == <<setup, current, back, moves, php, outages>>
request == <<target, path, stage, file>>
done    == <<answer, cache>>
history == <<seen, phpSeen>>
vars    == <<world, pc, wanted, request, done, history>>

\* What opening a name reaches: links are followed, and stay in the root.
Kind(release, name)    == Tree[release][name]
IsLink(release, name)  == Kind(release, name) \in Names
Reached(release, name) == IF IsLink(release, name) THEN Kind(release, name) ELSE name
Exists(release, name)  == Kind(release, Reached(release, name)) # "none"
IsFile(release, name)  == Kind(release, Reached(release, name)) = "file"

TypeOK ==
  /\ setup \in Setups
  /\ current \in Releases /\ back \in BOOLEAN /\ moves \in 0..MaxMoves
  /\ php \in BOOLEAN /\ outages \in 0..MaxOutages
  /\ pc \in [Clients -> {"idle", "explicit", "lstat", "eval", "open", "headers", "fallback", "stat", "info"}]
  /\ target \in [Clients -> Targets] /\ path \in [Clients -> Names]
  /\ wanted \in [Clients -> Seq(Names)]
  /\ stage \in [Clients -> {"file", "sibling", "index"}]
  /\ file \in [Clients -> Copies]
  /\ answer \in [Clients -> {"none", "static", "not modified", "precondition failed", "script",
                             "redirect", "proxy", "400", "403", "404", "503"}]
  /\ cache \in [Clients -> [Targets -> [etag : Copies, body : Copies]]]
  /\ seen \in [Clients -> SUBSET Releases] /\ phpSeen \in [Clients -> SUBSET BOOLEAN]

Init ==
  /\ setup \in Setups
  /\ current = 1 /\ back = FALSE /\ moves = 0
  /\ php \in BOOLEAN /\ outages = 0
  /\ pc = [c \in Clients |-> "idle"]
  /\ target \in [Clients -> {t \in Targets : Normalized[t] \in Names}]
  /\ path = [c \in Clients |-> Normalized[target[c]]]
  /\ wanted = [c \in Clients |-> <<>>]
  /\ stage = [c \in Clients |-> "file"]
  /\ file = [c \in Clients |-> None]
  /\ answer = [c \in Clients |-> "none"]
  /\ cache = [c \in Clients |-> [t \in Targets |-> [etag |-> None, body |-> None]]]
  /\ seen = [c \in Clients |-> {}] /\ phpSeen = [c \in Clients |-> {}]

-----------------------------------------------------------------------------
(* The surroundings *)

\* A request under way sees them change.
Witness(release, up) ==
  /\ seen' = [c \in Clients |-> IF pc[c] = "idle" THEN seen[c] ELSE seen[c] \cup {release}]
  /\ phpSeen' = [c \in Clients |-> IF pc[c] = "idle" THEN phpSeen[c] ELSE phpSeen[c] \cup {up}]

Move(release) ==
  /\ moves < MaxMoves
  /\ release # current
  /\ current' = release
  /\ moves' = moves + 1
  /\ back' = (back \/ release < current)
  /\ Witness(release, php)
  /\ UNCHANGED <<setup, php, outages, pc, wanted, request, done>>

PhpChanges ==
  /\ php => outages < MaxOutages
  /\ php' = ~php
  /\ outages' = IF php THEN outages + 1 ELSE outages
  /\ Witness(current, ~php)
  /\ UNCHANGED <<setup, current, back, moves, pc, wanted, request, done>>

-----------------------------------------------------------------------------
(* ServeHTTP, up to the first look at PHP or the files *)

Denied(t) == Enforce(Mode, Engine(Rules), Tests[t]) = "deny"

\* Match: the first route that matches, on the path as asked.
RouteOf(t) == SelectInSeq(Routes, LAMBDA r : t \in r.targets)

\* Rewrite.
Rewrite(r, name) == IF Routes[r].to = "unchanged" THEN name ELSE Routes[r].to

Begin(c, t) ==
  LET r    == RouteOf(t)
      name == IF r = 0 THEN Normalized[t] ELSE Rewrite(r, Normalized[t])
      Answer(a) == answer' = [answer EXCEPT ![c] = a] /\ UNCHANGED <<pc, path, wanted>>
  IN
  /\ pc[c] = "idle"
  /\ target' = [target EXCEPT ![c] = t]
  /\ CASE Denied(t) -> Answer("403")
       [] ~Denied(t) /\ Normalized[t] = "rejected" -> Answer("400")
       [] ~Denied(t) /\ Normalized[t] # "rejected" /\ r # 0 /\ Routes[r].kind # "rewrite" -> Answer(Routes[r].kind)
       [] OTHER -> /\ answer' = [answer EXCEPT ![c] = "none"]
                   /\ path' = [path EXCEPT ![c] = name]
                   /\ wanted' = [wanted EXCEPT ![c] = <<name>>]
                   /\ pc' = [pc EXCEPT ![c] = IF name \in Scripts THEN "explicit" ELSE "lstat"]
  /\ stage' = [stage EXCEPT ![c] = "file"]
  /\ file' = [file EXCEPT ![c] = None]
  /\ seen' = [seen EXCEPT ![c] = {current}]
  /\ phpSeen' = [phpSeen EXCEPT ![c] = {php}]
  /\ UNCHANGED <<world, cache>>

\* The steps of client c, from where it is.
At(c, place) == pc[c] = place /\ UNCHANGED <<world, target, path, history>>

Goto(c, place) == pc' = [pc EXCEPT ![c] = place] /\ UNCHANGED done

Finish(c, a) ==
  /\ pc' = [pc EXCEPT ![c] = "idle"]
  /\ answer' = [answer EXCEPT ![c] = a]
  /\ UNCHANGED wanted

Look(c, names) == wanted' = [wanted EXCEPT ![c] = names]

\* Variant: an outage is answered like a missing file.
ExplicitMissing(c) ==
  /\ At(c, "explicit")
  /\ IF php THEN Goto(c, "stat") /\ Look(c, wanted[c] \o Entries)
            ELSE Finish(c, "404") /\ UNCHANGED cache
  /\ UNCHANGED <<stage, file>>

Explicit(c) ==
  /\ At(c, "explicit")
  /\ IF php THEN Goto(c, "stat") /\ Look(c, wanted[c] \o Entries)
            ELSE Finish(c, "503") /\ UNCHANGED cache
  /\ UNCHANGED <<stage, file>>

\* No such file: PHP, or else the index.
Fallback(c) ==
  /\ At(c, "fallback")
  /\ IF php THEN Goto(c, "stat") /\ Look(c, Entries) /\ UNCHANGED stage
            ELSE /\ Goto(c, "lstat") /\ Look(c, <<Index[path[c]]>>)
                 /\ stage' = [stage EXCEPT ![c] = "index"]
  /\ UNCHANGED file

-----------------------------------------------------------------------------
(* serveStatic *)

\* Variant: the ETag is made from what is at the path by now.
EtagLater(c) == [file[c] EXCEPT !.release = current]

\* generateETag.
Etag(c) == file[c]

Send(c, body) ==
  /\ Finish(c, "static")
  /\ cache' = [cache EXCEPT ![c][target[c]] = [etag |-> Etag(c), body |-> body]]

\* Of the copy a client has, the ETag and the time of the release it is from.
Fails(c) ==
  LET kept == cache[c][target[c]].etag
  IN  "If-Match" \in setup.validators /\ kept # None /\ kept # Etag(c)

NotModified(c) ==
  LET kept == cache[c][target[c]].etag
  IN  /\ kept # None
      /\ \/ "If-None-Match" \in setup.validators /\ kept = Etag(c)
         \/ "If-Modified-Since" \in setup.validators /\ Etag(c).release <= kept.release

Headers(c) ==
  /\ At(c, "headers")
  /\ CASE target[c] \in Protected -> Finish(c, "403") /\ UNCHANGED <<cache, stage>>
       [] target[c] \notin Protected /\ Fails(c) -> Finish(c, "precondition failed") /\ UNCHANGED <<cache, stage>>
       [] target[c] \notin Protected /\ ~Fails(c) /\ NotModified(c) -> Finish(c, "not modified") /\ UNCHANGED <<cache, stage>>
       [] OTHER -> IF setup.precompressed
                   THEN /\ Goto(c, "lstat")
                        /\ Look(c, <<Sibling[IF stage[c] = "index" THEN Index[path[c]] ELSE path[c]]>>)
                        /\ stage' = [stage EXCEPT ![c] = "sibling"]
                   ELSE Send(c, file[c]) /\ UNCHANGED stage
  /\ UNCHANGED file

-----------------------------------------------------------------------------
(* Resolver.Resolve *)

\* Nothing to open: what becomes of the request.
Unresolved(c) ==
  /\ CASE stage[c] = "file"    -> Goto(c, "fallback") /\ UNCHANGED wanted
       [] stage[c] = "sibling" -> Send(c, file[c])
       [] stage[c] = "index"   -> Finish(c, "404") /\ UNCHANGED cache
  /\ UNCHANGED <<stage, file>>

Lstat(c) ==
  LET name == Head(wanted[c]) IN
  /\ At(c, "lstat")
  /\ IF name \in Protected \/ Kind(current, name) = "none" \/ (IsLink(current, name) /\ ~Follows)
     THEN Unresolved(c)
     ELSE /\ Goto(c, IF IsLink(current, name) THEN "eval" ELSE "open")
          /\ UNCHANGED <<wanted, stage, file>>

\* EvalSymlinks.
Eval(c) ==
  LET name == Head(wanted[c]) IN
  /\ At(c, "eval")
  /\ IF Exists(current, name)
     THEN Goto(c, "open") /\ Look(c, <<Reached(current, name)>>) /\ UNCHANGED <<stage, file>>
     ELSE Unresolved(c)

\* Open, and Stat of the open file.
Open(c) ==
  LET name == Head(wanted[c])
      copy == [name |-> Reached(current, name), release |-> current] IN
  /\ At(c, "open")
  /\ CASE ~IsFile(current, name) -> Unresolved(c)
       [] IsFile(current, name) /\ stage[c] = "sibling" -> Send(c, copy) /\ UNCHANGED <<stage, file>>
       [] OTHER -> /\ Goto(c, "headers")
                   /\ file' = [file EXCEPT ![c] = copy]
                   /\ UNCHANGED <<wanted, stage>>

-----------------------------------------------------------------------------
(* servePHP: resolveScript, then Resolver.ResolveInfo *)

Stat(c) ==
  /\ At(c, "stat")
  /\ IF wanted[c] = <<>> THEN Finish(c, "404") /\ UNCHANGED cache
     ELSE IF Exists(current, Head(wanted[c]))
     THEN Goto(c, "info") /\ Look(c, <<Head(wanted[c])>>)
     ELSE Goto(c, "stat") /\ Look(c, Tail(wanted[c]))
  /\ UNCHANGED <<stage, file>>

Info(c) ==
  LET name == Head(wanted[c]) IN
  /\ At(c, "info")
  /\ Finish(c, IF name \notin Protected /\ IsFile(current, name) THEN "script" ELSE "404")
  /\ UNCHANGED <<cache, stage, file>>

Next ==
  \/ \E release \in Releases : Move(release)
  \/ PhpChanges
  \/ \E c \in Clients :
       \/ \E t \in Targets : Begin(c, t)
       \/ Explicit(c) \/ Fallback(c) \/ Headers(c)
       \/ Lstat(c) \/ Eval(c) \/ Open(c)
       \/ Stat(c) \/ Info(c)

Spec == Init /\ [][Next]_vars

-----------------------------------------------------------------------------
Answered(c, answers) == pc[c] = "idle" /\ answer[c] \in answers

HasCurrent(c) == Answered(c, {"static", "not modified"}) => cache[c][target[c]].body.release \in seen[c]

\* What a client has once it is answered was in place at some moment of its
\* request, whatever the releases do meanwhile; when one is put back, only if
\* there are no precompressed files, whose ETag is that of the plain one, and no
\* dates are sent (serveStatic, Resolve).
Fresh ==
  \/ back /\ (setup.precompressed \/ "If-Modified-Since" \in setup.validators)
  \/ \A c \in Clients : HasCurrent(c)

\* The same without reserve.
Revalidated == \A c \in Clients : HasCurrent(c)

\* A file that Resolve should find whenever it looks during the request.
Steady(c, name) ==
  /\ name \notin Protected
  /\ \A release \in seen[c] : IsFile(release, name) /\ (IsLink(release, name) => Follows)
  /\ \A r1, r2 \in seen[c] : Kind(r1, name) = Kind(r2, name)

JustifiedFor(c) ==
  /\ Answered(c, {"404", "script"}) /\ path[c] \notin Scripts => ~Steady(c, path[c])
  /\ Answered(c, {"404"}) =>
       /\ path[c] \in Scripts => TRUE \in phpSeen[c]
       /\ TRUE \notin phpSeen[c] => ~Steady(c, Index[path[c]])
       /\ FALSE \notin phpSeen[c] /\ path[c] \notin Scripts => ~Steady(c, Entries[1])
  /\ Answered(c, {"503"}) => path[c] \in Scripts /\ FALSE \in phpSeen[c]
  /\ Answered(c, {"script"}) => TRUE \in phpSeen[c]

\* No answer comes of an unlucky moment: a file that is there throughout is not
\* reported missing nor left to PHP; with PHP down throughout, nor is its index,
\* and with PHP up throughout, nor is the front controller; and a script is said
\* to be unavailable, never missing, while PHP is down (ServeHTTP).
Justified == \A c \in Clients : JustifiedFor(c)
=============================================================================
