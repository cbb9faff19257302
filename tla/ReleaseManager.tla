--------------------------- MODULE ReleaseManager ---------------------------
(***************************************************************************)
(* The releases directory and the ReleaseManagers opened over it           *)
(* (internal/deploy/release.go).  Every CLI command and every request to   *)
(* the dashboard opens a manager of its own, a session here, on the same   *)
(* directory; a session may also stay open for several operations, as it   *)
(* does under the Switcher.  One step is one change to the directory, so   *)
(* that a crash, or another session, can come between any two.             *)
(*                                                                         *)
(* Releases are named by the order of their creation.                      *)
(***************************************************************************)
EXTENDS Integers, FiniteSets

CONSTANTS
  Sessions,    \* ReleaseManagers over the directory
  MaxReleases, \* bound on the releases created
  MaxStamp,    \* bound on the deactivations, which the clock counts
  Keeps,       \* how many Archive may be asked to keep
  Faults       \* what may go wrong: "crash", "write", "link"

ASSUME ReleaseAssumption ==
  /\ MaxReleases \in Nat \ {0}
  /\ MaxStamp \in Nat
  /\ Keeps \subseteq Nat
  /\ Faults \subseteq {"crash", "write", "link"}

Releases == 1..MaxReleases
None     == 0
Folder   == -1   \* "active" is a directory, not a link

Lifecycle == {"created", "active", "stopped", "failed"}

\* A Release: its State and DeactivatedAt (0: nil).
Record == [state : Lifecycle, off : 0..MaxStamp]
NoRecord == [state |-> "none", off |-> 0]
Torn     == [state |-> "torn", off |-> 0]   \* a file that does not parse

VARIABLES
  relative,  \* releasesDir is a relative path, as "./releases" is
  tree,      \* each release's directory
  file,      \* <id>.json of each release
  link,      \* what "active" is: a link to a release, Folder or None
  tmp,       \* what "active.tmp" links to
  clock,     \* deactivations so far
  created,   \* releases named so far
  pc,        \* where each session is
  arg,       \* the release its operation is about
  mem,       \* rm.releases
  activeID,  \* rm.activeID
  doomed,    \* releases Archive has yet to remove
  served,    \* each release's place among those "active" has linked to, the
             \* latest first; 0: never
  past       \* what has happened: "archive"; "blind", a manager opened over a link
             \* it could not follow; "adrift", a session that died, or, after a
             \* manager was opened blind, the link taken away and not replaced

disk    == <<tree, file, link, tmp>>
session == <<pc, arg, mem, activeID, doomed>>
history == <<served, past>>
vars    == <<relative, disk, clock, created, session, history>>

Idle == {"closed", "idle"}
Steps == {"loading", "copying", "recording", "rejecting", "stopping", "clearing",
          "unlinking", "linking", "swapping", "discarding", "committing",
          "retracting", "retracted", "pruning", "forgetting"}

TypeOK ==
  /\ relative \in BOOLEAN
  /\ tree \in [Releases -> {"none", "partial", "whole"}]
  /\ file \in [Releases -> Record \cup {NoRecord, Torn}]
  /\ link \in Releases \cup {None, Folder}
  /\ tmp \in Releases \cup {None}
  /\ clock \in 0..MaxStamp
  /\ created \in 0..MaxReleases
  /\ pc \in [Sessions -> Idle \cup Steps]
  /\ arg \in [Sessions -> Releases \cup {None}]
  /\ mem \in [Sessions -> [Releases -> Record \cup {NoRecord}]]
  /\ activeID \in [Sessions -> Releases \cup {None}]
  /\ doomed \in [Sessions -> SUBSET Releases]
  /\ served \in [Releases -> 0..MaxReleases]
  /\ past \subseteq {"archive", "blind", "adrift"}

Nothing == [r \in Releases |-> NoRecord]

Init ==
  /\ relative \in BOOLEAN
  /\ tree = [r \in Releases |-> "none"]
  /\ file = Nothing
  /\ link = None
  /\ tmp = None
  /\ clock = 0
  /\ created = 0
  /\ pc = [s \in Sessions |-> "closed"]
  /\ arg = [s \in Sessions |-> None]
  /\ mem = [s \in Sessions |-> Nothing]
  /\ activeID = [s \in Sessions |-> None]
  /\ doomed = [s \in Sessions |-> {}]
  /\ served = [r \in Releases |-> 0]
  /\ past = {}

-----------------------------------------------------------------------------
Goto(s, from, to) == pc[s] \in from /\ pc' = [pc EXCEPT ![s] = to]
Known(s) == {r \in Releases : mem[s][r] # NoRecord}

\* The text of a link is releasesDir/archive/<id>: relative to the directory of
\* the link, it leads nowhere.
Resolves == link \in Releases /\ tree[link] # "none" /\ ~relative

LosesLink == past' = past \cup {e \in {"adrift"} : "blind" \in past}

\* saveRelease.  A write that fails leaves the old file or a torn one.
Save(r, rec) ==
  \/ file' = [file EXCEPT ![r] = rec]
  \/ "write" \in Faults /\ (UNCHANGED file \/ file' = [file EXCEPT ![r] = Torn])

-----------------------------------------------------------------------------
(* Init: the directories, then loadReleases. *)

\* A link that leads nowhere makes MkdirAll fail, before anything is loaded;
\* every caller ignores the error.
OpenDangling(s) ==
  /\ Goto(s, {"closed"}, "idle")
  /\ link \in Releases
  /\ ~Resolves
  /\ past' = past \cup {"blind"}
  /\ UNCHANGED <<disk, clock, created, arg, mem, activeID, doomed, served>>

Open(s) ==
  /\ Goto(s, {"closed"}, "loading")
  /\ link \in Releases => Resolves
  /\ link' = IF link = None THEN Folder ELSE link
  /\ UNCHANGED <<tree, file, tmp, clock, created, arg, mem, activeID, doomed, history>>

\* Of several active releases the file name that sorts last wins: any may.
LoadReleases(s) ==
  LET loaded == [r \in Releases |-> IF file[r] = Torn THEN NoRecord ELSE file[r]]
      active == {r \in Releases : file[r].state = "active"}
  IN
  /\ Goto(s, {"loading"}, "idle")
  /\ mem' = [mem EXCEPT ![s] = loaded]
  /\ \E r \in IF active = {} THEN {None} ELSE active : activeID' = [activeID EXCEPT ![s] = r]
  /\ UNCHANGED <<disk, clock, created, arg, doomed, history>>

Forgotten(s) ==
  /\ arg' = [arg EXCEPT ![s] = None]
  /\ mem' = [mem EXCEPT ![s] = Nothing]
  /\ activeID' = [activeID EXCEPT ![s] = None]
  /\ doomed' = [doomed EXCEPT ![s] = {}]

\* The command or request is over and its manager with it.
Discard(s) ==
  /\ Goto(s, {"idle"}, "closed")
  /\ Forgotten(s)
  /\ UNCHANGED <<disk, clock, created, history>>

-----------------------------------------------------------------------------
(* Create *)

BeginCreate(s) ==
  LET r == created + 1 IN
  /\ Goto(s, {"idle"}, "copying")
  /\ created < MaxReleases
  /\ created' = r
  /\ tree' = [tree EXCEPT ![r] = "partial"]
  /\ arg' = [arg EXCEPT ![s] = r]
  /\ UNCHANGED <<file, link, tmp, clock, mem, activeID, doomed, history>>

CopyReleaseDir(s) ==
  /\ Goto(s, {"copying"}, "recording")
  /\ tree' = [tree EXCEPT ![arg[s]] = "whole"]
  /\ UNCHANGED <<file, link, tmp, clock, created, arg, mem, activeID, doomed, history>>

\* Variant: the error of the copy is not looked at.
CopyFailsUnnoticed(s) ==
  /\ Goto(s, {"copying"}, "recording")
  /\ "write" \in Faults
  /\ UNCHANGED <<disk, clock, created, arg, mem, activeID, doomed, history>>

\* What has been copied stays.
CopyFails(s) ==
  /\ Goto(s, {"copying"}, "idle")
  /\ "write" \in Faults
  /\ UNCHANGED <<disk, clock, created, arg, mem, activeID, doomed, history>>

Recorded(s) ==
  LET rec == [state |-> "created", off |-> 0] IN
  /\ Goto(s, {"recording"}, "idle")
  /\ file' = [file EXCEPT ![arg[s]] = rec]
  /\ mem' = [mem EXCEPT ![s][arg[s]] = rec]
  /\ UNCHANGED <<tree, link, tmp, clock, created, arg, activeID, doomed, history>>

\* The metadata cannot be saved: the copy is removed.
RecordFails(s) ==
  /\ Goto(s, {"recording"}, "idle")
  /\ "write" \in Faults
  /\ file' \in {file, [file EXCEPT ![arg[s]] = Torn]}
  /\ tree' = [tree EXCEPT ![arg[s]] = "none"]
  /\ UNCHANGED <<link, tmp, clock, created, arg, mem, activeID, doomed, history>>

\* Switcher.Deploy: a hook, an extension or the probe turns the release it has
\* just created down.
Reject(s) ==
  /\ Goto(s, {"idle"}, "rejecting")
  /\ arg[s] \in Known(s)
  /\ mem[s][arg[s]].state = "created"
  /\ mem' = [mem EXCEPT ![s][arg[s]].state = "failed"]
  /\ UNCHANGED <<disk, clock, created, arg, activeID, doomed, history>>

Rejected(s) ==
  /\ Goto(s, {"rejecting"}, "idle")
  /\ Save(arg[s], mem[s][arg[s]])
  /\ UNCHANGED <<tree, link, tmp, clock, created, arg, mem, activeID, doomed, history>>

-----------------------------------------------------------------------------
(* Activate *)

\* The active release is marked stopped first.
Replaces(s) ==
  /\ Goto(s, {"idle"}, "stopping")
  /\ activeID[s] \in Known(s)
  /\ clock < MaxStamp
  /\ clock' = clock + 1
  /\ mem' = [mem EXCEPT ![s][activeID[s]] = [state |-> "stopped", off |-> clock + 1]]

ReplacesNothing(s, r) ==
  /\ Goto(s, {"idle"}, "clearing")
  /\ activeID[s] \notin Known(s)
  /\ mem' = [mem EXCEPT ![s][r] = [state |-> "active", off |-> 0]]
  /\ UNCHANGED clock

Activate(s, r) ==
  /\ r \in Known(s)
  /\ mem[s][r].state # "active"
  /\ Replaces(s) \/ ReplacesNothing(s, r)
  /\ arg' = [arg EXCEPT ![s] = r]
  /\ UNCHANGED <<disk, created, activeID, doomed, history>>

\* Variant: only the memory says that the old release has stopped.
StoppedUnsaved(s) ==
  /\ Goto(s, {"stopping"}, "clearing")
  /\ mem' = [mem EXCEPT ![s][arg[s]] = [state |-> "active", off |-> 0]]
  /\ UNCHANGED <<disk, clock, created, arg, activeID, doomed, history>>

\* The error of this write is ignored.
Stopped(s) ==
  /\ Goto(s, {"stopping"}, "clearing")
  /\ Save(activeID[s], mem[s][activeID[s]])
  /\ mem' = [mem EXCEPT ![s][arg[s]] = [state |-> "active", off |-> 0]]
  /\ UNCHANGED <<tree, link, tmp, clock, created, arg, activeID, doomed, history>>

\* Variant: a link that an interrupted activation left behind stays.
KeepTmp(s) ==
  /\ Goto(s, {"clearing"}, "unlinking")
  /\ UNCHANGED <<disk, clock, created, arg, mem, activeID, doomed, history>>

ClearTmp(s) ==
  /\ Goto(s, {"clearing"}, "unlinking")
  /\ tmp' = None
  /\ UNCHANGED <<tree, file, link, clock, created, arg, mem, activeID, doomed, history>>

\* The Folder that Init made is empty, so that it can be removed like a link.
RemoveLink(s) ==
  /\ Goto(s, {"unlinking"}, "linking")
  /\ link' = None
  /\ UNCHANGED <<tree, file, tmp, clock, created, arg, mem, activeID, doomed, history>>

SymlinkTmp(s) ==
  /\ Goto(s, {"linking"}, "swapping")
  /\ tmp = None
  /\ tmp' = arg[s]
  /\ UNCHANGED <<tree, file, link, clock, created, arg, mem, activeID, doomed, history>>

Fails(s) == mem' = [mem EXCEPT ![s][arg[s]].state = "failed"]

SymlinkFails(s) ==
  /\ Goto(s, {"linking"}, "idle")
  /\ tmp # None \/ "link" \in Faults
  /\ Fails(s)
  /\ LosesLink
  /\ UNCHANGED <<disk, clock, created, arg, activeID, doomed, served>>

\* The release becomes the first of those served; the ones that were before it
\* move back by a place.
ServedNow(now) ==
  [r \in Releases |->
     IF r = now THEN 1
     ELSE IF served[r] # 0 /\ (served[now] = 0 \/ served[r] < served[now])
          THEN served[r] + 1
     ELSE served[r]]

\* Whatever active.tmp is by now becomes "active".
RenameTmp(s) ==
  /\ Goto(s, {"swapping"}, "committing")
  /\ tmp # None
  /\ link # Folder
  /\ link' = tmp
  /\ tmp' = None
  /\ served' = ServedNow(tmp)
  /\ UNCHANGED <<tree, file, clock, created, arg, mem, activeID, doomed, past>>

\* A link does not replace a directory.
RenameFails(s) ==
  /\ Goto(s, {"swapping"}, "discarding")
  /\ tmp = None \/ link = Folder \/ "link" \in Faults
  /\ LosesLink
  /\ UNCHANGED <<disk, clock, created, arg, mem, activeID, doomed, served>>

DiscardTmp(s) ==
  /\ Goto(s, {"discarding"}, "idle")
  /\ tmp' = None
  /\ Fails(s)
  /\ UNCHANGED <<tree, file, link, clock, created, arg, activeID, doomed, history>>

\* Variant: the manager goes on naming the release it replaced.
CommitStale(s) ==
  /\ Goto(s, {"committing"}, "idle")
  /\ Save(arg[s], mem[s][arg[s]])
  /\ UNCHANGED <<tree, link, tmp, clock, created, arg, mem, activeID, doomed, history>>

\* The error of this write is ignored too.
Commit(s) ==
  /\ Goto(s, {"committing"}, "idle")
  /\ activeID' = [activeID EXCEPT ![s] = arg[s]]
  /\ Save(arg[s], mem[s][arg[s]])
  /\ UNCHANGED <<tree, link, tmp, clock, created, arg, mem, doomed, history>>

-----------------------------------------------------------------------------
(* Rollback: activate the release deactivated last. *)

Candidates(s) == {r \in Known(s) \ {activeID[s]} : mem[s][r].off # 0}

\* Variant: the release created last.
PreviousByAge(s, r) ==
  /\ r \in Candidates(s)
  /\ \A q \in Candidates(s) : q <= r

\* DeactivatedAt.After: the latest of them.
Previous(s, r) ==
  /\ r \in Candidates(s)
  /\ \A q \in Candidates(s) : mem[s][q].off <= mem[s][r].off

Rollback(s) ==
  /\ activeID[s] # None
  /\ \E r \in Releases : Previous(s, r) /\ Activate(s, r)

-----------------------------------------------------------------------------
(* Deactivate and Archive *)

Deactivate(s) ==
  LET r == activeID[s] IN
  /\ Goto(s, {"idle"}, "retracting")
  /\ r \in Known(s)
  /\ clock < MaxStamp
  /\ clock' = clock + 1
  /\ mem' = [mem EXCEPT ![s][r] = [state |-> "stopped", off |-> clock + 1]]
  /\ activeID' = [activeID EXCEPT ![s] = None]
  /\ arg' = [arg EXCEPT ![s] = r]
  /\ LosesLink
  /\ UNCHANGED <<disk, created, doomed, served>>

Retract(s) ==
  /\ Goto(s, {"retracting"}, "retracted")
  /\ link' = None
  /\ UNCHANGED <<tree, file, tmp, clock, created, arg, mem, activeID, doomed, history>>

Retracted(s) ==
  /\ Goto(s, {"retracted"}, "idle")
  /\ Save(arg[s], mem[s][arg[s]])
  /\ UNCHANGED <<tree, link, tmp, clock, created, arg, mem, activeID, doomed, history>>

Removable(s) == {r \in Known(s) : mem[s][r].state \in {"stopped", "failed"}}

\* All but the newest "keep".
Archive(s, keep) ==
  LET kept(r) == Cardinality({q \in Removable(s) : q > r}) < keep IN
  /\ Goto(s, {"idle"}, "pruning")
  /\ doomed' = [doomed EXCEPT ![s] = {r \in Removable(s) : ~kept(r)}]
  /\ doomed'[s] # {}
  /\ past' = past \cup {"archive"}
  /\ UNCHANGED <<disk, clock, created, arg, mem, activeID, served>>

\* The oldest first: its directory, then its file.
RemoveAll(s) ==
  /\ Goto(s, {"pruning"}, "forgetting")
  /\ \E r \in doomed[s] :
       /\ \A q \in doomed[s] : r <= q
       /\ tree' = [tree EXCEPT ![r] = "none"]
       /\ arg' = [arg EXCEPT ![s] = r]
  /\ UNCHANGED <<file, link, tmp, clock, created, mem, activeID, doomed, history>>

Forget(s) ==
  /\ Goto(s, {"forgetting"}, IF doomed[s] = {arg[s]} THEN "idle" ELSE "pruning")
  /\ file' = [file EXCEPT ![arg[s]] = NoRecord]
  /\ mem' = [mem EXCEPT ![s][arg[s]] = NoRecord]
  /\ doomed' = [doomed EXCEPT ![s] = @ \ {arg[s]}]
  /\ UNCHANGED <<tree, link, tmp, clock, created, arg, activeID, history>>

-----------------------------------------------------------------------------
\* The file a session is writing.
Writing(s) ==
  CASE pc[s] = "stopping" -> {activeID[s]}
    [] pc[s] \in {"recording", "rejecting", "committing", "retracted"} -> {arg[s]}
    [] OTHER -> {}

\* The process of a session dies, perhaps in the middle of a write.
Crash(s) ==
  /\ "crash" \in Faults
  /\ Goto(s, Steps, "closed")
  /\ \/ UNCHANGED file
     \/ \E r \in Writing(s) : file' = [file EXCEPT ![r] = Torn]
  /\ Forgotten(s)
  /\ past' = past \cup {"adrift"}
  /\ UNCHANGED <<tree, link, tmp, clock, created, served>>

\* What the CLI and the dashboard do.
Wired(s) ==
  \/ Open(s) \/ OpenDangling(s) \/ Discard(s)
  \/ BeginCreate(s) \/ Rollback(s)
  \/ \E r \in Releases : Activate(s, r)

\* What only a program that uses the package can ask for.
Library(s) ==
  \/ Reject(s) \/ Deactivate(s)
  \/ \E keep \in Keeps : Archive(s, keep)

Step(s) ==
  \/ LoadReleases(s)
  \/ CopyReleaseDir(s) \/ CopyFails(s) \/ Recorded(s) \/ RecordFails(s) \/ Rejected(s)
  \/ Stopped(s) \/ ClearTmp(s) \/ RemoveLink(s)
  \/ SymlinkTmp(s) \/ SymlinkFails(s) \/ RenameTmp(s) \/ RenameFails(s) \/ DiscardTmp(s)
  \/ Commit(s)
  \/ Retract(s) \/ Retracted(s)
  \/ RemoveAll(s) \/ Forget(s)

Next ==
  /\ \E s \in Sessions : Wired(s) \/ Library(s) \/ Step(s) \/ Crash(s)
  /\ UNCHANGED relative

Spec == Init /\ [][Next]_vars

WiredNext ==
  /\ \E s \in Sessions : Wired(s) \/ Step(s) \/ Crash(s)
  /\ UNCHANGED relative

WiredSpec == Init /\ [][WiredNext]_vars
-----------------------------------------------------------------------------
(* Properties *)

\* The files never name two active releases, so that a manager opened after a
\* crash anywhere (Activate, Deactivate, loadReleases) knows which one was
\* active.  (One session at a time, writes that succeed, and until Archive or a
\* relative directory leaves a link that leads nowhere: a manager opened over it
\* knows of no release, and what it activates does not stop the one that was active.)
OneActive ==
  past \cap {"archive", "blind"} = {} =>
    \A r, q \in Releases : file[r].state = "active" /\ file[q].state = "active" => r = q

\* The manager names an active release.
Serving(s) == activeID[s] \in Known(s) /\ mem[s][activeID[s]].state = "active"

\* Between operations the link, the files and the manager agree: what a manager
\* calls active is what the link names, what its file says and is still there, a
\* relative directory and failed activations included.  If a manager calls
\* nothing active, nothing is linked and no file says active; or, with a relative
\* directory, it was opened over a link it could not follow, which goes on naming
\* the release that was activated last (Activate, Deactivate, Archive, Init).
\* (One session at a time, writes that succeed, and until a session is interrupted,
\* or the link is taken away after a manager was opened blind: what it replaced
\* without knowing comes back.)
Published ==
  "adrift" \notin past =>
    \A s \in Sessions : pc[s] = "idle" =>
      IF Serving(s)
      THEN link = activeID[s] /\ tree[link] # "none" /\ file[link].state = "active"
      ELSE \/ "blind" \in past /\ relative /\ link \in Releases /\ served[link] = 1
           \/ link \notin Releases /\ \A r \in Releases : file[r].state # "active"

\* What an interrupted activation leaves behind is no obstacle to the next: the
\* temporary name is free when it is linked, and "active" is not a directory
\* when it is replaced (Activate).  (One session at a time, any number of crashes.)
SwapReady ==
  \A s \in Sessions :
    /\ pc[s] = "linking" => tmp = None
    /\ pc[s] = "swapping" => tmp = arg[s] /\ link = None

\* What a rollback may go back to: of the releases served, those that are still
\* there, but for the present one, one that could not be activated again and, to
\* a manager opened blind, those it does not know.
Restorable(s) ==
  {r \in Releases \ {activeID[s]} :
     /\ served[r] # 0
     /\ tree[r] # "none"
     /\ mem[s][r].state # "failed"
     /\ "blind" \in past => r \in Known(s)}

\* Rollback goes to the release that was served before the present one, of those
\* there are to go back to, whatever was activated, deactivated, rolled back and
\* archived, activations that failed and a relative directory included
\* (findPreviousReleaseID).  (As Published.)
RollbackRestores ==
  [][\A s \in Sessions : "adrift" \notin past /\ Rollback(s) =>
       /\ arg'[s] \in Restorable(s)
       /\ \A r \in Restorable(s) : served[arg'[s]] <= served[r]]_vars

\* Whatever fails, and whatever another session does meanwhile, "active" links
\* only to a release that was copied whole and recorded.  (Under WiredSpec:
\* Archive looks at its own memory, not at the link.)
ServedWhole == link \in Releases => tree[link] = "whole" /\ file[link] # NoRecord

\* A served release gives way to another in one step, or is deactivated.
\* (src/README.md:46, src/TODO.md:350)
AtomicActivation ==
  [][(link \in Releases /\ link' \notin Releases) => \E s \in Sessions : pc[s] = "retracting"]_vars

\* However an operation was interrupted, what was activated last is still served
\* and a manager opened afterwards knows it as the active release.
\* (src/TODO.md:382; under WiredSpec, where nothing is deactivated, and with an
\* absolute directory.)
NoBrokenActive ==
  \A s \in Sessions :
    ~relative /\ pc[s] = "idle" /\ (\E r \in Releases : served[r] # 0) => Resolves /\ activeID[s] = link

\* A release that has been activated is known as the active one to every manager
\* opened afterwards, which is what rollback needs.  (src/README.md:46)
ActiveKnown ==
  \A s \in Sessions : pc[s] = "idle" /\ link \in Releases => activeID[s] = link
=============================================================================
