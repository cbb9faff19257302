------------------------ MODULE ReleaseManagerProofs ------------------------
(***************************************************************************)
(* Proofs about ReleaseManager.                                            *)
(*                                                                         *)
(* Until something is archived, whatever number of sessions there is and   *)
(* whatever fails: a release that a session knows, or that a link names,   *)
(* was copied whole and recorded. ServedWhole follows. With one session    *)
(* nothing an interrupted activation leaves is in the way of the next;     *)
(* and if no write fails, the files name at most one active release,       *)
(* until a manager is opened over a link it cannot follow.                 *)
(*                                                                         *)
(* With one session that is not interrupted, archiving, failed activations *)
(* and a relative directory included: Agree says at every step how the     *)
(* link, the files and the memory differ, and that the later a release was *)
(* deactivated the later it was served. Published and RollbackRestores     *)
(* follow.                                                                 *)
(***************************************************************************)
EXTENDS ReleaseManager, TLAPS

Whole(r) == tree[r] = "whole" /\ file[r] # NoRecord

Creating == {"copying", "recording"}
Using == {"stopping", "clearing", "unlinking", "linking", "swapping", "discarding",
          "committing", "retracting", "retracted", "rejecting"}

Typed ==
  /\ pc \in [Sessions -> Idle \cup Steps]
  /\ arg \in [Sessions -> Releases \cup {None}]
  /\ activeID \in [Sessions -> Releases \cup {None}]
  /\ mem \in [Sessions -> [Releases -> Record \cup {NoRecord}]]
  /\ file \in [Releases -> Record \cup {NoRecord, Torn}]
  /\ tree \in [Releases -> {"none", "partial", "whole"}]
  /\ link \in Releases \cup {None, Folder}
  /\ tmp \in Releases \cup {None}
  /\ clock \in 0..MaxStamp
  /\ created \in 0..MaxReleases

\* What an operation under way is about.
Staged ==
  \A s \in Sessions :
    /\ pc[s] \notin {"pruning", "forgetting"}
    /\ pc[s] \in Using => arg[s] \in Known(s)
    /\ pc[s] = "stopping" => activeID[s] \in Known(s)
    /\ pc[s] \in Creating => arg[s] \in Releases /\ arg[s] <= created /\ file[arg[s]] = NoRecord
    /\ pc[s] = "recording" => tree[arg[s]] = "whole"

\* No two sessions create the same release.
Apart ==
  \A s, t \in Sessions :
    s # t /\ pc[s] \in Creating /\ pc[t] \in Creating => arg[s] # arg[t]

Unborn     == \A r \in Releases : created < r => file[r] = NoRecord
Stored     == \A r \in Releases : file[r] \notin {NoRecord, Torn} => tree[r] = "whole"
Remembered == \A s \in Sessions : \A r \in Known(s) : Whole(r)
Linked     == \A r \in Releases \cap {link, tmp} : Whole(r)

Sound == Typed /\ Staged /\ Apart /\ Unborn /\ Stored /\ Remembered /\ Linked

IInv == "archive" \notin past => Sound

-----------------------------------------------------------------------------
\* Records.
LEMMA Records ==
  /\ NoRecord \notin Record /\ Torn \notin Record /\ Torn # NoRecord
  /\ \A x \in Lifecycle, n \in 0..MaxStamp : [state |-> x, off |-> n] \in Record
  /\ \A rec \in Record \cup {NoRecord} : \A x \in Lifecycle :
       [rec EXCEPT !.state = x] # NoRecord /\ [rec EXCEPT !.state = x].state = x
  /\ \A rec \in Record : \A x \in Lifecycle : [rec EXCEPT !.state = x] \in Record
  /\ NoRecord.state = "none" /\ Torn.state = "torn"
  /\ \A rec \in Record : rec.state \in Lifecycle
  /\ 0 \in 0..MaxStamp
BY ReleaseAssumption DEF Record, NoRecord, Torn, Lifecycle

\* A record that is written is one.
LEMMA Written ==
  ASSUME NEW x \in Lifecycle, NEW n, NEW rec, rec = [state |-> x, off |-> n]
  PROVE  rec # NoRecord /\ rec.state = x
BY DEF NoRecord, Lifecycle

\* The record of a release that is deactivated.
LEMMA Stamps ==
  ASSUME Typed, clock < MaxStamp, NEW rec, rec = [state |-> "stopped", off |-> clock + 1]
  PROVE  rec \in Record /\ rec # NoRecord /\ clock + 1 \in 0..MaxStamp
<1>1. clock + 1 \in 0..MaxStamp
  BY ReleaseAssumption DEF Typed
<1>2. QED
  BY <1>1 DEF Record, NoRecord, Lifecycle

\* A known release fails: it stays known.
LEMMA Failing ==
  ASSUME Typed, NEW s \in Sessions, arg[s] \in Known(s), Fails(s)
  PROVE  \E rec \in Record : rec # NoRecord /\ rec.state = "failed" /\ mem' = [mem EXCEPT ![s][arg[s]] = rec]
<1>1. PICK rec : rec = [mem[s][arg[s]] EXCEPT !.state = "failed"]
  BY Zenon
<1>2. mem' = [mem EXCEPT ![s][arg[s]] = rec]
  BY <1>1, Zenon DEF Fails
<1>3. mem[s][arg[s]] \in Record
  BY DEF Typed, Known
<1>4. rec \in Record /\ rec.state = "failed"
  BY <1>1, <1>3 DEF Record, Lifecycle
<1>5. rec # NoRecord
  BY <1>4, Records
<1>6. QED
  BY <1>2, <1>4, <1>5

LEMMA Starts == Init => Sound
<1> SUFFICES ASSUME Init PROVE Sound
  OBVIOUS
<1> USE DEF Init
<1>1. Typed
  BY ReleaseAssumption, Records DEF Typed, Idle, Nothing, None
<1>2. Staged /\ Apart /\ Unborn /\ Stored /\ Remembered /\ Linked
  BY DEF Staged, Apart, Unborn, Stored, Remembered, Linked, Known, Nothing, Using, Creating, Releases, None
<1>3. QED
  BY <1>1, <1>2 DEF Sound

\* Opening a manager.
LEMMA Opens ==
  ASSUME Sound, NEW s \in Sessions, OpenDangling(s) \/ Open(s) \/ LoadReleases(s) \/ Discard(s)
  PROVE  Sound'
<1> USE DEF Sound, Typed, Staged, Apart, Unborn, Stored, Remembered, Linked, Known, Whole,
            Goto, Idle, Steps, Using, Creating, disk, history
<1>1. CASE OpenDangling(s)
  BY <1>1 DEF OpenDangling
<1>2. CASE Open(s)
  BY <1>2 DEF Open, None, Folder, Releases
<1>3. CASE LoadReleases(s)
  BY <1>3, Records DEF LoadReleases, None
<1>4. CASE Discard(s)
  BY <1>4, Records DEF Discard, Forgotten, Nothing
<1>5. QED
  BY <1>1, <1>2, <1>3, <1>4

\* Creating a release: it becomes whole, then recorded, then known.
LEMMA Creates ==
  ASSUME Sound, NEW s \in Sessions,
         BeginCreate(s) \/ CopyReleaseDir(s) \/ CopyFails(s) \/ Recorded(s) \/ RecordFails(s)
  PROVE  Sound'
<1> USE DEF Sound, Typed, Staged, Apart, Unborn, Stored, Remembered, Linked, Known, Whole,
            Goto, Idle, Steps, Using, Creating, disk, history
<1>1. CASE BeginCreate(s)
  BY <1>1, ReleaseAssumption DEF BeginCreate, Releases, None
<1>2. CASE CopyReleaseDir(s)
  BY <1>2 DEF CopyReleaseDir
<1>3. CASE CopyFails(s)
  BY <1>3 DEF CopyFails
<1>4. CASE Recorded(s)
  <2>1. PICK rec : rec = [state |-> "created", off |-> 0]
    OBVIOUS
  <2>2. rec \in Record /\ rec # NoRecord /\ rec # Torn
    BY <2>1, Records DEF Lifecycle
  <2>3. /\ file' = [file EXCEPT ![arg[s]] = rec]
        /\ mem' = [mem EXCEPT ![s][arg[s]] = rec]
        /\ pc[s] = "recording" /\ pc' = [pc EXCEPT ![s] = "idle"]
        /\ UNCHANGED <<tree, link, tmp, clock, created, arg, activeID>>
    BY <1>4, <2>1, Zenon DEF Recorded
  <2>4. arg[s] \in Releases /\ arg[s] <= created /\ file[arg[s]] = NoRecord /\ tree[arg[s]] = "whole"
    BY <2>3
  <2>5. \A r \in Releases : Whole(r) => Whole(r)'
    BY <2>2, <2>3
  <2>6. \A t \in Sessions : Known(t) \subseteq Known(t)' /\ Known(t)' \subseteq Known(t) \cup {arg[s]}
    BY <2>2, <2>3, <2>4
  <2>7. Whole(arg[s])'
    BY <2>2, <2>3, <2>4
  <2>8. Typed'
    BY <2>2, <2>3, <2>4
  <2>9. Staged'
    BY <2>2, <2>3, <2>4, <2>6
  <2>10. Apart' /\ Unborn' /\ Stored'
    <3>1. Apart'
      BY <2>3
    <3>2. Unborn'
      BY <2>3, <2>4, ReleaseAssumption DEF Releases
    <3>3. Stored'
      BY <2>3, <2>4
    <3>4. QED
      BY <3>1, <3>2, <3>3
  <2>11. Remembered' /\ Linked'
    <3> HIDE DEF Whole
    <3>1. QED
      BY <2>3, <2>5, <2>6, <2>7
  <2>12. QED
    BY <2>8, <2>9, <2>10, <2>11 DEF Sound
<1>5. CASE RecordFails(s)
  <2>1. PICK x \in {NoRecord, Torn} : file' = [file EXCEPT ![arg[s]] = x]
    BY <1>5 DEF RecordFails
  <2>2. /\ tree' = [tree EXCEPT ![arg[s]] = "none"]
        /\ pc[s] = "recording" /\ pc' = [pc EXCEPT ![s] = "idle"]
        /\ UNCHANGED <<link, tmp, clock, created, arg, mem, activeID>>
    BY <1>5 DEF RecordFails
  <2>3. arg[s] \in Releases /\ arg[s] <= created /\ file[arg[s]] = NoRecord
    BY <2>2
  <2>4. \A r \in Releases : Whole(r) => Whole(r)'
    BY <2>1, <2>2, <2>3
  <2>5. Typed'
    BY <2>1, <2>2, <2>3
  <2>6. Staged'
    BY <2>1, <2>2, <2>3, Records
  <2>7. Apart' /\ Unborn' /\ Stored'
    <3>1. Apart'
      BY <2>2
    <3>2. Unborn'
      BY <2>1, <2>2, <2>3, ReleaseAssumption DEF Releases
    <3>3. Stored'
      BY <2>1, <2>2, <2>3
    <3>4. QED
      BY <3>1, <3>2, <3>3
  <2>8. Remembered' /\ Linked'
    BY <2>2, <2>4
  <2>9. QED
    BY <2>5, <2>6, <2>7, <2>8
<1>6. QED
  BY <1>1, <1>2, <1>3, <1>4, <1>5

\* A known release is saved: what its file was does not matter.
LEMMA Saves ==
  ASSUME Sound, NEW s \in Sessions, NEW r \in Known(s), Save(r, mem[s][r])
  PROVE  /\ file' \in [Releases -> Record \cup {NoRecord, Torn}]
         /\ \A q \in Releases : file[q] = NoRecord <=> file'[q] = NoRecord
         /\ \A q \in Releases : file'[q] \notin {NoRecord, Torn} => tree[q] = "whole"
<1>1. Whole(r) /\ mem[s][r] \in Record /\ r \in Releases
  BY DEF Sound, Typed, Remembered, Known
<1>2. CASE UNCHANGED file
  BY <1>2 DEF Sound, Typed, Stored
<1>3. ASSUME NEW x \in Record \cup {Torn}, file' = [file EXCEPT ![r] = x]
      PROVE  /\ file' \in [Releases -> Record \cup {NoRecord, Torn}]
             /\ \A q \in Releases : file[q] = NoRecord <=> file'[q] = NoRecord
             /\ \A q \in Releases : file'[q] \notin {NoRecord, Torn} => tree[q] = "whole"
  BY <1>1, <1>3, Records DEF Sound, Typed, Stored, Whole
<1>4. QED
  BY <1>1, <1>2, <1>3 DEF Save

\* Asking for an activation, a deactivation, a rejection.
LEMMA Asks ==
  ASSUME Sound, NEW s \in Sessions,
         Reject(s) \/ Rollback(s) \/ Deactivate(s) \/ \E r \in Releases : Activate(s, r)
  PROVE  Sound'
<1> USE DEF Sound, Typed, Staged, Apart, Unborn, Stored, Remembered, Linked, Known, Whole,
            Goto, Idle, Steps, Using, Creating, disk, history
<1>1. CASE Reject(s)
  <2>0. arg[s] \in Known(s) /\ Fails(s)
    BY <1>1 DEF Reject, Fails
  <2>1. PICK rec \in Record : rec # NoRecord /\ mem' = [mem EXCEPT ![s][arg[s]] = rec]
    BY <2>0, Failing, Zenon
  <2>2. /\ pc[s] = "idle" /\ pc' = [pc EXCEPT ![s] = "rejecting"]
        /\ arg[s] \in Known(s)
        /\ UNCHANGED <<disk, clock, created, arg, activeID>>
    BY <1>1 DEF Reject
  <2>3. QED
    BY <2>1, <2>2
<1>2. ASSUME NEW r \in Releases, Activate(s, r) PROVE Sound'
  <2>1. CASE Replaces(s)
    <3>1. PICK rec : rec = [state |-> "stopped", off |-> clock + 1]
      OBVIOUS
    <3>2. rec \in Record /\ rec # NoRecord /\ clock + 1 \in 0..MaxStamp
      BY <2>1, <3>1, Stamps DEF Replaces
    <3>3. QED
      BY <1>2, <2>1, <3>1, <3>2 DEF Activate, Replaces
  <2>2. CASE ReplacesNothing(s, r)
    <3>1. PICK rec : rec = [state |-> "active", off |-> 0]
      OBVIOUS
    <3>2. rec \in Record /\ rec # NoRecord
      BY <3>1, Records DEF Lifecycle
    <3>3. QED
      BY <1>2, <2>2, <3>1, <3>2 DEF Activate, ReplacesNothing
  <2>3. QED
    BY <1>2, <2>1, <2>2 DEF Activate
<1>3. CASE Rollback(s)
  BY <1>2, <1>3 DEF Rollback
<1>4. CASE Deactivate(s)
  <2>1. PICK rec : rec = [state |-> "stopped", off |-> clock + 1]
    OBVIOUS
  <2>2. rec \in Record /\ rec # NoRecord /\ clock + 1 \in 0..MaxStamp
    BY <1>4, <2>1, Stamps DEF Deactivate
  <2>3. QED
    BY <1>4, <2>1, <2>2 DEF Deactivate
<1>5. QED
  BY <1>1, <1>2, <1>3, <1>4

\* The steps of an activation and a deactivation.
LEMMA Swaps ==
  ASSUME Sound, NEW s \in Sessions,
         \/ Stopped(s) \/ ClearTmp(s) \/ RemoveLink(s) \/ SymlinkTmp(s) \/ SymlinkFails(s)
         \/ RenameTmp(s) \/ RenameFails(s) \/ DiscardTmp(s) \/ Commit(s)
         \/ Retract(s) \/ Retracted(s) \/ Rejected(s)
  PROVE  Sound'
<1> USE DEF Sound, Typed, Staged, Apart, Unborn, Stored, Remembered, Linked, Known, Whole,
            Goto, Idle, Steps, Using, Creating, disk, history
<1>1. CASE Stopped(s)
  <2>1. PICK rec : rec = [state |-> "active", off |-> 0]
    OBVIOUS
  <2>2. rec \in Record /\ rec # NoRecord
    BY <2>1, Records DEF Lifecycle
  <2>3. /\ file' \in [Releases -> Record \cup {NoRecord, Torn}]
        /\ \A q \in Releases : file[q] = NoRecord <=> file'[q] = NoRecord
        /\ \A q \in Releases : file'[q] \notin {NoRecord, Torn} => tree[q] = "whole"
    BY <1>1, Saves DEF Stopped
  <2>4. QED
    BY <1>1, <2>1, <2>2, <2>3 DEF Stopped
<1>2. CASE ClearTmp(s)
  BY <1>2 DEF ClearTmp, None, Releases
<1>3. CASE RemoveLink(s)
  BY <1>3 DEF RemoveLink, None, Releases
<1>4. CASE SymlinkTmp(s)
  BY <1>4 DEF SymlinkTmp
<1>5. ASSUME Fails(s), pc[s] \in Using
      PROVE  \E rec \in Record : rec # NoRecord /\ mem' = [mem EXCEPT ![s][arg[s]] = rec]
  BY <1>5, Failing
<1>6. CASE SymlinkFails(s)
  <2>1. PICK rec \in Record : rec # NoRecord /\ mem' = [mem EXCEPT ![s][arg[s]] = rec]
    BY <1>5, <1>6 DEF SymlinkFails
  <2>2. QED
    BY <1>6, <2>1 DEF SymlinkFails
<1>7. CASE RenameTmp(s)
  BY <1>7 DEF RenameTmp, None, Releases
<1>8. CASE RenameFails(s)
  BY <1>8 DEF RenameFails
<1>9. CASE DiscardTmp(s)
  <2>1. PICK rec \in Record : rec # NoRecord /\ mem' = [mem EXCEPT ![s][arg[s]] = rec]
    BY <1>5, <1>9 DEF DiscardTmp
  <2>2. QED
    BY <1>9, <2>1 DEF DiscardTmp, None, Releases
<1>10. ASSUME Save(arg[s], mem[s][arg[s]]), pc[s] \in Using
       PROVE  /\ file' \in [Releases -> Record \cup {NoRecord, Torn}]
              /\ \A q \in Releases : file[q] = NoRecord <=> file'[q] = NoRecord
              /\ \A q \in Releases : file'[q] \notin {NoRecord, Torn} => tree[q] = "whole"
  BY <1>10, Saves
<1>11. CASE Commit(s)
  BY <1>10, <1>11 DEF Commit
<1>12. CASE Retract(s)
  BY <1>12 DEF Retract, None, Releases
<1>13. CASE Retracted(s)
  BY <1>10, <1>13 DEF Retracted
<1>14. CASE Rejected(s)
  BY <1>10, <1>14 DEF Rejected
<1>15. QED
  BY <1>1, <1>2, <1>3, <1>4, <1>6, <1>7, <1>8, <1>9, <1>11, <1>12, <1>13, <1>14

\* A session dies, in the middle of a write of a file of its own or of a known release.
LEMMA Dies ==
  ASSUME Sound, NEW s \in Sessions, Crash(s)
  PROVE  Sound'
<1> USE DEF Sound, Typed, Staged, Apart, Unborn, Stored, Remembered, Linked, Known, Whole,
            Goto, Idle, Steps, Using, Creating
<1>1. CASE UNCHANGED file
  BY <1>1, Records DEF Crash, Forgotten, Nothing
<1>2. ASSUME NEW r \in Writing(s), file' = [file EXCEPT ![r] = Torn] PROVE Sound'
  <2>1. /\ pc' = [pc EXCEPT ![s] = "closed"]
        /\ arg' = [arg EXCEPT ![s] = None]
        /\ mem' = [mem EXCEPT ![s] = Nothing]
        /\ activeID' = [activeID EXCEPT ![s] = None]
        /\ UNCHANGED <<tree, link, tmp, clock, created>>
    BY DEF Crash, Forgotten
  <2>2. \/ r \in Known(s)
        \/ r = arg[s] /\ pc[s] = "recording"
    BY <1>2 DEF Writing
  <2>3. r \in Releases /\ r <= created /\ \A t \in Sessions \ {s} : pc[t] \in Creating => arg[t] # r
    BY <2>2 DEF Releases
  <2>4. \A q \in Releases : Whole(q) => Whole(q)'
    BY <1>2, <2>1, Records
  <2>5. \A t \in Sessions : Known(t)' = IF t = s THEN {} ELSE Known(t)
    BY <2>1 DEF Nothing
  <2>6. Typed'
    BY <1>2, <2>1, Records DEF Nothing
  <2>7. Staged'
    BY <1>2, <2>1, <2>3, <2>5
  <2>8. Apart' /\ Unborn' /\ Stored'
    <3>1. Apart'
      BY <2>1
    <3>2. Unborn'
      BY <1>2, <2>1, <2>3, ReleaseAssumption DEF Releases
    <3>3. Stored'
      BY <1>2, <2>1, Records
    <3>4. QED
      BY <3>1, <3>2, <3>3
  <2>9. Remembered' /\ Linked'
    <3> HIDE DEF Whole
    <3>1. QED
      BY <2>1, <2>4, <2>5
  <2>10. QED
    BY <2>6, <2>7, <2>8, <2>9
<1>3. QED
  BY <1>1, <1>2 DEF Crash

LEMMA StepsKeepPast ==
  ASSUME NEW s, Step(s)
  PROVE  past' \in {past, past \cup {"adrift"}}
BY DEF Step, LoadReleases, CopyReleaseDir, CopyFails, Recorded, RecordFails, Rejected, Stopped,
       ClearTmp, RemoveLink, SymlinkTmp, SymlinkFails, RenameTmp, RenameFails, DiscardTmp, Commit,
       Retract, Retracted, RemoveAll, Forget, history, LosesLink

\* What has happened has happened.
LEMMA PastGrows ==
  ASSUME [Next]_vars
  PROVE  past \subseteq past'
<1> SUFFICES ASSUME Next PROVE past \subseteq past'
  BY DEF vars, history
<1> PICK s \in Sessions : Wired(s) \/ Library(s) \/ Step(s) \/ Crash(s)
  BY DEF Next
<1>1. CASE Wired(s)
  BY <1>1 DEF Wired, Open, OpenDangling, Discard, BeginCreate, Rollback, Activate, history
<1>2. CASE Library(s)
  BY <1>2 DEF Library, Reject, Deactivate, Archive, history, LosesLink
<1>3. CASE Step(s)
  BY <1>3, StepsKeepPast
<1>4. CASE Crash(s)
  BY <1>4 DEF Crash
<1>5. QED
  BY <1>1, <1>2, <1>3, <1>4

\* What sessions know, and what links name, stays whole and recorded until something is archived.
THEOREM Inductive == Spec => []IInv
<1>1. Init => IInv
  BY Starts DEF IInv
<1>2. IInv /\ [Next]_vars => IInv'
  <2> SUFFICES ASSUME Sound, [Next]_vars, "archive" \notin past' PROVE Sound'
    <3>1. past \subseteq past' \/ ~[Next]_vars
      BY PastGrows
    <3>2. QED
      BY <3>1 DEF IInv
  <2>1. ASSUME NEW s \in Sessions, Wired(s) PROVE Sound'
    BY <2>1, Opens, Creates, Asks DEF Wired
  <2>2. ASSUME NEW s \in Sessions, Library(s) PROVE Sound'
    <3>1. ~ \E keep \in Keeps : Archive(s, keep)
      BY DEF Archive
    <3>2. QED
      BY <2>2, <3>1, Asks DEF Library
  <2>3. ASSUME NEW s \in Sessions, Step(s) PROVE Sound'
    <3>1. ~RemoveAll(s) /\ ~Forget(s)
      BY DEF RemoveAll, Forget, Goto, Sound, Staged
    <3>2. QED
      BY <2>3, <3>1, Opens, Creates, Swaps DEF Step
  <2>4. ASSUME NEW s \in Sessions, Crash(s) PROVE Sound'
    BY <2>4, Dies
  <2>5. CASE UNCHANGED vars
    BY <2>5 DEF vars, disk, session, Sound, Typed, Staged, Apart, Unborn, Stored, Remembered, Linked, Known, Whole
  <2>6. QED
    BY <2>1, <2>2, <2>3, <2>4, <2>5 DEF Next
<1>3. QED
  BY <1>1, <1>2, PTL DEF Spec

\* Nothing is archived by what the commands and the dashboard call.
LEMMA NeverArchived == WiredSpec => []("archive" \notin past)
<1>1. Init => "archive" \notin past
  BY DEF Init
<1>2. "archive" \notin past /\ [WiredNext]_vars
        => ("archive" \notin past)'
  <2> SUFFICES ASSUME "archive" \notin past, [WiredNext]_vars
               PROVE  "archive" \notin past'
    OBVIOUS
  <2>1. ASSUME NEW s \in Sessions, Wired(s) PROVE past' \in {past, past \cup {"blind"}}
    BY <2>1 DEF Wired, Open, OpenDangling, Discard, BeginCreate, Rollback, Activate, history
  <2>2. ASSUME NEW s \in Sessions, Step(s) PROVE past' \in {past, past \cup {"adrift"}}
    BY <2>2, StepsKeepPast
  <2>3. ASSUME NEW s \in Sessions, Crash(s) PROVE past' = past \cup {"adrift"}
    BY <2>3 DEF Crash
  <2>4. QED
    BY <2>1, <2>2, <2>3 DEF WiredNext, vars, history
<1>3. QED
  BY <1>1, <1>2, PTL DEF WiredSpec

LEMMA WiredIsSpec == WiredSpec => Spec
<1>1. [WiredNext]_vars => [Next]_vars
  BY DEF Next, WiredNext
<1>2. QED
  BY <1>1, PTL DEF WiredSpec, Spec

\* Whatever fails, and whatever other sessions do meanwhile, "active" links only to a release
\* that was copied whole and recorded: for any number of commands and requests at once.
THEOREM ServedWholeHolds == WiredSpec => []ServedWhole
<1>1. IInv /\ "archive" \notin past => ServedWhole
  BY DEF IInv, Sound, Linked, Whole, ServedWhole
<1>2. QED
  BY <1>1, Inductive, NeverArchived, WiredIsSpec, PTL

-----------------------------------------------------------------------------
(* One session at a time. *)

Cleared ==
  /\ pc \in [Sessions -> Idle \cup Steps]
  /\ \A s \in Sessions :
       /\ pc[s] \in {"unlinking", "linking"} => tmp = None
       /\ pc[s] \in {"linking", "swapping"} => link = None
       /\ pc[s] = "swapping" => tmp = arg[s]

LEMMA ClearedHolds ==
  ASSUME NEW one, Sessions = {one}
  PROVE  Spec => []Cleared
<1>1. Init => Cleared
  BY DEF Init, Cleared, Idle
<1>2. Cleared /\ [Next]_vars => Cleared'
  <2> SUFFICES ASSUME Cleared, [Next]_vars PROVE Cleared'
    OBVIOUS
  <2> USE DEF Cleared, Goto, Idle, Steps, disk, history
  <2>1. ASSUME NEW s \in Sessions, Wired(s) PROVE Cleared'
    <3>1. CASE Open(s) \/ OpenDangling(s) \/ Discard(s)
      BY <3>1 DEF Open, OpenDangling, Discard, Forgotten
    <3>2. CASE BeginCreate(s)
      BY <3>2 DEF BeginCreate
    <3>3. ASSUME NEW r \in Releases, Activate(s, r) PROVE Cleared'
      BY <3>3 DEF Activate, Replaces, ReplacesNothing
    <3>4. QED
      BY <2>1, <3>1, <3>2, <3>3 DEF Wired, Rollback
  <2>2. ASSUME NEW s \in Sessions, Library(s) PROVE Cleared'
    BY <2>2 DEF Library, Reject, Deactivate, Archive
  <2>3. ASSUME NEW s \in Sessions, Step(s) PROVE Cleared'
    <3>1. CASE LoadReleases(s) \/ CopyReleaseDir(s) \/ CopyFails(s) \/ Recorded(s) \/ RecordFails(s) \/ Rejected(s)
      BY <3>1 DEF LoadReleases, CopyReleaseDir, CopyFails, Recorded, RecordFails, Rejected
    <3>2. CASE Stopped(s) \/ ClearTmp(s) \/ RemoveLink(s)
      BY <3>2 DEF Stopped, ClearTmp, RemoveLink
    <3>3. CASE SymlinkTmp(s) \/ SymlinkFails(s)
      BY <3>3 DEF SymlinkTmp, SymlinkFails
    <3>4. CASE RenameTmp(s) \/ RenameFails(s) \/ DiscardTmp(s)
      BY <3>4 DEF RenameTmp, RenameFails, DiscardTmp
    <3>5. CASE Commit(s) \/ Retract(s) \/ Retracted(s)
      BY <3>5 DEF Commit, Retract, Retracted
    <3>6. CASE RemoveAll(s) \/ Forget(s)
      BY <3>6 DEF RemoveAll, Forget
    <3>7. QED
      BY <2>3, <3>1, <3>2, <3>3, <3>4, <3>5, <3>6 DEF Step
  <2>4. ASSUME NEW s \in Sessions, Crash(s) PROVE Cleared'
    BY <2>4 DEF Crash, Forgotten
  <2>5. CASE UNCHANGED vars
    BY <2>5 DEF vars, session
  <2>6. QED
    BY <2>1, <2>2, <2>3, <2>4, <2>5 DEF Next
<1>3. QED
  BY <1>1, <1>2, PTL DEF Spec

\* An interrupted activation is no obstacle to the next, whatever fails and however often.
THEOREM SwapReadyHolds ==
  ASSUME NEW one, Sessions = {one}
  PROVE  Spec => []SwapReady
<1>1. Cleared => SwapReady
  BY DEF Cleared, SwapReady
<1>2. QED
  BY <1>1, ClearedHolds, PTL

\* What the file of an active release says of the session: it is the one the manager names or
\* is about to retract, and there is none while another takes its place.
Named(s) ==
  /\ pc[s] \in {"closed", "loading"} =>
       \A r, q \in Releases : file[r].state = "active" /\ file[q].state = "active" => r = q
  /\ pc[s] \notin {"closed", "loading"} => activeID[s] = None \/ activeID[s] \in Known(s)
  /\ pc[s] \notin {"closed", "loading", "retracting", "retracted"} =>
       \A r \in Releases : file[r].state = "active" => r = activeID[s]
  /\ pc[s] \in {"retracting", "retracted"} =>
       /\ \A r \in Releases : file[r].state = "active" => r = arg[s]
       /\ mem[s][arg[s]].state = "stopped"
  /\ pc[s] \in {"clearing", "unlinking", "linking", "swapping", "discarding", "committing"} =>
       \A r \in Releases : file[r].state # "active"
  /\ pc[s] = "stopping" => mem[s][activeID[s]].state = "stopped"
  /\ pc[s] = "rejecting" => mem[s][arg[s]].state = "failed"

LEMMA NamedKept ==
  ASSUME NEW s, Sessions = {s}, "write" \notin Faults,
         Sound, Sound', Named(s), Wired(s) \/ Library(s) \/ Step(s) \/ Crash(s),
         "archive" \notin past', "blind" \notin past'
  PROVE  Named(s)'
<1> USE DEF Named, Goto, Idle, Steps, disk, history, Known
<1>1. ~OpenDangling(s)
  BY DEF OpenDangling
<1>2. CASE Open(s)
  BY <1>2 DEF Open, Sound, Typed
<1>3. CASE LoadReleases(s)
  BY <1>3, Records DEF LoadReleases, Sound, Typed, None, Releases
<1>4. CASE Discard(s)
  BY <1>4 DEF Discard, Forgotten, Sound, Typed
<1> USE DEF Sound, Typed, Staged
<1>5. CASE BeginCreate(s) \/ CopyReleaseDir(s)
  BY <1>5 DEF BeginCreate, CopyReleaseDir, Using, Creating
<1>6. ~CopyFails(s) /\ ~RecordFails(s)
  BY DEF CopyFails, RecordFails
<1>7. ASSUME NEW r \in Releases, NEW rec, rec.state # "active", file' = [file EXCEPT ![r] = rec]
      PROVE  \A q \in Releases : file'[q].state = "active" => file[q].state = "active" /\ q # r
  BY <1>7
<1>8. CASE Recorded(s)
  <2>1. PICK rec : rec = [state |-> "created", off |-> 0]
    OBVIOUS
  <2>2. rec # NoRecord /\ rec.state # "active"
    <3>1. "created" \in Lifecycle
      BY DEF Lifecycle
    <3>2. rec # NoRecord /\ rec.state = "created"
      BY <2>1, <3>1, Written, Zenon
    <3>3. QED
      BY <3>2
  <2>3. /\ file' = [file EXCEPT ![arg[s]] = rec]
        /\ mem' = [mem EXCEPT ![s][arg[s]] = rec]
        /\ pc[s] = "recording" /\ pc' = [pc EXCEPT ![s] = "idle"]
        /\ UNCHANGED activeID
    BY <1>8, <2>1, Zenon DEF Recorded
  <2>4. arg[s] \in Releases
    BY <2>3 DEF Creating
  <2>5. \A q \in Releases : file'[q].state = "active" => q = activeID[s]
    BY <1>7, <2>2, <2>3, <2>4
  <2>6. \A q \in Known(s) : q \in Known(s)'
    BY <2>2, <2>3
  <2>7. QED
    BY <2>3, <2>5, <2>6
<1>9. CASE Reject(s)
  <2>0. arg[s] \in Known(s) /\ Fails(s)
    BY <1>9 DEF Reject, Fails
  <2>1. PICK rec \in Record : rec # NoRecord /\ rec.state = "failed" /\ mem' = [mem EXCEPT ![s][arg[s]] = rec]
    BY <2>0, Failing, Zenon
  <2>2. /\ pc[s] = "idle" /\ pc' = [pc EXCEPT ![s] = "rejecting"]
        /\ arg[s] \in Known(s)
        /\ UNCHANGED <<file, arg, activeID>>
    BY <1>9 DEF Reject
  <2>3. QED
    BY <2>1, <2>2
<1>10. CASE Rejected(s)
  <2>1. file' = [file EXCEPT ![arg[s]] = mem[s][arg[s]]] /\ mem[s][arg[s]].state = "failed"
    BY <1>10 DEF Rejected, Save
  <2>2. arg[s] \in Releases
    BY <1>10 DEF Rejected, Using
  <2>3. \A q \in Releases : file'[q].state = "active" => q = activeID[s]
    BY <1>7, <1>10, <2>1, <2>2 DEF Rejected
  <2>4. QED
    BY <1>10, <2>3 DEF Rejected
<1>11. ASSUME NEW r \in Releases, Activate(s, r) PROVE Named(s)'
  <2>1. CASE Replaces(s)
    <3>1. PICK rec : rec = [state |-> "stopped", off |-> clock + 1]
      OBVIOUS
    <3>2. rec \in Record /\ rec # NoRecord /\ rec.state = "stopped"
      BY <2>1, <3>1, Stamps DEF Replaces
    <3>3. QED
      BY <1>11, <2>1, <3>1, <3>2 DEF Activate, Replaces
  <2>2. CASE ReplacesNothing(s, r)
    <3>1. PICK rec : rec = [state |-> "active", off |-> 0]
      OBVIOUS
    <3>2. rec # NoRecord
      BY <3>1, Written, Zenon DEF Lifecycle
    <3>3. activeID[s] = None
      BY <2>2 DEF ReplacesNothing
    <3>4. \A q \in Releases : file[q].state # "active"
      BY <2>2, <3>3 DEF ReplacesNothing, None, Releases
    <3>5. QED
      BY <1>11, <2>2, <3>1, <3>2, <3>3, <3>4 DEF Activate, ReplacesNothing
  <2>3. QED
    BY <1>11, <2>1, <2>2 DEF Activate
<1>12. CASE Deactivate(s)
  <2>1. PICK rec : rec = [state |-> "stopped", off |-> clock + 1]
    OBVIOUS
  <2>2. rec \in Record /\ rec # NoRecord /\ rec.state = "stopped"
    BY <1>12, <2>1, Stamps DEF Deactivate
  <2>3. QED
    BY <1>12, <2>1, <2>2 DEF Deactivate
<1>13. CASE Stopped(s)
  <2>1. PICK rec : rec = [state |-> "active", off |-> 0]
    OBVIOUS
  <2>2. rec # NoRecord
    BY <2>1, Written, Zenon DEF Lifecycle
  <2>3. /\ file' = [file EXCEPT ![activeID[s]] = mem[s][activeID[s]]]
        /\ mem[s][activeID[s]].state = "stopped"
        /\ activeID[s] \in Known(s) /\ arg[s] \in Known(s)
    BY <1>13 DEF Stopped, Save, Using
  <2>4. \A q \in Releases : file'[q].state # "active"
    BY <1>7, <1>13, <2>3 DEF Stopped
  <2>5. QED
    BY <1>13, <2>1, <2>2, <2>3, <2>4 DEF Stopped
<1>14. CASE ClearTmp(s) \/ RemoveLink(s) \/ SymlinkTmp(s)
  BY <1>14 DEF ClearTmp, RemoveLink, SymlinkTmp
<1>15. ASSUME Fails(s), arg[s] \in Known(s) PROVE \A q \in Known(s) : q \in Known(s)'
  <2>1. PICK rec \in Record : rec # NoRecord /\ mem' = [mem EXCEPT ![s][arg[s]] = rec]
    BY <1>15, Failing
  <2>2. QED
    BY <2>1
<1>16. CASE SymlinkFails(s) \/ DiscardTmp(s)
  <2>1. arg[s] \in Known(s) /\ Fails(s)
    BY <1>16 DEF SymlinkFails, DiscardTmp, Using
  <2>2. /\ \A q \in Releases : file[q].state # "active"
        /\ activeID[s] = None \/ activeID[s] \in Known(s)
        /\ pc' = [pc EXCEPT ![s] = "idle"]
        /\ UNCHANGED <<file, activeID>>
    BY <1>16 DEF SymlinkFails, DiscardTmp
  <2>3. QED
    BY <1>15, <2>1, <2>2
<1>17. CASE RenameTmp(s) \/ RenameFails(s)
  BY <1>17 DEF RenameTmp, RenameFails
<1>18. CASE Commit(s)
  <2>1. file' = [file EXCEPT ![arg[s]] = mem[s][arg[s]]] /\ arg[s] \in Known(s)
    BY <1>18 DEF Commit, Save, Using
  <2>2. \A q \in Releases : file'[q].state = "active" => q = arg[s]
    BY <1>18, <2>1 DEF Commit
  <2>3. QED
    BY <1>18, <2>1, <2>2 DEF Commit
<1>19. CASE Retract(s)
  BY <1>19 DEF Retract
<1>20. CASE Retracted(s)
  <2>1. /\ file' = [file EXCEPT ![arg[s]] = mem[s][arg[s]]]
        /\ mem[s][arg[s]].state = "stopped"
        /\ arg[s] \in Known(s)
    BY <1>20 DEF Retracted, Save, Using
  <2>2. \A q \in Releases : file'[q].state # "active"
    BY <1>7, <1>20, <2>1 DEF Retracted
  <2>3. QED
    BY <1>20, <2>2 DEF Retracted
<1>21. CASE Crash(s)
  <2>1. pc' = [pc EXCEPT ![s] = "closed"]
    BY <1>21 DEF Crash
  <2>2. \A q \in Releases : file'[q].state = "active" => file[q].state = "active"
    BY <1>21, Records DEF Crash
  <2>3. \A r, q \in Releases : file[r].state = "active" /\ file[q].state = "active" => r = q
    OBVIOUS
  <2>4. QED
    BY <2>1, <2>2, <2>3
<1>22. ~RemoveAll(s) /\ ~Forget(s) /\ ~ \E keep \in Keeps : Archive(s, keep)
  BY DEF RemoveAll, Forget, Archive
<1>23. QED
  BY <1>1, <1>2, <1>3, <1>4, <1>5, <1>6, <1>8, <1>9, <1>10, <1>11, <1>12, <1>13, <1>14, <1>16, <1>17,
     <1>18, <1>19, <1>20, <1>21, <1>22 DEF Wired, Library, Step, Rollback

\* The files never name two active releases, wherever a session crashes.
THEOREM OneActiveHolds ==
  ASSUME NEW one, Sessions = {one}, "write" \notin Faults
  PROVE  Spec => []OneActive
<1> DEFINE J == past \cap {"archive", "blind"} = {} => Named(one)
<1>1. Init => J
  BY Records DEF Init, Named, Nothing
<1>2. IInv /\ IInv' /\ J /\ [Next]_vars => J'
  <2> SUFFICES ASSUME IInv, IInv', J, [Next]_vars, past' \cap {"archive", "blind"} = {}
               PROVE  Named(one)'
    OBVIOUS
  <2>1. past \cap {"archive", "blind"} = {}
    BY PastGrows
  <2>2. Sound /\ Sound' /\ Named(one)
    BY <2>1 DEF IInv
  <2>3. CASE Next
    BY <2>2, <2>3, NamedKept DEF Next
  <2>4. CASE UNCHANGED vars
    BY <2>2, <2>4 DEF vars, disk, session, Named, Known
  <2>5. QED
    BY <2>3, <2>4
<1>3. IInv /\ J => OneActive
  <2> SUFFICES ASSUME IInv, J, past \cap {"archive", "blind"} = {} PROVE OneActive
    BY DEF OneActive
  <2>1. Sound /\ Named(one)
    BY DEF IInv
  <2>2. QED
    BY <2>1 DEF Named, OneActive, Sound, Typed, Idle, Steps
<1>4. QED
  BY <1>1, <1>2, <1>3, Inductive, PTL DEF Spec

-----------------------------------------------------------------------------
(* One session at a time, none interrupted, and no link lost behind its back. *)

Quietly   == {"closed", "loading", "idle", "copying", "recording", "rejecting", "pruning", "forgetting"}
Opened    == Quietly \ {"closed", "loading"}
Replacing == {"clearing", "unlinking", "linking", "swapping", "discarding", "committing"}
Retracting == {"retracting", "retracted"}

Blind == "blind" \in past

\* A release that a manager opened blind does not know.
Unknown(s, r) == Blind /\ mem[s][r] = NoRecord

Kinds ==
  /\ Typed
  /\ doomed \in [Sessions -> SUBSET Releases]
  /\ served \in [Releases -> Nat]

\* What the directory is, whatever the session is doing.
Disk ==
  /\ \A r \in Releases : created < r => file[r] = NoRecord /\ served[r] = 0
  /\ link \in Releases => tree[link] # "none" /\ served[link] = 1
  /\ \A r \in Releases : file[r] # Torn /\ file[r].off \in 0..clock
  /\ \A r \in Releases : file[r].off # 0 => served[r] # 0 /\ file[r].state = "stopped"
  /\ \A r, q \in Releases : served[r] = served[q] /\ served[r] # 0 => r = q

\* The releases served are those that were deactivated, the later the nearer,
\* the present one, those that Archive has removed, and those not known.
Ordered(s) ==
  /\ \A r \in Releases : served[r] # 0 =>
       \/ tree[r] = "none"
       \/ file[r].off # 0
       \/ r = link
       \/ pc[s] = "retracted" /\ r = arg[s]
       \/ Unknown(s, r)
  /\ \A r, q \in Releases :
       /\ file[r].off # 0 /\ file[q].off # 0 /\ served[r] < served[q]
       /\ pc[s] = "committing" => arg[s] \notin {r, q}
       => file[r].off > file[q].off

\* A manager is opened blind only over a link, and the link stays when no
\* operation is under way.
Sight(s) ==
  /\ Blind => relative
  /\ Blind /\ pc[s] \in Quietly => link \in Releases /\ pc[s] # "loading"
  /\ pc[s] \in Retracting \cup {"discarding"} => ~Blind

\* Which release the link leads to.
Link(s) ==
  /\ pc[s] \in Quietly => \A r \in Releases :
       /\ link = r => file[r].state = "active"
       /\ file[r].state = "active" => link = r \/ Unknown(s, r)
  /\ pc[s] \in Opened /\ link \in Releases =>
       IF activeID[s] = None THEN Unknown(s, link)
       ELSE link = activeID[s] /\ mem[s][link] # NoRecord
  /\ pc[s] = "stopping" =>
       /\ activeID[s] \in Releases
       /\ link \in Releases => link = activeID[s]
       /\ \A r \in Releases : file[r].state = "active" => r = activeID[s] \/ Unknown(s, r)
  /\ pc[s] \in Replacing => \A r \in Releases : file[r].state = "active" => Unknown(s, r)
  /\ pc[s] \in {"clearing", "unlinking"} /\ link \in Releases =>
       file[link].off # 0 \/ Unknown(s, link)
  /\ pc[s] \in {"linking", "swapping", "discarding"} => link \notin Releases
  /\ pc[s] = "committing" => link = arg[s]
  /\ pc[s] = "retracting" => link = arg[s] \/ link \notin Releases
  /\ pc[s] = "retracted" => link = None
  /\ pc[s] \in Retracting =>
       /\ activeID[s] = None /\ served[arg[s]] = 1
       /\ \A r \in Releases : file[r].state = "active" => r = arg[s]

\* The release that the manager names was the last that was served.
Latest(s) ==
  /\ pc[s] \in {"closed", "loading"} => activeID[s] = None
  /\ pc[s] # "committing" /\ activeID[s] # None => served[activeID[s]] = 1

\* What the memory says of a release is what its file says, or that it could not
\* be activated, of which the file says nothing.
Kept(s, r) ==
  \/ mem[s][r] = file[r]
  \/ Unknown(s, r)
  \/ /\ mem[s][r].state = "failed" /\ mem[s][r].off = 0
     /\ file[r].state \in {"created", "stopped", "failed"}

\* The memory is kept so but for the release that is being changed.
Memory(s) ==
  /\ pc[s] \in {"closed", "loading"} => mem[s] = Nothing
  /\ pc[s] \in {"idle", "copying", "recording", "pruning", "forgetting"} =>
       \A r \in Releases : Kept(s, r)
  /\ pc[s] = "stopping" =>
       /\ \A r \in Releases \ {activeID[s]} : Kept(s, r)
       /\ mem[s][activeID[s]] = [state |-> "stopped", off |-> clock]
       /\ \A r \in Releases : file[r].off < clock
  /\ pc[s] \in Replacing \cup Retracting \cup {"rejecting"} =>
       \A r \in Releases \ {arg[s]} : Kept(s, r)
  /\ pc[s] \in Replacing => mem[s][arg[s]] = [state |-> "active", off |-> 0]
  /\ pc[s] \in Retracting =>
       /\ mem[s][arg[s]] = [state |-> "stopped", off |-> clock]
       /\ \A r \in Releases : file[r].off < clock
  /\ pc[s] = "rejecting" =>
       /\ mem[s][arg[s]].off = file[arg[s]].off
       /\ mem[s][arg[s]].state = "failed"
       /\ file[arg[s]].state = "created"

\* What the operation under way is about.
About(s) ==
  /\ pc[s] \in Creating =>
       /\ arg[s] \in Releases /\ arg[s] <= created
       /\ file[arg[s]] = NoRecord /\ served[arg[s]] = 0
  /\ pc[s] = "recording" => tree[arg[s]] # "none"
  /\ pc[s] \in Using => arg[s] \in Known(s) /\ file[arg[s]] # NoRecord
  /\ pc[s] = "stopping" => activeID[s] \in Known(s) /\ file[activeID[s]] # NoRecord
  /\ pc[s] \in {"pruning", "forgetting"} =>
       \A r \in doomed[s] : r \in Releases /\ mem[s][r].state \in {"stopped", "failed"}
  /\ pc[s] = "forgetting" => arg[s] \in doomed[s] /\ tree[arg[s]] = "none"
  /\ \A r \in Releases : file[r] # NoRecord /\ tree[r] = "none" => pc[s] = "forgetting" /\ r = arg[s]

Agree(s) ==
  /\ Kinds /\ Disk /\ Ordered(s) /\ Sight(s) /\ Link(s) /\ Latest(s)
  /\ Memory(s) /\ About(s)

-----------------------------------------------------------------------------
\* The records an operation makes.
Made(rec, x, n) ==
  /\ rec = [state |-> x, off |-> n]
  /\ rec \in Record /\ rec # NoRecord /\ rec # Torn
  /\ rec.state = x /\ rec.off = n

LEMMA NewRecords ==
  ASSUME NEW x \in Lifecycle, NEW n \in 0..MaxStamp
  PROVE  \E rec : Made(rec, x, n)
<1>1. PICK rec : rec = [state |-> x, off |-> n]
  OBVIOUS
<1>2. rec \in Record /\ rec.state = x /\ rec.off = n
  BY <1>1 DEF Record
<1>3. rec # NoRecord /\ rec # Torn
  BY <1>2 DEF NoRecord, Torn, Lifecycle
<1>4. Made(rec, x, n)
  BY <1>1, <1>2, <1>3 DEF Made
<1>5. QED
  BY <1>4

LEMMA CreatedOrActive ==
  /\ \E rec : Made(rec, "created", 0)
  /\ \E rec : Made(rec, "active", 0)
<1>1. "created" \in Lifecycle /\ "active" \in Lifecycle /\ 0 \in 0..MaxStamp
  BY ReleaseAssumption DEF Lifecycle
<1>2. QED
  BY <1>1, NewRecords

LEMMA StoppedNow ==
  ASSUME Kinds
  PROVE  \E rec : Made(rec, "stopped", clock)
<1>1. "stopped" \in Lifecycle /\ clock \in 0..MaxStamp
  BY DEF Lifecycle, Kinds, Typed
<1>2. QED
  BY <1>1, NewRecords

LEMMA AgreeStarts == ASSUME NEW s, Sessions = {s}, Init PROVE Agree(s)
<1> USE DEF Init
<1>1. Kinds
  BY ReleaseAssumption, Records DEF Kinds, Typed, Idle, Nothing, None
<1>2. \A r \in Releases : file[r] = NoRecord /\ NoRecord.off = 0 /\ NoRecord.state = "none"
  BY DEF Nothing, NoRecord
<1>3. None \notin Releases
  BY DEF None, Releases
<1>4. Disk
  BY <1>2, <1>3, Records DEF Disk
<1>5. Ordered(s) /\ Link(s) /\ Memory(s) /\ About(s)
  BY <1>2, <1>3 DEF Ordered, Link, Memory, About, Known, Quietly, Opened, Replacing, Retracting, Creating, Using
<1>6. Sight(s) /\ Latest(s)
  BY DEF Sight, Latest, Blind, Retracting
<1>7. QED
  BY <1>1, <1>4, <1>5, <1>6 DEF Agree

LEMMA AgreeOpens ==
  ASSUME NEW s, Sessions = {s}, Agree(s), UNCHANGED relative,
         OpenDangling(s) \/ Open(s) \/ LoadReleases(s) \/ Discard(s)
  PROVE  Agree(s)'
<1> USE DEF Agree, Kinds, Typed, Disk, Ordered, Sight, Link, Latest, Kept, Memory, About, Blind, Unknown,
            Known, Goto, Idle, Steps, Quietly, Opened, Replacing, Retracting, Creating, Using, disk, history
<1>0. NoRecord.off = 0 /\ NoRecord.state = "none" /\ None \notin Releases
  BY DEF NoRecord, None, Releases
<1>1. CASE OpenDangling(s)
  BY <1>0, <1>1 DEF OpenDangling, Resolves, Nothing
<1>2. CASE Open(s)
  BY <1>0, <1>2 DEF Open, Resolves, None, Folder, Releases
<1>3. CASE LoadReleases(s)
  <2>1. /\ pc[s] = "loading" /\ pc' = [pc EXCEPT ![s] = "idle"]
        /\ mem' = [mem EXCEPT ![s] = file]
        /\ UNCHANGED <<tree, file, link, tmp, clock, created, arg, doomed, served, past>>
        /\ ~Blind
    <3>1. [r \in Releases |-> IF file[r] = Torn THEN NoRecord ELSE file[r]] = file
      OBVIOUS
    <3>2. QED
      BY <1>3, <3>1 DEF LoadReleases
  <2>2. activeID' = [activeID EXCEPT ![s] = IF link \in Releases THEN link ELSE None]
    <3> DEFINE active == {r \in Releases : file[r].state = "active"}
    <3>0. \E r \in IF active = {} THEN {None} ELSE active : activeID' = [activeID EXCEPT ![s] = r]
      BY <1>3, Zenon DEF LoadReleases
    <3>1. \A r \in Releases : r \in active <=> r = link
      BY <2>1
    <3> HIDE DEF active
    <3>2. CASE link \in Releases
      <4>1. active = {link}
        BY <3>1, <3>2 DEF active
      <4>2. QED
        BY <3>0, <3>2, <4>1
    <3>3. CASE link \notin Releases
      <4>1. active = {}
        BY <3>1, <3>3 DEF active
      <4>2. QED
        BY <3>0, <3>3, <4>1
    <3>4. QED
      BY <3>2, <3>3
  <2>3. file \in [Releases -> Record \cup {NoRecord}]
    OBVIOUS
  <2>4. link \in Releases => file[link] # NoRecord
    BY <1>0, <2>1
  <2>5. QED
    BY <1>0, <2>1, <2>2, <2>3, <2>4
<1>4. CASE Discard(s)
  BY <1>0, <1>4, Records DEF Discard, Forgotten, Nothing
<1>5. QED
  BY <1>1, <1>2, <1>3, <1>4

LEMMA AgreeCreates ==
  ASSUME NEW s, Sessions = {s}, Agree(s), UNCHANGED relative, "write" \notin Faults,
         BeginCreate(s) \/ CopyReleaseDir(s) \/ CopyFails(s) \/ Recorded(s) \/ RecordFails(s)
  PROVE  Agree(s)'
<1> USE DEF Agree, Kinds, Typed, Disk, Ordered, Sight, Link, Latest, Kept, Memory, About, Blind, Unknown,
            Known, Goto, Idle, Steps, Quietly, Opened, Replacing, Retracting, Creating, Using, disk, history
<1>1. CASE BeginCreate(s)
  BY <1>1, ReleaseAssumption DEF BeginCreate, Releases, None
<1>2. CASE CopyReleaseDir(s)
  BY <1>2 DEF CopyReleaseDir
<1>3. ~CopyFails(s) /\ ~RecordFails(s)
  BY DEF CopyFails, RecordFails
<1>4. CASE Recorded(s)
  <2>1. PICK rec : Made(rec, "created", 0)
    BY CreatedOrActive, Zenon
  <2>2. /\ rec = [state |-> "created", off |-> 0]
        /\ rec \in Record /\ rec # NoRecord /\ rec # Torn
        /\ rec.state = "created" /\ rec.off = 0
    BY <2>1, Zenon DEF Made
  <2>3. /\ file' = [file EXCEPT ![arg[s]] = rec]
        /\ mem' = [mem EXCEPT ![s][arg[s]] = rec]
        /\ pc[s] = "recording" /\ pc' = [pc EXCEPT ![s] = "idle"]
        /\ UNCHANGED <<tree, link, tmp, clock, created, arg, activeID, doomed, served, past>>
    BY <1>4, <2>2, Zenon DEF Recorded, history
  <2>4. arg[s] \in Releases /\ arg[s] <= created /\ file[arg[s]] = NoRecord /\ tree[arg[s]] # "none"
    BY <2>3
  <2>5. Kinds'
    BY <2>2, <2>3, <2>4
  <2>6. Disk'
    <3>1. \A r \in Releases : created' < r => file'[r] = NoRecord /\ served'[r] = 0
      BY <2>3, <2>4, ReleaseAssumption DEF Releases
    <3>2. link' \in Releases => tree'[link'] # "none" /\ served'[link'] = 1
      BY <2>3
    <3>3. \A r \in Releases : file'[r] # Torn /\ file'[r].off \in 0..clock'
      BY <2>2, <2>3, <2>4
    <3>4. \A r \in Releases : file'[r].off # 0 => served'[r] # 0
      BY <2>2, <2>3, <2>4
    <3>5. QED
      BY <2>3, <3>1, <3>2, <3>3, <3>4
  <2>7. Ordered(s)'
    BY <2>2, <2>3, <2>4
  <2>8. Sight(s)' /\ Link(s)' /\ Latest(s)'
    BY <2>2, <2>3, <2>4
  <2>9. Memory(s)'
    BY <2>2, <2>3, <2>4
  <2>10. About(s)'
    BY <2>2, <2>3, <2>4
  <2>11. QED
    BY <2>5, <2>6, <2>7, <2>8, <2>9, <2>10
<1>5. QED
  BY <1>1, <1>2, <1>3, <1>4

LEMMA AgreeAsks ==
  ASSUME NEW s, Sessions = {s}, Agree(s), UNCHANGED relative, "adrift" \notin past',
         Reject(s) \/ Deactivate(s) \/ Rollback(s) \/ \E r \in Releases : Activate(s, r)
  PROVE  Agree(s)'
<1> USE DEF Agree, Kinds, Typed, Disk, Ordered, Sight, Link, Latest, Kept, Memory, About, Blind, Unknown,
            Known, Goto, Idle, Steps, Quietly, Opened, Replacing, Retracting, Creating, Using, disk, history
<1>0. None \notin Releases /\ NoRecord.state = "none" /\ NoRecord.off = 0
  BY DEF None, Releases, NoRecord
<1>1. CASE Reject(s)
  <2>1. /\ pc[s] = "idle" /\ pc' = [pc EXCEPT ![s] = "rejecting"]
        /\ arg[s] \in Releases /\ mem[s][arg[s]] = file[arg[s]]
        /\ file[arg[s]] # NoRecord /\ file[arg[s]].state = "created"
        /\ mem' = [mem EXCEPT ![s][arg[s]].state = "failed"]
        /\ UNCHANGED <<tree, file, link, tmp, clock, created, arg, activeID, doomed, served, past>>
    BY <1>0, <1>1 DEF Reject
  <2>2. PICK rec : rec = [mem[s][arg[s]] EXCEPT !.state = "failed"]
    BY Zenon
  <2>3. mem' = [mem EXCEPT ![s][arg[s]] = rec]
    BY <2>1, <2>2, Zenon
  <2>4. rec \in Record /\ rec.state = "failed" /\ rec.off = file[arg[s]].off
    <3>1. mem[s][arg[s]] \in Record
      BY <2>1
    <3>2. QED
      BY <2>1, <2>2, <3>1 DEF Record, Lifecycle
  <2>5. rec # NoRecord
    BY <1>0, <2>4
  <2>6. QED
    BY <2>1, <2>3, <2>4, <2>5
<1>2. ASSUME NEW r \in Releases, Activate(s, r) PROVE Agree(s)'
  <2>1. /\ r \in Known(s) /\ pc[s] = "idle" /\ mem[s][r].state # "active"
        /\ file[r] # NoRecord /\ file[r].state # "active"
        /\ UNCHANGED <<tree, file, link, tmp, created, activeID, doomed, served, past>>
        /\ arg' = [arg EXCEPT ![s] = r]
    BY <1>0, <1>2 DEF Activate, Replaces, ReplacesNothing
  <2>2. CASE Replaces(s)
    <3>1. PICK rec : rec = [state |-> "stopped", off |-> clock + 1]
      OBVIOUS
    <3>2. rec \in Record /\ rec # NoRecord /\ clock + 1 \in 0..MaxStamp
      BY <2>2, <3>1, Stamps DEF Replaces, Typed
    <3>3. /\ pc' = [pc EXCEPT ![s] = "stopping"]
          /\ clock' = clock + 1
          /\ mem' = [mem EXCEPT ![s][activeID[s]] = rec]
          /\ activeID[s] \in Known(s) /\ activeID[s] # None
          /\ link \in Releases => link = activeID[s]
      BY <1>0, <2>1, <2>2, <3>1 DEF Replaces
    <3>4. Kinds' /\ Disk'
      BY <2>1, <3>2, <3>3
    <3>5. Ordered(s)' /\ Sight(s)' /\ Link(s)' /\ Latest(s)'
      BY <2>1, <3>2, <3>3
    <3>6. Memory(s)'
      BY <2>1, <3>1, <3>2, <3>3
    <3>7. file[activeID[s]] # NoRecord
      <4>1. Kept(s, activeID[s]) /\ mem[s][activeID[s]] # NoRecord /\ activeID[s] \in Releases
        BY <2>1, <3>3
      <4>2. QED
        BY <1>0, <4>1
    <3>8. About(s)'
      <4>1. r \in Known(s)' /\ activeID[s] \in Known(s)'
        BY <2>1, <3>2, <3>3
      <4>2. QED
        BY <2>1, <3>3, <3>7, <4>1
    <3>9. QED
      BY <3>4, <3>5, <3>6, <3>8
  <2>3. CASE ReplacesNothing(s, r)
    <3>0. PICK rec : Made(rec, "active", 0)
      BY CreatedOrActive, Zenon
    <3>1. rec = [state |-> "active", off |-> 0]
      BY <3>0, Zenon DEF Made
    <3>2. rec \in Record /\ rec # NoRecord
      BY <3>0, Zenon DEF Made
    <3>3. /\ pc' = [pc EXCEPT ![s] = "clearing"]
          /\ mem' = [mem EXCEPT ![s][r] = rec]
          /\ clock' = clock
          /\ activeID[s] \notin Known(s)
      BY <2>3, <3>1 DEF ReplacesNothing
    <3>4. /\ link \in Releases => Unknown(s, link)
          /\ \A q \in Releases : file[q].state = "active" => Unknown(s, q)
      BY <1>0, <2>1, <3>3
    <3>5. Kinds' /\ Disk'
      BY <2>1, <3>2, <3>3
    <3>6. Ordered(s)' /\ Sight(s)' /\ Link(s)' /\ Latest(s)' /\ About(s)'
      BY <2>1, <3>2, <3>3, <3>4
    <3>7. Memory(s)'
      BY <2>1, <3>1, <3>3
    <3>8. QED
      BY <3>5, <3>6, <3>7
  <2>4. QED
    BY <1>2, <2>2, <2>3 DEF Activate
<1>3. CASE Rollback(s)
  BY <1>2, <1>3 DEF Rollback
<1>4. CASE Deactivate(s)
  <2>1. PICK rec : rec = [state |-> "stopped", off |-> clock + 1]
    OBVIOUS
  <2>2. rec \in Record /\ rec # NoRecord /\ clock + 1 \in 0..MaxStamp
    BY <1>4, <2>1, Stamps DEF Deactivate, Typed
  <2>3. /\ pc[s] = "idle" /\ pc' = [pc EXCEPT ![s] = "retracting"]
        /\ clock' = clock + 1
        /\ mem' = [mem EXCEPT ![s][activeID[s]] = rec]
        /\ activeID[s] \in Releases /\ served[activeID[s]] = 1 /\ ~Blind
        /\ link \in Releases => link = activeID[s]
        /\ file[activeID[s]] # NoRecord
        /\ activeID' = [activeID EXCEPT ![s] = None]
        /\ arg' = [arg EXCEPT ![s] = activeID[s]]
        /\ UNCHANGED <<tree, file, link, tmp, created, doomed, served, past>>
    BY <1>0, <1>4, <2>1 DEF Deactivate, LosesLink
  <2>4. Kinds' /\ Disk'
    BY <2>2, <2>3
  <2>5. Ordered(s)' /\ Sight(s)' /\ Link(s)' /\ Latest(s)' /\ About(s)'
    BY <2>2, <2>3
  <2>6. Memory(s)'
    BY <2>1, <2>3
  <2>7. QED
    BY <2>4, <2>5, <2>6
<1>5. QED
  BY <1>1, <1>2, <1>3, <1>4

\* The steps that do not touch the files.
LEMMA AgreeMoves ==
  ASSUME NEW s, Sessions = {s}, Agree(s), UNCHANGED relative, "adrift" \notin past', Cleared,
         \/ ClearTmp(s) \/ RemoveLink(s) \/ SymlinkTmp(s) \/ SymlinkFails(s)
         \/ RenameFails(s) \/ DiscardTmp(s) \/ Retract(s)
  PROVE  Agree(s)'
<1> USE DEF Agree, Kinds, Typed, Disk, Ordered, Sight, Link, Latest, Kept, Memory, About, Blind, Unknown,
            Known, Goto, Idle, Steps, Quietly, Opened, Replacing, Retracting, Creating, Using, disk, history
<1>0. None \notin Releases /\ Folder \notin Releases
  BY DEF None, Folder, Releases
<1>1. CASE ClearTmp(s)
  BY <1>1 DEF ClearTmp
<1>2. CASE RemoveLink(s)
  BY <1>0, <1>2 DEF RemoveLink
<1>3. CASE SymlinkTmp(s)
  BY <1>3 DEF SymlinkTmp, Cleared
<1>4. CASE SymlinkFails(s) \/ DiscardTmp(s)
  <2>1. /\ pc[s] \in {"linking", "discarding"} /\ pc' = [pc EXCEPT ![s] = "idle"]
        /\ link \notin Releases /\ ~Blind /\ past' = past
        /\ arg[s] \in Releases /\ file[arg[s]] # NoRecord /\ Fails(s)
        /\ tmp' \in Releases \cup {None}
        /\ UNCHANGED <<tree, file, link, clock, created, arg, activeID, doomed, served>>
    <3>1. CASE SymlinkFails(s)
      <4>1. ~Blind /\ past' = past
        BY <3>1 DEF SymlinkFails, LosesLink
      <4>2. QED
        BY <3>1, <4>1 DEF SymlinkFails
    <3>2. CASE DiscardTmp(s)
      BY <3>2 DEF DiscardTmp
    <3>3. QED
      BY <1>4, <3>1, <3>2
  <2>2. arg[s] \in Known(s)
    BY <2>1
  <2>3. PICK rec \in Record : rec # NoRecord /\ rec.state = "failed" /\ mem' = [mem EXCEPT ![s][arg[s]] = rec]
    BY <2>1, <2>2, Failing, Zenon
  <2>4. rec.off = 0
    BY <2>1, <2>3 DEF Fails
  <2>5. \A r \in Releases : file[r].state # "active"
    BY <2>1
  <2>6. file[arg[s]].state \in {"created", "stopped", "failed"}
    <3>1. file[arg[s]] \in Record
      BY <2>1
    <3>2. QED
      BY <2>1, <2>5, <3>1 DEF Record, Lifecycle
  <2>7. QED
    BY <1>0, <2>1, <2>3, <2>4, <2>5, <2>6
<1>5. CASE RenameFails(s)
  BY <1>0, <1>5 DEF RenameFails, LosesLink, Cleared
<1>6. CASE Retract(s)
  BY <1>0, <1>6 DEF Retract
<1>7. QED
  BY <1>1, <1>2, <1>3, <1>4, <1>5, <1>6

\* The release served now is the first; the others keep their order.
LEMMA ServedOrder ==
  ASSUME served \in [Releases -> Nat], NEW now \in Releases,
         \A r, q \in Releases : served[r] = served[q] /\ served[r] # 0 => r = q
  PROVE  /\ ServedNow(now) \in [Releases -> Nat] /\ ServedNow(now)[now] = 1
         /\ \A r \in Releases \ {now} : ServedNow(now)[r] = 0 <=> served[r] = 0
         /\ \A r, q \in Releases \ {now} :
              /\ ServedNow(now)[r] < ServedNow(now)[q] /\ served[r] # 0 => served[r] < served[q]
              /\ ServedNow(now)[r] = ServedNow(now)[q] => served[r] = served[q]
         /\ \A r \in Releases \ {now} : ServedNow(now)[r] # 1
BY DEF ServedNow

LEMMA AgreeSwaps ==
  ASSUME NEW s, Sessions = {s}, Agree(s), UNCHANGED relative, Cleared, RenameTmp(s)
  PROVE  Agree(s)'
<1> USE DEF Agree, Kinds, Typed, Disk, Ordered, Sight, Link, Latest, Kept, Memory, About, Blind, Unknown,
            Known, Goto, Idle, Steps, Quietly, Opened, Replacing, Retracting, Creating, Using, disk, history
<1>1. /\ pc[s] = "swapping" /\ pc' = [pc EXCEPT ![s] = "committing"]
      /\ link = None /\ tmp = arg[s] /\ link' = arg[s] /\ tmp' = None
      /\ arg[s] \in Releases /\ tree[arg[s]] # "none"
      /\ served' = ServedNow(arg[s])
      /\ UNCHANGED <<tree, file, clock, created, arg, mem, activeID, doomed, past>>
  BY DEF RenameTmp, Cleared
<1>2. /\ served' \in [Releases -> Nat] /\ served'[arg[s]] = 1
      /\ \A r \in Releases \ {arg[s]} : served'[r] = 0 <=> served[r] = 0
      /\ \A r, q \in Releases \ {arg[s]} :
           /\ served'[r] < served'[q] /\ served[r] # 0 => served[r] < served[q]
           /\ served'[r] = served'[q] => served[r] = served[q]
      /\ \A r \in Releases \ {arg[s]} : served'[r] # 1
  BY <1>1, ServedOrder
<1>3. None \notin Releases /\ created \in Nat /\ arg[s] <= created
  BY <1>1, ReleaseAssumption DEF None, Releases
<1>4. Kinds'
  BY <1>1, <1>2
<1>5. Disk'
  <2>1. \A r \in Releases : created < r => r # arg[s]
    BY <1>1, <1>3
  <2>2. QED
    BY <1>1, <1>2, <2>1
<1>6. Ordered(s)'
  BY <1>1, <1>2, <1>3
<1>7. Sight(s)' /\ Link(s)' /\ Latest(s)' /\ Memory(s)' /\ About(s)'
  BY <1>1
<1>8. QED
  BY <1>4, <1>5, <1>6, <1>7

\* The steps that save a record.
LEMMA AgreeSaves ==
  ASSUME NEW s, Sessions = {s}, Agree(s), UNCHANGED relative, "write" \notin Faults,
         Stopped(s) \/ Commit(s) \/ Retracted(s) \/ Rejected(s)
  PROVE  Agree(s)'
<1> USE DEF Agree, Kinds, Typed, Disk, Ordered, Sight, Link, Latest, Kept, Memory, About, Blind, Unknown,
            Known, Goto, Idle, Steps, Quietly, Opened, Replacing, Retracting, Creating, Using, disk, history
<1>0. None \notin Releases
  BY DEF None, Releases
<1>1. CASE Stopped(s)
  <2>01. PICK new : Made(new, "active", 0)
    BY CreatedOrActive, Zenon
  <2>02. PICK old : Made(old, "stopped", clock)
    BY StoppedNow, Zenon
  <2>1. new = [state |-> "active", off |-> 0]
    BY <2>01, Zenon DEF Made
  <2>2. old = [state |-> "stopped", off |-> clock]
    BY <2>02, Zenon DEF Made
  <2>3. new \in Record /\ new # NoRecord
    BY <2>01, Zenon DEF Made
  <2>4. /\ old \in Record /\ old # NoRecord /\ old # Torn
        /\ old.state = "stopped" /\ old.off = clock
    BY <2>02, Zenon DEF Made
  <2>5. /\ pc[s] = "stopping" /\ pc' = [pc EXCEPT ![s] = "clearing"]
        /\ link \in Releases => link = activeID[s]
        /\ activeID[s] \in Releases /\ served[activeID[s]] = 1
        /\ mem[s][activeID[s]] = old
        /\ arg[s] \in Releases
        /\ file' = [file EXCEPT ![activeID[s]] = old]
        /\ mem' = [mem EXCEPT ![s][arg[s]] = new]
        /\ UNCHANGED <<tree, link, tmp, clock, created, arg, activeID, doomed, served, past>>
    BY <1>0, <1>1, <2>1, <2>2 DEF Stopped, Save
  <2>6. \A r \in Releases : file[r].off \in Nat /\ file[r].off < clock
    BY <2>5
  <2>7. Kinds'
    BY <2>3, <2>4, <2>5
  <2>8. Disk'
    BY <2>4, <2>5
  <2>9. Ordered(s)'
    BY <2>4, <2>5, <2>6
  <2>10. Sight(s)' /\ Link(s)' /\ Latest(s)'
    BY <2>4, <2>5, <2>6
  <2>11. Memory(s)'
    BY <2>1, <2>4, <2>5
  <2>12. About(s)'
    <3>1. arg[s] \in Known(s)'
      BY <2>3, <2>5
    <3>2. \A r \in Releases \ {activeID[s]} : file'[r] = file[r]
      BY <2>5
    <3>3. tree[activeID[s]] # "none"
      BY <2>5
    <3>4. file'[arg[s]] # NoRecord
      BY <2>4, <2>5
    <3>5. QED
      BY <2>5, <3>1, <3>2, <3>3, <3>4
  <2>13. QED
    BY <2>7, <2>8, <2>9, <2>10, <2>11, <2>12
<1>2. CASE Commit(s)
  <2>0. PICK new : Made(new, "active", 0)
    BY CreatedOrActive, Zenon
  <2>1. new = [state |-> "active", off |-> 0]
    BY <2>0, Zenon DEF Made
  <2>2. /\ new \in Record /\ new # NoRecord /\ new # Torn
        /\ new.state = "active" /\ new.off = 0
    BY <2>0, Zenon DEF Made
  <2>3. /\ pc[s] = "committing" /\ pc' = [pc EXCEPT ![s] = "idle"]
        /\ link = arg[s] /\ link \in Releases /\ mem[s][link] = new
        /\ file' = [file EXCEPT ![link] = new]
        /\ activeID' = [activeID EXCEPT ![s] = link]
        /\ UNCHANGED <<tree, link, tmp, clock, created, arg, mem, doomed, served, past>>
    BY <1>2, <2>1 DEF Commit, Save
  <2>4. Kinds'
    BY <2>2, <2>3
  <2>5. Disk'
    BY <2>2, <2>3
  <2>6. Ordered(s)'
    BY <2>2, <2>3
  <2>7. Sight(s)' /\ Link(s)' /\ Latest(s)'
    BY <1>0, <2>2, <2>3
  <2>8. Memory(s)' /\ About(s)'
    BY <2>2, <2>3
  <2>9. QED
    BY <2>4, <2>5, <2>6, <2>7, <2>8
<1>3. CASE Retracted(s)
  <2>0. PICK old : Made(old, "stopped", clock)
    BY StoppedNow, Zenon
  <2>1. old = [state |-> "stopped", off |-> clock]
    BY <2>0, Zenon DEF Made
  <2>2. /\ old \in Record /\ old # NoRecord /\ old # Torn
        /\ old.state = "stopped" /\ old.off = clock
    BY <2>0, Zenon DEF Made
  <2>3. /\ pc[s] = "retracted" /\ pc' = [pc EXCEPT ![s] = "idle"]
        /\ arg[s] \in Releases /\ mem[s][arg[s]] = old /\ link = None /\ activeID[s] = None
        /\ served[arg[s]] = 1
        /\ file' = [file EXCEPT ![arg[s]] = old]
        /\ UNCHANGED <<tree, link, tmp, clock, created, arg, mem, activeID, doomed, served, past>>
    BY <1>3, <2>1 DEF Retracted, Save
  <2>4. \A r \in Releases : file[r].off \in Nat /\ file[r].off < clock
    BY <2>3
  <2>5. Kinds'
    BY <2>2, <2>3
  <2>6. Disk'
    BY <2>2, <2>3
  <2>7. Ordered(s)'
    BY <2>2, <2>3, <2>4
  <2>8. Sight(s)' /\ Link(s)' /\ Latest(s)'
    BY <1>0, <2>2, <2>3
  <2>9. Memory(s)' /\ About(s)'
    BY <2>2, <2>3
  <2>10. QED
    BY <2>5, <2>6, <2>7, <2>8, <2>9
<1>4. CASE Rejected(s)
  <2>1. PICK rec : rec = mem[s][arg[s]]
    OBVIOUS
  <2>2. /\ pc[s] = "rejecting" /\ pc' = [pc EXCEPT ![s] = "idle"]
        /\ arg[s] \in Releases /\ mem[s][arg[s]] = rec
        /\ rec.state = "failed" /\ rec.off = file[arg[s]].off
        /\ rec \in Record \cup {NoRecord}
        /\ file' = [file EXCEPT ![arg[s]] = rec]
        /\ UNCHANGED <<tree, link, tmp, clock, created, arg, mem, activeID, doomed, served, past>>
    BY <1>4, <2>1 DEF Rejected, Save
  <2>3. rec \in Record /\ rec # NoRecord /\ rec # Torn
    BY <2>2, Records
  <2>4. Kinds'
    BY <2>2, <2>3
  <2>5. Disk'
    BY <2>2, <2>3
  <2>6. Ordered(s)'
    BY <2>2, <2>3
  <2>7. Sight(s)' /\ Link(s)' /\ Latest(s)'
    BY <2>2, <2>3
  <2>8. Memory(s)' /\ About(s)'
    BY <2>2, <2>3
  <2>9. QED
    BY <2>4, <2>5, <2>6, <2>7, <2>8
<1>5. QED
  BY <1>1, <1>2, <1>3, <1>4

LEMMA AgreeArchives ==
  ASSUME NEW s, Sessions = {s}, Agree(s), UNCHANGED relative, "adrift" \notin past',
         RemoveAll(s) \/ Forget(s) \/ \E keep \in Keeps : Archive(s, keep)
  PROVE  Agree(s)'
<1> USE DEF Agree, Kinds, Typed, Disk, Ordered, Sight, Link, Latest, Kept, Memory, About, Blind, Unknown,
            Known, Goto, Idle, Steps, Quietly, Opened, Replacing, Retracting, Creating, Using, disk, history
<1>0. NoRecord.off = 0 /\ NoRecord.state = "none" /\ NoRecord # Torn
  BY DEF NoRecord, Torn
<1>1. ASSUME NEW keep \in Keeps, Archive(s, keep) PROVE Agree(s)'
  <2>1. PICK chosen \in SUBSET Removable(s) : doomed' = [doomed EXCEPT ![s] = chosen]
    BY <1>1 DEF Archive
  <2>2. \A r \in Removable(s) : r \in Releases /\ mem[s][r].state \in {"stopped", "failed"}
    BY DEF Removable, Known
  <2>3. QED
    BY <1>1, <2>1, <2>2 DEF Archive
<1>2. CASE RemoveAll(s)
  <2>1. PICK r \in doomed[s] : /\ tree' = [tree EXCEPT ![r] = "none"]
                              /\ arg' = [arg EXCEPT ![s] = r]
    BY <1>2 DEF RemoveAll
  <2>01. /\ pc[s] = "pruning" /\ r \in Releases /\ Kept(s, r)
         /\ mem[s][r].state \in {"stopped", "failed"}
    BY <1>2 DEF RemoveAll
  <2>02. file[r].state # "active"
    BY <1>0, <2>01
  <2>2. /\ pc[s] = "pruning" /\ pc' = [pc EXCEPT ![s] = "forgetting"]
        /\ r \in Releases /\ file[r].state # "active" /\ link # r
        /\ UNCHANGED <<file, link, tmp, clock, created, mem, activeID, doomed, served, past>>
    BY <1>2, <2>01, <2>02 DEF RemoveAll
  <2>3. QED
    BY <2>1, <2>2
<1>3. CASE Forget(s)
  <2>01. /\ pc[s] = "forgetting" /\ arg[s] \in Releases /\ Kept(s, arg[s])
         /\ mem[s][arg[s]].state \in {"stopped", "failed"}
    BY <1>3 DEF Forget
  <2>02. file[arg[s]].state # "active"
    BY <1>0, <2>01
  <2>1. /\ pc[s] = "forgetting" /\ arg[s] \in Releases
        /\ pc' \in {[pc EXCEPT ![s] = "idle"], [pc EXCEPT ![s] = "pruning"]}
        /\ file' = [file EXCEPT ![arg[s]] = NoRecord]
        /\ mem' = [mem EXCEPT ![s][arg[s]] = NoRecord]
        /\ doomed' = [doomed EXCEPT ![s] = @ \ {arg[s]}]
        /\ tree[arg[s]] = "none" /\ link # arg[s] /\ file[arg[s]].state # "active"
        /\ UNCHANGED <<tree, link, tmp, clock, created, arg, activeID, served, past>>
    BY <1>3, <2>01, <2>02 DEF Forget
  <2>2. NoRecord # Torn /\ NoRecord.off = 0 /\ NoRecord.state = "none"
    BY <1>0
  <2>3. Kinds'
    BY <2>1
  <2>4. Disk'
    BY <2>1, <2>2
  <2>5. Ordered(s)'
    BY <2>1, <2>2
  <2>6. Sight(s)' /\ Link(s)' /\ Latest(s)'
    BY <2>1, <2>2
  <2>7. Memory(s)'
    BY <2>1, <2>2
  <2>8. About(s)'
    BY <2>1, <2>2
  <2>9. QED
    BY <2>3, <2>4, <2>5, <2>6, <2>7, <2>8
<1>4. QED
  BY <1>1, <1>2, <1>3

\* Until it is interrupted, or a link is lost, the one session leaves the link, the files and its
\* memory as Agree says, whatever it is asked to do.
LEMMA AgreeHolds ==
  ASSUME NEW one, Sessions = {one}, "write" \notin Faults
  PROVE  Spec => []("adrift" \notin past => Agree(one))
<1> DEFINE J == "adrift" \notin past => Agree(one)
<1>1. Init => J
  BY AgreeStarts
<1>2. Cleared /\ J /\ [Next]_vars => J'
  <2> SUFFICES ASSUME Cleared, J, [Next]_vars, "adrift" \notin past' PROVE Agree(one)'
    OBVIOUS
  <2>1. Agree(one)
    BY PastGrows
  <2>2. CASE UNCHANGED vars
    BY <2>1, <2>2
       DEF vars, disk, session, history, Agree, Kinds, Typed, Disk, Ordered, Sight, Link, Latest,
           Kept, Memory, About, Blind, Unknown, Known
  <2>3. CASE Next
    <3>1. UNCHANGED relative /\ (Wired(one) \/ Library(one) \/ Step(one) \/ Crash(one))
      BY <2>3 DEF Next
    <3>2. ~Crash(one)
      BY DEF Crash
    <3>3. CASE Wired(one)
      BY <2>1, <3>1, <3>3, AgreeOpens, AgreeCreates, AgreeAsks DEF Wired
    <3>4. CASE Library(one)
      BY <2>1, <3>1, <3>4, AgreeAsks, AgreeArchives DEF Library
    <3>5. CASE Step(one)
      BY <2>1, <3>1, <3>5, AgreeOpens, AgreeCreates, AgreeMoves, AgreeSwaps, AgreeSaves,
         AgreeArchives DEF Step
    <3>6. QED
      BY <3>1, <3>2, <3>3, <3>4, <3>5
  <2>4. QED
    BY <2>2, <2>3
<1>3. QED
  BY <1>1, <1>2, ClearedHolds, PTL DEF Spec

\* Between operations the link, the files and the manager agree, and what is served is there.
THEOREM PublishedHolds ==
  ASSUME NEW one, Sessions = {one}, "write" \notin Faults
  PROVE  Spec => []Published
<1>1. ("adrift" \notin past => Agree(one)) => Published
  <2> SUFFICES ASSUME "adrift" \notin past, Agree(one), pc[one] = "idle"
               PROVE  IF Serving(one)
                      THEN link = activeID[one] /\ tree[link] # "none" /\ file[link].state = "active"
                      ELSE \/ "blind" \in past /\ relative /\ link \in Releases /\ served[link] = 1
                           \/ link \notin Releases /\ \A r \in Releases : file[r].state # "active"
    BY DEF Published
  <2>1. None \notin Releases
    BY DEF None, Releases
  <2>2. /\ \A r \in Releases :
             /\ link = r => file[r].state = "active"
             /\ file[r].state = "active" => link = r \/ Unknown(one, r)
        /\ link \in Releases =>
             IF activeID[one] = None THEN Unknown(one, link)
             ELSE link = activeID[one] /\ mem[one][link] # NoRecord
        /\ \A r \in Releases : Kept(one, r)
        /\ link \in Releases => tree[link] # "none" /\ served[link] = 1
        /\ Blind => relative /\ link \in Releases
    BY DEF Agree, Disk, Sight, Link, Memory, Quietly, Opened
  <2>3. CASE Serving(one)
    <3>1. /\ activeID[one] \in Releases /\ mem[one][activeID[one]] # NoRecord
          /\ mem[one][activeID[one]].state = "active"
      BY <2>3 DEF Serving, Known
    <3>2. file[activeID[one]].state = "active"
      BY <2>2, <3>1 DEF Kept, Unknown
    <3>3. link = activeID[one]
      BY <2>2, <3>1, <3>2 DEF Unknown
    <3>4. QED
      BY <2>2, <2>3, <3>1, <3>2, <3>3
  <2>4. CASE ~Serving(one) /\ ~Blind
    <3>1. link \notin Releases
      <4> SUFFICES ASSUME link \in Releases PROVE FALSE
        OBVIOUS
      <4>1. link = activeID[one] /\ mem[one][link] # NoRecord /\ file[link].state = "active"
        BY <2>2, <2>4 DEF Unknown
      <4>2. mem[one][link].state = "active"
        BY <2>2, <2>4, <4>1 DEF Kept, Unknown
      <4>3. QED
        BY <2>4, <4>1, <4>2 DEF Serving, Known
    <3>2. QED
      BY <2>2, <2>4, <3>1 DEF Unknown
  <2>5. CASE ~Serving(one) /\ Blind
    BY <2>2, <2>5 DEF Blind
  <2>6. QED
    BY <2>3, <2>4, <2>5
<1>2. QED
  BY <1>1, AgreeHolds, PTL

\* Rollback goes to the release served before the present one, whatever was activated,
\* deactivated, rolled back and archived until then, and whatever could not be activated.
THEOREM RollbackRestoresHolds ==
  ASSUME NEW one, Sessions = {one}, "write" \notin Faults
  PROVE  Spec => RollbackRestores
<1>1. ("adrift" \notin past => Agree(one)) =>
        \A s \in Sessions : "adrift" \notin past /\ Rollback(s) =>
          /\ arg'[s] \in Restorable(s)
          /\ \A r \in Restorable(s) : served[arg'[s]] <= served[r]
  <2> SUFFICES ASSUME Agree(one), Rollback(one)
               PROVE  /\ arg'[one] \in Restorable(one)
                      /\ \A q \in Restorable(one) : served[arg'[one]] <= served[q]
    OBVIOUS
  <2>1. PICK r \in Releases : Previous(one, r) /\ Activate(one, r) /\ activeID[one] # None
    BY DEF Rollback
  <2>2. pc[one] = "idle" /\ arg'[one] = r
    BY <2>1 DEF Activate, Replaces, ReplacesNothing, Goto, Agree, Kinds, Typed
  <2>3. \A q \in Releases : Kept(one, q)
    BY <2>2 DEF Agree, Memory
  <2>4. r # activeID[one] /\ mem[one][r] # NoRecord /\ mem[one][r].off # 0
    BY <2>1 DEF Previous, Candidates, Known
  <2>5. mem[one][r] = file[r]
    BY <2>3, <2>4 DEF Kept, Unknown
  <2>6. r \in Restorable(one)
    <3>1. served[r] # 0 /\ file[r].state = "stopped" /\ tree[r] # "none"
      BY <2>2, <2>4, <2>5 DEF Agree, Disk, About
    <3>2. QED
      BY <2>4, <2>5, <3>1 DEF Restorable, Known
  <2>7. ASSUME NEW q \in Restorable(one) PROVE served[r] <= served[q]
    <3>1. /\ q \in Releases /\ q # activeID[one] /\ mem[one][q].state # "failed"
          /\ served[q] # 0 /\ tree[q] # "none" /\ ~Unknown(one, q)
      BY DEF Restorable, Known, Unknown, Blind
    <3>2. q # link
      BY <2>1, <2>2, <3>1 DEF Agree, Link, Opened, Quietly
    <3>3. file[q].off # 0
      BY <2>2, <3>1, <3>2 DEF Agree, Ordered
    <3>4. mem[one][q] = file[q]
      BY <2>3, <3>1 DEF Kept
    <3>5. q \in Candidates(one)
      BY <3>1, <3>3, <3>4 DEF Candidates, Known, NoRecord
    <3>6. file[q].off <= file[r].off
      BY <2>1, <2>5, <3>4, <3>5 DEF Previous
    <3>7. file[q].off \in Nat /\ file[r].off \in Nat
      BY <3>1, <2>1 DEF Agree, Disk
    <3>8. ~(served[q] < served[r])
      BY <2>1, <2>2, <2>4, <2>5, <3>1, <3>3, <3>6, <3>7 DEF Agree, Ordered
    <3>9. served[q] \in Nat /\ served[r] \in Nat
      BY <3>1, <2>1 DEF Agree, Kinds, Typed
    <3>10. QED
      BY <3>8, <3>9
  <2>8. QED
    BY <2>2, <2>6, <2>7
<1>2. QED
  BY <1>1, AgreeHolds, PTL DEF Spec, RollbackRestores
=============================================================================
