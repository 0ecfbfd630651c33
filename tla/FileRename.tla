----------------------------- MODULE FileRename -----------------------------
(* file_rename: renameFilesSafely of runtime/file-rename.ts under the locks of*)
(* its files, its destination directories (parent-directories.ts), and the    *)
(* record of the batch in the journal.  A file moves by a second link and an  *)
(* unlink.  Editors take no lock and may come between any two steps.          *)
EXTENDS Integers, Sequences, SequencesExt, FiniteSets

CONSTANTS Batches,   \* sequences of [from, to], what a request may name
          Sources,   \* the files that are there at first
          Parents,   \* of each path, its directories under the root, outermost first
          ProbeOf,   \* of each destination, the path of its probe
          None,      \* no file
          MaxFaults, \* bound: I/O errors, aborts and journal writes that fail
          MaxEdits   \* bound: steps of editors

VARIABLES batch, disk,  \* the file each path names
          content,      \* what each file holds; a file is a number
          dirs, made,   \* directories there are, those the batch made, in order
          pc, i, moved, \* next step, its entry, entries moved so far
          late,         \* did the batch fail after all were moved
          undone,       \* has every step of a rollback succeeded so far
          journal, result, lease,
          given,        \* history: files whose name an editor took or gave away unseen
          faults, edits

world == <<disk, content, dirs, made>>
vars  == <<batch, world, pc, i, moved, late, undone, journal, result, lease, given, faults, edits>>

Paths  == DOMAIN Parents
Probes == {ProbeOf[p] : p \in DOMAIN ProbeOf}

Entry == batch[i]
Probe == ProbeOf[Entry.to]

(* The hash a client read before its request, which the capture confirms.    *)
Original(p) == "old"

Holds(p, c) == disk[p] # None /\ content[disk[p]] = c

Refused == \/ \E m, n \in DOMAIN batch : m # n /\ (batch[m].to = batch[n].to \/ batch[m].from = batch[n].from)
           \/ \E n \in DOMAIN batch : \/ batch[n].from = batch[n].to
                                      \/ disk[batch[n].from] = None
                                      \/ disk[batch[n].to] # None

Resolve ==
    /\ pc = "resolve"
    /\ IF Refused THEN pc' = "end" /\ result' = "failed" ELSE pc' = "capture" /\ UNCHANGED result
    /\ UNCHANGED <<batch, world, i, moved, late, undone, journal, lease, given, faults, edits>>

(* stageFileSnapshot and the comparison with the expected hash.              *)
Capture ==
    /\ pc = "capture"
    /\ LET good == Holds(Entry.from, Original(Entry.from))
       IN /\ pc' = IF ~good THEN "end" ELSE IF i = Len(batch) THEN "begin" ELSE pc
          /\ i' = IF good /\ i < Len(batch) THEN i + 1 ELSE 1
          /\ result' = IF good THEN result ELSE "failed"
    /\ UNCHANGED <<batch, world, moved, late, undone, journal, lease, given, faults, edits>>

Fault == faults < MaxFaults /\ faults' = faults + 1

(* A step of the journal fails, which it must without the lease.             *)
Broken == Fault \/ (~lease /\ UNCHANGED faults)

(* What is thrown before the last entry has moved first undoes the moves.    *)
Abandon == pc' = "back" /\ i' = moved

Begin ==
    /\ pc = "begin"
    /\ \/ lease /\ journal' = "running" /\ pc' = "parents" /\ UNCHANGED <<result, faults>>
       \/ Broken /\ pc' = "end" /\ result' = "failed" /\ UNCHANGED journal
    /\ UNCHANGED <<batch, world, i, moved, late, undone, lease, given, edits>>

(* ensureParentDirectories: one directory at a time, remembered once made.   *)
MakeParent ==
    /\ pc = "parents"
    /\ LET missing == SelectSeq(Parents[Entry.to], LAMBDA d : d \notin dirs)
       IN \/ /\ missing = <<>>
             /\ pc' = IF i = Len(batch) THEN "probe" ELSE pc
             /\ i' = IF i = Len(batch) THEN 1 ELSE i + 1
             /\ UNCHANGED <<dirs, made>>
          \/ /\ missing # <<>> /\ lease
             /\ dirs' = dirs \cup {Head(missing)} /\ made' = Append(made, Head(missing))
             /\ UNCHANGED <<pc, i>>
          \/ missing # <<>> /\ ~lease /\ Abandon /\ UNCHANGED <<dirs, made>>
    /\ UNCHANGED <<batch, disk, content, moved, late, undone, journal, result, lease, given, faults, edits>>

(* verifyLinkCapability: a link next to the destination, and its removal.    *)
LinkProbe ==
    /\ pc = "probe"
    /\ IF lease /\ disk[Entry.from] # None
       THEN disk' = [disk EXCEPT ![Probe] = disk[Entry.from]] /\ pc' = "unprobe" /\ UNCHANGED i
       ELSE Abandon /\ UNCHANGED disk
    /\ UNCHANGED <<batch, content, dirs, made, moved, late, undone, journal, result, lease, given, faults, edits>>

UnlinkProbe ==
    /\ pc = "unprobe"
    /\ IF ~lease THEN Abandon /\ UNCHANGED disk
       ELSE /\ disk' = [disk EXCEPT ![Probe] = None]
            /\ pc' = IF i = Len(batch) THEN "check" ELSE "probe"
            /\ i' = IF i = Len(batch) THEN 1 ELSE i + 1
    /\ UNCHANGED <<batch, content, dirs, made, moved, late, undone, journal, result, lease, given, faults, edits>>

-----------------------------------------------------------------------------
(* moveFilesWithRollback.  A hash is read in one step and acted on in another.*)
Check ==
    /\ pc = "check"
    /\ IF lease /\ Holds(Entry.from, Original(Entry.from)) THEN pc' = "link" /\ UNCHANGED i ELSE Abandon
    /\ UNCHANGED <<batch, world, moved, late, undone, journal, result, lease, given, faults, edits>>

(* Mutant: a rename that replaces what has come to the destination.          *)
LinkReplacing ==
    /\ pc = "link"
    /\ IF disk[Entry.from] # None
       THEN disk' = [disk EXCEPT ![Entry.to] = disk[Entry.from]] /\ pc' = "linked" /\ UNCHANGED i
       ELSE Abandon /\ UNCHANGED disk
    /\ UNCHANGED <<batch, content, dirs, made, moved, late, undone, journal, result, lease, given, faults, edits>>

Link ==
    /\ pc = "link"
    /\ IF disk[Entry.from] # None /\ disk[Entry.to] = None
       THEN disk' = [disk EXCEPT ![Entry.to] = disk[Entry.from]] /\ pc' = "linked" /\ UNCHANGED i
       ELSE Abandon /\ UNCHANGED disk
    /\ UNCHANGED <<batch, content, dirs, made, moved, late, undone, journal, result, lease, given, faults, edits>>

(* The commit of the destination is recorded, then both names are compared.  *)
Linked ==
    /\ pc = "linked"
    /\ \/ /\ pc' = IF lease /\ disk[Entry.from] = disk[Entry.to] /\ Holds(Entry.to, Original(Entry.from))
                   THEN "recheck" ELSE "undo"
          /\ UNCHANGED faults
       \/ Fault /\ pc' = "undo"
    /\ UNCHANGED <<batch, world, i, moved, late, undone, journal, result, lease, given, edits>>

Recheck ==
    /\ pc = "recheck"
    /\ pc' = IF lease /\ Holds(Entry.from, Original(Entry.from)) THEN "unlink" ELSE "undo"
    /\ UNCHANGED <<batch, world, i, moved, late, undone, journal, result, lease, given, faults, edits>>

Unlink ==
    /\ pc = "unlink"
    /\ \/ /\ disk[Entry.from] # None
          /\ disk' = [disk EXCEPT ![Entry.from] = None]
          /\ moved' = i
          /\ pc' = IF i = Len(batch) THEN "settle" ELSE "check"
          /\ i' = IF i = Len(batch) THEN i ELSE i + 1
          /\ UNCHANGED faults
       \/ /\ \/ disk[Entry.from] = None /\ UNCHANGED faults
             \/ Fault
          /\ pc' = "undo" /\ UNCHANGED <<disk, i, moved>>
    /\ UNCHANGED <<batch, content, dirs, made, late, undone, journal, result, lease, given, edits>>

(* The link of the entry that failed is taken back, unless it has changed.   *)
Undo ==
    /\ pc = "undo"
    /\ IF lease /\ Holds(Entry.to, Original(Entry.from)) THEN pc' = "undoUnlink" /\ UNCHANGED i ELSE Abandon
    /\ UNCHANGED <<batch, world, moved, late, undone, journal, result, lease, given, faults, edits>>

UndoUnlink ==
    /\ pc = "undoUnlink"
    /\ Abandon
    /\ disk' = [disk EXCEPT ![Entry.to] = None]
    /\ UNCHANGED <<batch, content, dirs, made, moved, late, undone, journal, result, lease, given, faults, edits>>

(* The deletions are recorded and complete() refreshes, syncs and settles; if *)
(* that fails the record asks for recovery.                                  *)
Settle ==
    /\ pc = "settle"
    /\ \/ lease /\ journal' = "succeeded" /\ result' = "renamed" /\ pc' = "end" /\ UNCHANGED <<late, faults>>
       \/ /\ Broken
          /\ journal' \in {"running", "recovery"}
          /\ late' = TRUE /\ pc' = "mark" /\ UNCHANGED result
    /\ UNCHANGED <<batch, world, i, moved, undone, lease, given, edits>>

-----------------------------------------------------------------------------
(* rollbackMovedFiles, the last entry first; one that fails is passed over.  *)
BackOne(failed) == i' = i - 1 /\ pc' = "back" /\ undone' = (undone /\ ~failed)

BackCheck ==
    /\ pc = "back" /\ i > 0
    /\ IF lease /\ Holds(Entry.to, Original(Entry.from)) THEN pc' = "relink" /\ UNCHANGED <<i, undone>> ELSE BackOne(TRUE)
    /\ UNCHANGED <<batch, world, moved, late, journal, result, lease, given, faults, edits>>

Relink ==
    /\ pc = "relink"
    /\ IF disk[Entry.from] = None /\ disk[Entry.to] # None
       THEN disk' = [disk EXCEPT ![Entry.from] = disk[Entry.to]] /\ pc' = "backRecheck" /\ UNCHANGED <<i, undone>>
       ELSE BackOne(TRUE) /\ UNCHANGED disk
    /\ UNCHANGED <<batch, content, dirs, made, moved, late, journal, result, lease, given, faults, edits>>

BackRecheck ==
    /\ pc = "backRecheck"
    /\ IF lease /\ Holds(Entry.to, Original(Entry.from)) THEN pc' = "backUnlink" /\ UNCHANGED <<i, undone>> ELSE BackOne(TRUE)
    /\ UNCHANGED <<batch, world, moved, late, journal, result, lease, given, faults, edits>>

BackUnlink ==
    /\ pc = "backUnlink"
    /\ disk' = [disk EXCEPT ![Entry.to] = None]
    /\ BackOne(disk[Entry.to] = None)
    /\ UNCHANGED <<batch, content, dirs, made, moved, late, journal, result, lease, given, faults, edits>>

(* A late failure skips the look at what was restored when its rollback failed.*)
BackEnds ==
    /\ pc = "back" /\ i = 0
    /\ pc' = IF ~late THEN "mark" ELSE IF undone THEN "restored" ELSE "tidy"
    /\ UNCHANGED <<batch, world, i, moved, late, undone, journal, result, lease, given, faults, edits>>

(* failMutation, whose own failure is ignored.                               *)
Mark ==
    /\ pc = "mark"
    /\ \/ journal' = "recovery" /\ UNCHANGED faults
       \/ UNCHANGED journal /\ Fault
    /\ IF late THEN pc' = "back" /\ i' = Len(batch) ELSE pc' = "restored" /\ UNCHANGED i
    /\ UNCHANGED <<batch, world, moved, late, undone, result, lease, given, edits>>

IsRestored(e) == Holds(e.from, Original(e.from)) /\ disk[e.to] = None

(* Mutant: the rollback is recorded without a look at the files.             *)
RestoredUnseen ==
    /\ pc = "restored"
    /\ \/ lease /\ journal' = "rolled-back" /\ UNCHANGED faults
       \/ Broken /\ UNCHANGED journal
    /\ pc' = "tidy"
    /\ UNCHANGED <<batch, world, i, moved, late, undone, result, lease, given, edits>>

Restored ==
    /\ pc = "restored"
    /\ LET whole == \A e \in ToSet(batch) : IsRestored(e)
       IN \/ whole /\ lease /\ journal' = "rolled-back" /\ UNCHANGED faults
          \/ whole /\ Broken /\ UNCHANGED journal
          \/ ~whole /\ UNCHANGED <<journal, faults>>
    /\ pc' = "tidy"
    /\ UNCHANGED <<batch, world, i, moved, late, undone, result, lease, given, edits>>

Empty(d) == /\ \A p \in Paths : disk[p] # None => d \notin ToSet(Parents[p])
            /\ \A p \in Paths : \A n \in 2 .. Len(Parents[p]) : Parents[p][n] \in dirs => Parents[p][n - 1] # d

(* removeCreatedDirectories, the last one first; one that is not empty stays. *)
Tidy ==
    /\ pc = "tidy"
    /\ IF made = <<>> THEN pc' = "end" /\ result' = "failed" /\ UNCHANGED <<dirs, made>>
       ELSE /\ made' = Front(made)
            /\ dirs' = IF Empty(Last(made)) THEN dirs \ {Last(made)} ELSE dirs
            /\ UNCHANGED <<pc, result>>
    /\ UNCHANGED <<batch, disk, content, i, moved, late, undone, journal, lease, given, faults, edits>>

-----------------------------------------------------------------------------
(* An abort, a permission or a path that no longer resolves.                  *)
Fails ==
    /\ pc \in {"parents", "probe", "unprobe", "check", "link", "recheck", "undo", "undoUnlink"}
    /\ Fault
    /\ IF pc = "recheck" THEN pc' = "undo" /\ UNCHANGED i ELSE Abandon
    /\ UNCHANGED <<batch, world, moved, late, undone, journal, result, lease, given, edits>>

BackFails ==
    /\ pc \in {"relink", "backRecheck", "backUnlink"}
    /\ Fault
    /\ BackOne(TRUE)
    /\ UNCHANGED <<batch, world, moved, late, journal, result, lease, given, edits>>

LoseLease ==
    /\ lease /\ faults < MaxFaults /\ faults' = faults + 1 /\ lease' = FALSE /\ pc # "end"
    /\ UNCHANGED <<batch, world, pc, i, moved, late, undone, journal, result, given, edits>>

(* The paths whose hash was read and whose name is taken next.               *)
Seen == CASE pc = "unlink" -> {Entry.from} [] pc \in {"undoUnlink", "backUnlink"} -> {Entry.to} [] OTHER -> {}

(* An editor writes in place, saves a new file over the old one, makes a file *)
(* or removes one.                                                            *)
Edit ==
    /\ edits < MaxEdits /\ edits' = edits + 1 /\ pc # "end"
    /\ \E p \in Paths \ Probes : LET new == Len(content) + 1 IN
          \/ /\ disk[p] # None
             /\ content' = [content EXCEPT ![disk[p]] = "new"] /\ UNCHANGED <<disk, given>>
          \/ /\ ToSet(Parents[p]) \subseteq dirs
             /\ disk' = [disk EXCEPT ![p] = new] /\ content' = Append(content, "new")
             /\ given' = given \cup ({disk[p]} \ {None}) \cup (IF p \in Seen THEN {new} ELSE {})
          \/ /\ disk[p] # None
             /\ disk' = [disk EXCEPT ![p] = None] /\ given' = given \cup {disk[p]} /\ UNCHANGED content
    /\ UNCHANGED <<batch, dirs, made, pc, i, moved, late, undone, journal, result, lease, faults>>

EditDirectory ==
    /\ edits < MaxEdits /\ edits' = edits + 1 /\ pc # "end"
    /\ \E p \in Paths : \E n \in DOMAIN Parents[p] :
          /\ ToSet(SubSeq(Parents[p], 1, n - 1)) \subseteq dirs /\ Parents[p][n] \notin dirs
          /\ dirs' = dirs \cup {Parents[p][n]}
    /\ UNCHANGED <<batch, disk, content, made, pc, i, moved, late, undone, journal, result, lease, given, faults>>

Init ==
    /\ batch \in Batches
    /\ \E s \in {SetToSeq(Sources)} :
          /\ disk = [p \in Paths |-> IF p \in Sources THEN CHOOSE n \in DOMAIN s : s[n] = p ELSE None]
          /\ content = [n \in DOMAIN s |-> "old"]
    /\ dirs = {} /\ made = <<>>
    /\ pc = "resolve" /\ i = 1 /\ moved = 0 /\ late = FALSE /\ undone = TRUE
    /\ journal = "none" /\ result = "none" /\ lease = TRUE
    /\ given = {} /\ faults = 0 /\ edits = 0

Stop == pc = "end" /\ UNCHANGED vars

Server == \/ Resolve \/ Capture \/ Begin \/ MakeParent \/ LinkProbe \/ UnlinkProbe
          \/ Check \/ Link \/ Linked \/ Recheck \/ Unlink \/ Undo \/ UndoUnlink \/ Settle
          \/ BackCheck \/ Relink \/ BackRecheck \/ BackUnlink \/ BackEnds \/ Mark \/ Restored \/ Tidy

Next == Server \/ Fails \/ BackFails \/ LoseLease \/ Edit \/ EditDirectory \/ Stop

Spec == Init /\ [][Next]_vars

-----------------------------------------------------------------------------
Named(d) == {d[p] : p \in Paths} \ {None}

(* No step of a rename takes the last name of a file, whatever editors do in  *)
(* between, unless an editor gave it up or put it where a name whose hash was *)
(* read is about to be removed.                                               *)
NoFileIsLost == edits' = edits => Named(disk) \subseteq Named(disk') \cup given

Untouched == /\ \A e \in ToSet(batch) : disk[e.from] # None /\ disk[e.to] = None
             /\ \A p \in Probes : disk[p] = None

(* Without editors: success means that every file is where it was to go, a    *)
(* rollback on record that none has moved, and a call that ends otherwise     *)
(* leaves a record for recovery or nothing at all, no directory either.       *)
RenameIsHonest == edits = 0 =>
    /\ result = "renamed" => \A e \in ToSet(batch) : disk[e.from] = None /\ Holds(e.to, Original(e.from))
    /\ journal = "succeeded" => result = "renamed"
    /\ journal = "rolled-back" => \A e \in ToSet(batch) : disk[e.from] # None /\ disk[e.to] = None
    /\ result = "failed" =>
          \/ journal \in {"running", "recovery"}
          \/ journal = "rolled-back" /\ ((\A p \in Probes : disk[p] = None) => dirs = {})
          \/ journal = "none" /\ (Untouched \/ Refused) /\ dirs = {}
=============================================================================
