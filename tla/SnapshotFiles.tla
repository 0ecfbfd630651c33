---------------------------- MODULE SnapshotFiles ----------------------------
(***************************************************************************)
(* The copies that rollback and recovery need (runtime/snapshot-blob.ts):  *)
(* one file is captured while editors may write it, a batch removes it,    *)
(* and a rollback restores it where an editor may have put another.  The   *)
(* sweeps of other calls and other processes clear abandoned captures.     *)
(* A file is an inode, a version stands for its times and is never used    *)
(* twice; links, owners and the account's checks are left out.             *)
(***************************************************************************)
EXTENDS Integers, Sequences

CONSTANTS Contents,   \* what files hold: sequences of chunks
          Modes,
          Private,    \* the mode of a new copy (0600)
          None,
          MaxFaults,  \* bound: failing calls, failing fences included
          MaxEdits    \* bound: steps of editors

VARIABLES data,       \* the inodes: [bytes, mode, version, synced]
          target, temporary, pending, blob,   \* the inodes names lead to, 0 for none
          linking,    \* whether the file system has hard links
          entry,      \* whether the name of the target is on disk
          pc,
          source, output,  \* the inodes of the open handles
          metadata,   \* what the handle's stat said: [ino, version, size]
          snapshot,   \* what the caller holds: None or [bytes, mode]
          directory,  \* the blob's directory exists
          active,     \* it is in activeCaptures
          alive, old, retained,  \* of the process, the directory, the journal
          seen,       \* history: what the target held since it was opened
          theirs,     \* history: inodes editors made or wrote
          late,       \* history: an editor came between lstat and unlink, or
                      \* wrote into a copy that was not published yet
          stranded,   \* history: a cleanup failed
          faults, edits

names == <<target, temporary, pending, blob>>
caller == <<source, output, metadata, snapshot>>
keeping == <<directory, active, alive, old, retained>>
history == <<seen, theirs, late, stranded>>
bounds == <<linking, faults, edits>>
vars == <<data, names, entry, pc, caller, keeping, history, bounds>>

Inode(bytes, mode) == [bytes |-> bytes, mode |-> mode, version |-> 0, synced |-> FALSE]
New == Len(data) + 1

Init == /\ \E b \in Contents, m \in Modes : data = <<[Inode(b, m) EXCEPT !.synced = TRUE]>>
        /\ target = 1 /\ temporary = 0 /\ pending = 0 /\ blob = 0 /\ entry = TRUE
        /\ linking \in BOOLEAN /\ pc = "stage"
        /\ source = 0 /\ output = 0 /\ metadata = None /\ snapshot = None
        /\ directory = FALSE /\ active = FALSE /\ alive = TRUE /\ old = FALSE /\ retained = FALSE
        /\ seen = {} /\ theirs = {} /\ late = FALSE /\ stranded = FALSE /\ faults = 0 /\ edits = 0

(* Bytes are appended to an inode, which makes it a new version.           *)
Write(i, bytes) == [data EXCEPT ![i].bytes = bytes, ![i].version = @ + 1, ![i].synced = FALSE]
Copied(from, to) == Write(to, Append(data[to].bytes, data[from].bytes[Len(data[to].bytes) + 1]))
More(from, to) == Len(data[to].bytes) < Len(data[from].bytes)

Stat(i) == [ino |-> i, version |-> data[i].version, size |-> Len(data[i].bytes)]

(* Mutant: only the size is compared.                                      *)
UnchangedSize == target = source /\ Stat(source).size = metadata.size

(* unchanged(): the same inode at the same version, by handle and by path. *)
Unchanged == target = source /\ Stat(source) = metadata

----------------------------------------------------------------------------
(* Capture: the file is copied chunk by chunk; then the handle and the     *)
(* path must still be what they were, and the copy is linked to its name.  *)
Stage == /\ pc = "stage" /\ pc' = "open" /\ directory' = TRUE /\ active' = TRUE
         /\ UNCHANGED <<data, names, entry, caller, alive, old, retained, history, bounds>>

Open == /\ pc = "open" /\ directory
        /\ IF target = 0 THEN pc' = "discard" /\ UNCHANGED <<data, pending, source, metadata, seen>>
           ELSE /\ source' = target /\ metadata' = Stat(target) /\ seen' = {data[target].bytes}
                /\ data' = Append(data, Inode(<< >>, Private)) /\ pending' = New /\ pc' = "capture"
        /\ UNCHANGED <<target, temporary, blob, entry, output, snapshot, keeping, theirs, late, stranded, bounds>>

Capture == /\ pc = "capture"
           /\ IF More(source, pending) THEN data' = Copied(source, pending) /\ UNCHANGED pc
              ELSE /\ pc' = IF Unchanged /\ Len(data[pending].bytes) = metadata.size THEN "publish" ELSE "discard"
                   /\ data' = [data EXCEPT ![pending].synced = Unchanged]
           /\ UNCHANGED <<names, entry, caller, keeping, history, bounds>>

LinkBlob == /\ pc = "publish" /\ pc' = "unlink" /\ blob' = pending
            /\ UNCHANGED <<data, target, temporary, pending, entry, caller, keeping, history, bounds>>

Captured == /\ pc = "unlink" /\ pc' = "captured" /\ pending' = 0
            /\ snapshot' = [bytes |-> data[blob].bytes, mode |-> data[source].mode]
            /\ UNCHANGED <<data, target, temporary, blob, entry, source, output, metadata, keeping, history, bounds>>

(* A capture that fails is no longer active and takes its directory away.  *)
Discard == /\ pc = "discard" /\ pc' = "refused"
           /\ active' = FALSE /\ directory' = FALSE /\ pending' = 0 /\ blob' = 0
           /\ UNCHANGED <<data, target, temporary, entry, caller, alive, old, retained, history, bounds>>

----------------------------------------------------------------------------
(* The batch removes the file when it still holds what was captured, and   *)
(* either ends or rolls back.  The journal may own the copy by then.       *)
Remove == /\ pc = "captured" /\ target # 0 /\ data[target].bytes = snapshot.bytes
          /\ target' = 0 /\ entry' = FALSE /\ pc' = "removed" /\ retained' \in BOOLEAN
          /\ UNCHANGED <<data, temporary, pending, blob, caller, directory, active, alive, old, history, bounds>>

Dispose == /\ pc \in {"captured", "removed", "restored"} /\ pc' = "ended" /\ active' = FALSE
           /\ IF retained THEN UNCHANGED <<blob, directory>> ELSE blob' = 0 /\ directory' = FALSE
           /\ UNCHANGED <<data, target, temporary, pending, entry, caller, alive, old, retained, history, bounds>>

(* restoreSnapshotBlob: the copy is verified through one handle, copied    *)
(* beside the target, made durable and given its mode.                     *)
OpenBlob == /\ pc = "removed" /\ blob # 0
            /\ IF data[blob].bytes = snapshot.bytes
               THEN /\ source' = blob /\ data' = Append(data, Inode(<< >>, Private)) /\ temporary' = New /\ pc' = "copy"
               ELSE pc' = "failed" /\ UNCHANGED <<source, data, temporary>>
            /\ UNCHANGED <<target, pending, blob, entry, output, metadata, snapshot, keeping, history, bounds>>

Copy == /\ pc = "copy"
        /\ IF More(source, temporary) THEN data' = Copied(source, temporary) /\ UNCHANGED pc
           ELSE data' = [data EXCEPT ![temporary].synced = TRUE] /\ pc' = "mode"
        /\ UNCHANGED <<names, entry, caller, keeping, history, bounds>>

SetMode == /\ pc = "mode" /\ pc' = "link"
           /\ data' = [data EXCEPT ![temporary].mode = snapshot.mode, ![temporary].version = @ + 1]
           /\ UNCHANGED <<names, entry, caller, keeping, history, bounds>>

(* Mutant: whatever is at the target is replaced.                          *)
LinkOver == /\ linking /\ target' = temporary /\ entry' = FALSE

(* publishSnapshotNoReplace: a link, which fails where there is a file;    *)
(* without links, a copy into a file that must not exist before.           *)
LinkTarget == /\ linking /\ target = 0 /\ target' = temporary /\ entry' = FALSE

Publish == /\ pc = "link"
           /\ \/ LinkTarget /\ pc' = "sync" /\ UNCHANGED <<data, output>>
              \/ /\ ~linking /\ target = 0 /\ data' = Append(data, Inode(<< >>, Private))
                 /\ target' = New /\ output' = New /\ entry' = FALSE /\ pc' = "fill"
              \/ target # 0 /\ pc' = "tidy" /\ UNCHANGED <<target, data, output, entry>>
           /\ UNCHANGED <<temporary, pending, blob, source, metadata, snapshot, keeping, history, bounds>>

(* The bytes are durable before the mode lets others read them.            *)
Fill == /\ pc = "fill"
        /\ IF More(temporary, output) THEN data' = Copied(temporary, output) /\ UNCHANGED pc
           ELSE data' = [data EXCEPT ![output].synced = TRUE] /\ pc' = "grant"
        /\ UNCHANGED <<names, entry, caller, keeping, history, bounds>>

Grant == /\ pc = "grant" /\ pc' = "verify"
         /\ data' = [data EXCEPT ![output].mode = snapshot.mode, ![output].version = @ + 1]
         /\ UNCHANGED <<names, entry, caller, keeping, history, bounds>>

(* The stat is taken first, the bytes are hashed and made durable after.   *)
Verify == /\ pc = "verify"
          /\ IF data[output].bytes = snapshot.bytes
             THEN metadata' = Stat(output) /\ data' = [data EXCEPT ![output].synced = TRUE] /\ pc' = "confirm"
             ELSE pc' = "withdraw" /\ UNCHANGED <<metadata, data>>
          /\ UNCHANGED <<names, entry, source, output, snapshot, keeping, history, bounds>>

Confirm == /\ pc = "confirm"
           /\ pc' = IF /\ target = output /\ Stat(output) = metadata /\ data[output].mode = snapshot.mode
                    THEN "sync" ELSE "withdraw"
           /\ UNCHANGED <<data, names, entry, caller, keeping, history, bounds>>

SyncTarget == /\ pc = "sync" /\ pc' = "remove temporary" /\ entry' = TRUE
              /\ UNCHANGED <<data, names, caller, keeping, history, bounds>>

RemoveTemporary == /\ pc \in {"remove temporary", "tidy"} /\ temporary' = 0
                   /\ pc' = IF pc = "tidy" THEN "failed" ELSE "restored"
                   /\ UNCHANGED <<data, target, pending, blob, entry, caller, keeping, history, bounds>>

(* removeSnapshotTemporary of what was published: looked at, then unlinked.*)
Withdraw == /\ pc = "withdraw" /\ pc' = IF target = output THEN "unpublish" ELSE "tidy"
            /\ UNCHANGED <<data, names, entry, caller, keeping, history, bounds>>

Unpublish == /\ pc = "unpublish" /\ pc' = "tidy" /\ target' = 0 /\ entry' = TRUE
             /\ UNCHANGED <<data, temporary, pending, blob, caller, keeping, history, bounds>>

----------------------------------------------------------------------------
(* A call fails, or the fence before it: the capture is discarded, the     *)
(* restoration cleans up behind itself.  A cleanup may itself fail.        *)
Throws ==
  /\ faults < MaxFaults /\ faults' = faults + 1
  /\ pc' = CASE pc \in {"open", "capture", "publish", "unlink"} -> "discard"
             [] pc \in {"copy", "mode", "link", "sync"} -> "tidy"
             [] pc \in {"fill", "grant", "verify", "confirm"} -> "withdraw"
             [] pc \in {"withdraw", "unpublish"} -> "tidy"
             [] pc \in {"tidy", "remove temporary"} -> "failed"
             [] pc = "discard" -> "refused"
             [] OTHER -> "none"
  /\ pc' # "none" /\ active' = (active /\ pc # "discard")
  /\ stranded' = (stranded \/ pc \in {"discard", "withdraw", "unpublish", "tidy", "remove temporary"})
  /\ UNCHANGED <<data, names, entry, caller, directory, alive, old, retained, seen, theirs, late, linking, edits>>

(* The process dies, and with it what it had in memory.                    *)
Crash == /\ faults < MaxFaults /\ alive /\ pc \notin {"ended", "refused", "failed"}
         /\ alive' = FALSE /\ active' = FALSE /\ pc' = "dead" /\ faults' = faults + 1
         /\ UNCHANGED <<data, names, entry, caller, directory, old, retained, history, linking, edits>>

Age == ~old /\ old' = TRUE
       /\ UNCHANGED <<data, names, entry, pc, caller, directory, active, alive, retained, history, bounds>>

(* sweepSnapshotBlobs, of a call of this process or of another process: it *)
(* spares what the journal needs, captures under way, and those of other   *)
(* processes that are young or not known to be dead.                       *)
Abandoned(mine) == ~retained /\ IF mine THEN alive /\ ~active ELSE old /\ ~alive

Sweep == /\ directory /\ \E mine \in BOOLEAN : Abandoned(mine)
         /\ directory' = FALSE /\ pending' = 0 /\ blob' = 0
         /\ UNCHANGED <<data, target, temporary, entry, pc, caller, active, alive, old, retained, history, bounds>>

(* An editor writes the file, puts another in its place or removes it.     *)
Edit == /\ edits < MaxEdits /\ edits' = edits + 1
        /\ \/ /\ target # 0
              /\ \E b \in Contents : b # data[target].bytes /\ data' = Write(target, b) /\ seen' = seen \cup {b}
              /\ theirs' = theirs \cup {target} /\ UNCHANGED target
           \/ /\ \E b \in Contents, m \in Modes : data' = Append(data, Inode(b, m))
              /\ target' = New /\ theirs' = theirs \cup {New} /\ UNCHANGED seen
           \/ /\ target # 0 /\ target' = 0 /\ UNCHANGED <<data, theirs, seen>>
        /\ late' = (late \/ pc = "unpublish" \/ (target = output /\ target' = output))
        /\ UNCHANGED <<temporary, pending, blob, entry, pc, caller, keeping, stranded, linking, faults>>

Stop == pc \in {"ended", "refused", "failed", "dead"} /\ UNCHANGED vars

Server == \/ Stage \/ Open \/ Capture \/ LinkBlob \/ Captured \/ Discard \/ Remove \/ Dispose
          \/ OpenBlob \/ Copy \/ SetMode \/ Publish \/ Fill \/ Grant \/ Verify \/ Confirm
          \/ SyncTarget \/ RemoveTemporary \/ Withdraw \/ Unpublish

Next == Server \/ Throws \/ Crash \/ Age \/ Sweep \/ Edit \/ Stop

Spec == Init /\ [][Next]_vars

----------------------------------------------------------------------------
(* A capture is of one moment of the file, although it was read in chunks  *)
(* while others wrote: what the caller holds is a content the file had.    *)
CapturesAreMoments == snapshot # None => snapshot.bytes \in seen

(* What a running call or the journal may need is there, whole and durable.*)
CopiesAreKept == snapshot # None /\ (active \/ retained) =>
    blob # 0 /\ data[blob].bytes = snapshot.bytes /\ data[blob].synced

(* A restored file is the captured one with its mode, on disk with its     *)
(* name, unless an editor came since; no temporary file stays.             *)
RestoredMeansExact == pc = "restored" =>
    /\ temporary = 0
    /\ (target # 0 /\ target \notin theirs =>
          /\ entry /\ data[target].synced
          /\ data[target].bytes = snapshot.bytes /\ data[target].mode = snapshot.mode)

(* A restoration that fails leaves no part of a file: what is at the target*)
(* is whole or an editor's.                                                *)
NothingInParts == pc = "failed" /\ ~stranded =>
    temporary = 0 /\ (target # 0 /\ target \notin theirs => data[target].bytes = snapshot.bytes)

(* No name an editor gave is taken away or given to another file but in    *)
(* the gap the code's comment on removeSnapshotTemporary describes.        *)
EditorsKeepTheirFiles ==
  target' # target /\ edits' = edits /\ pc # "captured" /\ target \in theirs => late

SnapshotsAreSafe == CapturesAreMoments /\ CopiesAreKept /\ RestoredMeansExact /\ NothingInParts
=============================================================================
