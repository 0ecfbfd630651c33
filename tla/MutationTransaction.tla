------------------------- MODULE MutationTransaction -------------------------
(***************************************************************************)
(* The journaled file transaction of ast-mcp: file_write, file_patch and   *)
(* file_delete batches, their rollback, and the recovery that the next     *)
(* mutating call runs before it does anything of its own.                  *)
(*                                                                         *)
(*   src/src/intelligence/mutation/service.ts   lifecycle and recovery     *)
(*   src/src/intelligence/mutation/journal.ts   the durable record         *)
(*   src/src/patch/engine.ts                    write and patch batches    *)
(*   src/src/runtime/file-delete.ts             delete batches             *)
(*   src/src/runtime/snapshot-blob.ts           the source snapshots       *)
(*                                                                         *)
(* One process at a time holds the checkout's transaction lock (FileLock   *)
(* models it), so the server is one sequential thread of control here: pc  *)
(* is the next step of whoever holds the lock. A crash frees the lock and  *)
(* loses the memory of that thread, and "idle" stands for any process that *)
(* may take the lock next. What does interleave with every step are the    *)
(* editors that do not take the locks, crashes and power loss.             *)
(*                                                                         *)
(* A content stands for a file's bytes and for their SHA-256; Absent for a *)
(* missing file and for a null hash. Modes, owners, directories, path      *)
(* policy and the workspace binding are left out.                          *)
(***************************************************************************)
EXTENDS Integers, Sequences, Functions

CONSTANTS Files,        \* paths of the checkout
          Contents,     \* what a file may hold
          Absent,       \* no file, or a null hash
          Batches,      \* the batches a request may name, as sequences of files
          Tools,        \* the tools clients call
          Format,       \* what the configured formatter makes of a content
          StuckPools,   \* may the refresh's parser pool fail to retire its workers
          MaxOps,       \* bound: operations started
          MaxCrashes,   \* bound: process crashes and power losses
          MaxFaults,    \* bound: failed writes, I/O errors, aborts, lost fences
          MaxEdits      \* bound: writes by editors that take no lock

ASSUME ConstantsAssumption ==
  /\ Absent \notin Contents
  /\ Batches \subseteq Seq(Files) \ {<< >>}
  /\ Tools \subseteq {"file_write", "file_patch", "file_delete"}
  /\ Format \in [Contents -> Contents]
  /\ StuckPools \in BOOLEAN
  /\ {MaxOps, MaxCrashes, MaxFaults, MaxEdits} \subseteq Nat

(* A request is an object with one property per path.                      *)
ASSUME FilesNamedOnce ==
  \A s \in Batches : \A i, j \in 1..Len(s) : s[i] = s[j] => i = j

VARIABLES
  disk,        \* what a read of each file returns
  survivors,   \* the contents each file may have after a power loss
  touched,     \* history: edited from outside since a batch captured the file
  journal,     \* the mutation record of each operation
  blobs,       \* the source snapshots kept, as <<operation, file>>
  pc,          \* next step of the lock holder
  op,          \* operations started so far; the last one's identity
  req,         \* the running batch, in the holder's memory
  k,           \* its loop index; how many files are committed, from "apply" on
  seen,        \* what recovery read before it replaces a file
  pass,        \* unfinished operations this recovery has still to treat
  cur,         \* the one it is treating
  undoFailed,  \* the rollback of some file failed
  outcome,     \* the last answer to a client
  crashes, faults, edits

world   == <<disk, survivors, touched>>
loop    == <<k, seen, undoFailed>>
scan    == <<pass, cur>>
bounds  == <<crashes, faults, edits>>
vars    == <<world, journal, blobs, pc, op, req, loop, scan, outcome, bounds>>

Ops      == 1..MaxOps
Hashes   == Contents \cup {Absent}
Finished == {"none", "succeeded", "rolled-back", "recovered"}
Open     == {"running", "refreshing", "recovery-required"}

(* A batch as the holder sees it; snapshot, expected, candidate and written *)
(* are Absent for every file outside the batch. planned: the lifecycle still *)
(* keeps its plan, without which it records nothing more.                   *)
Requests == [tool : Tools, files : Batches, planned : BOOLEAN,
             snapshot : [Files -> Hashes], expected : [Files -> Hashes],
             candidate : [Files -> Hashes], written : [Files -> Hashes]]
NoRequest == [tool |-> "none"]

Records == [state : Finished \cup Open, files : Batches \cup {<< >>},
            source : [Files -> Hashes], candidate : [Files -> Hashes],
            committed : [Files -> Hashes]]
Nowhere  == [f \in Files |-> Absent]
NoRecord == [state |-> "none", files |-> << >>, source |-> Nowhere,
             candidate |-> Nowhere, committed |-> Nowhere]

Unfinished(i) == journal[i].state \in Open
FilesOf(r)    == Range(r.files)
Material(i)   == {<<i, f>> : f \in {g \in FilesOf(journal[i]) :
                                      journal[i].source[g] # Absent}}
(* Mutant: the sweep forgets records that already failed once.             *)
RetainedRunning == UNION {Material(i) : i \in {j \in Ops : journal[j].state = "running"}}

Retained      == UNION {Material(i) : i \in {j \in Ops : Unfinished(j)}}

(* Mutants: recovery that trusts only confirmed commits, and one that does  *)
(* not expect a missing file.                                               *)
RestorableConfirmed(r, f) == {Absent, r.source[f], r.committed[f]}
RestorablePresent(r, f)   == {r.source[f], r.candidate[f], r.committed[f]} \ {Absent}

(* The contents recovery accepts in place of a journaled file.             *)
Restorable(r, f) ==
  {Absent, r.source[f], r.candidate[f], r.committed[f]}

----------------------------------------------------------------------------
Init ==
  /\ disk \in [Files -> Hashes]
  /\ survivors = [f \in Files |-> {disk[f]}]
  /\ touched = [f \in Files |-> FALSE]
  /\ journal = [i \in Ops |-> NoRecord]
  /\ blobs = {}
  /\ pc = "idle" /\ op = 0 /\ req = NoRequest
  /\ k = 0 /\ seen = Absent /\ undoFailed = FALSE
  /\ pass = {} /\ cur = 0
  /\ outcome = "none"
  /\ crashes = 0 /\ faults = 0 /\ edits = 0

(* A rename or unlink is visible at once and durable at the next sync.     *)
Put(f, c) ==
  /\ disk' = [disk EXCEPT ![f] = c]
  /\ survivors' = [survivors EXCEPT ![f] = @ \cup {c}]
  /\ UNCHANGED touched

Sync(fs) ==
  /\ survivors' = [f \in Files |-> IF f \in fs THEN {disk[f]} ELSE survivors[f]]
  /\ UNCHANGED <<disk, touched>>

Fault == faults < MaxFaults /\ faults' = faults + 1 /\ UNCHANGED <<crashes, edits>>

(* One journal update. The store can refuse it, and it can apply it and    *)
(* still report failure: the writer lease is asserted again after the row  *)
(* is written.                                                             *)
Journal(i, r, good, bad) ==
  \/ /\ journal' = [journal EXCEPT ![i] = r]
     /\ pc' = good
     /\ UNCHANGED bounds
  \/ /\ Fault
     /\ journal' \in {journal, [journal EXCEPT ![i] = r]}
     /\ pc' = bad

Transition(i, state, good, bad) ==
  Journal(i, [journal[i] EXCEPT !.state = state], good, bad)

----------------------------------------------------------------------------
(* Recovery, first thing under the transaction lock.                       *)

Acquire ==
  /\ pc = "idle"
  /\ pass' = {i \in Ops : Unfinished(i)}
  /\ cur' = 0
  /\ pc' = "recover"
  /\ UNCHANGED <<world, journal, blobs, op, req, loop, outcome, bounds>>

(* Every source and every target is validated before the first write.      *)
RecoverValidate ==
  /\ pc = "recover"
  /\ \E i \in pass :
       /\ \A j \in pass : i <= j
       /\ cur' = i
       /\ pc' = IF /\ Material(i) \subseteq blobs
                   /\ \A f \in FilesOf(journal[i]) : disk[f] \in Restorable(journal[i], f)
                THEN "restore" ELSE "reject"
  /\ k' = 1
  /\ UNCHANGED <<world, journal, blobs, op, req, seen, undoFailed, pass, outcome, bounds>>

RecoverCheck ==
  /\ pc = "restore" /\ k <= Len(journal[cur].files)
  /\ LET f == journal[cur].files[k]
         r == journal[cur]
     IN \/ disk[f] = r.source[f] /\ k' = k + 1 /\ UNCHANGED <<pc, seen>>
        \/ /\ disk[f] # r.source[f] /\ UNCHANGED k
           /\ seen' = disk[f]
           /\ pc' = IF disk[f] \in Restorable(r, f) THEN "restoring" ELSE "reject"
  /\ UNCHANGED <<world, journal, blobs, op, req, undoFailed, scan, outcome, bounds>>

(* A created file is unlinked; a missing file is published without         *)
(* replacing; any other is replaced by rename. A change since the check is *)
(* seen when it comes before the second hash, and missed when after it.    *)
RecoverReplace ==
  /\ pc = "restoring"
  /\ LET f    == journal[cur].files[k]
         goal == journal[cur].source[f]
         gone == disk[f] = Absent
         refused == IF goal = Absent THEN gone ELSE seen = Absent /\ ~gone
         changed == goal # Absent /\ disk[f] # seen
     IN \/ (refused \/ changed) /\ pc' = "reject" /\ UNCHANGED <<world, k>>
        \/ ~refused /\ Put(f, goal) /\ k' = k + 1 /\ pc' = "restore"
  /\ UNCHANGED <<journal, blobs, op, req, seen, undoFailed, scan, outcome, bounds>>

(* Mutant: recovery is settled before its paths are synced.                *)
RecoverVerifyUnsynced ==
  /\ pc = "restore" /\ k > Len(journal[cur].files)
  /\ pc' = "settle"
  /\ UNCHANGED <<world, journal, blobs, op, req, loop, scan, outcome, bounds>>

RecoverVerify ==
  /\ pc = "restore" /\ k > Len(journal[cur].files)
  /\ \/ /\ \A f \in FilesOf(journal[cur]) : disk[f] = journal[cur].source[f]
        /\ Sync(FilesOf(journal[cur]))
        /\ pc' = "settle"
     \/ /\ \E f \in FilesOf(journal[cur]) : disk[f] # journal[cur].source[f]
        /\ pc' = "reject"
        /\ UNCHANGED world
  /\ UNCHANGED <<journal, blobs, op, req, loop, scan, outcome, bounds>>

RecoverFails ==
  /\ pc \in {"restore", "restoring"}
  /\ Fault
  /\ pc' = "reject"
  /\ UNCHANGED <<world, journal, blobs, op, req, loop, scan, outcome>>

RecoverSettle ==
  /\ pc = "settle"
  /\ Transition(cur, "recovered", "recover", "reject")
  /\ pass' = IF pc' = "recover" THEN pass \ {cur} ELSE pass
  /\ UNCHANGED <<world, blobs, op, req, loop, cur, outcome>>

RecoverReject ==
  /\ pc = "reject"
  /\ Transition(cur, "recovery-required", "recover", "idle")
  /\ pass' = pass \ {cur}
  /\ outcome' = IF pc' = "idle" THEN "recovery" ELSE outcome
  /\ UNCHANGED <<world, blobs, op, req, loop, cur>>

(* Mutant: the call goes on although recovery left a record unfinished.    *)
SweepRegardless ==
  /\ pc = "recover" /\ pass = {}
  /\ blobs' = blobs \cap Retained
  /\ pc' = "ready"
  /\ UNCHANGED <<world, journal, op, req, loop, scan, outcome, bounds>>

(* Blobs no unfinished record needs are swept, some of them later: a live  *)
(* owner or a young file protects a blob.                                  *)
Sweep ==
  /\ pc = "recover" /\ pass = {}
  /\ \E kept \in SUBSET blobs :
       /\ Retained \cap blobs \subseteq kept
       /\ blobs' = kept
  /\ IF \E i \in Ops : Unfinished(i)
     THEN pc' = "idle" /\ outcome' = "recovery"
     ELSE pc' = "ready" /\ UNCHANGED outcome
  /\ UNCHANGED <<world, journal, op, req, loop, scan, bounds>>

Release ==
  /\ pc = "ready"
  /\ pc' = "idle"
  /\ outcome' = "none"
  /\ UNCHANGED <<world, journal, blobs, op, req, loop, scan, bounds>>

----------------------------------------------------------------------------
(* A batch: capture, preflight, stage, begin, then one file after another. *)

(* What a tool journals as a file's candidate, and what it then writes. A  *)
(* patch journals its unformatted candidate and formats in the commit.     *)
CandidateOf(tool, c) ==
  IF tool = "file_delete" THEN Absent ELSE IF tool = "file_write" THEN Format[c] ELSE c
WrittenOf(tool, c) == IF tool = "file_delete" THEN Absent ELSE Format[c]

Over(files, g(_)) == [f \in Files |-> IF f \in Range(files) THEN g(f) ELSE Absent]

Capture ==
  /\ pc = "ready" /\ op < MaxOps
  /\ \E tool \in Tools, files \in Batches : \E wanted \in [Range(files) -> Contents] :
       /\ req' = [tool |-> tool, files |-> files, planned |-> TRUE,
                  snapshot  |-> Over(files, LAMBDA f : disk[f]),
                  expected  |-> Over(files, LAMBDA f : disk[f]),
                  candidate |-> Over(files, LAMBDA f : CandidateOf(tool, wanted[f])),
                  written   |-> Over(files, LAMBDA f : WrittenOf(tool, wanted[f]))]
       /\ touched' = [f \in Files |-> touched[f] /\ f \notin Range(files)]
  /\ op' = op + 1
  /\ k' = 1
  /\ pc' = "preflight"
  /\ undoFailed' = FALSE
  /\ outcome' = "none"
  /\ UNCHANGED <<disk, survivors, journal, blobs, seen, scan, bounds>>

(* Patch and write read the file a second time and pin its hash; delete    *)
(* keeps the hash its caller gave. Only file_write accepts a missing file. *)
Preflight ==
  /\ pc = "preflight"
  /\ req' = IF req.tool = "file_delete" THEN req
            ELSE [req EXCEPT !.expected = Over(req.files, LAMBDA f : disk[f])]
  /\ \/ /\ req.tool # "file_write"
        /\ \E f \in Range(req.files) : disk[f] = Absent
        /\ pc' = "idle" /\ outcome' = "error"
     \/ /\ req.tool # "file_write" => \A f \in Range(req.files) : disk[f] # Absent
        /\ pc' = "stage" /\ UNCHANGED outcome
  /\ UNCHANGED <<world, journal, blobs, op, loop, scan, bounds>>

Mine == {b \in blobs : b[1] = op}

Stage ==
  /\ pc = "stage" /\ k <= Len(req.files)
  /\ LET f == req.files[k]
     IN \/ /\ disk[f] = req.snapshot[f] \/ req.snapshot[f] = Absent
           /\ blobs' = IF req.snapshot[f] = Absent THEN blobs ELSE blobs \cup {<<op, f>>}
           /\ k' = k + 1
           /\ UNCHANGED <<pc, outcome>>
        \/ /\ disk[f] # req.snapshot[f] /\ req.snapshot[f] # Absent
           /\ blobs' = blobs \ Mine
           /\ pc' = "idle" /\ outcome' = "error"
           /\ UNCHANGED k
  /\ UNCHANGED <<world, journal, op, req, seen, undoFailed, scan, bounds>>

(* When the begin write fails the batch keeps its blobs and writes nothing: *)
(* the record may be there.                                                 *)
Begin ==
  /\ pc = "stage" /\ k > Len(req.files)
  /\ Journal(op, [state |-> "running", files |-> req.files, source |-> req.snapshot,
                  candidate |-> req.candidate, committed |-> Nowhere],
             "apply", "idle")
  /\ k' = 0
  /\ outcome' = IF pc' = "idle" THEN "error" ELSE outcome
  /\ UNCHANGED <<world, blobs, op, req, seen, undoFailed, scan>>

(* The hash recheck just before the rename. A file the batch creates has   *)
(* no hash to recheck.                                                     *)
CheckTarget ==
  /\ pc = "apply" /\ k < Len(req.files)
  /\ LET f == req.files[k + 1]
     IN pc' = IF req.expected[f] \in {Absent, disk[f]} THEN "replace" ELSE "fail"
  /\ UNCHANGED <<world, journal, blobs, op, req, loop, scan, outcome, bounds>>

Replace ==
  /\ pc = "replace"
  /\ LET f == req.files[k + 1]
     IN \/ /\ req.tool = "file_delete" => disk[f] # Absent
           /\ Put(f, req.written[f])
           /\ k' = k + 1
           /\ pc' = "record"
        \/ /\ req.tool = "file_delete" /\ disk[f] = Absent
           /\ pc' = "fail"
           /\ UNCHANGED <<world, k>>
  /\ UNCHANGED <<journal, blobs, op, req, seen, undoFailed, scan, outcome, bounds>>

RecordCommit ==
  /\ pc = "record"
  /\ LET f == req.files[k]
         h == IF req.tool = "file_delete" THEN req.snapshot[f] ELSE req.written[f]
     IN Journal(op, [journal[op] EXCEPT !.committed[f] = h, !.state = "running"],
                "apply", "fail")
  /\ UNCHANGED <<world, blobs, op, req, loop, scan, outcome>>

(* An abort, a lost fence or an I/O error before a replacement.            *)
ApplyFails ==
  /\ pc \in {"apply", "replace"}
  /\ Fault
  /\ pc' = "fail"
  /\ UNCHANGED <<world, journal, blobs, op, req, loop, scan, outcome>>

----------------------------------------------------------------------------
(* Completion: refresh the index, sync the paths, settle the record.       *)

Refreshing ==
  /\ pc = "apply" /\ k = Len(req.files)
  /\ Transition(op, "refreshing", "refresh", "fail")
  /\ UNCHANGED <<world, blobs, op, req, loop, scan, outcome>>

(* Mutant: success is recorded before the directories are synced.          *)
RefreshUnsynced ==
  /\ pc = "refresh"
  /\ pc' = "succeed"
  /\ UNCHANGED <<world, journal, blobs, op, req, loop, scan, outcome, bounds>>

Refresh ==
  /\ pc = "refresh"
  /\ \/ Sync(Range(req.files)) /\ pc' = "succeed" /\ UNCHANGED bounds
     \/ Fault /\ pc' = "unsettled" /\ UNCHANGED world
  /\ UNCHANGED <<journal, blobs, op, req, loop, scan, outcome>>

Succeed ==
  /\ pc = "succeed"
  /\ Transition(op, "succeeded", "dispose", "unsettled")
  /\ outcome' = IF pc' = "dispose" THEN "ok" ELSE outcome
  /\ UNCHANGED <<world, blobs, op, req, loop, scan>>

(* complete() has recorded success and dropped its plan when it closes the *)
(* parser pool; a worker that cannot be retired makes it throw all the same. *)
CloseFails ==
  /\ pc = "succeed" /\ StuckPools
  /\ Fault
  /\ journal' = [journal EXCEPT ![op].state = "succeeded"]
  /\ req' = [req EXCEPT !.planned = FALSE]
  /\ pc' = "fail"
  /\ UNCHANGED <<world, blobs, op, loop, scan, outcome>>

(* complete() marks the record when the refresh or the last write failed.  *)
Unsettled ==
  /\ pc = "unsettled"
  /\ Transition(op, "recovery-required", "fail", "fail")
  /\ UNCHANGED <<world, blobs, op, req, loop, scan, outcome>>

Dispose ==
  /\ pc = "dispose"
  /\ blobs' = blobs \ Mine
  /\ pc' = "idle"
  /\ UNCHANGED <<world, journal, op, req, loop, scan, outcome, bounds>>

----------------------------------------------------------------------------
(* Rollback, last commit first, after failMutation marked the record of a  *)
(* batch whose plan is known; the error of that write is ignored.          *)

Fail ==
  /\ pc = "fail"
  /\ \/ req.planned /\ Transition(op, "recovery-required", "rollback", "rollback")
     \/ ~req.planned /\ pc' = "rollback" /\ UNCHANGED <<journal, bounds>>
  /\ UNCHANGED <<world, blobs, op, req, loop, scan, outcome>>

(* Mutants: a file whose rollback failed is skipped without remembering it, *)
(* and the rollback loop steps over a file.                                *)
UndoNextForgets(failed) == k' = k - 1 /\ UNCHANGED undoFailed

UndoNextTwice(failed) == k' = k - 2 /\ undoFailed' = (undoFailed \/ failed)

UndoNext(failed) == k' = k - 1 /\ undoFailed' = (undoFailed \/ failed)

RollbackCheck ==
  /\ pc = "rollback" /\ k > 0
  /\ LET f == req.files[k]
     IN \/ disk[f] = req.written[f] /\ pc' = "undo" /\ UNCHANGED <<k, undoFailed>>
        \/ disk[f] # req.written[f] /\ UndoNext(TRUE) /\ UNCHANGED pc
  /\ UNCHANGED <<world, journal, blobs, op, req, seen, scan, outcome, bounds>>

(* A deleted file comes back without replacing, a created one is unlinked. *)
Undo ==
  /\ pc = "undo"
  /\ LET f == req.files[k]
         refused == \/ req.tool = "file_delete" /\ disk[f] # Absent
                    \/ req.snapshot[f] = Absent /\ disk[f] = Absent
     IN /\ UndoNext(refused)
        /\ IF refused THEN UNCHANGED world ELSE Put(f, req.snapshot[f])
  /\ pc' = "rollback"
  /\ UNCHANGED <<journal, blobs, op, req, seen, scan, outcome, bounds>>

UndoFails ==
  /\ pc \in {"rollback", "undo"} /\ k > 0
  /\ Fault
  /\ UndoNext(TRUE)
  /\ pc' = "rollback"
  /\ UNCHANGED <<world, journal, blobs, op, req, seen, scan, outcome>>

(* file_delete swallows a failure to record its rollback.                  *)
Unrecorded == IF req.tool = "file_delete" THEN "error" ELSE "recovery"

RollbackEnds ==
  /\ pc = "rollback" /\ k = 0
  /\ \/ undoFailed /\ pc' = "idle" /\ outcome' = "recovery" /\ UNCHANGED <<world, bounds>>
     \/ /\ ~undoFailed /\ req.planned
        /\ \/ Sync(Range(req.files)) /\ pc' = "rolledBack" /\ UNCHANGED <<outcome, bounds>>
           \/ Fault /\ pc' = "idle" /\ outcome' = Unrecorded /\ UNCHANGED world
     \/ /\ ~undoFailed /\ ~req.planned
        /\ pc' = "dispose" /\ outcome' = "error" /\ UNCHANGED <<world, bounds>>
  /\ UNCHANGED <<journal, blobs, op, req, loop, scan>>

RolledBack ==
  /\ pc = "rolledBack"
  /\ Transition(op, "rolled-back", "dispose", "idle")
  /\ outcome' = IF pc' = "idle" THEN Unrecorded ELSE "error"
  /\ UNCHANGED <<world, blobs, op, req, loop, scan>>

----------------------------------------------------------------------------
(* The environment.                                                        *)

Forget ==
  /\ crashes < MaxCrashes
  /\ crashes' = crashes + 1
  /\ pc' = "idle" /\ req' = NoRequest /\ outcome' = "none"
  /\ k' = 0 /\ seen' = Absent /\ undoFailed' = FALSE /\ pass' = {} /\ cur' = 0
  /\ UNCHANGED <<touched, journal, blobs, op, faults, edits>>

Crash == Forget /\ pc # "idle" /\ UNCHANGED <<disk, survivors>>

PowerLoss ==
  /\ Forget
  /\ disk' \in [Files -> Hashes]
  /\ \A f \in Files : disk'[f] \in survivors[f]
  /\ survivors' = [f \in Files |-> {disk'[f]}]

OutsideEdit ==
  /\ edits < MaxEdits
  /\ edits' = edits + 1
  /\ \E f \in Files, c \in Hashes :
       /\ c # disk[f]
       /\ disk' = [disk EXCEPT ![f] = c]
       /\ survivors' = [survivors EXCEPT ![f] = {c}]
       /\ touched' = [touched EXCEPT ![f] = TRUE]
  /\ UNCHANGED <<journal, blobs, pc, op, req, loop, scan, outcome, crashes, faults>>

Recover == RecoverValidate \/ RecoverCheck \/ RecoverReplace \/ RecoverVerify
           \/ RecoverFails \/ RecoverSettle \/ RecoverReject \/ Sweep
Mutate  == Capture \/ Preflight \/ Stage \/ Begin \/ CheckTarget \/ Replace
           \/ RecordCommit \/ ApplyFails
Settle  == Refreshing \/ Refresh \/ Succeed \/ CloseFails \/ Unsettled \/ Dispose
Roll    == Fail \/ RollbackCheck \/ Undo \/ UndoFails \/ RollbackEnds \/ RolledBack
Server  == Acquire \/ Recover \/ Release \/ Mutate \/ Settle \/ Roll

Next == Server \/ Crash \/ PowerLoss \/ OutsideEdit

Spec     == Init /\ [][Next]_vars
FairSpec == Spec /\ WF_vars(Server)

----------------------------------------------------------------------------
Steps == {"idle", "recover", "restore", "restoring", "settle", "reject", "ready",
          "preflight", "stage", "apply", "replace", "record", "refresh", "succeed",
          "unsettled", "dispose", "fail", "rollback", "undo", "rolledBack"}

(* Every variable has its type, and a power loss never invents a content.  *)
TypeOK ==
  /\ disk \in [Files -> Hashes]
  /\ survivors \in [Files -> SUBSET Hashes]
  /\ \A f \in Files : disk[f] \in survivors[f]
  /\ touched \in [Files -> BOOLEAN]
  /\ journal \in [Ops -> Records]
  /\ blobs \subseteq Ops \X Files
  /\ pc \in Steps
  /\ op \in 0..MaxOps
  /\ req \in Requests \cup {NoRequest}
  /\ k \in Nat /\ seen \in Hashes /\ undoFailed \in BOOLEAN
  /\ pass \subseteq Ops /\ cur \in 0..MaxOps
  /\ outcome \in {"none", "ok", "error", "recovery"}
  /\ crashes \in Nat /\ faults \in Nat /\ edits \in Nat

(* Recovery treats records oldest first, which restores the right contents *)
(* only because no batch starts over the unfinished record of another.     *)
AtMostOneUnfinished ==
  \A i, j \in Ops : Unfinished(i) /\ Unfinished(j) => i = j

(* Neither the sweep nor the disposal of a batch ever removes a source     *)
(* snapshot that the recovery of an unfinished record still needs.         *)
MaterialRetained == \A i \in Ops : Unfinished(i) => Material(i) \subseteq blobs

(* Whatever a crash or a power loss leaves, recovery accepts every file of *)
(* an unfinished record that no outside editor touched: the hash check of  *)
(* restoreMutationRecord never locks the checkout out of its own writes.   *)
RecoverableUnlessTouched ==
  \A i \in Ops : Unfinished(i) =>
    \A f \in FilesOf(journal[i]) :
      ~touched[f] => survivors[f] \subseteq Restorable(journal[i], f)

(* A batch that is neither wholly undone nor wholly written has a durable  *)
(* record that makes the next call restore it ("a durable rollback owner   *)
(* exists on failure", service.ts begin).                                  *)
MixedBatchIsOwned ==
  (op > 0 /\ journal[op].state # "none" /\ req # NoRequest) =>
    LET untouched == {f \in Range(req.files) : ~touched[f]}
    IN \/ Unfinished(op)
       \/ \A f \in untouched : disk[f] = req.snapshot[f]
       \/ \A f \in untouched : disk[f] = req.written[f]

(* What the client was told is what is on disk: success means every file   *)
(* holds the requested content, an ordinary error that none was changed.   *)
OutcomeIsHonest ==
  (pc = "idle" /\ req # NoRequest) =>
    \A f \in {g \in Range(req.files) : ~touched[g]} :
      /\ outcome = "ok" => survivors[f] = {req.written[f]}
      /\ outcome = "error" => disk[f] = req.snapshot[f]

(* A record becomes rolled-back or recovered only when every file of it    *)
(* that was not touched from outside durably holds its source again.       *)
SettledMeansRestored ==
  [][\A i \in Ops :
       (journal[i] # journal'[i] /\ journal'[i].state \in {"rolled-back", "recovered"})
         => \A f \in FilesOf(journal[i]) :
              touched[f] \/ survivors[f] = {journal[i].source[f]}]_vars

(* A crash of the process that mutates, at any step, is no different from *)
(* a batch that never started: the checkout, as recovery leaves it, moves  *)
(* from the contents before a batch to the contents after it in one step.  *)
Begun == {i \in Ops : journal[i].state # "none"}
Batch == IF Begun = {} THEN NoRecord
         ELSE journal[CHOOSE i \in Begun : \A j \in Begun : j <= i]
Viewed(g) == [f \in Files |-> IF f \in FilesOf(Batch) THEN g[f] ELSE disk[f]]

SeenContents == IF Batch.state \in Open THEN Viewed(Batch.source) ELSE disk
SeenBefore   == Viewed(Batch.source)
SeenAfter    == Viewed(Batch.candidate)
Revocable    == {"unsettled", "fail", "rollback", "undo", "rolledBack"}
SeenSettled  == Batch.state = "succeeded" /\ pc \notin Revocable

Abstract == INSTANCE AtomicBatch WITH
  contents <- SeenContents, before <- SeenBefore, after <- SeenAfter, settled <- SeenSettled

ImplementsAtomicBatch == Abstract!Spec

(* With clients that keep calling, an unfinished record is settled in the  *)
(* end, whatever step failed or crashed.                                   *)
RecoveryCompletes ==
  \A i \in Ops : Unfinished(i) ~> ~Unfinished(i)
----------------------------------------------------------------------------
(* The strengthening the proofs of MutationTransactionProofs rest on.      *)

Recovering == {"restore", "restoring", "settle", "reject"}
Applying   == {"apply", "replace", "record", "refresh", "succeed", "unsettled",
               "fail", "rollback", "undo", "rolledBack"}
Preparing  == {"preflight", "stage"}
Undoing    == {"fail", "rollback", "undo"}

(* Where the holder stands in its loops.                                   *)
LoopInv ==
  /\ pc \in Preparing \cup Applying \cup {"dispose"} => req \in Requests /\ op \in Ops
  /\ pc \in Preparing => k >= 1 /\ (pc = "preflight" => k = 1)
  /\ pc \in Applying => k <= Len(req.files)
  /\ pc = "replace" => k < Len(req.files)
  /\ pc \in {"record", "undo"} => k >= 1
  /\ pc \in Recovering => cur \in pass /\ k >= 1
  /\ pc = "restoring" => k <= Len(journal[cur].files)

(* Whoever holds the lock owns the only record that may be unfinished.     *)
OwnerInv ==
  /\ AtMostOneUnfinished
  /\ \A i, j \in pass : i = j
  /\ pc \notin {"recover"} \cup Recovering => pass = {}
  /\ pc = "recover" => \A i \in pass, j \in Ops : Unfinished(j) => j = i
  /\ pc \in Recovering => \A j \in Ops : Unfinished(j) => j = cur
  /\ pc \in {"ready", "dispose"} \cup Preparing => \A j \in Ops : ~Unfinished(j)
  /\ pc \in Applying => \A j \in Ops : Unfinished(j) => j = op
  /\ pc \in Preparing \cup (Applying \ Undoing) => req.planned
  /\ pc \in Undoing => req.planned \/ \A j \in Ops : ~Unfinished(j)

(* The snapshots of a record that may yet become unfinished are in place.  *)
BlobInv ==
  /\ MaterialRetained
  /\ \A i \in pass : Material(i) \subseteq blobs
  /\ pc \in Applying => Material(op) \subseteq blobs
  /\ pc = "stage" => \A j \in 1..Len(req.files) :
       (j < k /\ req.snapshot[req.files[j]] # Absent) => <<op, req.files[j]>> \in blobs

IInv == TypeOK /\ LoopInv /\ OwnerInv /\ BlobInv

(* The record is what the holder has in memory, and it is the latest one.  *)
Recorded == req # NoRequest /\ op \in Ops /\ journal[op].state # "none"

RecordInv ==
  /\ \A i \in Ops : Unfinished(i) => i = op
  /\ \A i \in Ops : i > op => journal[i].state = "none"
  /\ pc \in Preparing => journal[op].state = "none"
  /\ pc \in Applying => journal[op].state # "none"
  /\ Recorded => /\ journal[op].files = req.files
                 /\ journal[op].source = req.snapshot
                 /\ journal[op].candidate = req.candidate
  /\ \A i \in pass : i = op /\ journal[i].state \in Open \cup {"recovered"}
  /\ pc = "recover" => \A i \in pass : Unfinished(i)
  /\ pc \in {"restore", "restoring", "settle"} => Unfinished(cur)

(* Of the files nobody else touched the first k are written and the others *)
(* are as captured, as long as no file's rollback failed.                  *)
ProgressInv ==
  /\ pc \in Preparing => \A f \in Range(req.files) : touched[f] \/ disk[f] = req.snapshot[f]
  /\ pc \in Applying => \A j \in 1..Len(req.files) :
       ~touched[req.files[j]] =>
         /\ j <= k => disk[req.files[j]] = req.written[req.files[j]]
         /\ j > k /\ ~undoFailed => disk[req.files[j]] = req.snapshot[req.files[j]]
  /\ pc \in Preparing \cup (Applying \ {"rollback", "undo"}) => ~undoFailed
  /\ pc \in {"refresh", "succeed", "unsettled"} => k = Len(req.files)

(* Files nobody else touched keep their contents through a power loss.     *)
Durably(fs, g) == \A f \in fs : touched[f] \/ survivors[f] = {g[f]}

SyncedInv ==
  /\ pc = "settle" \/ (pc = "reject" /\ ~Unfinished(cur)) =>
       Durably(FilesOf(journal[cur]), journal[cur].source)
  /\ pc = "rolledBack" => Durably(Range(req.files), req.snapshot)
  /\ pc = "succeed" => Durably(Range(req.files), req.written)
  /\ (pc \in {"idle", "dispose"} /\ req # NoRequest) =>
       /\ outcome = "ok" => Durably(Range(req.files), req.written)
       /\ outcome = "error" => \A f \in Range(req.files) : touched[f] \/ disk[f] = req.snapshot[f]

DataInv == RecordInv /\ ProgressInv /\ SyncedInv

(* With workers that retire and two faults, a record is finished only over *)
(* files that are durable, and whoever may change a file has one that is   *)
(* not. Clean(f): what a read returns is what a power loss leaves.         *)
Clean(f) == survivors[f] = {disk[f]}
Owned(f) == op \in Ops /\ Unfinished(op) /\ f \in FilesOf(journal[op])

(* Who holds a batch holds an unfinished record, or one whose success was  *)
(* written and reported as failed.                                         *)
HeldInv ==
  (pc \in Applying /\ ~Unfinished(op)) =>
    /\ \/ pc = "unsettled" /\ faults >= 1
       \/ pc = "fail" /\ faults >= 2
    /\ journal[op].state = "succeeded"
    /\ k = Len(req.files)

CleanInv ==
  \A f \in Files : Clean(f) \/ (Owned(f) /\ pc \notin {"settle", "rolledBack", "succeed"})

WholeInv ==
  (Recorded /\ ~Unfinished(op)) =>
    \/ \A f \in Range(req.files) : touched[f] \/ disk[f] = req.snapshot[f]
    \/ \A f \in Range(req.files) : touched[f] \/ disk[f] = req.written[f]

OwnedInv ==
  /\ faults <= MaxFaults
  /\ pc \in Applying => req.planned
  /\ HeldInv /\ CleanInv /\ WholeInv

(* With a formatter that changes no patch besides, what a crash can leave  *)
(* of a file is what its record expects.                                   *)
SurvivorsInv ==
  (op \in Ops /\ journal[op].state # "none" /\ (Unfinished(op) \/ pc \in Applying)) =>
    \A f \in FilesOf(journal[op]) :
      ~touched[f] => survivors[f] \subseteq {Absent, journal[op].source[f], journal[op].candidate[f]}

ExpectedInv == (req # NoRequest => req.written = req.candidate) /\ SurvivorsInv

(* Without outside edits nothing is touched.                               *)
EditsInv == edits <= MaxEdits /\ (edits = 0 => \A f \in Files : ~touched[f])
=============================================================================
