--------------------------- MODULE FileAttributes ---------------------------
(* file_chattr: the batch of tools/lifecycle.ts and the guarded change of one *)
(* file in runtime/attributes.ts.  A change goes through a handle that was    *)
(* opened before, so it reaches the file that was captured and no other; what *)
(* it changed is on disk only after a sync, for which Windows wants a handle  *)
(* that may write.  The owner may only stay what it is and is left out.       *)
EXTENDS Integers, Sequences, SequencesExt

CONSTANTS Batches,   \* sequences of [file, chmod], chmod may be NoMode
          Files, Modes, ReadOnly, \* ReadOnly: the mode that forbids writing
          NoMode,    \* a request without chmod
          Platforms, \* "posix", "win32"
          MaxFaults, \* bound: aborts, lost leases, I/O errors, journal writes that fail
          MaxEdits   \* bound: steps of editors

VARIABLES platform, batch,
          mode,    \* of each captured file
          durable, \* the mode a power loss would leave
          same,    \* is the file at the path the captured one, with its content
          first,   \* the mode at the capture
          before,  \* the mode when the change of the file began
          flush,   \* is there a handle a sync can use
          dirty,   \* was a change begun that no sync has followed
          changed, \* did the running change call chmod or chown
          applied, \* files the batch has begun to change, in order
          undoing, \* is the batch being rolled back
          whole,   \* has no rollback failed
          pc, i, journal, result, aborted, lease,
          chmods,  \* history: files whose mode an editor has set
          faults, edits

files  == <<mode, durable, same>>
handle == <<flush, dirty, changed>>
vars   == <<platform, batch, files, first, before, handle, applied, undoing, whole,
            pc, i, journal, result, aborted, lease, chmods, faults, edits>>

File == IF undoing THEN applied[i] ELSE batch[i].file

(* What the running change asks for: a rollback, the captured mode.          *)
Wanted == IF undoing THEN first[File] ELSE batch[i].chmod

Writable(m) == m # ReadOnly

Fault == faults < MaxFaults /\ faults' = faults + 1

(* verifyChattrHandle, which hears the abort of the call but in no rollback.  *)
Verified(rollback) == same[File] /\ (rollback \/ undoing \/ ~aborted)

(* beforeChange is the fence of the locks.                                   *)
Checked(rollback) == lease /\ Verified(rollback)

(* readFileChattrSnapshot: the mode, the content and the retained handle,    *)
(* which may write only on Windows and only where the file may be written.   *)
Capture ==
    /\ pc = "capture"
    /\ first' = mode
    /\ flush' = [f \in Files |-> platform = "posix" \/ Writable(mode[f])]
    /\ same' = [f \in Files |-> TRUE]
    /\ chmods' = {} /\ pc' = "begin"
    /\ UNCHANGED <<platform, batch, mode, durable, before, dirty, changed, applied, undoing, whole,
                   i, journal, result, aborted, lease, faults, edits>>

Begin ==
    /\ pc = "begin"
    /\ \/ journal' = "running" /\ pc' = "record" /\ lease /\ UNCHANGED <<result, faults>>
       \/ journal' \in {"none", "running"} /\ Fault /\ pc' = "end" /\ result' = "failed"
       \/ ~lease /\ UNCHANGED <<journal, faults>> /\ pc' = "end" /\ result' = "failed"
    /\ UNCHANGED <<platform, batch, files, first, before, handle, applied, undoing, whole,
                   i, aborted, lease, chmods, edits>>

(* The commit is recorded before the file is changed.                        *)
Record ==
    /\ pc = "record"
    /\ \/ pc' = "open" /\ ~aborted /\ lease /\ UNCHANGED faults
       \/ pc' = "fail" /\ IF aborted \/ ~lease THEN UNCHANGED faults ELSE Fault
    /\ UNCHANGED <<platform, batch, files, first, before, handle, applied, undoing, whole,
                   i, journal, result, aborted, lease, chmods, edits>>

-----------------------------------------------------------------------------
(* applyGuardedChattr.                                                       *)
AfterApply == IF undoing THEN "undone" ELSE "fail"

(* It throws, which a rollback of the batch remembers.                       *)
Thrown == whole' = (whole /\ ~undoing)

Failed == Thrown /\ pc' = IF changed \/ dirty[File] THEN "undo" ELSE AfterApply

Open ==
    /\ pc = "open"
    /\ changed' = FALSE
    /\ IF Verified(FALSE) THEN /\ before' = [before EXCEPT ![File] = mode[File]] /\ pc' = "acquire" /\ UNCHANGED whole
       ELSE Thrown /\ pc' = AfterApply /\ UNCHANGED before
    /\ UNCHANGED <<platform, batch, files, first, flush, dirty, applied, undoing,
                   i, journal, result, aborted, lease, chmods, faults, edits>>

(* acquireFlushHandle: a handle that writes is opened while the mode allows.  *)
Acquire ==
    /\ pc = "acquire"
    /\ LET needed == ~flush[File] /\ Writable(before[File])
           can == Checked(FALSE) /\ Writable(mode[File])
       IN /\ flush' = IF needed /\ can THEN [flush EXCEPT ![File] = TRUE] ELSE flush
          /\ IF needed /\ ~can THEN Failed ELSE pc' = "change" /\ UNCHANGED whole
    /\ UNCHANGED <<platform, batch, files, first, before, dirty, changed, applied, undoing,
                   i, journal, result, aborted, lease, chmods, faults, edits>>

(* Windows: what stays read-only is left alone.                              *)
Skipped == \/ Wanted = NoMode
           \/ /\ platform = "win32" /\ ~flush[File] /\ ~dirty[File]
              /\ ~Writable(before[File]) /\ ~Writable(Wanted)

Change ==
    /\ pc = "change"
    /\ IF Skipped THEN pc' = "verify" /\ UNCHANGED <<mode, dirty, changed, applied, whole, faults>>
       ELSE IF ~Checked(FALSE) THEN Failed /\ UNCHANGED <<mode, dirty, changed, applied, faults>>
       ELSE /\ applied' = IF File \in ToSet(applied) THEN applied ELSE Append(applied, File)
            /\ dirty' = [dirty EXCEPT ![File] = TRUE]
            /\ \/ /\ mode' = [mode EXCEPT ![File] = Wanted]
                  /\ changed' = TRUE /\ pc' = "verify" /\ UNCHANGED <<whole, faults>>
               \/ /\ Fault /\ Thrown /\ pc' = "undo" /\ UNCHANGED <<mode, changed>>
    /\ UNCHANGED <<platform, batch, durable, same, first, before, flush, undoing,
                   i, journal, result, aborted, lease, chmods, edits>>

(* The last look at the file and the sync of what was changed.               *)
CanFlush(rollback) == flush[File] \/ (Writable(mode[File]) /\ Checked(rollback))

Synced(f) == /\ durable' = [durable EXCEPT ![f] = mode[f]]
             /\ dirty' = [dirty EXCEPT ![f] = FALSE]
             /\ flush' = [flush EXCEPT ![f] = TRUE]


Verify ==
    /\ pc = "verify"
    /\ \/ /\ Verified(FALSE) /\ (dirty[File] => CanFlush(FALSE))
          /\ IF dirty[File] THEN Synced(File) ELSE UNCHANGED <<durable, dirty, flush>>
          /\ pc' = IF undoing THEN "undone" ELSE "next"
          /\ UNCHANGED <<whole, faults>>
       \/ /\ ~Verified(FALSE) \/ (dirty[File] /\ ~CanFlush(FALSE))
          /\ Failed /\ UNCHANGED <<durable, dirty, flush, faults>>
       \/ /\ Verified(FALSE) /\ dirty[File] /\ Fault
          /\ Failed /\ UNCHANGED <<durable, dirty, flush>>
    /\ UNCHANGED <<platform, batch, mode, same, first, before, changed, applied, undoing,
                   i, journal, result, aborted, lease, chmods, edits>>

(* The rollback of one change: while the file may be written a handle for the *)
(* sync is opened, then the mode is put back and flushed.                     *)
UndoAcquire ==
    /\ pc = "undo"
    /\ IF Checked(TRUE)
       THEN flush' = [flush EXCEPT ![File] = @ \/ Writable(mode[File])] /\ pc' = "restore"
       ELSE pc' = AfterApply /\ UNCHANGED flush
    /\ UNCHANGED <<platform, batch, files, first, before, dirty, changed, applied, undoing, whole,
                   i, journal, result, aborted, lease, chmods, faults, edits>>

Restore ==
    /\ pc = "restore"
    /\ IF Checked(TRUE)
       THEN /\ mode' = [mode EXCEPT ![File] = before[File]]
            /\ dirty' = [dirty EXCEPT ![File] = TRUE] /\ pc' = "reflush"
       ELSE pc' = AfterApply /\ UNCHANGED <<mode, dirty>>
    /\ UNCHANGED <<platform, batch, durable, same, first, before, flush, changed, applied, undoing, whole,
                   i, journal, result, aborted, lease, chmods, faults, edits>>

Reflush ==
    /\ pc = "reflush"
    /\ \/ CanFlush(TRUE) /\ Synced(File) /\ UNCHANGED faults
       \/ ~CanFlush(TRUE) /\ UNCHANGED <<durable, dirty, flush, faults>>
       \/ CanFlush(TRUE) /\ Fault /\ UNCHANGED <<durable, dirty, flush>>
    /\ pc' = AfterApply
    /\ UNCHANGED <<platform, batch, mode, same, first, before, changed, applied, undoing, whole,
                   i, journal, result, aborted, lease, chmods, edits>>

-----------------------------------------------------------------------------
NextFile ==
    /\ pc = "next"
    /\ IF i < Len(batch) THEN i' = i + 1 /\ pc' = "record" ELSE pc' = "complete" /\ UNCHANGED i
    /\ UNCHANGED <<platform, batch, files, first, before, handle, applied, undoing, whole,
                   journal, result, aborted, lease, chmods, faults, edits>>

Complete ==
    /\ pc = "complete"
    /\ \/ /\ lease /\ ~aborted /\ journal' = "succeeded" /\ pc' = "end" /\ result' = "changed" /\ UNCHANGED faults
       \/ /\ IF lease /\ ~aborted THEN Fault ELSE UNCHANGED faults
          /\ journal' \in {"running", "recovery"} /\ pc' = "fail" /\ UNCHANGED result
    /\ UNCHANGED <<platform, batch, files, first, before, handle, applied, undoing, whole,
                   i, aborted, lease, chmods, edits>>

(* failMutation, whose failure is ignored; the files follow, the last first.  *)
Fail ==
    /\ pc = "fail"
    /\ \/ journal' = "recovery" /\ UNCHANGED faults
       \/ UNCHANGED journal /\ Fault
    /\ undoing' = TRUE /\ i' = Len(applied) /\ pc' = "back"
    /\ UNCHANGED <<platform, batch, files, first, before, handle, applied, whole, result, aborted, lease, chmods, edits>>

Back ==
    /\ pc = "back"
    /\ pc' = IF i > 0 THEN "open" ELSE IF whole THEN "settle" ELSE "end"
    /\ result' = IF i = 0 /\ ~whole THEN "incomplete" ELSE result
    /\ UNCHANGED <<platform, batch, files, first, before, handle, applied, undoing, whole,
                   i, journal, aborted, lease, chmods, faults, edits>>

Undone ==
    /\ pc = "undone" /\ i' = i - 1 /\ pc' = "back"
    /\ UNCHANGED <<platform, batch, files, first, before, handle, applied, undoing, whole,
                   journal, result, aborted, lease, chmods, faults, edits>>

(* recordMutationRollback; its failure is the answer, and the record stays.   *)
Settle ==
    /\ pc = "settle"
    /\ \/ lease /\ journal' = "rolled-back" /\ UNCHANGED faults
       \/ UNCHANGED journal /\ IF lease THEN Fault ELSE UNCHANGED faults
    /\ pc' = "end" /\ result' = "failed"
    /\ UNCHANGED <<platform, batch, files, first, before, handle, applied, undoing, whole,
                   i, aborted, lease, chmods, edits>>

-----------------------------------------------------------------------------
AbortOrLose ==
    /\ pc # "end" /\ Fault
    /\ \/ ~aborted /\ aborted' = TRUE /\ UNCHANGED lease
       \/ lease /\ lease' = FALSE /\ UNCHANGED aborted
    /\ UNCHANGED <<platform, batch, files, first, before, handle, applied, undoing, whole,
                   pc, i, journal, result, chmods, edits>>

(* An editor changes or replaces the file, or sets its mode.                 *)
Edit ==
    /\ pc \notin {"capture", "end"} /\ edits < MaxEdits /\ edits' = edits + 1
    /\ \E f \in Files :
          \/ same[f] /\ same' = [same EXCEPT ![f] = FALSE] /\ UNCHANGED <<mode, chmods>>
          \/ same[f] /\ \E m \in Modes \ {mode[f]} : mode' = [mode EXCEPT ![f] = m] /\ chmods' = chmods \cup {f} /\ UNCHANGED same
    /\ UNCHANGED <<platform, batch, durable, first, before, handle, applied, undoing, whole,
                   pc, i, journal, result, aborted, lease, faults>>

Init ==
    /\ platform \in Platforms /\ batch \in Batches
    /\ mode \in [Files -> Modes] /\ durable = mode /\ same = [f \in Files |-> TRUE]
    /\ first = mode /\ before = mode
    /\ flush = [f \in Files |-> FALSE] /\ dirty = flush /\ changed = FALSE
    /\ applied = <<>> /\ undoing = FALSE /\ whole = TRUE
    /\ pc = "capture" /\ i = 1 /\ journal = "none" /\ result = "none"
    /\ aborted = FALSE /\ lease = TRUE /\ chmods = {} /\ faults = 0 /\ edits = 0

Stop == pc = "end" /\ UNCHANGED vars

Next == \/ Capture \/ Begin \/ Record \/ Open \/ Acquire \/ Change \/ Verify \/ UndoAcquire \/ Restore \/ Reflush
        \/ NextFile \/ Complete \/ Fail \/ Back \/ Undone \/ Settle
        \/ AbortOrLose \/ Edit \/ Stop

Spec == Init /\ [][Next]_vars

-----------------------------------------------------------------------------
InBatch == {batch[n].file : n \in DOMAIN batch}

(* The record of a batch is closed only when a power loss would leave the     *)
(* modes it speaks of, which complete() and rolledBack() do not sync for      *)
(* file_chattr: the new ones after success, the captured ones after a rollback.*)
SettledIsDurable == \A f \in InBatch \ chmods :
    /\ journal = "succeeded" =>
          \A n \in DOMAIN batch : batch[n].file = f /\ batch[n].chmod # NoMode
             => durable[f] = batch[n].chmod
    /\ journal = "rolled-back" => durable[f] = first[f]

(* A failure that leaves no record for recovery has put every mode back, and  *)
(* one that could not says so.                                                *)
FailureIsUndone ==
    /\ result \in {"failed", "incomplete"} /\ journal \notin {"running", "recovery"} =>
          \A f \in InBatch \ chmods : mode[f] = first[f]
    /\ result = "incomplete" => journal \in {"running", "recovery"}

ChangesAreSettled == SettledIsDurable /\ FailureIsUndone
=============================================================================
