---------------------- MODULE MutationTransactionProofs ----------------------
(***************************************************************************)
(* TLAPS proofs about MutationTransaction, for every set of files, every   *)
(* formatter and every number of operations, crashes, faults and edits.    *)
(***************************************************************************)
EXTENDS MutationTransaction, TLAPS, WellFoundedInduction

(* A journal write, whatever becomes of it, leaves the journal well typed  *)
(* and goes to one of its two successors.                                  *)
LEMMA JournalWrite ==
  ASSUME TypeOK, NEW i, NEW r, NEW good \in Steps, NEW bad \in Steps,
         i \in Ops => r \in Records,
         Journal(i, r, good, bad)
  PROVE  /\ journal' \in [Ops -> Records]
         /\ pc' \in Steps
         /\ pc' = good \/ pc' = bad
         /\ pc' = good /\ good # bad => journal' = [journal EXCEPT ![i] = r]
         /\ journal' = journal \/ journal' = [journal EXCEPT ![i] = r]
         /\ crashes' \in Nat /\ faults' \in Nat /\ edits' \in Nat
  BY DEF TypeOK, Journal, Fault, bounds

(* Changing the state of a record changes nothing else about it.           *)
LEMMA StateChange ==
  ASSUME TypeOK, NEW i, NEW state \in Finished \cup Open, NEW good \in Steps,
         NEW bad \in Steps,
         Transition(i, state, good, bad)
  PROVE  /\ journal' \in [Ops -> Records]
         /\ pc' \in {good, bad}
         /\ \A j \in Ops : /\ journal'[j].files = journal[j].files
                           /\ journal'[j].source = journal[j].source
                           /\ journal'[j].candidate = journal[j].candidate
                           /\ j # i => journal'[j] = journal[j]
                           /\ journal'[j].state \in {journal[j].state, state}
         /\ pc' = good /\ good # bad /\ i \in Ops => journal'[i].state = state
         /\ crashes' \in Nat /\ faults' \in Nat /\ edits' \in Nat
<1> DEFINE r == [journal[i] EXCEPT !.state = state]
<1>1. i \in Ops => r \in Records
  BY DEF TypeOK, Records
<1>2. Journal(i, r, good, bad)
  BY DEF Transition
<1>3. i \in Ops => /\ r.files = journal[i].files /\ r.source = journal[i].source
                   /\ r.candidate = journal[i].candidate /\ r.state = state
  BY DEF TypeOK, Records
<1> HIDE DEF r
<1>4. /\ journal' \in [Ops -> Records]
      /\ pc' = good \/ pc' = bad
      /\ pc' = good /\ good # bad => journal' = [journal EXCEPT ![i] = r]
      /\ journal' = journal \/ journal' = [journal EXCEPT ![i] = r]
      /\ crashes' \in Nat /\ faults' \in Nat /\ edits' \in Nat
  BY <1>1, <1>2, JournalWrite
<1>5. \A j \in Ops : /\ [journal EXCEPT ![i] = r][j] = IF j = i THEN r ELSE journal[j]
  BY DEF TypeOK
<1>6. \A j \in Ops : journal'[j] = journal[j] \/ (j = i /\ journal'[j] = r)
  BY <1>4, <1>5
<1>7. pc' = good /\ good # bad /\ i \in Ops => journal'[i] = r
  BY <1>4, <1>5
<1> QED
  BY <1>3, <1>4, <1>6, <1>7

(* Put writes one file, and the new content is among the survivors.        *)
LEMMA PutType ==
  ASSUME TypeOK, NEW f, NEW c, f \in Files => c \in Hashes, Put(f, c)
  PROVE  /\ disk' \in [Files -> Hashes]
         /\ survivors' \in [Files -> SUBSET Hashes]
         /\ \A g \in Files : disk'[g] \in survivors'[g]
         /\ touched' \in [Files -> BOOLEAN]
  BY DEF TypeOK, Put

LEMMA SyncType ==
  ASSUME TypeOK, NEW fs, Sync(fs)
  PROVE  /\ disk' \in [Files -> Hashes]
         /\ survivors' \in [Files -> SUBSET Hashes]
         /\ \A g \in Files : disk'[g] \in survivors'[g]
         /\ touched' \in [Files -> BOOLEAN]
  BY DEF TypeOK, Sync

(* The files of a record, and of the running batch, are files.             *)
LEMMA RecordFiles ==
  ASSUME TypeOK, NEW i \in Ops
  PROVE  /\ journal[i].files \in Seq(Files) /\ Len(journal[i].files) \in Nat
         /\ \A n \in 1..Len(journal[i].files) :
              /\ journal[i].files[n] \in Files
              /\ journal[i].source[journal[i].files[n]] \in Hashes
              /\ journal[i].files[n] \in FilesOf(journal[i])
         /\ FilesOf(journal[i]) \subseteq Files
         /\ Material(i) \subseteq Ops \X Files
<1>1. journal[i] \in Records
  BY DEF TypeOK
<1>2. journal[i].files \in Seq(Files) /\ journal[i].source \in [Files -> Hashes]
  <2>1. journal[i].files \in Batches \cup {<< >>} /\ journal[i].source \in [Files -> Hashes]
    BY <1>1 DEF Records
  <2>2. << >> \in Seq(Files) /\ Batches \subseteq Seq(Files)
    BY ConstantsAssumption
  <2> QED
    BY <2>1, <2>2
<1>3. \A n \in 1..Len(journal[i].files) : journal[i].files[n] \in Files
  BY <1>2
<1>4. FilesOf(journal[i]) = {journal[i].files[n] : n \in 1..Len(journal[i].files)}
  BY <1>2 DEF FilesOf, Range
<1>5. FilesOf(journal[i]) \subseteq Files
  BY <1>3, <1>4
<1>6. Material(i) \subseteq Ops \X Files
  BY <1>5 DEF Material
<1> QED
  BY <1>2, <1>3, <1>4, <1>5, <1>6

LEMMA RequestFiles ==
  ASSUME req \in Requests
  PROVE  /\ req.files \in Seq(Files) /\ req.files \in Batches /\ Len(req.files) \in Nat
         /\ Len(req.files) > 0
         /\ req.snapshot \in [Files -> Hashes] /\ req.expected \in [Files -> Hashes]
         /\ req.candidate \in [Files -> Hashes] /\ req.written \in [Files -> Hashes]
         /\ \A n \in 1..Len(req.files) : req.files[n] \in Files
  BY ConstantsAssumption DEF Requests

LEMMA Bounded == MaxOps \in Nat /\ Absent \in Hashes
  BY ConstantsAssumption DEF Hashes

-----------------------------------------------------------------------------
(* The initial states.                                                     *)
LEMMA InitInv == Init => IInv
<1> SUFFICES ASSUME Init PROVE IInv
  OBVIOUS
<1>0. Nowhere \in [Files -> Hashes] /\ NoRecord \in Records
  BY DEF NoRecord, Records, Nowhere, Hashes, Finished
<1>1. TypeOK
  <2>1. /\ disk \in [Files -> Hashes] /\ survivors \in [Files -> SUBSET Hashes]
        /\ \A f \in Files : disk[f] \in survivors[f]
        /\ touched \in [Files -> BOOLEAN]
    BY DEF Init
  <2>2. journal \in [Ops -> Records]
    BY <1>0 DEF Init
  <2>3. op \in 0..MaxOps /\ cur \in 0..MaxOps /\ seen \in Hashes
    BY ConstantsAssumption DEF Init, Hashes
  <2> QED
    BY <2>1, <2>2, <2>3 DEF Init, TypeOK, Steps
<1>2. \A i \in Ops : ~Unfinished(i)
  BY DEF Init, Unfinished, NoRecord, Open
<1>3. LoopInv
  BY DEF Init, LoopInv, Preparing, Applying, Recovering
<1>4. OwnerInv
  BY <1>2 DEF Init, OwnerInv, Undoing, AtMostOneUnfinished, Preparing, Applying,
     Recovering
<1>5. BlobInv
  BY <1>2 DEF Init, BlobInv, MaterialRetained, Applying
<1> QED
  BY <1>1, <1>3, <1>4, <1>5 DEF IInv
-----------------------------------------------------------------------------
(* Recovery.                                                              *)

LEMMA AcquireStep ==
  ASSUME IInv, Acquire
  PROVE  IInv'
<1>1. TypeOK'
  BY Bounded DEF IInv, TypeOK, LoopInv, Acquire, world, loop, bounds, Steps, Ops,
     Recovering
<1>2. LoopInv'
  BY RecordFiles DEF IInv, TypeOK, LoopInv, Acquire, world, loop, bounds, Preparing,
       Applying, Recovering, Ops
<1>3. OwnerInv'
  BY DEF IInv, TypeOK, OwnerInv, Undoing, AtMostOneUnfinished, LoopInv, Acquire,
     world, loop,
       bounds, Unfinished,
         Preparing, Applying, Recovering
<1>4. BlobInv'
  BY DEF IInv, BlobInv, MaterialRetained, Acquire, world, loop, bounds, Unfinished,
     Material,
       FilesOf,
         Preparing, Applying, Recovering
<1> QED
  BY <1>1, <1>2, <1>3, <1>4 DEF IInv

LEMMA RecoverValidateStep ==
  ASSUME IInv, RecoverValidate
  PROVE  IInv'
<1>1. TypeOK'
  BY Bounded DEF IInv, TypeOK, LoopInv, RecoverValidate, world, bounds, Steps, Ops,
     Recovering
<1>2. LoopInv'
  BY RecordFiles DEF IInv, TypeOK, LoopInv, RecoverValidate, world, bounds, Preparing,
       Applying, Recovering, Ops
<1>3. OwnerInv'
  BY DEF IInv, TypeOK, OwnerInv, Undoing, AtMostOneUnfinished, LoopInv,
     RecoverValidate,
       world, bounds, Unfinished,
         Preparing, Applying, Recovering
<1>4. BlobInv'
  BY DEF IInv, BlobInv, MaterialRetained, RecoverValidate, world, bounds, Unfinished,
       Material, FilesOf,
         Preparing, Applying, Recovering
<1> QED
  BY <1>1, <1>2, <1>3, <1>4 DEF IInv

LEMMA RecoverCheckStep ==
  ASSUME IInv, RecoverCheck
  PROVE  IInv'
<1>1. TypeOK'
  <2> DEFINE f == journal[cur].files[k]
  <2>1. cur \in Ops /\ k \in 1..Len(journal[cur].files)
    BY RecordFiles DEF IInv, TypeOK, LoopInv, RecoverCheck, Recovering
  <2>2. disk[f] \in Hashes
    BY <2>1, RecordFiles DEF IInv, TypeOK
  <2>3. (seen' = disk[f] \/ seen' = seen) /\ (k' = k + 1 \/ k' = k)
        /\ pc' \in {"restore", "restoring", "reject"}
    BY DEF RecoverCheck
  <2> QED
    BY <2>2, <2>3 DEF IInv, TypeOK, RecoverCheck, world, scan, bounds, Steps
<1>2. LoopInv'
  BY RecordFiles DEF IInv, TypeOK, LoopInv, RecoverCheck, world, bounds, scan,
     Preparing,
       Applying, Recovering, Ops
<1>3. OwnerInv'
  BY DEF IInv, TypeOK, OwnerInv, Undoing, AtMostOneUnfinished, LoopInv, RecoverCheck,
     world,
       bounds, scan, Unfinished,
         Preparing, Applying, Recovering
<1>4. BlobInv'
  BY DEF IInv, BlobInv, MaterialRetained, RecoverCheck, world, bounds, scan,
     Unfinished,
       Material, FilesOf,
         Preparing, Applying, Recovering
<1> QED
  BY <1>1, <1>2, <1>3, <1>4 DEF IInv

LEMMA RecoverReplaceStep ==
  ASSUME IInv, RecoverReplace
  PROVE  IInv'
<1>1. TypeOK'
  <2> DEFINE f == journal[cur].files[k]
  <2>1. cur \in Ops /\ k \in 1..Len(journal[cur].files)
    BY RecordFiles DEF IInv, TypeOK, LoopInv, RecoverReplace, Recovering
  <2>2. f \in Files /\ journal[cur].source[f] \in Hashes
    BY <2>1, RecordFiles DEF IInv
  <2>3. \/ UNCHANGED <<world, k>> /\ pc' = "reject"
        \/ Put(f, journal[cur].source[f]) /\ k' = k + 1 /\ pc' = "restore"
    BY DEF RecoverReplace
  <2>4. CASE UNCHANGED <<world, k>> /\ pc' = "reject"
    BY <2>4 DEF IInv, TypeOK, RecoverReplace, world, scan, bounds, Steps
  <2>5. CASE Put(f, journal[cur].source[f]) /\ k' = k + 1 /\ pc' = "restore"
    <3>1. /\ disk' \in [Files -> Hashes] /\ survivors' \in [Files -> SUBSET Hashes]
          /\ \A g \in Files : disk'[g] \in survivors'[g]
          /\ touched' \in [Files -> BOOLEAN]
      BY <2>2, <2>5, PutType DEF IInv
    <3> QED
      BY <3>1, <2>5 DEF IInv, TypeOK, RecoverReplace, scan, bounds, Steps
  <2> QED
    BY <2>3, <2>4, <2>5
<1>2. LoopInv'
  BY RecordFiles DEF IInv, TypeOK, LoopInv, RecoverReplace, world, bounds, scan,
     Preparing,
       Applying, Recovering, Ops
<1>3. OwnerInv'
  BY DEF IInv, TypeOK, OwnerInv, Undoing, AtMostOneUnfinished, LoopInv,
     RecoverReplace,
       world, bounds, scan, Unfinished,
         Preparing, Applying, Recovering
<1>4. BlobInv'
  BY DEF IInv, BlobInv, MaterialRetained, RecoverReplace, world, bounds, scan,
     Unfinished,
       Material, FilesOf,
         Preparing, Applying, Recovering
<1> QED
  BY <1>1, <1>2, <1>3, <1>4 DEF IInv

LEMMA RecoverVerifyStep ==
  ASSUME IInv, RecoverVerify
  PROVE  IInv'
<1>1. TypeOK'
  <2>1. /\ disk' \in [Files -> Hashes] /\ survivors' \in [Files -> SUBSET Hashes]
        /\ \A g \in Files : disk'[g] \in survivors'[g]
        /\ touched' \in [Files -> BOOLEAN]
        /\ pc' \in {"settle", "reject"}
    <3>1. CASE Sync(FilesOf(journal[cur])) /\ pc' = "settle"
      BY <3>1, SyncType DEF IInv
    <3>2. CASE UNCHANGED world /\ pc' = "reject"
      BY <3>2 DEF IInv, TypeOK, world
    <3> QED
      BY <3>1, <3>2 DEF RecoverVerify
  <2> QED
    BY <2>1 DEF IInv, TypeOK, RecoverVerify, loop, scan, bounds, Steps
<1>2. LoopInv'
  BY RecordFiles DEF IInv, TypeOK, LoopInv, RecoverVerify, world, bounds, scan, loop,
       Preparing, Applying, Recovering, Ops
<1>3. OwnerInv'
  BY DEF IInv, TypeOK, OwnerInv, Undoing, AtMostOneUnfinished, LoopInv,
     RecoverVerify, world,
       bounds, scan, loop, Unfinished,
         Preparing, Applying, Recovering
<1>4. BlobInv'
  BY DEF IInv, BlobInv, MaterialRetained, RecoverVerify, world, bounds, scan, loop,
       Unfinished, Material, FilesOf,
         Preparing, Applying, Recovering
<1> QED
  BY <1>1, <1>2, <1>3, <1>4 DEF IInv

LEMMA RecoverFailsStep ==
  ASSUME IInv, RecoverFails
  PROVE  IInv'
<1>1. TypeOK'
  BY Bounded DEF IInv, TypeOK, LoopInv, RecoverFails, world, loop, scan, Fault,
     Steps, Ops,
       Recovering, bounds
<1>2. LoopInv'
  BY RecordFiles DEF IInv, TypeOK, LoopInv, RecoverFails, world, loop, scan, Fault,
       Preparing, Applying, Recovering, Ops
<1>3. OwnerInv'
  BY DEF IInv, TypeOK, OwnerInv, Undoing, AtMostOneUnfinished, LoopInv, RecoverFails,
     world,
       loop, scan, Fault, Unfinished,
         Preparing, Applying, Recovering
<1>4. BlobInv'
  BY DEF IInv, BlobInv, MaterialRetained, RecoverFails, world, loop, scan, Fault,
     Unfinished,
       Material, FilesOf,
         Preparing, Applying, Recovering
<1> QED
  BY <1>1, <1>2, <1>3, <1>4 DEF IInv

LEMMA SweepStep ==
  ASSUME IInv, Sweep
  PROVE  IInv'
<1>1. TypeOK'
  BY Bounded DEF IInv, TypeOK, LoopInv, Sweep, world, loop, scan, bounds, Steps, Ops,
     Recovering
<1>2. LoopInv'
  BY RecordFiles DEF IInv, TypeOK, LoopInv, Sweep, world, loop, scan, bounds,
     Preparing,
       Applying, Recovering, Ops
<1>3. OwnerInv'
  BY DEF IInv, TypeOK, OwnerInv, Undoing, AtMostOneUnfinished, LoopInv, Sweep, world,
     loop,
       scan, bounds, Unfinished,
         Preparing, Applying, Recovering
<1>4. BlobInv'
  <2>1. \A i \in Ops : Unfinished(i) => Material(i) \subseteq Retained \cap blobs
    BY DEF IInv, BlobInv, MaterialRetained, Retained
  <2>2. \A i \in Ops : Unfinished(i) => Material(i) \subseteq blobs'
    BY <2>1 DEF Sweep
  <2>3. pass' = {} /\ pc' \in {"idle", "ready"} /\ journal' = journal
    BY DEF Sweep, scan
  <2> QED
    BY <2>2, <2>3 DEF BlobInv, MaterialRetained, Unfinished, Material, FilesOf,
       Applying
<1> QED
  BY <1>1, <1>2, <1>3, <1>4 DEF IInv

LEMMA ReleaseStep ==
  ASSUME IInv, Release
  PROVE  IInv'
<1>1. TypeOK'
  BY Bounded DEF IInv, TypeOK, LoopInv, Release, world, loop, scan, bounds, Steps,
     Ops,
       Recovering
<1>2. LoopInv'
  BY RecordFiles DEF IInv, TypeOK, LoopInv, Release, world, loop, scan, bounds,
     Preparing,
       Applying, Recovering, Ops
<1>3. OwnerInv'
  BY DEF IInv, TypeOK, OwnerInv, Undoing, AtMostOneUnfinished, LoopInv, Release,
     world, loop,
       scan, bounds, Unfinished,
         Preparing, Applying, Recovering
<1>4. BlobInv'
  BY DEF IInv, BlobInv, MaterialRetained, Release, world, loop, scan, bounds,
     Unfinished,
       Material, FilesOf,
         Preparing, Applying, Recovering
<1> QED
  BY <1>1, <1>2, <1>3, <1>4 DEF IInv

(* What every change of a record's state keeps.                            *)
LEMMA TransitionFrame ==
  ASSUME IInv, NEW i \in Ops, NEW state \in Finished \cup Open,
         NEW good \in Steps, NEW bad \in Steps,
         Transition(i, state, good, bad),
         UNCHANGED <<world, blobs, op, req, loop, cur>>,
         pass' \subseteq pass, outcome' \in {"none", "ok", "error", "recovery"}
  PROVE  /\ TypeOK'
         /\ pc' \in {good, bad}
         /\ \A j \in Ops : Material(j)' = Material(j)
         /\ \A j \in Ops : j # i => (Unfinished(j)' <=> Unfinished(j))
         /\ pc' = good /\ good # bad /\ state \in Finished => ~Unfinished(i)'
         /\ \A j \in Ops : Len(journal[j].files)' = Len(journal[j].files)
<1>1. TypeOK
  BY DEF IInv
<1>2. /\ journal' \in [Ops -> Records]
      /\ pc' \in {good, bad}
      /\ \A j \in Ops : /\ journal'[j].files = journal[j].files
                        /\ journal'[j].source = journal[j].source
                        /\ journal'[j].candidate = journal[j].candidate
                        /\ j # i => journal'[j] = journal[j]
                        /\ journal'[j].state \in {journal[j].state, state}
      /\ pc' = good /\ good # bad /\ i \in Ops => journal'[i].state = state
      /\ crashes' \in Nat /\ faults' \in Nat /\ edits' \in Nat
  BY <1>1, StateChange, Zenon
<1>3. TypeOK'
  BY <1>1, <1>2 DEF TypeOK, world, loop
<1>4. \A j \in Ops : Material(j)' = Material(j)
  BY <1>2 DEF Material, FilesOf
<1>5. Finished \cap Open = {}
  BY DEF Finished, Open
<1> QED
  BY <1>2, <1>3, <1>4, <1>5 DEF Unfinished

LEMMA RecoverSettleStep ==
  ASSUME IInv, RecoverSettle
  PROVE  IInv'
<1>1. cur \in Ops /\ cur \in pass /\ pass = {cur} /\ pc = "settle" /\ k >= 1
  BY DEF IInv, TypeOK, LoopInv, OwnerInv, Undoing, RecoverSettle, Recovering
<1>2. /\ TypeOK' /\ pc' \in {"recover", "reject"}
      /\ \A j \in Ops : Material(j)' = Material(j)
      /\ \A j \in Ops : j # cur => (Unfinished(j)' <=> Unfinished(j))
      /\ pc' = "recover" => ~Unfinished(cur)'
      /\ pass' \subseteq pass /\ cur' = cur /\ k' = k /\ blobs' = blobs
  <2>1. /\ Transition(cur, "recovered", "recover", "reject")
        /\ UNCHANGED <<world, blobs, op, req, loop, cur>> /\ pass' \subseteq pass
        /\ outcome' \in {"none", "ok", "error", "recovery"}
    BY DEF IInv, TypeOK, RecoverSettle
  <2>2. "recovered" \in Finished /\ "recover" \in Steps /\ "reject" \in Steps
    BY DEF Finished, Steps
  <2> QED
    BY <1>1, <2>1, <2>2, TransitionFrame DEF loop
<1>3. pc' = "reject" => pass' = pass
  BY DEF RecoverSettle
<1>4. pc' = "recover" => pass' = {}
  BY <1>1 DEF RecoverSettle
<1>5. LoopInv'
  BY <1>1, <1>2, <1>3 DEF LoopInv, Preparing, Applying, Recovering
<1>6. OwnerInv'
  BY <1>1, <1>2, <1>3, <1>4 DEF IInv, OwnerInv, Undoing, AtMostOneUnfinished,
     Preparing,
       Applying, Recovering
<1>7. BlobInv'
  BY <1>1, <1>2 DEF IInv, TypeOK, OwnerInv, Undoing, BlobInv, MaterialRetained,
     Applying,
       Recovering
<1> QED
  BY <1>2, <1>5, <1>6, <1>7 DEF IInv

LEMMA RecoverRejectStep ==
  ASSUME IInv, RecoverReject
  PROVE  IInv'
<1>1. cur \in Ops /\ cur \in pass /\ pass = {cur} /\ pc = "reject" /\ pass' = {}
  BY DEF IInv, TypeOK, LoopInv, OwnerInv, Undoing, RecoverReject, Recovering
<1>2. /\ TypeOK' /\ pc' \in {"recover", "idle"}
      /\ \A j \in Ops : Material(j)' = Material(j)
      /\ \A j \in Ops : j # cur => (Unfinished(j)' <=> Unfinished(j))
      /\ cur' = cur /\ k' = k /\ blobs' = blobs
  <2>1. /\ Transition(cur, "recovery-required", "recover", "idle")
        /\ UNCHANGED <<world, blobs, op, req, loop, cur>> /\ pass' \subseteq pass
        /\ outcome' \in {"none", "ok", "error", "recovery"}
    BY DEF IInv, TypeOK, RecoverReject
  <2>2. "recovery-required" \in Open /\ "recover" \in Steps /\ "idle" \in Steps
    BY DEF Open, Steps
  <2> QED
    BY <1>1, <2>1, <2>2, TransitionFrame DEF loop
<1>5. LoopInv'
  BY <1>2 DEF LoopInv, Preparing, Applying, Recovering
<1>6. OwnerInv'
  BY <1>1, <1>2 DEF IInv, OwnerInv, Undoing, AtMostOneUnfinished, Preparing, Applying,
       Recovering
<1>7. BlobInv'
  BY <1>1, <1>2 DEF IInv, OwnerInv, Undoing, BlobInv, MaterialRetained, Applying,
     Recovering
<1> QED
  BY <1>2, <1>5, <1>6, <1>7 DEF IInv

-----------------------------------------------------------------------------
(* The batch.                                                              *)

LEMMA CaptureStep ==
  ASSUME IInv, Capture
  PROVE  IInv'
<1>1. req' \in Requests
  <2>1. PICK tool \in Tools, files \in Batches : \E wanted \in [Range(files) -> Contents] :
          req' = [tool |-> tool, files |-> files, planned |-> TRUE,
                  snapshot  |-> Over(files, LAMBDA f : disk[f]),
                  expected  |-> Over(files, LAMBDA f : disk[f]),
                  candidate |-> Over(files, LAMBDA f : CandidateOf(tool, wanted[f])),
                  written   |-> Over(files, LAMBDA f : WrittenOf(tool, wanted[f]))]
    BY DEF Capture
  <2>2. PICK wanted \in [Range(files) -> Contents] :
          req' = [tool |-> tool, files |-> files, planned |-> TRUE,
                  snapshot  |-> Over(files, LAMBDA f : disk[f]),
                  expected  |-> Over(files, LAMBDA f : disk[f]),
                  candidate |-> Over(files, LAMBDA f : CandidateOf(tool, wanted[f])),
                  written   |-> Over(files, LAMBDA f : WrittenOf(tool, wanted[f]))]
    BY <2>1
  <2>3. Over(files, LAMBDA f : disk[f]) \in [Files -> Hashes]
    BY Bounded DEF Over, IInv, TypeOK
  <2>4. \A f \in Range(files) : /\ CandidateOf(tool, wanted[f]) \in Hashes
                               /\ WrittenOf(tool, wanted[f]) \in Hashes
    BY ConstantsAssumption DEF CandidateOf, WrittenOf, Hashes
  <2>5. /\ Over(files, LAMBDA f : CandidateOf(tool, wanted[f])) \in [Files -> Hashes]
        /\ Over(files, LAMBDA f : WrittenOf(tool, wanted[f])) \in [Files -> Hashes]
    BY <2>4, Bounded DEF Over
  <2> QED
    BY <2>2, <2>3, <2>5 DEF Requests
<1>2. op' \in Ops
  BY Bounded DEF Capture, IInv, TypeOK, Ops
<1>3. TypeOK'
  <2>1. touched' \in [Files -> BOOLEAN]
    BY DEF Capture
  <2>2. /\ UNCHANGED <<disk, survivors, journal, blobs, seen, pass, cur, crashes, faults,
                       edits>>
        /\ pc' = "preflight" /\ outcome' = "none" /\ undoFailed' = FALSE /\ k' = 1
    BY DEF Capture, scan, bounds
  <2>3. op' \in 0..MaxOps
    BY <1>2 DEF Ops
  <2> QED
    BY <1>1, <2>1, <2>2, <2>3 DEF IInv, TypeOK, Steps
<1>4. LoopInv'
  BY <1>1, <1>2 DEF Capture, LoopInv, Preparing, Applying, Recovering
<1>5. OwnerInv'
  BY DEF IInv, OwnerInv, Undoing, AtMostOneUnfinished, Capture, scan, Unfinished,
     Preparing,
       Applying, Recovering
<1>6. BlobInv'
  BY DEF IInv, BlobInv, MaterialRetained, Capture, scan, Unfinished, Material,
     FilesOf,
         Preparing, Applying
<1> QED
  BY <1>3, <1>4, <1>5, <1>6 DEF IInv

LEMMA PreflightStep ==
  ASSUME IInv, Preflight
  PROVE  IInv'
<1>1. req \in Requests /\ op \in Ops /\ k = 1 /\ pc = "preflight"
  BY DEF IInv, LoopInv, Preflight, Preparing
<1>2. req' \in Requests
  <2>1. Over(req.files, LAMBDA f : disk[f]) \in [Files -> Hashes]
    BY Bounded DEF Over, IInv, TypeOK
  <2> QED
    BY <1>1, <2>1 DEF Preflight, Requests
<1>3. pc' \in {"idle", "stage"} /\ outcome' \in {"error", outcome}
  BY DEF Preflight
<1>4. TypeOK'
  BY <1>2, <1>3 DEF IInv, TypeOK, Preflight, world, loop, scan, bounds, Steps
<1>5. LoopInv'
  BY <1>1, <1>2, <1>3 DEF Preflight, loop, LoopInv, Preparing, Applying, Recovering
<1>6. OwnerInv'
  BY <1>1, <1>3 DEF IInv, OwnerInv, Undoing, AtMostOneUnfinished, Preflight, scan,
     Unfinished,
                    Preparing, Applying, Recovering
<1>7. BlobInv'
  BY <1>1, <1>3 DEF IInv, OwnerInv, Undoing, BlobInv, MaterialRetained, Preflight,
     scan,
       loop, Unfinished,
                    Material, FilesOf, Preparing, Applying, Recovering
<1> QED
  BY <1>4, <1>5, <1>6, <1>7 DEF IInv

LEMMA StageStep ==
  ASSUME IInv, Stage
  PROVE  IInv'
<1> DEFINE f == req.files[k]
<1>1. /\ req \in Requests /\ op \in Ops /\ pc = "stage" /\ k \in 1..Len(req.files)
      /\ \A j \in Ops : ~Unfinished(j)
      /\ pass = {}
  BY RequestFiles DEF IInv, TypeOK, LoopInv, OwnerInv, Undoing, Stage, Preparing,
     Recovering
<1>2. f \in Files
  BY <1>1, RequestFiles
<1>3. \A j \in Ops : ~Unfinished(j)'
  BY <1>1 DEF Stage, Unfinished
<1>4. CASE /\ blobs' = IF req.snapshot[f] = Absent THEN blobs ELSE blobs \cup {<<op, f>>}
           /\ k' = k + 1
           /\ UNCHANGED <<pc, outcome>>
  <2>1. TypeOK'
    BY <1>1, <1>2, <1>4 DEF IInv, TypeOK, Stage, world, scan, bounds
  <2>2. LoopInv'
    BY <1>1, <1>4 DEF Stage, LoopInv, Preparing, Applying, Recovering
  <2>3. OwnerInv'
    BY <1>1, <1>3, <1>4 DEF IInv, OwnerInv, Undoing, AtMostOneUnfinished, Stage, scan,
         Preparing, Applying, Recovering
  <2>4. BlobInv'
    <3>1. ASSUME NEW j \in 1..Len(req.files), j < k + 1, req.snapshot[req.files[j]] # Absent
          PROVE  <<op, req.files[j]>> \in blobs'
      <4>1. CASE j = k
        BY <1>4, <3>1, <4>1
      <4>2. CASE j < k
        BY <1>1, <1>4, <3>1, <4>2 DEF IInv, BlobInv
      <4> QED
        BY <1>1, <3>1, <4>1, <4>2
    <3>2. /\ req' = req /\ op' = op /\ pass' = {} /\ pc' = "stage" /\ k' = k + 1
      BY <1>1, <1>4 DEF Stage, scan
    <3> HIDE <1>4
    <3> QED
      BY <1>3, <3>1, <3>2 DEF BlobInv, MaterialRetained, Applying
  <2> QED
    BY <2>1, <2>2, <2>3, <2>4 DEF IInv
<1>5. CASE /\ blobs' = blobs \ Mine
           /\ pc' = "idle" /\ outcome' = "error"
           /\ UNCHANGED k
  <2>1. TypeOK'
    BY <1>5 DEF IInv, TypeOK, Stage, world, scan, bounds, Steps
  <2>2. LoopInv'
    BY <1>5 DEF LoopInv, Preparing, Applying, Recovering
  <2>3. OwnerInv'
    BY <1>1, <1>3, <1>5 DEF IInv, OwnerInv, Undoing, AtMostOneUnfinished, Stage, scan,
         Preparing, Applying, Recovering
  <2>4. BlobInv'
    BY <1>1, <1>3, <1>5 DEF BlobInv, MaterialRetained, Stage, scan, Applying
  <2> QED
    BY <2>1, <2>2, <2>3, <2>4 DEF IInv
<1> QED
  BY <1>4, <1>5 DEF Stage

LEMMA BeginStep ==
  ASSUME IInv, Begin
  PROVE  IInv'
<1> DEFINE r == [state |-> "running", files |-> req.files, source |-> req.snapshot,
                 candidate |-> req.candidate, committed |-> Nowhere]
<1>1. /\ req \in Requests /\ op \in Ops /\ pc = "stage" /\ k \in Nat /\ k > Len(req.files)
      /\ \A j \in Ops : ~Unfinished(j)
      /\ pass = {}
  BY DEF IInv, TypeOK, LoopInv, OwnerInv, Undoing, Begin, Preparing, Recovering
<1>2. r \in Records
  BY <1>1, RequestFiles, Bounded DEF Records, Open, Nowhere
<1>3. "apply" \in Steps /\ "idle" \in Steps
  BY DEF Steps
<1>4. Journal(op, r, "apply", "idle")
  BY DEF Begin
<1>5. r.state = "running" /\ r.files = req.files /\ r.source = req.snapshot
  OBVIOUS
<1> HIDE DEF r
<1>6. /\ journal' \in [Ops -> Records]
      /\ pc' = "apply" \/ pc' = "idle"
      /\ pc' = "apply" /\ "apply" # "idle" => journal' = [journal EXCEPT ![op] = r]
      /\ journal' = journal \/ journal' = [journal EXCEPT ![op] = r]
      /\ crashes' \in Nat /\ faults' \in Nat /\ edits' \in Nat
  <2>1. TypeOK
    BY DEF IInv
  <2> QED
    BY <1>2, <1>3, <1>4, <2>1, JournalWrite
<1>7. /\ UNCHANGED <<disk, survivors, touched, blobs, op, req, seen, undoFailed, pass, cur>>
      /\ k' = 0 /\ (outcome' = "error" \/ outcome' = outcome)
  BY DEF Begin, world, scan
<1>8. TypeOK'
  BY <1>3, <1>6, <1>7 DEF IInv, TypeOK
<1>9. \A j \in Ops : Unfinished(j)' => j = op
  BY <1>1, <1>6 DEF Unfinished, IInv, TypeOK
<1>10. journal'[op] = journal[op] \/ journal'[op] = r
  BY <1>1, <1>6 DEF IInv, TypeOK
<1>11. {<<op, g>> : g \in {h \in Range(req.files) : req.snapshot[h] # Absent}} \subseteq blobs
  <2>1. \A j \in 1..Len(req.files) :
          req.snapshot[req.files[j]] # Absent => <<op, req.files[j]>> \in blobs
    BY <1>1, RequestFiles DEF IInv, BlobInv
  <2>2. Range(req.files) = {req.files[j] : j \in 1..Len(req.files)}
    BY <1>1, RequestFiles DEF Range
  <2> QED
    BY <2>1, <2>2
<1>12. journal'[op] = r => Material(op)' \subseteq blobs'
  BY <1>5, <1>7, <1>11 DEF Material, FilesOf
<1>13. Unfinished(op)' => journal'[op] = r
  BY <1>1, <1>7, <1>10 DEF Unfinished
<1>14. pc' = "apply" => journal'[op] = r
  BY <1>1, <1>6 DEF IInv, TypeOK
<1>15. LoopInv'
  BY <1>1, <1>6, <1>7, RequestFiles DEF LoopInv, Preparing, Applying, Recovering
<1>16. OwnerInv'
  BY <1>1, <1>6, <1>7, <1>9 DEF IInv, OwnerInv, Undoing, AtMostOneUnfinished,
     Preparing,
       Applying, Recovering
<1>17. BlobInv'
  BY <1>1, <1>6, <1>7, <1>9, <1>12, <1>13, <1>14 DEF BlobInv, MaterialRetained,
     Applying
<1> QED
  BY <1>8, <1>15, <1>16, <1>17 DEF IInv

(* What the holder knows while it applies, settles or rolls back a batch.  *)
LEMMA ApplyingFacts ==
  ASSUME IInv, pc \in Applying
  PROVE  /\ req \in Requests /\ op \in Ops /\ k \in Nat /\ k <= Len(req.files)
         /\ pass = {} /\ Material(op) \subseteq blobs
         /\ \A j \in Ops : Unfinished(j) => j = op
  BY DEF IInv, TypeOK, LoopInv, OwnerInv, Undoing, BlobInv, Applying, Recovering,
     Preparing

(* A step of a batch that leaves journal and snapshots alone only has to   *)
(* keep the types and the loop.                                            *)
LEMMA BatchFrame ==
  ASSUME IInv, pc \in Applying, pc' \in Applying \cup {"idle", "dispose"},
         pc \in Undoing => pc' \in Undoing \cup {"idle"} \/ req.planned = (pc' # "dispose"),
         pc \notin Undoing => pc' # "dispose",
         UNCHANGED <<journal, blobs, op, req, pass, cur>>,
         TypeOK', LoopInv'
  PROVE  IInv'
<1>1. \A j \in Ops : (Unfinished(j)' <=> Unfinished(j)) /\ Material(j)' = Material(j)
  BY DEF Unfinished, Material, FilesOf
<1>2. OwnerInv'
  BY <1>1, ApplyingFacts DEF IInv, OwnerInv, AtMostOneUnfinished, Applying, Preparing,
         Recovering, Undoing
<1>3. BlobInv'
  BY <1>1, ApplyingFacts DEF IInv, BlobInv, MaterialRetained, Applying, Preparing
<1> QED
  BY <1>2, <1>3 DEF IInv

(* A change of the running record's state.                                 *)
LEMMA BatchTransition ==
  ASSUME IInv, pc \in Applying, req.planned, NEW state \in Finished \cup Open,
         NEW good \in Steps, NEW bad \in Applying \cup {"idle"},
         good \in Applying \/ (good = "dispose" /\ state \in Finished),
         Transition(op, state, good, bad),
         UNCHANGED <<world, blobs, op, req, loop, scan>>,
         outcome' \in {"none", "ok", "error", "recovery"},
         {good, bad} \cap {"replace", "record", "undo"} = {}
  PROVE  IInv'
<1>1. /\ req \in Requests /\ op \in Ops /\ k \in Nat /\ k <= Len(req.files)
      /\ pass = {} /\ Material(op) \subseteq blobs
      /\ \A j \in Ops : Unfinished(j) => j = op
  BY ApplyingFacts
<1>2. bad \in Steps /\ UNCHANGED <<pass, cur, blobs, op, req, k>>
  BY DEF Applying, Steps, scan, loop
<1>3. /\ TypeOK'
      /\ pc' \in {good, bad}
      /\ \A j \in Ops : Material(j)' = Material(j)
      /\ \A j \in Ops : j # op => (Unfinished(j)' <=> Unfinished(j))
      /\ pc' = good /\ good # bad /\ state \in Finished => ~Unfinished(op)'
  BY <1>1, <1>2, TransitionFrame
<1>4. pc' = "dispose" => ~Unfinished(op)'
  BY <1>3 DEF Applying
<1>5. LoopInv'
  BY <1>1, <1>2, <1>3 DEF LoopInv, Preparing, Applying, Recovering
<1>6. OwnerInv'
  BY <1>1, <1>2, <1>3, <1>4 DEF OwnerInv, AtMostOneUnfinished, Preparing, Applying,
     Recovering,
         Undoing
<1>7. BlobInv'
  BY <1>1, <1>2, <1>3 DEF IInv, BlobInv, MaterialRetained, Applying
<1> QED
  BY <1>3, <1>5, <1>6, <1>7 DEF IInv

LEMMA CheckTargetStep ==
  ASSUME IInv, CheckTarget
  PROVE  IInv'
<1>1. pc = "apply" /\ pc \in Applying /\ pc' \in {"replace", "fail"} /\ k < Len(req.files)
      /\ UNCHANGED <<world, journal, blobs, op, req, loop, scan, outcome, bounds>>
  BY DEF CheckTarget, Applying
<1>2. TypeOK'
  BY <1>1 DEF IInv, TypeOK, world, loop, scan, bounds, Steps
<1>3. LoopInv'
  BY <1>1, ApplyingFacts DEF LoopInv, Preparing, Applying, Recovering, loop, scan
<1> QED
  BY <1>1, <1>2, <1>3, BatchFrame DEF Applying, Undoing, scan

LEMMA ReplaceStep ==
  ASSUME IInv, Replace
  PROVE  IInv'
<1> DEFINE f == req.files[k + 1]
<1>1. /\ pc = "replace" /\ pc \in Applying /\ k \in Nat /\ k < Len(req.files)
      /\ req \in Requests /\ op \in Ops
      /\ UNCHANGED <<journal, blobs, op, req, seen, undoFailed, scan, outcome, bounds>>
  BY ApplyingFacts DEF IInv, LoopInv, Replace, Applying
<1>2. f \in Files /\ req.written[f] \in Hashes
  BY <1>1, RequestFiles
<1>3. CASE Put(f, req.written[f]) /\ k' = k + 1 /\ pc' = "record"
  <2>1. TypeOK'
    <3>1. /\ disk' \in [Files -> Hashes] /\ survivors' \in [Files -> SUBSET Hashes]
          /\ \A g \in Files : disk'[g] \in survivors'[g]
          /\ touched' \in [Files -> BOOLEAN]
      BY <1>2, <1>3, PutType DEF IInv
    <3> QED
      BY <1>1, <1>3, <3>1 DEF IInv, TypeOK, scan, bounds, Steps
  <2>2. LoopInv'
    BY <1>1, <1>3, RequestFiles DEF LoopInv, Preparing, Applying, Recovering, scan
  <2> QED
    BY <1>1, <1>3, <2>1, <2>2, BatchFrame DEF Applying, Undoing, scan
<1>4. CASE UNCHANGED <<world, k>> /\ pc' = "fail"
  <2>1. TypeOK'
    BY <1>1, <1>4 DEF IInv, TypeOK, world, scan, bounds, Steps
  <2>2. LoopInv'
    BY <1>1, <1>4, RequestFiles DEF LoopInv, Preparing, Applying, Recovering, scan
  <2> QED
    BY <1>1, <1>4, <2>1, <2>2, BatchFrame DEF Applying, Undoing, scan
<1> QED
  BY <1>3, <1>4 DEF Replace

LEMMA RecordCommitStep ==
  ASSUME IInv, RecordCommit
  PROVE  IInv'
<1> DEFINE f == req.files[k]
           h == IF req.tool = "file_delete" THEN req.snapshot[f] ELSE req.written[f]
           r == [journal[op] EXCEPT !.committed[f] = h, !.state = "running"]
<1>1. /\ pc = "record" /\ pc \in Applying /\ k \in 1..Len(req.files)
      /\ req \in Requests /\ op \in Ops /\ pass = {} /\ Material(op) \subseteq blobs
      /\ \A j \in Ops : Unfinished(j) => j = op
  BY ApplyingFacts, RequestFiles DEF IInv, LoopInv, RecordCommit, Applying
<1>2. f \in Files /\ h \in Hashes
  BY <1>1, RequestFiles
<1>3. r \in Records /\ r.files = journal[op].files /\ r.source = journal[op].source
  BY <1>1, <1>2 DEF IInv, TypeOK, Records, Open
<1>4. Journal(op, r, "apply", "fail")
  BY DEF RecordCommit
<1> HIDE DEF r
<1>5. /\ journal' \in [Ops -> Records]
      /\ pc' = "apply" \/ pc' = "fail"
      /\ journal' = journal \/ journal' = [journal EXCEPT ![op] = r]
      /\ crashes' \in Nat /\ faults' \in Nat /\ edits' \in Nat
  <2>1. TypeOK /\ "apply" \in Steps /\ "fail" \in Steps
    BY DEF IInv, Steps
  <2> QED
    BY <1>3, <1>4, <2>1, JournalWrite
<1>6. UNCHANGED <<disk, survivors, touched, blobs, op, req, k, seen, undoFailed, pass, cur,
                  outcome>>
  BY DEF RecordCommit, world, loop, scan
<1>7. \A j \in Ops : /\ j # op => journal'[j] = journal[j]
                     /\ journal'[j].files = journal[j].files
                     /\ journal'[j].source = journal[j].source
  BY <1>1, <1>3, <1>5 DEF IInv, TypeOK
<1>8. \A j \in Ops : Material(j)' = Material(j) /\ (Unfinished(j)' => j = op)
  BY <1>1, <1>7 DEF Material, FilesOf, Unfinished
<1>9. TypeOK'
  BY <1>5, <1>6 DEF IInv, TypeOK, Steps
<1>10. LoopInv'
  BY <1>1, <1>5, <1>6 DEF LoopInv, Preparing, Applying, Recovering
<1>11. OwnerInv'
  BY <1>1, <1>5, <1>6, <1>8 DEF IInv, OwnerInv, Undoing, AtMostOneUnfinished,
     Preparing,
       Applying, Recovering
<1>12. BlobInv'
  BY <1>1, <1>5, <1>6, <1>8 DEF BlobInv, MaterialRetained, Applying
<1> QED
  BY <1>9, <1>10, <1>11, <1>12 DEF IInv

LEMMA ApplyFailsStep ==
  ASSUME IInv, ApplyFails
  PROVE  IInv'
<1>1. pc \in {"apply", "replace"} /\ pc \in Applying /\ pc' = "fail"
      /\ UNCHANGED <<world, journal, blobs, op, req, loop, scan, outcome>>
  BY DEF ApplyFails, Applying
<1>2. TypeOK'
  BY <1>1 DEF IInv, TypeOK, ApplyFails, Fault, world, loop, scan, Steps
<1>3. LoopInv'
  BY <1>1, ApplyingFacts DEF LoopInv, Preparing, Applying, Recovering, loop, scan
<1> QED
  BY <1>1, <1>2, <1>3, BatchFrame DEF Applying, Undoing, scan

-----------------------------------------------------------------------------
(* Completion.                                                             *)

LEMMA RefreshingStep ==
  ASSUME IInv, Refreshing
  PROVE  IInv'
<1>1. /\ pc \in Applying /\ "refreshing" \in Open /\ "refresh" \in Steps \cap Applying
      /\ "fail" \in Applying
      /\ {"refresh", "fail"} \cap {"replace", "record", "undo"} = {}
  BY DEF Refreshing, Applying, Open, Steps
<1>2. /\ Transition(op, "refreshing", "refresh", "fail")
      /\ UNCHANGED <<world, blobs, op, req, loop, scan>>
      /\ outcome' \in {"none", "ok", "error", "recovery"}
  BY DEF Refreshing, IInv, TypeOK
<1>3. req.planned
  BY DEF IInv, OwnerInv, Applying, Undoing, Refreshing
<1> QED
  BY <1>1, <1>2, <1>3, BatchTransition

LEMMA RefreshStep ==
  ASSUME IInv, Refresh
  PROVE  IInv'
<1>1. pc = "refresh" /\ pc \in Applying /\ pc' \in {"succeed", "unsettled"}
      /\ UNCHANGED <<journal, blobs, op, req, loop, scan, outcome>>
  BY DEF Refresh, Applying
<1>2. TypeOK'
  <2>1. CASE Sync(Range(req.files)) /\ UNCHANGED bounds
    <3>1. /\ disk' \in [Files -> Hashes] /\ survivors' \in [Files -> SUBSET Hashes]
          /\ \A g \in Files : disk'[g] \in survivors'[g]
          /\ touched' \in [Files -> BOOLEAN]
      BY <2>1, SyncType DEF IInv
    <3> QED
      BY <1>1, <2>1, <3>1 DEF IInv, TypeOK, loop, scan, bounds, Steps
  <2>2. CASE Fault /\ UNCHANGED world
    BY <1>1, <2>2 DEF IInv, TypeOK, Fault, world, loop, scan, Steps
  <2> QED
    BY <2>1, <2>2 DEF Refresh
<1>3. LoopInv'
  BY <1>1, ApplyingFacts DEF LoopInv, Preparing, Applying, Recovering, loop, scan
<1> QED
  BY <1>1, <1>2, <1>3, BatchFrame DEF Applying, Undoing, scan

LEMMA SucceedStep ==
  ASSUME IInv, Succeed
  PROVE  IInv'
<1>1. /\ pc \in Applying /\ "succeeded" \in Finished /\ "dispose" \in Steps
      /\ "unsettled" \in Applying
      /\ {"dispose", "unsettled"} \cap {"replace", "record", "undo"} = {}
  BY DEF Succeed, Applying, Finished, Steps
<1>2. /\ Transition(op, "succeeded", "dispose", "unsettled")
      /\ UNCHANGED <<world, blobs, op, req, loop, scan>>
      /\ outcome' \in {"none", "ok", "error", "recovery"}
  BY DEF Succeed, IInv, TypeOK
<1>3. req.planned
  BY DEF IInv, OwnerInv, Applying, Undoing, Succeed
<1> QED
  BY <1>1, <1>2, <1>3, BatchTransition

LEMMA CloseFailsStep ==
  ASSUME IInv, CloseFails
  PROVE  IInv'
<1>1. /\ pc = "succeed" /\ pc' = "fail"
      /\ req' = [req EXCEPT !.planned = FALSE]
      /\ journal' = [journal EXCEPT ![op].state = "succeeded"]
      /\ UNCHANGED <<world, blobs, op, loop, scan, outcome>>
      /\ Fault
  BY DEF CloseFails
<1>2. /\ req \in Requests /\ op \in Ops /\ k <= Len(req.files) /\ pass = {}
      /\ Material(op) \subseteq blobs /\ \A j \in Ops : Unfinished(j) => j = op
  BY <1>1, ApplyingFacts DEF Applying
<1>3. req' \in Requests /\ req'.files = req.files
  BY <1>1, <1>2 DEF Requests
<1>4. journal' \in [Ops -> Records]
  BY <1>1, <1>2 DEF IInv, TypeOK, Records, Finished
<1>5. /\ \A j \in Ops : Material(j)' = Material(j) /\ ~Unfinished(j)'
  BY <1>1, <1>2 DEF IInv, TypeOK, Records, Material, FilesOf, Unfinished, Open
<1>6. crashes' \in Nat /\ faults' \in Nat /\ edits' \in Nat
  BY <1>1 DEF IInv, TypeOK, Fault
<1>7. TypeOK'
  BY <1>1, <1>3, <1>4, <1>6 DEF IInv, TypeOK, world, loop, scan, Steps
<1>8. LoopInv'
  BY <1>1, <1>2, <1>3 DEF LoopInv, Preparing, Applying, Recovering, loop, scan
<1>9. OwnerInv'
  BY <1>1, <1>2, <1>5 DEF OwnerInv, AtMostOneUnfinished, Preparing, Applying,
     Recovering,
     Undoing, scan
<1>10. BlobInv'
  BY <1>1, <1>2, <1>5 DEF BlobInv, MaterialRetained, Applying, scan
<1> QED
  BY <1>7, <1>8, <1>9, <1>10 DEF IInv

LEMMA UnsettledStep ==
  ASSUME IInv, Unsettled
  PROVE  IInv'
<1>1. /\ pc \in Applying /\ "recovery-required" \in Open /\ "fail" \in Steps \cap Applying
      /\ {"fail", "fail"} \cap {"replace", "record", "undo"} = {}
  BY DEF Unsettled, Applying, Open, Steps
<1>2. /\ Transition(op, "recovery-required", "fail", "fail")
      /\ UNCHANGED <<world, blobs, op, req, loop, scan>>
      /\ outcome' \in {"none", "ok", "error", "recovery"}
  BY DEF Unsettled, IInv, TypeOK
<1>3. req.planned
  BY DEF IInv, OwnerInv, Applying, Undoing, Unsettled
<1> QED
  BY <1>1, <1>2, <1>3, BatchTransition

LEMMA DisposeStep ==
  ASSUME IInv, Dispose
  PROVE  IInv'
<1>1. /\ pc = "dispose" /\ pc' = "idle" /\ blobs' \subseteq blobs
      /\ UNCHANGED <<world, journal, op, req, loop, scan, outcome, bounds>>
  BY DEF Dispose
<1>2. pass = {} /\ \A j \in Ops : ~Unfinished(j)
  BY <1>1 DEF IInv, OwnerInv, Undoing, Recovering
<1>3. \A j \in Ops : ~Unfinished(j)'
  BY <1>1, <1>2 DEF Unfinished
<1>4. TypeOK'
  BY <1>1 DEF IInv, TypeOK, world, loop, scan, bounds, Steps
<1>5. LoopInv'
  BY <1>1 DEF LoopInv, Preparing, Applying, Recovering
<1>6. OwnerInv'
  BY <1>1, <1>2, <1>3 DEF OwnerInv, Undoing, AtMostOneUnfinished, scan, Preparing,
     Applying,
       Recovering
<1>7. BlobInv'
  BY <1>1, <1>2, <1>3 DEF BlobInv, MaterialRetained, scan, Applying
<1> QED
  BY <1>4, <1>5, <1>6, <1>7 DEF IInv

-----------------------------------------------------------------------------
(* Rollback.                                                               *)

LEMMA FailStep ==
  ASSUME IInv, Fail
  PROVE  IInv'
<1>1. /\ pc \in Applying /\ "recovery-required" \in Open /\ "rollback" \in Steps \cap Applying
      /\ {"rollback", "rollback"} \cap {"replace", "record", "undo"} = {}
  BY DEF Fail, Applying, Open, Steps
<1>2. /\ UNCHANGED <<world, blobs, op, req, loop, scan>>
      /\ outcome' \in {"none", "ok", "error", "recovery"}
  BY DEF Fail, IInv, TypeOK
<1>3. CASE req.planned
  <2>1. Transition(op, "recovery-required", "rollback", "rollback")
    BY <1>3 DEF Fail
  <2> QED
    BY <1>1, <1>2, <1>3, <2>1, BatchTransition
<1>4. CASE ~req.planned
  <2>1. pc = "fail" /\ pc' = "rollback" /\ UNCHANGED <<journal, bounds, outcome>>
    BY <1>4 DEF Fail
  <2>2. TypeOK'
    BY <1>2, <2>1 DEF IInv, TypeOK, world, loop, scan, bounds, Steps
  <2>3. LoopInv'
    BY <1>2, <2>1 DEF IInv, LoopInv, Preparing, Applying, Recovering, loop, scan
  <2> QED
    BY <1>2, <2>1, <2>2, <2>3, BatchFrame DEF Applying, Undoing, scan
<1> QED
  BY <1>3, <1>4

LEMMA RollbackCheckStep ==
  ASSUME IInv, RollbackCheck
  PROVE  IInv'
<1>1. /\ pc = "rollback" /\ pc \in Applying /\ k > 0
      /\ UNCHANGED <<world, journal, blobs, op, req, seen, scan, outcome, bounds>>
      /\ \/ pc' = "undo" /\ k' = k /\ undoFailed' = undoFailed
         \/ pc' = "rollback" /\ k' = k - 1 /\ undoFailed' = TRUE
  BY DEF RollbackCheck, UndoNext, Applying
<1>2. TypeOK'
  <2>1. k' \in Nat
    BY <1>1 DEF IInv, TypeOK
  <2> QED
    BY <1>1, <2>1 DEF IInv, TypeOK, world, scan, bounds, Steps
<1>3. LoopInv'
  BY <1>1, ApplyingFacts, RequestFiles DEF LoopInv, Preparing, Applying, Recovering,
     scan
<1> QED
  BY <1>1, <1>2, <1>3, BatchFrame DEF Applying, Undoing, scan

LEMMA UndoStep ==
  ASSUME IInv, Undo
  PROVE  IInv'
<1> DEFINE f == req.files[k]
<1>1. /\ pc = "undo" /\ pc \in Applying /\ k \in 1..Len(req.files) /\ req \in Requests
      /\ op \in Ops
      /\ pc' = "rollback" /\ k' = k - 1 /\ undoFailed' \in BOOLEAN
      /\ UNCHANGED <<journal, blobs, op, req, seen, scan, outcome, bounds>>
  BY ApplyingFacts, RequestFiles DEF IInv, TypeOK, LoopInv, Undo, UndoNext, Applying
<1>2. f \in Files /\ req.snapshot[f] \in Hashes
  BY <1>1, RequestFiles
<1>3. UNCHANGED world \/ Put(f, req.snapshot[f])
  BY DEF Undo
<1>4. /\ disk' \in [Files -> Hashes] /\ survivors' \in [Files -> SUBSET Hashes]
      /\ \A g \in Files : disk'[g] \in survivors'[g]
      /\ touched' \in [Files -> BOOLEAN]
  BY <1>2, <1>3, PutType DEF IInv, TypeOK, world
<1>5. TypeOK'
  BY <1>1, <1>4 DEF IInv, TypeOK, scan, bounds, Steps
<1>6. LoopInv'
  BY <1>1, RequestFiles DEF LoopInv, Preparing, Applying, Recovering, scan
<1> QED
  BY <1>1, <1>5, <1>6, BatchFrame DEF Applying, Undoing, scan

LEMMA UndoFailsStep ==
  ASSUME IInv, UndoFails
  PROVE  IInv'
<1>1. /\ pc \in {"rollback", "undo"} /\ pc \in Applying /\ k > 0 /\ Fault
      /\ pc' = "rollback" /\ k' = k - 1 /\ undoFailed' \in BOOLEAN
      /\ UNCHANGED <<world, journal, blobs, op, req, seen, scan, outcome>>
  BY DEF IInv, TypeOK, UndoFails, UndoNext, Applying
<1>2. TypeOK'
  <2>1. k' \in Nat /\ crashes' \in Nat /\ faults' \in Nat /\ edits' \in Nat
    BY <1>1 DEF IInv, TypeOK, Fault
  <2> QED
    BY <1>1, <2>1 DEF IInv, TypeOK, world, scan, Steps
<1>3. LoopInv'
  BY <1>1, ApplyingFacts, RequestFiles DEF LoopInv, Preparing, Applying, Recovering,
     scan
<1> QED
  BY <1>1, <1>2, <1>3, BatchFrame DEF Applying, Undoing, scan

LEMMA RollbackEndsStep ==
  ASSUME IInv, RollbackEnds
  PROVE  IInv'
<1>1. /\ pc = "rollback" /\ pc' \in {"idle", "rolledBack", "dispose"}
      /\ UNCHANGED <<journal, blobs, op, req, loop, scan>>
      /\ outcome' \in {outcome, "recovery", "error"}
      /\ UNCHANGED world \/ Sync(Range(req.files))
      /\ UNCHANGED bounds \/ Fault
      /\ pc' = "rolledBack" => req.planned
      /\ pc' = "dispose" => ~req.planned
  BY DEF RollbackEnds, Unrecorded
<1>2. /\ disk' \in [Files -> Hashes] /\ survivors' \in [Files -> SUBSET Hashes]
      /\ \A g \in Files : disk'[g] \in survivors'[g]
      /\ touched' \in [Files -> BOOLEAN]
  BY <1>1, SyncType DEF IInv, TypeOK, world
<1>3. crashes' \in Nat /\ faults' \in Nat /\ edits' \in Nat
  BY <1>1 DEF IInv, TypeOK, bounds, Fault
<1>4. TypeOK'
  BY <1>1, <1>2, <1>3 DEF IInv, TypeOK, loop, scan, Steps
<1>5. LoopInv'
  BY <1>1, ApplyingFacts DEF LoopInv, Preparing, Applying, Recovering, loop, scan
<1>6. /\ pc \in Applying /\ pc' \in Applying \cup {"idle", "dispose"} /\ pc \in Undoing
      /\ pc' \in Undoing \cup {"idle"} \/ req.planned = (pc' # "dispose")
  <2>1. req.planned \in BOOLEAN
    BY <1>1, ApplyingFacts DEF Applying, Requests
  <2> QED
    BY <1>1, <2>1 DEF Applying, Undoing
<1> QED
  BY <1>1, <1>4, <1>5, <1>6, BatchFrame DEF scan

LEMMA RolledBackStep ==
  ASSUME IInv, RolledBack
  PROVE  IInv'
<1>1. /\ pc \in Applying /\ "rolled-back" \in Finished /\ "dispose" \in Steps
      /\ {"dispose", "idle"} \cap {"replace", "record", "undo"} = {}
  BY DEF RolledBack, Applying, Finished, Steps
<1>2. /\ Transition(op, "rolled-back", "dispose", "idle")
      /\ UNCHANGED <<world, blobs, op, req, loop, scan>>
      /\ outcome' \in {"none", "ok", "error", "recovery"}
  BY DEF RolledBack, Unrecorded, IInv, TypeOK
<1>3. req.planned
  BY DEF IInv, OwnerInv, Applying, Undoing, RolledBack
<1> QED
  BY <1>1, <1>2, <1>3, BatchTransition

-----------------------------------------------------------------------------
(* The environment.                                                        *)

LEMMA ForgetFrame ==
  ASSUME IInv, Forget,
         disk' \in [Files -> Hashes], survivors' \in [Files -> SUBSET Hashes],
         \A g \in Files : disk'[g] \in survivors'[g]
  PROVE  IInv'
<1>1. /\ pc' = "idle" /\ req' = NoRequest /\ outcome' = "none" /\ k' = 0 /\ seen' = Absent
      /\ undoFailed' = FALSE /\ pass' = {} /\ cur' = 0
      /\ UNCHANGED <<touched, journal, blobs, op, faults, edits>>
  BY DEF Forget
<1>2. TypeOK'
  <2>1. crashes' \in Nat /\ cur' \in 0..MaxOps
    BY <1>1, Bounded DEF IInv, TypeOK, Forget
  <2> QED
    BY <1>1, <2>1, Bounded DEF IInv, TypeOK, Steps
<1>3. LoopInv'
  BY <1>1 DEF LoopInv, Preparing, Applying, Recovering
<1>4. OwnerInv'
  BY <1>1 DEF IInv, OwnerInv, Undoing, AtMostOneUnfinished, Unfinished, Preparing,
     Applying,
       Recovering
<1>5. BlobInv'
  BY <1>1 DEF IInv, BlobInv, MaterialRetained, Unfinished, Material, FilesOf, Applying
<1> QED
  BY <1>2, <1>3, <1>4, <1>5 DEF IInv

LEMMA CrashStep ==
  ASSUME IInv, Crash
  PROVE  IInv'
  BY ForgetFrame DEF Crash, IInv, TypeOK

LEMMA PowerLossStep ==
  ASSUME IInv, PowerLoss
  PROVE  IInv'
<1>1. /\ disk' \in [Files -> Hashes] /\ survivors' \in [Files -> SUBSET Hashes]
      /\ \A g \in Files : disk'[g] \in survivors'[g]
  BY DEF PowerLoss
<1> QED
  BY <1>1, ForgetFrame DEF PowerLoss

LEMMA OutsideEditStep ==
  ASSUME IInv, OutsideEdit
  PROVE  IInv'
<1>1. UNCHANGED <<journal, blobs, pc, op, req, k, seen, undoFailed, pass, cur, outcome,
                  crashes, faults>>
  BY DEF OutsideEdit, loop, scan
<1>2. TypeOK'
  <2>1. /\ disk' \in [Files -> Hashes] /\ survivors' \in [Files -> SUBSET Hashes]
        /\ \A g \in Files : disk'[g] \in survivors'[g]
        /\ touched' \in [Files -> BOOLEAN]
        /\ edits' \in Nat
    BY DEF IInv, TypeOK, OutsideEdit
  <2> QED
    BY <1>1, <2>1 DEF IInv, TypeOK
<1>3. LoopInv'
  BY <1>1 DEF IInv, LoopInv
<1>4. OwnerInv'
  BY <1>1 DEF IInv, OwnerInv, Undoing, AtMostOneUnfinished, Unfinished
<1>5. BlobInv'
  BY <1>1 DEF IInv, BlobInv, MaterialRetained, Unfinished, Material, FilesOf
<1> QED
  BY <1>2, <1>3, <1>4, <1>5 DEF IInv

-----------------------------------------------------------------------------
(* The strengthened invariant holds of every reachable state: whoever      *)
(* holds the transaction lock owns the only record that may be unfinished, *)
(* and the snapshots that record needs are there.                          *)
THEOREM IInvHolds == Spec => []IInv
<1>1. Init => IInv
  BY InitInv
<1>2. IInv /\ [Next]_vars => IInv'
  <2> SUFFICES ASSUME IInv, [Next]_vars PROVE IInv'
    OBVIOUS
  <2>1. CASE Acquire \/ Recover \/ Release
    BY <2>1, AcquireStep, RecoverValidateStep, RecoverCheckStep, RecoverReplaceStep,
       RecoverVerifyStep, RecoverFailsStep, RecoverSettleStep, RecoverRejectStep, SweepStep,
       ReleaseStep DEF Recover
  <2>2. CASE Mutate
    BY <2>2, CaptureStep, PreflightStep, StageStep, BeginStep, CheckTargetStep,
       ReplaceStep,
       RecordCommitStep, ApplyFailsStep DEF Mutate
  <2>3. CASE Settle
    BY <2>3, RefreshingStep, RefreshStep, SucceedStep, CloseFailsStep, UnsettledStep,
       DisposeStep DEF Settle
  <2>4. CASE Roll
    BY <2>4, FailStep, RollbackCheckStep, UndoStep, UndoFailsStep, RollbackEndsStep,
       RolledBackStep DEF Roll
  <2>5. CASE Crash \/ PowerLoss \/ OutsideEdit
    BY <2>5, CrashStep, PowerLossStep, OutsideEditStep
  <2>6. CASE UNCHANGED vars
    BY <2>6 DEF vars, world, loop, scan, bounds, IInv, TypeOK, LoopInv, OwnerInv,
       Undoing,
         BlobInv,
                AtMostOneUnfinished, MaterialRetained, Unfinished, Material, FilesOf
  <2> QED
    BY <2>1, <2>2, <2>3, <2>4, <2>5, <2>6 DEF Next, Server
<1> QED
  BY <1>1, <1>2, PTL DEF Spec

(* Every variable keeps its type (survivors never lose what disk holds).   *)
THEOREM TypeCorrect == Spec => []TypeOK
  BY IInvHolds, PTL DEF IInv

(* No batch starts over another batch's unfinished record, so recovery's   *)
(* order of records cannot matter.                                         *)
THEOREM OneUnfinishedRecord == Spec => []AtMostOneUnfinished
<1>1. IInv => AtMostOneUnfinished
  BY DEF IInv, OwnerInv, Undoing
<1> QED
  BY <1>1, IInvHolds, PTL

(* The sweep and the disposal of blobs never take a source snapshot that   *)
(* the recovery of an unfinished record needs.                             *)
THEOREM SnapshotsRetained == Spec => []MaterialRetained
<1>1. IInv => MaterialRetained
  BY DEF IInv, BlobInv
<1> QED
  BY <1>1, IInvHolds, PTL

(* The files of a request.                                                 *)
LEMMA RangeOf == ASSUME req \in Requests
  PROVE /\ Range(req.files) = {req.files[j] : j \in 1..Len(req.files)}
        /\ Range(req.files) \subseteq Files /\ req # NoRequest
<1>1. req.files \in Seq(Files) /\ req.tool \in Tools
  BY RequestFiles DEF Requests
<1>2. "none" \notin Tools
  BY ConstantsAssumption
<1> QED
  BY <1>1, <1>2 DEF Range, NoRequest

(* The steps by what they do to the files and to the journal.              *)
Looking   == \/ Acquire \/ RecoverValidate \/ RecoverCheck \/ RecoverFails \/ Sweep \/ Release
             \/ Preflight \/ Stage \/ CheckTarget \/ ApplyFails \/ Dispose
             \/ RollbackCheck \/ UndoFails
Syncing   == RecoverVerify \/ Refresh \/ RollbackEnds
Writing   == RecoverReplace \/ Replace \/ Undo
Recording == \/ RecoverSettle \/ RecoverReject \/ Begin \/ RecordCommit \/ Refreshing
             \/ Succeed \/ Unsettled \/ Fail \/ RolledBack

(* Every step is of one of these kinds.                                    *)
LEMMA StepKinds ==
  ASSUME [Next]_vars
  PROVE  \/ Looking \/ Syncing \/ Writing \/ Recording \/ CloseFails
         \/ Capture \/ Crash \/ PowerLoss \/ OutsideEdit \/ UNCHANGED vars
  BY DEF Next, Server, Recover, Mutate, Settle, Roll, Looking, Syncing, Writing,
     Recording

LEMMA FaultsGrow ==
  ASSUME [Next]_vars
  PROVE  faults' = faults \/ (faults < MaxFaults /\ faults' = faults + 1)
<1>1. CASE Acquire \/ Recover \/ Release
  BY <1>1 DEF Recover, Acquire, RecoverValidate, RecoverCheck, RecoverReplace,
     RecoverVerify,
     RecoverFails, RecoverSettle, RecoverReject, Sweep, Release, Transition, Journal,
     Fault, bounds
<1>2. CASE Mutate
  BY <1>2 DEF Mutate, Capture, Preflight, Stage, Begin, CheckTarget, Replace,
     RecordCommit,
     ApplyFails, Journal, Fault, bounds
<1>3. CASE Settle
  BY <1>3 DEF Settle, Refreshing, Refresh, Succeed, CloseFails, Unsettled, Dispose,
     Transition,
     Journal, Fault, bounds
<1>4. CASE Roll
  BY <1>4 DEF Roll, Fail, RollbackCheck, Undo, UndoFails, RollbackEnds, RolledBack,
     Transition,
     Journal, Fault, bounds
<1>5. CASE Crash \/ PowerLoss \/ OutsideEdit \/ UNCHANGED vars
  BY <1>5 DEF Crash, PowerLoss, Forget, OutsideEdit, vars, bounds
<1> QED
  BY <1>1, <1>2, <1>3, <1>4, <1>5 DEF Next, Server

(* What the steps that write no record have in common.                     *)
LEMMA QuietFacts ==
  ASSUME IInv, Looking \/ Syncing \/ Writing
  PROVE  /\ UNCHANGED <<touched, journal, op>>
         /\ \/ req' = req
            \/ /\ req \in Requests /\ pc' \notin Applying
               /\ req'.files = req.files /\ req'.snapshot = req.snapshot
               /\ req'.written = req.written /\ req'.candidate = req.candidate
         /\ pc' \in Applying => pc \in Applying \ {"unsettled", "fail"}
         /\ Looking => /\ UNCHANGED <<disk, survivors>>
                      /\ pc' \notin {"settle", "rolledBack", "succeed"}
         /\ Syncing => disk' = disk
<1>1. CASE Preflight
  <2>1. req \in Requests /\ pc' \notin Applying
    BY <1>1 DEF Preflight, IInv, LoopInv, Preparing, Applying
  <2>2. /\ req'.files = req.files /\ req'.snapshot = req.snapshot
        /\ req'.written = req.written /\ req'.candidate = req.candidate
    BY <1>1, <2>1 DEF Preflight, Requests
  <2> QED
    BY <1>1, <2>1, <2>2 DEF Preflight, world, Syncing, RecoverVerify, Refresh,
       RollbackEnds
<1>2. CASE Looking /\ ~Preflight
  BY <1>2 DEF Looking, Acquire, RecoverValidate, RecoverCheck, RecoverFails, Sweep,
     Release, Stage,
     CheckTarget, ApplyFails, Dispose, RollbackCheck, UndoFails, world, Applying,
     Syncing, RecoverVerify, Refresh, RollbackEnds
<1>3. CASE Syncing
  BY <1>3 DEF Syncing, RecoverVerify, Refresh, RollbackEnds, Sync, world, Applying,
     Looking,
     Acquire, RecoverValidate, RecoverCheck, RecoverFails, Sweep, Release, Preflight, Stage,
     CheckTarget, ApplyFails, Dispose, RollbackCheck, UndoFails
<1>4. CASE Writing
  BY <1>4 DEF Writing, RecoverReplace, Replace, Undo, Put, world, Applying, Looking,
     Syncing,
     Acquire, RecoverValidate, RecoverCheck, RecoverFails, Sweep, Release, Preflight, Stage,
     CheckTarget, ApplyFails, Dispose, RollbackCheck, UndoFails, RecoverVerify, Refresh,
     RollbackEnds
<1> QED
  BY <1>1, <1>2, <1>3, <1>4

LEMMA QuietRecord ==
  ASSUME IInv, DataInv, Looking \/ Syncing \/ Writing
  PROVE  RecordInv'
<1>1. /\ pc' \in Preparing => pc \in Preparing
      /\ pc' \in {"restore", "restoring", "settle"} =>
           \/ pc \in {"restore", "restoring"} /\ cur' = cur
           \/ pc = "recover" /\ cur' \in pass
      /\ pass' = pass \/ pass' = {i \in Ops : Unfinished(i)}
      /\ pc' = "recover" => pass' = {i \in Ops : Unfinished(i)}
  BY DEF Looking, Syncing, Writing, Acquire, RecoverValidate, RecoverCheck,
     RecoverReplace,
     RecoverVerify, RecoverFails, Sweep, Release, Preflight, Stage, CheckTarget, Replace,
     ApplyFails,
     Refresh, Dispose, RollbackCheck, Undo, UndoFails, RollbackEnds, Preparing, scan
<1>2. Recorded' => Recorded
  BY QuietFacts, RangeOf DEF Recorded
<1>3. UNCHANGED <<journal, op>> /\ (pc' \in Applying => pc \in Applying)
  BY QuietFacts
<1>4. Recorded => /\ req'.files = req.files /\ req'.snapshot = req.snapshot
                  /\ req'.candidate = req.candidate
  BY QuietFacts
<1>5. pc' \in {"restore", "restoring", "settle"} => Unfinished(cur')
  BY <1>1 DEF DataInv, RecordInv
<1> QED
  BY <1>1, <1>2, <1>3, <1>4, <1>5 DEF DataInv, RecordInv, Unfinished, Recorded

(* Only Replace and Undo move a file and the counter of the batch.         *)
LEMMA QuietProgress ==
  ASSUME IInv, DataInv, \/ Looking \/ Syncing \/ RecoverReplace
  PROVE  ProgressInv'
<1>1. CASE Preflight
  BY <1>1, QuietFacts, RangeOf DEF Preflight, DataInv, ProgressInv, IInv, LoopInv,
     Preparing, Applying, world, loop
<1>2. CASE Stage
  BY <1>2, QuietFacts DEF Stage, DataInv, ProgressInv, Preparing, Applying, world
<1>3. CASE RollbackCheck \/ UndoFails
  <2>1. /\ pc \in {"rollback", "undo"} /\ pc' \in {"rollback", "undo"} /\ k \in Nat
        /\ UNCHANGED <<disk, touched, req>>
        /\ \/ k' = k /\ undoFailed' = undoFailed
           \/ k' = k - 1 /\ undoFailed' = TRUE
    BY <1>3 DEF RollbackCheck, UndoFails, UndoNext, IInv, TypeOK, world
  <2>2. Len(req.files) \in Nat
    BY <2>1, ApplyingFacts, RequestFiles DEF Applying
  <2> QED
    BY <2>1, <2>2 DEF DataInv, ProgressInv, Preparing, Applying
<1>4. CASE CheckTarget \/ ApplyFails \/ Refresh \/ RollbackEnds
  BY <1>4, QuietFacts DEF CheckTarget, ApplyFails, Refresh, RollbackEnds, Sync,
     DataInv, ProgressInv, Preparing, Applying, world, loop
<1>5. CASE Acquire \/ RecoverValidate \/ RecoverCheck \/ RecoverFails \/ Sweep
           \/ Release \/ Dispose
           \/ RecoverVerify \/ RecoverReplace
  BY <1>5 DEF Acquire, RecoverValidate, RecoverCheck, RecoverFails, Sweep, Release,
     Dispose, RecoverVerify, RecoverReplace, ProgressInv, Preparing, Applying
<1> QED
  BY <1>1, <1>2, <1>3, <1>4, <1>5 DEF Looking, Syncing

LEMMA QuietSynced ==
  ASSUME IInv, DataInv, Looking \/ Syncing \/ Writing
  PROVE  SyncedInv'
<1>1. CASE Acquire \/ RecoverValidate \/ RecoverCheck \/ RecoverFails \/ Sweep \/ Release
  BY <1>1 DEF Acquire, RecoverValidate, RecoverCheck, RecoverFails, Sweep, Release,
     DataInv, RecordInv,
     SyncedInv, Durably, Unfinished, world, loop, scan
<1>2. CASE Preflight \/ Stage
  BY <1>2, QuietFacts, RangeOf DEF Preflight, Stage, DataInv, ProgressInv, SyncedInv,
     IInv, LoopInv, Preparing, world
<1>3. CASE CheckTarget \/ ApplyFails \/ Dispose \/ RollbackCheck \/ UndoFails
  BY <1>3 DEF CheckTarget, ApplyFails, Dispose, RollbackCheck, UndoFails, DataInv,
     SyncedInv, Durably, world, loop, scan
<1>4. CASE Writing
  BY <1>4 DEF Writing, RecoverReplace, Replace, Undo, DataInv, RecordInv, SyncedInv,
     Unfinished, scan
<1>5. CASE RecoverVerify
  <2>1. FilesOf(journal[cur]) \subseteq Files
    BY <1>5, RecordFiles DEF IInv, TypeOK, LoopInv, Recovering, RecoverVerify
  <2> QED
    BY <1>5, <2>1 DEF DataInv, SyncedInv, RecordInv, RecoverVerify, Sync, Durably,
       Unfinished, loop, scan
<1>6. CASE Refresh
  BY <1>6, ApplyingFacts, RangeOf DEF Refresh, Sync, DataInv, ProgressInv, SyncedInv,
     Durably, Applying, world, loop, scan
<1>7. CASE RollbackEnds
  BY <1>7, ApplyingFacts, RangeOf DEF RollbackEnds, Unrecorded, Sync, DataInv,
     ProgressInv, SyncedInv, Durably, Applying, world, loop, scan
<1> QED
  BY <1>1, <1>2, <1>3, <1>4, <1>5, <1>6, <1>7 DEF Looking, Syncing

(* Changing a record's state: either it is written, or it may be and is     *)
(* reported as failed, which is one more fault.                            *)
Moves(i, state, good, bad) ==
  /\ \A j \in Ops : /\ journal'[j].files = journal[j].files
                    /\ journal'[j].source = journal[j].source
                    /\ journal'[j].candidate = journal[j].candidate
                    /\ j # i => journal'[j] = journal[j]
  /\ \/ pc' = good /\ faults' = faults /\ journal'[i].state = state
     \/ /\ pc' = bad /\ faults' = faults + 1 /\ faults' <= MaxFaults
        /\ journal'[i].state \in {journal[i].state, state}

LEMMA TransitionFacts ==
  ASSUME IInv, NEW i \in Ops, NEW state \in Finished \cup Open, NEW good \in Steps,
         NEW bad \in Steps,
         Transition(i, state, good, bad)
  PROVE  Moves(i, state, good, bad)
<1>1. TypeOK
  BY DEF IInv
<1>2. /\ journal' \in [Ops -> Records]
      /\ pc' \in {good, bad}
      /\ \A j \in Ops : /\ journal'[j].files = journal[j].files
                        /\ journal'[j].source = journal[j].source
                        /\ journal'[j].candidate = journal[j].candidate
                        /\ j # i => journal'[j] = journal[j]
                        /\ journal'[j].state \in {journal[j].state, state}
      /\ pc' = good /\ good # bad /\ i \in Ops => journal'[i].state = state
      /\ crashes' \in Nat /\ faults' \in Nat /\ edits' \in Nat
  BY <1>1, StateChange, Zenon
<1> DEFINE r == [journal[i] EXCEPT !.state = state]
<1>3. r.state = state
  BY <1>1 DEF TypeOK, Records
<1>4. Journal(i, r, good, bad)
  BY DEF Transition
<1> HIDE DEF r
<1>6. [journal EXCEPT ![i] = r][i] = r
  BY <1>1 DEF TypeOK
<1>5. \/ pc' = good /\ faults' = faults /\ journal' = [journal EXCEPT ![i] = r]
      \/ pc' = bad /\ faults' = faults + 1 /\ faults' <= MaxFaults
  BY <1>1, <1>4, Bounded, ConstantsAssumption DEF Journal, Fault, bounds, TypeOK
<1>7. journal'[i].state \in {journal[i].state, state}
  BY <1>2
<1>8. CASE pc' = good /\ faults' = faults /\ journal' = [journal EXCEPT ![i] = r]
  BY <1>2, <1>3, <1>6, <1>8 DEF Moves
<1>9. CASE pc' = bad /\ faults' = faults + 1 /\ faults' <= MaxFaults
  BY <1>2, <1>7, <1>9 DEF Moves
<1> QED
  BY <1>5, <1>8, <1>9

LEMMA RecoverSettleFacts ==
  ASSUME IInv, RecoverSettle
  PROVE  cur \in Ops /\ pc = "settle" /\ Moves(cur, "recovered", "recover", "reject")
<1>1. cur \in Ops /\ pc = "settle"
  BY DEF IInv, TypeOK, LoopInv, RecoverSettle, Recovering
<1> QED
  BY <1>1, TransitionFacts DEF RecoverSettle, Finished, Open, Steps

LEMMA RecoverRejectFacts ==
  ASSUME IInv, RecoverReject
  PROVE  cur \in Ops /\ pc = "reject" /\ Moves(cur, "recovery-required", "recover", "idle")
<1>1. cur \in Ops /\ pc = "reject"
  BY DEF IInv, TypeOK, LoopInv, RecoverReject, Recovering
<1> QED
  BY <1>1, TransitionFacts DEF RecoverReject, Finished, Open, Steps

LEMMA RefreshingFacts ==
  ASSUME IInv, Refreshing
  PROVE  op \in Ops /\ pc = "apply" /\ Moves(op, "refreshing", "refresh", "fail")
<1>1. op \in Ops /\ pc = "apply"
  BY DEF IInv, TypeOK, LoopInv, Refreshing, Applying
<1> QED
  BY <1>1, TransitionFacts DEF Refreshing, Finished, Open, Steps

LEMMA SucceedFacts ==
  ASSUME IInv, Succeed
  PROVE  op \in Ops /\ pc = "succeed" /\ Moves(op, "succeeded", "dispose", "unsettled")
<1>1. op \in Ops /\ pc = "succeed"
  BY DEF IInv, TypeOK, LoopInv, Succeed, Applying
<1> QED
  BY <1>1, TransitionFacts DEF Succeed, Finished, Open, Steps

LEMMA UnsettledFacts ==
  ASSUME IInv, Unsettled
  PROVE  op \in Ops /\ pc = "unsettled" /\ Moves(op, "recovery-required", "fail", "fail")
<1>1. op \in Ops /\ pc = "unsettled"
  BY DEF IInv, TypeOK, LoopInv, Unsettled, Applying
<1> QED
  BY <1>1, TransitionFacts DEF Unsettled, Finished, Open, Steps

LEMMA RolledBackFacts ==
  ASSUME IInv, RolledBack
  PROVE  op \in Ops /\ pc = "rolledBack" /\ Moves(op, "rolled-back", "dispose", "idle")
<1>1. op \in Ops /\ pc = "rolledBack"
  BY DEF IInv, TypeOK, LoopInv, RolledBack, Applying
<1> QED
  BY <1>1, TransitionFacts DEF RolledBack, Finished, Open, Steps

LEMMA FailFacts ==
  ASSUME IInv, Fail
  PROVE  /\ op \in Ops /\ pc = "fail" /\ pc' = "rollback"
         /\ \A j \in Ops : /\ journal'[j].files = journal[j].files
                           /\ journal'[j].source = journal[j].source
                           /\ journal'[j].candidate = journal[j].candidate
                           /\ j # op => journal'[j] = journal[j]
         /\ \/ faults' = faults /\ (req.planned => journal'[op].state = "recovery-required")
            \/ faults' = faults + 1 /\ faults' <= MaxFaults
         /\ journal'[op].state \in {journal[op].state, "recovery-required"}
<1>1. op \in Ops /\ pc = "fail"
  BY DEF IInv, TypeOK, LoopInv, Fail, Applying
<1>2. CASE req.planned
  BY <1>1, <1>2, TransitionFacts DEF Moves, Fail, Finished, Open, Steps
<1>3. CASE ~req.planned
  BY <1>1, <1>3 DEF Fail, bounds
<1> QED
  BY <1>2, <1>3

(* The invariant through the steps that change the state of a record.      *)
Moving == RecoverSettle \/ RecoverReject \/ Refreshing \/ Succeed \/ Unsettled
          \/ RolledBack \/ Fail

LEMMA MovingRecord ==
  ASSUME IInv, DataInv, Moving
  PROVE  RecordInv'
<1>1. CASE RecoverSettle
  BY <1>1, RecoverSettleFacts DEF Moves, RecoverSettle, DataInv, RecordInv,
     Unfinished, Recorded, Open, IInv, OwnerInv, LoopInv, Recovering, Preparing,
     Applying
<1>2. CASE RecoverReject
  BY <1>2, RecoverRejectFacts DEF Moves, RecoverReject, DataInv, RecordInv,
     Unfinished, Recorded, Open, IInv, OwnerInv, LoopInv, Recovering, Preparing,
     Applying
<1>3. CASE Refreshing \/ Succeed
  BY <1>3, RefreshingFacts, SucceedFacts DEF Moves, Refreshing, Succeed, DataInv,
     RecordInv, Unfinished, Recorded, Open, IInv, OwnerInv, Recovering, Preparing,
     Applying, scan
<1>4. CASE Unsettled \/ RolledBack \/ Fail
  BY <1>4, UnsettledFacts, RolledBackFacts, FailFacts DEF Moves, Unsettled,
     RolledBack, Fail, DataInv, RecordInv, Unfinished, Recorded, Open, IInv,
     OwnerInv, Recovering, Preparing, Applying, scan
<1> QED
  BY <1>1, <1>2, <1>3, <1>4 DEF Moving

LEMMA MovingProgress ==
  ASSUME IInv, DataInv, Moving
  PROVE  ProgressInv'
<1>1. CASE RecoverSettle \/ RecoverReject
  BY <1>1, RecoverSettleFacts, RecoverRejectFacts DEF Moves, ProgressInv, Preparing,
     Applying
<1>2. CASE Refreshing \/ Succeed \/ Unsettled
  BY <1>2, RefreshingFacts, SucceedFacts, UnsettledFacts DEF Moves, Refreshing,
     Succeed, Unsettled, DataInv, ProgressInv, Preparing, Applying, world, loop
<1>3. CASE RolledBack \/ Fail
  BY <1>3, RolledBackFacts, FailFacts DEF Moves, RolledBack, Fail, DataInv,
     ProgressInv, Preparing, Applying, world, loop
<1> QED
  BY <1>1, <1>2, <1>3 DEF Moving

LEMMA MovingSynced ==
  ASSUME IInv, DataInv, Moving
  PROVE  SyncedInv'
<1>1. CASE RecoverSettle
  BY <1>1, RecoverSettleFacts DEF Moves, RecoverSettle, DataInv, SyncedInv, Durably,
     FilesOf, Unfinished, world
<1>2. CASE RecoverReject
  BY <1>2, RecoverRejectFacts DEF Moves, RecoverReject, SyncedInv
<1>3. CASE Refreshing \/ Unsettled \/ Fail
  BY <1>3, RefreshingFacts, UnsettledFacts, FailFacts DEF Moves, SyncedInv
<1>4. CASE Succeed
  BY <1>4, SucceedFacts DEF Moves, Succeed, DataInv, SyncedInv, Durably, world
<1>5. CASE RolledBack
  <2>1. req \in Requests /\ pc = "rolledBack"
    BY <1>5, ApplyingFacts DEF RolledBack, Applying
  <2>2. \A f \in Range(req.files) : touched[f] \/ disk[f] = req.snapshot[f]
    BY <2>1, RangeOf DEF IInv, TypeOK, DataInv, SyncedInv, Durably
  <2> QED
    BY <1>5, <2>1, <2>2, RolledBackFacts DEF Moves, SyncedInv, RolledBack,
       Unrecorded, world, loop
<1> QED
  BY <1>1, <1>2, <1>3, <1>4, <1>5 DEF Moving

LEMMA Distinct ==
  ASSUME req \in Requests, NEW i \in 1..Len(req.files), NEW j \in 1..Len(req.files),
         req.files[i] = req.files[j]
  PROVE  i = j
  BY FilesNamedOnce DEF Requests

LEMMA ReplaceProgress ==
  ASSUME IInv, DataInv, Replace
  PROVE  ProgressInv'
<1>1. /\ pc = "replace" /\ k \in Nat /\ k < Len(req.files) /\ req \in Requests
      /\ Len(req.files) \in Nat /\ k + 1 \in 1..Len(req.files) /\ req.files[k + 1] \in Files
      /\ UNCHANGED <<req, undoFailed>>
  BY ApplyingFacts, RequestFiles DEF IInv, LoopInv, Replace, Applying
<1>2. \/ pc' = "fail" /\ UNCHANGED <<disk, touched, k>>
      \/ /\ pc' = "record" /\ k' = k + 1 /\ UNCHANGED touched
         /\ disk' = [disk EXCEPT ![req.files[k + 1]] = req.written[req.files[k + 1]]]
  BY DEF Replace, Put, world
<1> QED
  BY <1>1, <1>2, Distinct, RequestFiles DEF IInv, TypeOK, DataInv, ProgressInv,
     Preparing, Applying

LEMMA UndoProgress ==
  ASSUME IInv, DataInv, Undo
  PROVE  ProgressInv'
<1>1. /\ pc = "undo" /\ k \in 1..Len(req.files) /\ req \in Requests
      /\ Len(req.files) \in Nat /\ req.files[k] \in Files
      /\ pc' = "rollback" /\ k' = k - 1 /\ req' = req
  BY ApplyingFacts, RequestFiles DEF IInv, TypeOK, LoopInv, Undo, UndoNext, Applying
<1>2. \/ undoFailed' /\ UNCHANGED <<disk, touched>>
      \/ /\ undoFailed' = undoFailed /\ UNCHANGED touched
         /\ disk' = [disk EXCEPT ![req.files[k]] = req.snapshot[req.files[k]]]
  BY DEF Undo, UndoNext, Put, world, IInv, TypeOK
<1> QED
  BY <1>1, <1>2, Distinct, RequestFiles DEF IInv, TypeOK, DataInv, ProgressInv,
     Preparing, Applying

LEMMA QuietData ==
  ASSUME IInv, DataInv, Looking \/ Syncing \/ Writing
  PROVE  DataInv'
  BY QuietRecord, QuietProgress, ReplaceProgress, UndoProgress, QuietSynced
     DEF DataInv, Writing

LEMMA MovingData ==
  ASSUME IInv, DataInv, Moving
  PROVE  DataInv'
  BY MovingRecord, MovingProgress, MovingSynced DEF DataInv

(* Before the first batch no record says anything.                         *)
LEMMA InitData == Init => DataInv
  BY DEF Init, DataInv, RecordInv, ProgressInv, SyncedInv, Recorded, Unfinished,
     NoRecord, Open,
     Preparing, Applying

(* What a batch captures, and what it records of its files.                *)
LEMMA CaptureFacts ==
  ASSUME IInv, Capture
  PROVE  /\ req' \in Requests
         /\ \A f \in Range(req'.files) : req'.snapshot[f] = disk[f]
         /\ op' = op + 1 /\ op \in 0..(MaxOps - 1) /\ pc' = "preflight" /\ ~undoFailed'
         /\ UNCHANGED <<disk, survivors, journal, blobs, seen, pass, cur, crashes, faults,
                        edits>>
         /\ pc = "ready" /\ pass = {} /\ \A j \in Ops : ~Unfinished(j)
         /\ \A f \in Files : touched'[f] => touched[f]
         /\ \A f \in Range(req'.files) : ~touched'[f]
<1>1. req' \in Requests
  BY CaptureStep DEF IInv, LoopInv, Capture, Preparing
<1>2. PICK tool \in Tools, files \in Batches, wanted \in [Range(req'.files) -> Contents] :
        /\ req' = [tool |-> tool, files |-> files, planned |-> TRUE,
                   snapshot  |-> Over(files, LAMBDA f : disk[f]),
                   expected  |-> Over(files, LAMBDA f : disk[f]),
                   candidate |-> Over(files, LAMBDA f : CandidateOf(tool, wanted[f])),
                   written   |-> Over(files, LAMBDA f : WrittenOf(tool, wanted[f]))]
        /\ touched' = [f \in Files |-> touched[f] /\ f \notin Range(files)]
  <2>1. PICK tool \in Tools, files \in Batches : \E wanted \in [Range(files) -> Contents] :
        /\ req' = [tool |-> tool, files |-> files, planned |-> TRUE,
                   snapshot  |-> Over(files, LAMBDA f : disk[f]),
                   expected  |-> Over(files, LAMBDA f : disk[f]),
                   candidate |-> Over(files, LAMBDA f : CandidateOf(tool, wanted[f])),
                   written   |-> Over(files, LAMBDA f : WrittenOf(tool, wanted[f]))]
        /\ touched' = [f \in Files |-> touched[f] /\ f \notin Range(files)]
    BY DEF Capture
  <2>2. req'.files = files
    BY <2>1
  <2> QED
    BY <2>1, <2>2
<1>3. req'.files = files /\ req'.snapshot = Over(files, LAMBDA f : disk[f])
  BY <1>2
<1>4. files \in Seq(Files) /\ Range(files) \subseteq Files
  BY ConstantsAssumption DEF Range
<1>5. \A f \in Range(req'.files) : req'.snapshot[f] = disk[f]
  BY <1>3, <1>4 DEF Over
<1>6. \A f \in Files : touched'[f] => touched[f]
  BY <1>2
<1>7. \A f \in Range(req'.files) : ~touched'[f]
  BY <1>2, <1>3, <1>4
<1>8. /\ op' = op + 1 /\ op \in 0..(MaxOps - 1) /\ pc' = "preflight" /\ undoFailed' = FALSE
      /\ UNCHANGED <<disk, survivors, journal, blobs, seen, pass, cur, crashes, faults,
                     edits>>
      /\ pc = "ready" /\ pass = {} /\ \A j \in Ops : ~Unfinished(j)
  BY Bounded DEF Capture, IInv, TypeOK, OwnerInv, Recovering, scan, bounds
<1> QED
  BY <1>1, <1>5, <1>6, <1>7, <1>8

LEMMA CaptureData ==
  ASSUME IInv, DataInv, Capture
  PROVE  DataInv'
<1>1. RecordInv'
  <2>1. op' \in Ops /\ op' > op /\ op \in Nat
    BY CaptureFacts, Bounded DEF Ops
  <2>2. \A i \in Ops : i > op' => i > op
    BY <2>1, Bounded DEF Ops
  <2> QED
    BY <2>1, <2>2, CaptureFacts DEF DataInv, RecordInv, Unfinished, Recorded,
       Preparing, Applying
<1>2. ProgressInv'
  BY CaptureFacts DEF ProgressInv, Preparing, Applying
<1>3. SyncedInv'
  BY CaptureFacts DEF SyncedInv
<1> QED
  BY <1>1, <1>2, <1>3 DEF DataInv

LEMMA BeginFacts ==
  ASSUME IInv, Begin
  PROVE  /\ req \in Requests /\ op \in Ops /\ pc = "stage" /\ pass = {} /\ k' = 0
         /\ \A j \in Ops : ~Unfinished(j)
         /\ UNCHANGED <<disk, survivors, touched, blobs, op, req, seen, undoFailed, pass,
                        cur>>
         /\ \/ pc' = "apply" /\ journal'[op].state = "running"
               /\ UNCHANGED <<faults, outcome>>
            \/ pc' = "idle" /\ outcome' = "error"
         /\ \A j \in Ops : j # op => journal'[j] = journal[j]
         /\ \/ journal' = journal
            \/ /\ journal'[op].state = "running" /\ journal'[op].files = req.files
               /\ journal'[op].source = req.snapshot /\ journal'[op].candidate = req.candidate
         /\ faults' = faults \/ (faults' = faults + 1 /\ faults' <= MaxFaults)
<1> DEFINE r == [state |-> "running", files |-> req.files, source |-> req.snapshot,
                 candidate |-> req.candidate, committed |-> Nowhere]
<1>1. Journal(op, r, "apply", "idle")
  BY DEF Begin
<1>2. r.state = "running" /\ r.files = req.files /\ r.source = req.snapshot
      /\ r.candidate = req.candidate
  OBVIOUS
<1> HIDE DEF r
<1>3. req \in Requests /\ op \in Ops /\ pc = "stage" /\ pass = {}
        /\ \A j \in Ops : ~Unfinished(j)
  BY DEF IInv, LoopInv, OwnerInv, Begin, Preparing, Recovering
<1>4. /\ k' = 0
      /\ UNCHANGED <<disk, survivors, touched, blobs, op, req, seen, undoFailed, pass, cur>>
      /\ outcome' = IF pc' = "idle" THEN "error" ELSE outcome
  BY DEF Begin, world, scan
<1>5. \/ pc' = "apply" /\ journal' = [journal EXCEPT ![op] = r] /\ UNCHANGED bounds
      \/ pc' = "idle" /\ journal' \in {journal, [journal EXCEPT ![op] = r]} /\ Fault
  BY <1>1 DEF Journal
<1>6. faults \in Nat /\ MaxFaults \in Nat /\ journal \in [Ops -> Records]
  BY ConstantsAssumption DEF IInv, TypeOK
<1>7. \A j \in Ops : [journal EXCEPT ![op] = r][j] = IF j = op THEN r ELSE journal[j]
  BY <1>6
<1>8. pc' = "apply" => journal'[op].state = "running"
  BY <1>2, <1>3, <1>5, <1>7
<1>9. \A j \in Ops : j # op => journal'[j] = journal[j]
  BY <1>5, <1>7
<1>10. \/ journal' = journal
       \/ /\ journal'[op].state = "running" /\ journal'[op].files = req.files
          /\ journal'[op].source = req.snapshot /\ journal'[op].candidate = req.candidate
  BY <1>2, <1>3, <1>5, <1>7
<1>11. faults' = faults \/ (faults' = faults + 1 /\ faults' <= MaxFaults)
  BY <1>5, <1>6 DEF Fault, bounds
<1> QED
  BY <1>3, <1>4, <1>5, <1>8, <1>9, <1>10, <1>11 DEF bounds

LEMMA BeginData ==
  ASSUME IInv, DataInv, Begin
  PROVE  DataInv'
<1>1. RecordInv'
  <2>1. \A i \in Ops : i > op => i # op
    BY DEF IInv, TypeOK, Ops
  <2> QED
    BY <2>1, BeginFacts DEF DataInv, RecordInv, Unfinished, Open, Recorded,
       Preparing, Applying
<1>2. ProgressInv'
  BY BeginFacts, RangeOf DEF DataInv, ProgressInv, Preparing, Applying
<1>3. SyncedInv'
  BY BeginFacts, RangeOf DEF DataInv, ProgressInv, SyncedInv, Preparing
<1> QED
  BY <1>1, <1>2, <1>3 DEF DataInv

LEMMA RecordCommitFacts ==
  ASSUME IInv, RecordCommit
  PROVE  /\ pc = "record" /\ req \in Requests /\ op \in Ops /\ pc' \in {"apply", "fail"}
         /\ UNCHANGED <<disk, survivors, touched, blobs, op, req, k, seen, undoFailed,
                        pass, cur, outcome>>
         /\ \A j \in Ops : /\ j # op => journal'[j] = journal[j]
                           /\ journal'[j].files = journal[j].files
                           /\ journal'[j].source = journal[j].source
                           /\ journal'[j].candidate = journal[j].candidate
         /\ \/ pc' = "apply" /\ faults' = faults /\ journal'[op].state = "running"
            \/ /\ pc' = "fail" /\ faults' = faults + 1 /\ faults' <= MaxFaults
               /\ journal'[op].state \in {journal[op].state, "running"}
<1> DEFINE f == req.files[k]
           h == IF req.tool = "file_delete" THEN req.snapshot[f] ELSE req.written[f]
           r == [journal[op] EXCEPT !.committed[f] = h, !.state = "running"]
<1>1. pc = "record" /\ req \in Requests /\ op \in Ops
  BY ApplyingFacts DEF RecordCommit, Applying
<1>2. /\ r.files = journal[op].files /\ r.source = journal[op].source
      /\ r.candidate = journal[op].candidate /\ r.state = "running"
  BY <1>1 DEF IInv, TypeOK, Records
<1>3. Journal(op, r, "apply", "fail")
  BY DEF RecordCommit
<1> HIDE DEF r
<1>4. \A j \in Ops : [journal EXCEPT ![op] = r][j] = IF j = op THEN r ELSE journal[j]
  BY DEF IInv, TypeOK
<1>5. \/ pc' = "apply" /\ faults' = faults /\ journal' = [journal EXCEPT ![op] = r]
      \/ /\ pc' = "fail" /\ faults' = faults + 1 /\ faults' <= MaxFaults
         /\ journal' \in {journal, [journal EXCEPT ![op] = r]}
  BY <1>3, ConstantsAssumption DEF Journal, Fault, bounds, IInv, TypeOK
<1>6. UNCHANGED <<disk, survivors, touched, blobs, op, req, k, seen, undoFailed, pass, cur,
                  outcome>>
  BY DEF RecordCommit, world, loop, scan
<1> QED
  BY <1>1, <1>2, <1>4, <1>5, <1>6

LEMMA RecordCommitData ==
  ASSUME IInv, DataInv, RecordCommit
  PROVE  DataInv'
<1>1. RecordInv'
  BY RecordCommitFacts DEF DataInv, RecordInv, Unfinished, Recorded, Open, Preparing,
     Applying, IInv, OwnerInv, Recovering
<1>2. ProgressInv'
  BY RecordCommitFacts DEF DataInv, ProgressInv, Preparing, Applying
<1>3. SyncedInv'
  BY RecordCommitFacts DEF SyncedInv
<1> QED
  BY <1>1, <1>2, <1>3 DEF DataInv

LEMMA CloseFailsFacts ==
  ASSUME IInv, CloseFails
  PROVE  /\ pc = "succeed" /\ pc' = "fail" /\ req \in Requests /\ op \in Ops
         /\ req' \in Requests /\ req'.files = req.files /\ req'.snapshot = req.snapshot
         /\ req'.candidate = req.candidate /\ req'.written = req.written
         /\ UNCHANGED <<disk, survivors, touched, blobs, op, k, seen, undoFailed, pass,
                        cur, outcome>>
         /\ \A j \in Ops : /\ j # op => journal'[j] = journal[j]
                           /\ journal'[j].files = journal[j].files
                           /\ journal'[j].source = journal[j].source
                           /\ journal'[j].candidate = journal[j].candidate
         /\ journal'[op].state = "succeeded"
<1>1. pc = "succeed" /\ req \in Requests /\ op \in Ops
  BY ApplyingFacts DEF CloseFails, Applying
<1>2. journal[op] \in Records /\ journal \in [Ops -> Records]
  BY <1>1 DEF IInv, TypeOK
<1>3. /\ req' \in Requests /\ req'.files = req.files /\ req'.snapshot = req.snapshot
      /\ req'.candidate = req.candidate /\ req'.written = req.written
  BY <1>1 DEF CloseFails, Requests
<1> QED
  BY <1>1, <1>2, <1>3 DEF CloseFails, Records, world, loop, scan

LEMMA CloseFailsData ==
  ASSUME IInv, DataInv, CloseFails
  PROVE  DataInv'
<1>1. RecordInv'
  BY CloseFailsFacts, RangeOf DEF DataInv, RecordInv, Unfinished, Recorded, Open,
     Preparing, Applying, IInv, OwnerInv, Recovering
<1>2. ProgressInv'
  BY CloseFailsFacts DEF DataInv, ProgressInv, Preparing, Applying
<1>3. SyncedInv'
  BY CloseFailsFacts DEF SyncedInv
<1> QED
  BY <1>1, <1>2, <1>3 DEF DataInv

LEMMA ForgetData ==
  ASSUME IInv, DataInv, Forget
  PROVE  DataInv'
<1>1. RecordInv'
  BY DEF Forget, DataInv, RecordInv, Unfinished, Recorded, Preparing, Applying
<1>2. ProgressInv'
  BY DEF Forget, ProgressInv, Preparing, Applying
<1>3. SyncedInv'
  BY DEF Forget, SyncedInv
<1> QED
  BY <1>1, <1>2, <1>3 DEF DataInv

LEMMA OutsideEditData ==
  ASSUME IInv, DataInv, OutsideEdit
  PROVE  DataInv'
<1>1. /\ UNCHANGED <<journal, pc, op, req, k, undoFailed, pass, cur, outcome>>
      /\ \A f \in Files : \/ touched'[f]
                          \/ touched'[f] = touched[f] /\ disk'[f] = disk[f]
                             /\ survivors'[f] = survivors[f]
  BY DEF OutsideEdit, IInv, TypeOK, loop, scan
<1>2. RecordInv'
  BY <1>1 DEF DataInv, RecordInv, Unfinished, Recorded
<1>3. req # NoRequest => /\ Range(req.files) \subseteq Files
                         /\ \A j \in 1..Len(req.files) : req.files[j] \in Files
  BY RangeOf, RequestFiles DEF IInv, TypeOK
<1>4. ProgressInv'
  <2>1. pc \in Preparing \cup Applying => req # NoRequest
    BY RangeOf DEF IInv, LoopInv
  <2> QED
    BY <1>1, <1>3, <2>1 DEF DataInv, ProgressInv
<1>5. SyncedInv'
  <2>1. pc \in {"succeed", "rolledBack"} => req # NoRequest
    BY RangeOf DEF IInv, LoopInv, Applying
  <2>2. pc \in {"settle", "reject"} => FilesOf(journal[cur]) \subseteq Files
    BY RecordFiles DEF IInv, TypeOK, LoopInv, Recovering
  <2> QED
    BY <1>1, <1>3, <2>1, <2>2 DEF DataInv, SyncedInv, Durably, Unfinished
<1> QED
  BY <1>2, <1>4, <1>5 DEF DataInv

LEMMA StutterData ==
  ASSUME DataInv, UNCHANGED vars
  PROVE  DataInv'
  BY DEF vars, world, loop, scan, DataInv, RecordInv, ProgressInv, SyncedInv,
     Durably, Recorded,
     Unfinished, FilesOf

(* The record of the batch that runs is what its holder has in memory, the *)
(* holder's loop counter says which files it wrote, and a record is        *)
(* settled only over files that were synced.                               *)
THEOREM DataInvHolds == Spec => [](IInv /\ DataInv)
<1>1. Init => DataInv
  BY InitData
<1>2. IInv /\ DataInv /\ [Next]_vars => DataInv'
  <2> SUFFICES ASSUME IInv, DataInv, [Next]_vars PROVE DataInv'
    OBVIOUS
  <2>1. CASE Looking \/ Syncing \/ Writing
    BY <2>1, QuietData
  <2>2. CASE Recording
    BY <2>2, MovingData, BeginData, RecordCommitData DEF Recording, Moving
  <2>3. CASE CloseFails
    BY <2>3, CloseFailsData
  <2>4. CASE Capture
    BY <2>4, CaptureData
  <2>5. CASE Crash \/ PowerLoss
    BY <2>5, ForgetData DEF Crash, PowerLoss
  <2>6. CASE OutsideEdit
    BY <2>6, OutsideEditData
  <2>7. CASE UNCHANGED vars
    BY <2>7, StutterData
  <2> QED
    BY <2>1, <2>2, <2>3, <2>4, <2>5, <2>6, <2>7, StepKinds
<1> QED
  BY <1>1, <1>2, IInvHolds, PTL DEF Spec

(* What the caller was told is what the disk holds, of every file that     *)
(* nobody else touched: all requested contents, durably, after "ok", all   *)
(* captured ones after an ordinary error.                                  *)
THEOREM AnswersAreHonest == Spec => []OutcomeIsHonest
<1>1. DataInv => OutcomeIsHonest
  BY DEF DataInv, SyncedInv, Durably, OutcomeIsHonest
<1> QED
  BY <1>1, DataInvHolds, PTL

(* Only two steps write "rolled-back" or "recovered".                      *)
LEMMA SettlingSteps ==
  ASSUME IInv, DataInv, [Next]_vars, NEW i \in Ops,
         journal'[i] # journal[i], journal'[i].state \in {"rolled-back", "recovered"}
  PROVE  \/ RecoverSettle /\ i = cur
         \/ RolledBack /\ i = op
<1>1. journal' # journal
  OBVIOUS
<1>2. journal[i] \in Records /\ journal \in [Ops -> Records]
  BY DEF IInv, TypeOK
<1>3. ~(Looking \/ Syncing \/ Writing \/ Capture \/ Crash \/ PowerLoss \/ OutsideEdit
        \/ UNCHANGED vars)
  BY <1>1, QuietFacts, CaptureFacts DEF Crash, PowerLoss, Forget, OutsideEdit, vars
<1>4. ~Begin
  BY <1>2, BeginFacts
<1>5. ~RecordCommit
  <2> SUFFICES ASSUME RecordCommit PROVE FALSE
    OBVIOUS
  <2>1. op \in Ops /\ i = op
    BY RecordCommitFacts
  <2>2. journal'[op].state = journal[op].state
    BY <2>1, RecordCommitFacts
  <2>3. Journal(op, [journal[op] EXCEPT !.committed[req.files[k]] =
                       IF req.tool = "file_delete" THEN req.snapshot[req.files[k]]
                       ELSE req.written[req.files[k]], !.state = "running"], "apply", "fail")
    BY DEF RecordCommit
  <2>4. journal'[op] = [journal[op] EXCEPT !.committed[req.files[k]] =
                       IF req.tool = "file_delete" THEN req.snapshot[req.files[k]]
                       ELSE req.written[req.files[k]], !.state = "running"]
    BY <1>1, <1>2, <2>1, <2>3 DEF Journal
  <2>5. journal'[op].state = "running"
    BY <1>2, <2>1, <2>4 DEF Records
  <2> QED
    BY <2>1, <2>5
<1>6. ~CloseFails
  BY <1>2, CloseFailsFacts
<1>7. ~(RecoverReject \/ Refreshing \/ Succeed \/ Unsettled \/ Fail)
  BY <1>1, <1>2 DEF RecoverReject, Refreshing, Succeed, Unsettled, Fail, Transition,
     Journal, Records
<1>8. CASE RecoverSettle
  BY <1>1, <1>2, <1>8 DEF RecoverSettle, Transition, Journal
<1>9. CASE RolledBack
  BY <1>1, <1>2, <1>9 DEF RolledBack, Transition, Journal
<1> QED
  BY <1>3, <1>4, <1>5, <1>6, <1>7, <1>8, <1>9, StepKinds DEF Recording

(* A record is settled as rolled back or recovered only over files that    *)
(* durably hold their sources again, whatever failed or crashed before.    *)
THEOREM SettledOverRestored == Spec => SettledMeansRestored
<1>1. IInv /\ DataInv /\ [Next]_vars =>
        [\A i \in Ops :
           (journal[i] # journal'[i] /\ journal'[i].state \in {"rolled-back", "recovered"})
             => \A f \in FilesOf(journal[i]) :
                  touched[f] \/ survivors[f] = {journal[i].source[f]}]_vars
  <2> SUFFICES ASSUME IInv, DataInv, [Next]_vars, NEW i \in Ops,
                      journal'[i] # journal[i],
                      journal'[i].state \in {"rolled-back", "recovered"}
               PROVE  \A f \in FilesOf(journal[i]) :
                        touched[f] \/ survivors[f] = {journal[i].source[f]}
    OBVIOUS
  <2>1. CASE RecoverSettle /\ i = cur
    BY <2>1 DEF DataInv, SyncedInv, Durably, RecoverSettle
  <2>2. CASE RolledBack /\ i = op
    <3>1. req \in Requests /\ pc = "rolledBack" /\ pc \in Applying
      BY <2>2 DEF IInv, LoopInv, RolledBack, Applying
    <3>2. FilesOf(journal[op]) = Range(req.files) /\ journal[op].source = req.snapshot
      BY <2>2, <3>1, RangeOf DEF DataInv, RecordInv, Recorded, FilesOf
    <3> QED
      BY <2>2, <3>1, <3>2 DEF DataInv, SyncedInv, Durably
  <2> QED
    BY <2>1, <2>2, SettlingSteps
<1> QED
  BY <1>1, DataInvHolds, PTL DEF Spec, SettledMeansRestored

(* Only the holder of an unfinished record writes, and only its files:     *)
(* their sources, or what the batch makes of them.                         *)
LEMMA WritingFacts ==
  ASSUME IInv, DataInv, OwnedInv, Writing
  PROVE  /\ op \in Ops /\ Unfinished(op) /\ UNCHANGED <<journal, op>>
         /\ pc' \notin {"settle", "rolledBack", "succeed"}
         /\ \/ UNCHANGED world
            \/ \E g \in FilesOf(journal[op]) \cap Files :
                 \/ Put(g, journal[op].source[g])
                 \/ req \in Requests /\ Put(g, req.written[g])
<1>1. CASE RecoverReplace
  <2>1. cur = op /\ op \in Ops /\ Unfinished(op) /\ k \in 1..Len(journal[op].files)
    BY <1>1 DEF RecoverReplace, IInv, TypeOK, LoopInv, DataInv, RecordInv, Recovering
  <2>2. journal[op].files[k] \in FilesOf(journal[op]) \cap Files
    BY <2>1, RecordFiles DEF IInv
  <2>3. /\ \/ UNCHANGED world
           \/ Put(journal[op].files[k], journal[op].source[journal[op].files[k]])
        /\ pc' \in {"reject", "restore"} /\ UNCHANGED <<journal, op>>
    BY <1>1, <2>1 DEF RecoverReplace
  <2> QED
    BY <2>1, <2>2, <2>3
<1>2. CASE Replace \/ Undo
  <2>0. pc \in Applying \ {"unsettled", "fail"} /\ UNCHANGED <<journal, op>>
        /\ (Replace => pc = "replace") /\ (Undo => pc = "undo")
        /\ pc' \notin {"settle", "rolledBack", "succeed"}
    BY <1>2 DEF Replace, Undo, Applying
  <2>1. req \in Requests /\ op \in Ops /\ Unfinished(op) /\ Recorded
    BY <2>0, ApplyingFacts, RangeOf DEF DataInv, RecordInv, OwnedInv, HeldInv,
       Recorded
  <2>4. (Replace => k + 1 \in 1..Len(req.files)) /\ (Undo => k \in 1..Len(req.files))
    BY <2>0, <2>1, ApplyingFacts, RequestFiles DEF IInv, LoopInv
  <2>2. FilesOf(journal[op]) = Range(req.files) /\ journal[op].source = req.snapshot
    BY <2>1 DEF DataInv, RecordInv, FilesOf
  <2>3. \A j \in 1..Len(req.files) : req.files[j] \in FilesOf(journal[op]) \cap Files
    BY <2>1, <2>2, RangeOf
  <2> QED
    BY <1>2, <2>0, <2>1, <2>2, <2>3, <2>4 DEF Replace, Undo
<1> QED
  BY <1>1, <1>2 DEF Writing

(* Holding and planning the batch, for the steps that write no record.     *)
LEMMA QuietHeld ==
  ASSUME IInv, OwnedInv, Looking \/ Syncing \/ Writing
  PROVE  (pc' \in Applying => req'.planned) /\ HeldInv'
<1>1. pc' \in Applying => pc \in Applying /\ Unfinished(op) /\ req' = req
  BY QuietFacts DEF OwnedInv, HeldInv
<1> QED
  BY <1>1, QuietFacts DEF OwnedInv, HeldInv, Unfinished

LEMMA QuietWhole ==
  ASSUME IInv, DataInv, OwnedInv, Looking \/ Syncing \/ Writing
  PROVE  WholeInv'
<1>1. CASE Writing
  BY <1>1, WritingFacts DEF WholeInv, Unfinished
<1>2. CASE Looking \/ Syncing
  <2>1. disk' = disk
    BY <1>2, QuietFacts
  <2>2. Recorded' => Recorded
    BY <1>2, QuietFacts, RangeOf DEF Recorded
  <2> QED
    BY <2>1, <2>2, QuietFacts DEF OwnedInv, WholeInv, Unfinished, Recorded
<1> QED
  BY <1>1, <1>2

LEMMA QuietClean ==
  ASSUME IInv, DataInv, OwnedInv, Looking \/ Syncing \/ Writing
  PROVE  CleanInv'
<1>1. CASE Looking
  BY <1>1, QuietFacts DEF OwnedInv, CleanInv, Clean, Owned, Unfinished, FilesOf
<1>2. CASE Writing
  <2>1. \A f \in Files : Clean(f) => Clean(f)' \/ Owned(f)'
    BY <1>2, WritingFacts DEF Clean, Owned, Put, world, Unfinished, FilesOf, IInv,
       TypeOK
  <2>2. \A f \in Files : Owned(f) => Owned(f)'
    BY <1>2, WritingFacts DEF Owned, Unfinished, FilesOf
  <2> QED
    BY <1>2, <2>1, <2>2, WritingFacts DEF OwnedInv, CleanInv
<1>3. CASE Syncing
  <2>1. CASE UNCHANGED world /\ pc' \notin {"settle", "rolledBack", "succeed"}
    BY <1>3, <2>1, QuietFacts DEF OwnedInv, CleanInv, Clean, Owned, Unfinished,
       FilesOf, world
  <2>2. CASE op \in Ops /\ Sync(FilesOf(journal[op]))
    BY <1>3, <2>2, QuietFacts DEF OwnedInv, CleanInv, Clean, Owned, Sync
  <2>3. CASE RecoverVerify
    <3>1. cur = op /\ op \in Ops
      BY <2>3 DEF RecoverVerify, IInv, TypeOK, LoopInv, DataInv, RecordInv, Recovering
    <3> QED
      BY <2>1, <2>2, <2>3, <3>1 DEF RecoverVerify
  <2>4. CASE Refresh \/ RollbackEnds
    <3>1. op \in Ops /\ FilesOf(journal[op]) = Range(req.files)
      BY <2>4, ApplyingFacts, RangeOf DEF Refresh, RollbackEnds, Applying, DataInv,
         RecordInv, Recorded,
         FilesOf
    <3> QED
      BY <2>1, <2>2, <2>4, <3>1 DEF Refresh, RollbackEnds
  <2> QED
    BY <1>3, <2>3, <2>4 DEF Syncing
<1> QED
  BY <1>1, <1>2, <1>3

(* Before the first batch nothing is held.                                 *)
LEMMA InitOwned == Init => OwnedInv
  BY ConstantsAssumption DEF Init, OwnedInv, HeldInv, CleanInv, WholeInv, Clean,
     Recorded, NoRecord,
     Applying

(* The steps that write a record, by what they make of the latest one.     *)
LEMMA RecordingFacts ==
  ASSUME IInv, DataInv, OwnedInv, Recording
  PROVE  /\ op \in Ops /\ UNCHANGED <<disk, survivors, touched, op, req>>
         /\ \/ Begin
            \/ /\ journal'[op].files = journal[op].files
               /\ journal'[op].source = journal[op].source
               /\ journal'[op].candidate = journal[op].candidate
         /\ Begin => ~Unfinished(op) /\ pc' \in {"apply", "idle"}
         /\ \/ pc \in Applying \/ Begin
            \/ cur = op /\ pc \in {"settle", "reject"} /\ pc' \notin Applying
         /\ pc' \notin {"settle", "rolledBack", "succeed"}
<1>1. Begin => pc = "stage" /\ op \in Ops /\ ~Unfinished(op) /\ pc' \in {"apply", "idle"}
               /\ UNCHANGED <<disk, survivors, touched, op, req>>
  BY BeginFacts
<1>2. CASE RecordCommit
  BY <1>1, <1>2, RecordCommitFacts DEF Applying
<1>3. CASE Refreshing
  BY <1>1, <1>3, RefreshingFacts DEF Refreshing, world, Applying, Moves
<1>4. CASE Succeed
  BY <1>1, <1>4, SucceedFacts DEF Succeed, world, Applying, Moves
<1>5. CASE Unsettled
  BY <1>1, <1>5, UnsettledFacts DEF Unsettled, world, Applying, Transition, Journal,
     Moves
<1>6. CASE Fail
  BY <1>1, <1>6, FailFacts DEF Fail, world, Applying, Moves
<1>7. CASE RolledBack
  BY <1>1, <1>7, RolledBackFacts DEF RolledBack, world, Applying, Moves
<1>8. CASE RecoverSettle
  <2>1. cur = op
    BY <1>8 DEF RecoverSettle, IInv, LoopInv, Recovering, DataInv, RecordInv
  <2> QED
    BY <1>1, <1>8, <2>1, RecoverSettleFacts DEF RecoverSettle, world, Applying, Moves
<1>9. CASE RecoverReject
  <2>1. cur = op
    BY <1>9 DEF RecoverReject, IInv, LoopInv, Recovering, DataInv, RecordInv
  <2> QED
    BY <1>1, <1>9, <2>1, RecoverRejectFacts DEF RecoverReject, world, Applying, Moves
<1> QED
  BY <1>1, <1>2, <1>3, <1>4, <1>5, <1>6, <1>7, <1>8, <1>9 DEF Recording

LEMMA RecordingHeld ==
  ASSUME IInv, DataInv, OwnedInv, MaxFaults <= 2, Recording
  PROVE  (pc' \in Applying => req'.planned) /\ HeldInv'
<1>0. faults \in Nat /\ MaxFaults \in Nat /\ k' = IF Begin THEN 0 ELSE k
  BY ConstantsAssumption, BeginFacts DEF IInv, TypeOK, Recording, RecoverSettle,
     RecoverReject,
     RecordCommit, Refreshing, Succeed, Unsettled, Fail, RolledBack, loop
<1>1. pc' \in Applying => req'.planned
  BY RecordingFacts, BeginFacts DEF IInv, OwnerInv, Preparing, OwnedInv
<1> SUFFICES HeldInv'
  BY <1>1
<1>2. CASE RecoverSettle \/ RecoverReject \/ RolledBack
  BY <1>2, RecoverSettleFacts, RecoverRejectFacts, RolledBackFacts DEF HeldInv,
     Applying, Moves
<1>3. CASE Begin
  BY <1>3, BeginFacts DEF HeldInv, Unfinished, Open, Applying
<1>4. CASE RecordCommit \/ Refreshing
  <2>1. pc \in {"record", "apply"} /\ op \in Ops /\ op' = op
        /\ journal'[op].state \in {journal[op].state, "running", "refreshing"}
    BY <1>4, RecordCommitFacts, RefreshingFacts, RecordingFacts DEF Moves
  <2>2. Unfinished(op)
    BY <2>1 DEF OwnedInv, HeldInv, Applying
  <2> QED
    BY <2>1, <2>2 DEF HeldInv, Unfinished, Open
<1>5. CASE Succeed
  <2>1. pc = "succeed" /\ op \in Ops /\ op' = op
        /\ \/ pc' = "dispose"
           \/ /\ pc' = "unsettled" /\ faults' = faults + 1
              /\ journal'[op].state \in {journal[op].state, "succeeded"}
    BY <1>5, SucceedFacts, RecordingFacts DEF Moves
  <2>2. Unfinished(op) /\ k = Len(req.files) /\ k' = k /\ req' = req
    BY <1>0, <1>5, <2>1, RecordingFacts DEF OwnedInv, HeldInv, Applying, DataInv,
       ProgressInv, Begin
  <2> QED
    BY <1>0, <2>1, <2>2 DEF HeldInv, Unfinished, Open, Applying
<1>6. CASE Unsettled
  <2>1. pc = "unsettled" /\ pc' = "fail" /\ op \in Ops /\ op' = op /\ k' = k /\ req' = req
        /\ \/ faults' = faults /\ journal'[op].state = "recovery-required"
           \/ faults' = faults + 1
                /\ journal'[op].state \in {journal[op].state, "recovery-required"}
    BY <1>0, <1>6, UnsettledFacts, RecordingFacts DEF Begin, Moves
  <2> QED
    BY <1>0, <2>1 DEF OwnedInv, HeldInv, Unfinished, Open, Applying
<1>7. CASE Fail
  <2>1. /\ pc = "fail" /\ op \in Ops /\ op' = op /\ req.planned
        /\ \/ journal'[op].state = "recovery-required"
           \/ faults' = faults + 1 /\ faults' <= MaxFaults
                /\ journal'[op].state = journal[op].state
    BY <1>7, FailFacts, RecordingFacts DEF OwnedInv, Applying, Moves
  <2> QED
    BY <1>0, <2>1 DEF OwnedInv, HeldInv, Unfinished, Open, Applying
<1> QED
  BY <1>2, <1>3, <1>4, <1>5, <1>6, <1>7 DEF Recording

(* A record is finished only when no file of it is at risk any more.       *)
LEMMA RecordingClean ==
  ASSUME IInv, DataInv, OwnedInv, Recording
  PROVE  CleanInv'
<1>1. CASE \A f \in Files : Clean(f)
  BY <1>1, RecordingFacts DEF CleanInv, Clean
<1>2. CASE ~(\A f \in Files : Clean(f))
  <2>1. Unfinished(op) /\ pc \notin {"settle", "rolledBack", "succeed"} /\ op \in Ops
    BY <1>2 DEF OwnedInv, CleanInv, Owned
  <2>2. ~Begin
    BY <2>1, RecordingFacts
  <2>3. journal'[op].state \in {journal[op].state, "running", "refreshing",
                                "recovery-required"}
    <3>1. CASE RecoverReject
      BY <3>1, RecordingFacts, RecoverRejectFacts DEF Moves
    <3>2. CASE ~RecoverReject
      BY <2>1, <2>2, <3>2, RecordCommitFacts, RefreshingFacts, UnsettledFacts,
         FailFacts
         DEF Recording, RecoverSettle, Succeed, RolledBack, Moves
    <3> QED
      BY <3>1, <3>2
  <2>4. \A f \in Files : Owned(f) => Owned(f)'
    BY <2>1, <2>2, <2>3, RecordingFacts DEF Owned, Unfinished, Open, FilesOf
  <2> QED
    BY <2>4, RecordingFacts DEF OwnedInv, CleanInv, Clean
<1> QED
  BY <1>1, <1>2

(* ... and every one of them is undone, or every one is written.           *)
LEMMA RecordingWhole ==
  ASSUME IInv, DataInv, OwnedInv, Recording
  PROVE  WholeInv'
<1> SUFFICES ASSUME Recorded', ~Unfinished(op)'
             PROVE  (\/ \A f \in Range(req.files) : touched[f] \/ disk[f] = req.snapshot[f]
                     \/ \A f \in Range(req.files) : touched[f] \/ disk[f] = req.written[f])'
  BY DEF WholeInv
<1>1. req \in Requests /\ op \in Ops /\ UNCHANGED <<disk, touched, op, req>>
  BY RecordingFacts DEF Recorded, IInv, TypeOK
<1>2. CASE Recorded /\ ~Unfinished(op)
  BY <1>1, <1>2 DEF OwnedInv, WholeInv
<1>3. CASE Begin
  BY <1>1, <1>3, BeginFacts DEF DataInv, ProgressInv, Preparing
<1>4. CASE Recorded /\ Unfinished(op) /\ ~Begin
  <2>1. FilesOf(journal[op]) = Range(req.files) /\ journal[op].source = req.snapshot
    BY <1>4 DEF DataInv, RecordInv, FilesOf
  <2>2. \A f \in Range(req.files) : disk[f] \in survivors[f]
    BY <1>1, RangeOf DEF IInv, TypeOK
  <2>3. ~(RecoverReject \/ RecordCommit \/ Refreshing \/ Unsettled \/ Fail)
    BY <1>1, <1>4, RecordingFacts, RecoverRejectFacts, RecordCommitFacts,
       RefreshingFacts,
       UnsettledFacts, FailFacts DEF Unfinished, Open, Moves
  <2>4. CASE RecoverSettle
    BY <1>1, <2>1, <2>2, <2>4, RecordingFacts, RecoverSettleFacts DEF DataInv,
       SyncedInv, Durably, Applying, Moves
  <2>5. CASE RolledBack
    BY <1>1, <2>2, <2>5, RolledBackFacts DEF DataInv, SyncedInv, Durably, Moves
  <2>6. CASE Succeed
    BY <1>1, <2>2, <2>6, SucceedFacts DEF DataInv, SyncedInv, Durably, Moves
  <2> QED
    BY <1>4, <2>3, <2>4, <2>5, <2>6 DEF Recording
<1>5. Recorded \/ Begin
  <2>1. CASE journal[op].state = "none"
    BY <1>1, <2>1, RecordingFacts DEF DataInv, RecordInv, IInv, LoopInv, Recovering,
       Open
  <2> QED
    BY <1>1, <2>1, RangeOf DEF Recorded
<1> QED
  BY <1>2, <1>3, <1>4, <1>5

LEMMA CaptureOwned ==
  ASSUME IInv, DataInv, OwnedInv, Capture
  PROVE  OwnedInv'
<1>1. \A f \in Files : Clean(f)
  BY CaptureFacts DEF OwnedInv, CleanInv, Owned
<1>2. CleanInv'
  BY <1>1, CaptureFacts DEF CleanInv, Clean
<1>3. ~Recorded'
  <2>1. op + 1 \in Ops /\ op + 1 > op
    BY CaptureFacts, Bounded DEF Ops
  <2> QED
    BY <2>1, CaptureFacts DEF Recorded, DataInv, RecordInv
<1> QED
  BY <1>2, <1>3, CaptureFacts DEF OwnedInv, HeldInv, WholeInv, Applying

LEMMA CrashOwned ==
  ASSUME IInv, OwnedInv, Crash \/ PowerLoss
  PROVE  OwnedInv'
<1>1. UNCHANGED <<journal, op, touched, faults>> /\ req' = NoRequest /\ pc' = "idle"
  BY DEF Crash, PowerLoss, Forget
<1>2. \A f \in Files : Clean(f) => Clean(f)'
  BY DEF Crash, PowerLoss, Clean
<1>3. CleanInv'
  BY <1>1, <1>2 DEF OwnedInv, CleanInv, Owned, Unfinished, FilesOf
<1> QED
  BY <1>1, <1>3 DEF OwnedInv, HeldInv, WholeInv, Recorded, Applying

LEMMA OutsideEditOwned ==
  ASSUME IInv, OwnedInv, OutsideEdit
  PROVE  OwnedInv'
<1>1. UNCHANGED <<journal, op, req, pc, k, faults>>
  BY DEF OutsideEdit, loop
<1>2. PICK g \in Files, c \in Hashes : /\ disk' = [disk EXCEPT ![g] = c]
                                       /\ survivors' = [survivors EXCEPT ![g] = {c}]
                                       /\ touched' = [touched EXCEPT ![g] = TRUE]
  BY DEF OutsideEdit
<1>3. CleanInv'
  BY <1>1, <1>2 DEF IInv, TypeOK, OwnedInv, CleanInv, Clean, Owned, Unfinished,
     FilesOf
<1>4. \A f \in Files : touched'[f] \/ (disk'[f] = disk[f] /\ ~touched[f])
  BY <1>2 DEF IInv, TypeOK
<1>5. WholeInv'
  <2> SUFFICES ASSUME Recorded, ~Unfinished(op)
               PROVE  (\/ \A f \in Range(req.files) : touched[f] \/ disk[f] = req.snapshot[f]
                       \/ \A f \in Range(req.files) : touched[f] \/ disk[f] = req.written[f])'
    BY <1>1 DEF WholeInv, Recorded, Unfinished
  <2>1. Range(req.files) \subseteq Files
    BY RangeOf DEF Recorded, IInv, TypeOK
  <2> QED
    BY <1>1, <1>4, <2>1 DEF OwnedInv, WholeInv
<1> QED
  BY <1>1, <1>3, <1>5 DEF OwnedInv, HeldInv, Unfinished

LEMMA StutterOwned ==
  ASSUME OwnedInv, UNCHANGED vars
  PROVE  OwnedInv'
  BY DEF vars, world, loop, scan, bounds, OwnedInv, HeldInv, CleanInv, WholeInv,
     Clean, Owned,
     Recorded, Unfinished, FilesOf

(* Every step keeps it.                                                    *)
LEMMA OwnedStep ==
  ASSUME IInv, DataInv, OwnedInv, ~StuckPools, MaxFaults <= 2, [Next]_vars
  PROVE  OwnedInv'
<1>1. faults' <= MaxFaults
  BY FaultsGrow, ConstantsAssumption DEF OwnedInv, IInv, TypeOK
<1>2. CASE Looking \/ Syncing \/ Writing
  BY <1>1, <1>2, QuietHeld, QuietClean, QuietWhole DEF OwnedInv
<1>3. CASE Recording
  BY <1>1, <1>3, RecordingHeld, RecordingClean, RecordingWhole DEF OwnedInv
<1> QED
  BY <1>2, <1>3, StepKinds, CaptureOwned, CrashOwned, OutsideEditOwned,
     StutterOwned DEF CloseFails

(* A batch of a steady process: its parser workers retire, and at most two *)
(* of its writes fail.                                                     *)
THEOREM OwnedInvHolds ==
  ASSUME ~StuckPools, MaxFaults <= 2
  PROVE  Spec => [](IInv /\ DataInv /\ OwnedInv)
<1>1. Init => OwnedInv
  BY InitOwned
<1>2. IInv /\ DataInv /\ OwnedInv /\ [Next]_vars => OwnedInv'
  BY OwnedStep
<1> QED
  BY <1>1, <1>2, DataInvHolds, PTL DEF Spec

(* A batch that is neither wholly undone nor wholly written still has an   *)
(* unfinished record, which the next call restores: no error, crash or     *)
(* failed recovery leaves a batch half written that nobody owns.           *)
THEOREM MixedBatchesAreOwned ==
  ASSUME ~StuckPools, MaxFaults <= 2
  PROVE  Spec => []MixedBatchIsOwned
<1>1. IInv /\ OwnedInv => MixedBatchIsOwned
  <2> SUFFICES ASSUME IInv, OwnedInv, op > 0, journal[op].state # "none",
                      req # NoRequest, ~Unfinished(op)
               PROVE  LET untouched == {f \in Range(req.files) : ~touched[f]}
                      IN \/ \A f \in untouched : disk[f] = req.snapshot[f]
                         \/ \A f \in untouched : disk[f] = req.written[f]
    BY DEF MixedBatchIsOwned
  <2>1. Recorded
    BY DEF IInv, TypeOK, Recorded, Ops
  <2> QED
    BY <2>1 DEF OwnedInv, WholeInv
<1> QED
  BY <1>1, OwnedInvHolds, PTL

(* A formatter that leaves alone what a patch produced.                    *)
PatchesKept == "file_patch" \in Tools => \A c \in Contents : Format[c] = c

(* Before the first batch there is no record.                              *)
LEMMA InitExpected == Init => ExpectedInv
  BY DEF Init, ExpectedInv, SurvivorsInv, NoRecord

(* A step that adds no survivor to a file of the record keeps what can be  *)
(* left of it.                                                             *)
LEMMA SurvivorsKept ==
  ASSUME IInv, ExpectedInv, op' = op, op \in Ops,
         journal'[op].files = journal[op].files,
         journal'[op].source = journal[op].source,
         journal'[op].candidate = journal[op].candidate,
         journal[op].state # "none", Unfinished(op) \/ pc \in Applying,
         \A f \in Files : touched'[f] \/ (~touched[f] /\ survivors'[f] \subseteq survivors[f])
  PROVE  SurvivorsInv'
<1>1. FilesOf(journal[op]) \subseteq Files
  BY RecordFiles DEF IInv
<1>2. \A f \in FilesOf(journal[op]) :
        ~touched[f] => survivors[f] \subseteq
                         {Absent, journal[op].source[f], journal[op].candidate[f]}
  BY DEF ExpectedInv, SurvivorsInv
<1> QED
  BY <1>1, <1>2 DEF SurvivorsInv, FilesOf

(* Steps that write no record.                                             *)
LEMMA QuietExpected ==
  ASSUME IInv, DataInv, OwnedInv, ExpectedInv, Looking \/ Syncing \/ Writing
  PROVE  ExpectedInv'
<1>1. (req # NoRequest => req.written = req.candidate)'
  BY QuietFacts, RangeOf DEF ExpectedInv
<1>2. CASE Looking \/ Syncing
  <2>1. \A f \in Files : survivors'[f] \subseteq survivors[f]
    BY <1>2, QuietFacts DEF Syncing, RecoverVerify, Refresh, RollbackEnds, Sync,
       world, IInv, TypeOK
  <2>2. UNCHANGED <<touched, journal, op>> /\ (pc' \in Applying => pc \in Applying)
    BY <1>2, QuietFacts
  <2>3. SurvivorsInv'
    <3>1. CASE op \in Ops /\ journal[op].state # "none" /\ (Unfinished(op) \/ pc \in Applying)
      BY <2>1, <2>2, <3>1, SurvivorsKept
    <3>2. CASE ~(op \in Ops /\ journal[op].state # "none"
            /\ (Unfinished(op) \/ pc \in Applying))
      BY <2>2, <3>2 DEF SurvivorsInv, Unfinished
    <3> QED
      BY <3>1, <3>2
  <2> QED
    BY <1>1, <2>3 DEF ExpectedInv
<1>3. CASE Writing
  <2>1. op \in Ops /\ Unfinished(op) /\ UNCHANGED <<journal, op, touched>>
        /\ journal[op].state # "none"
    BY <1>3, WritingFacts, QuietFacts DEF Unfinished, Open
  <2>2. CASE UNCHANGED world
    <3>1. SurvivorsInv'
      BY <2>1, <2>2, SurvivorsKept DEF world
    <3> QED
      BY <1>1, <3>1 DEF ExpectedInv
  <2>3. CASE \E g \in FilesOf(journal[op]) \cap Files :
               \/ Put(g, journal[op].source[g])
               \/ req \in Requests /\ Put(g, req.written[g])
    <3>1. PICK g \in FilesOf(journal[op]) \cap Files :
               \/ Put(g, journal[op].source[g])
               \/ req \in Requests /\ Put(g, req.written[g])
      BY <2>3
    <3>2. \E c \in {journal[op].source[g], journal[op].candidate[g]} : Put(g, c)
      BY <2>1, <3>1, RangeOf DEF ExpectedInv, DataInv, RecordInv, Recorded
    <3>3. /\ FilesOf(journal[op])' = FilesOf(journal[op])
          /\ \A f \in FilesOf(journal[op]) : f \in Files
      BY <2>1, RecordFiles DEF FilesOf, IInv
    <3>4. \A f \in FilesOf(journal[op]) : ~touched[f] =>
            survivors[f] \subseteq {Absent, journal[op].source[f], journal[op].candidate[f]}
      BY <2>1 DEF ExpectedInv, SurvivorsInv
    <3>5. \A f \in Files :
            \/ survivors'[f] = survivors[f]
            \/ f = g /\ survivors'[f] \subseteq survivors[f]
                          \cup {journal[op].source[f], journal[op].candidate[f]}
      BY <3>1, <3>2 DEF Put, IInv, TypeOK
    <3>6. SurvivorsInv'
      BY <2>1, <3>3, <3>4, <3>5 DEF SurvivorsInv
    <3> QED
      BY <1>1, <3>6 DEF ExpectedInv
  <2> QED
    BY <1>3, <2>2, <2>3, WritingFacts
<1> QED
  BY <1>2, <1>3

(* Steps that write one: a batch begins over files as its snapshot.        *)
LEMMA RecordingExpected ==
  ASSUME IInv, DataInv, OwnedInv, ExpectedInv, Recording
  PROVE  ExpectedInv'
<1>1. op \in Ops /\ UNCHANGED <<survivors, touched, op, req>>
  BY RecordingFacts
<1>2. CASE Begin
  <2>1. /\ req \in Requests /\ pc \in Preparing /\ ~Unfinished(op)
        /\ \A j \in Ops : ~Unfinished(j)
        /\ journal[op].state = "none"
        /\ \/ journal' = journal
           \/ journal'[op].files = req.files /\ journal'[op].source = req.snapshot
    BY <1>2, BeginFacts DEF Preparing, DataInv, RecordInv
  <2>2. \A f \in Range(req.files) : touched[f] \/ survivors[f] = {req.snapshot[f]}
    BY <2>1, RangeOf DEF DataInv, ProgressInv, OwnedInv, CleanInv, Clean, Owned
  <2>3. SurvivorsInv'
    BY <1>1, <2>1, <2>2 DEF SurvivorsInv, FilesOf
  <2> QED
    BY <1>1, <2>3 DEF ExpectedInv
<1>3. CASE ~Begin
  <2>1. /\ journal[op].state # "none"
        /\ journal'[op].files = journal[op].files
        /\ journal'[op].source = journal[op].source
        /\ journal'[op].candidate = journal[op].candidate
    BY <1>1, <1>3, RecordingFacts DEF DataInv, RecordInv, IInv, LoopInv, Recovering,
       Open
  <2>2. CASE Unfinished(op) \/ pc \in Applying
    <3>1. SurvivorsInv'
      <4>1. \A f \in Files : \/ touched'[f]
                             \/ ~touched[f] /\ survivors'[f] \subseteq survivors[f]
        BY <1>1 DEF IInv, TypeOK
      <4> QED
        BY <1>1, <2>1, <2>2, <4>1, SurvivorsKept
    <3> QED
      BY <1>1, <3>1 DEF ExpectedInv
  <2>3. CASE ~(Unfinished(op) \/ pc \in Applying)
    <3>1. pc = "reject" /\ cur = op
      BY <1>3, <2>3, RecordingFacts DEF DataInv, RecordInv
    <3>2. \A f \in FilesOf(journal[op]) : touched[f] \/ survivors[f] = {journal[op].source[f]}
      BY <2>3, <3>1 DEF DataInv, SyncedInv, Durably
    <3>3. SurvivorsInv'
      BY <1>1, <2>1, <3>2 DEF SurvivorsInv, FilesOf
    <3> QED
      BY <1>1, <3>3 DEF ExpectedInv
  <2> QED
    BY <2>2, <2>3
<1> QED
  BY <1>2, <1>3

LEMMA CaptureExpected ==
  ASSUME IInv, PatchesKept, Capture
  PROVE  ExpectedInv'
<1>1. (req # NoRequest => req.written = req.candidate)'
  <2>1. PICK tool \in Tools, files \in Batches : \E wanted \in [Range(files) -> Contents] :
        req' = [tool |-> tool, files |-> files, planned |-> TRUE,
                   snapshot  |-> Over(files, LAMBDA f : disk[f]),
                   expected  |-> Over(files, LAMBDA f : disk[f]),
                   candidate |-> Over(files, LAMBDA f : CandidateOf(tool, wanted[f])),
                   written   |-> Over(files, LAMBDA f : WrittenOf(tool, wanted[f]))]
    BY DEF Capture
  <2>2. PICK wanted \in [Range(files) -> Contents] :
          req' = [tool |-> tool, files |-> files, planned |-> TRUE,
                   snapshot  |-> Over(files, LAMBDA f : disk[f]),
                   expected  |-> Over(files, LAMBDA f : disk[f]),
                   candidate |-> Over(files, LAMBDA f : CandidateOf(tool, wanted[f])),
                   written   |-> Over(files, LAMBDA f : WrittenOf(tool, wanted[f]))]
    BY <2>1
  <2>3. \A f \in Range(files) : CandidateOf(tool, wanted[f]) = WrittenOf(tool, wanted[f])
    BY ConstantsAssumption DEF PatchesKept, CandidateOf, WrittenOf
  <2>4. Over(files, LAMBDA f : CandidateOf(tool, wanted[f]))
          = Over(files, LAMBDA f : WrittenOf(tool, wanted[f]))
    BY <2>3 DEF Over
  <2> QED
    BY <2>2, <2>4
<1>2. SurvivorsInv'
  BY CaptureFacts DEF SurvivorsInv, Unfinished, Applying
<1> QED
  BY <1>1, <1>2 DEF ExpectedInv

LEMMA CrashExpected ==
  ASSUME IInv, ExpectedInv, Crash \/ PowerLoss
  PROVE  ExpectedInv'
<1>1. UNCHANGED <<journal, op, touched>> /\ req' = NoRequest /\ pc' \notin Applying
  BY DEF Crash, PowerLoss, Forget, Applying
<1>2. \A f \in Files : survivors'[f] \subseteq survivors[f]
  BY DEF Crash, PowerLoss
<1>3. SurvivorsInv'
  <2>1. CASE op \in Ops /\ journal[op].state # "none" /\ Unfinished(op)
    BY <1>1, <1>2, <2>1, SurvivorsKept
  <2>2. CASE ~(op \in Ops /\ journal[op].state # "none" /\ Unfinished(op))
    BY <1>1, <2>2 DEF SurvivorsInv, Unfinished
  <2> QED
    BY <2>1, <2>2
<1> QED
  BY <1>1, <1>3 DEF ExpectedInv

LEMMA OutsideEditExpected ==
  ASSUME IInv, ExpectedInv, OutsideEdit
  PROVE  ExpectedInv'
<1>1. UNCHANGED <<journal, op, req, pc>>
  BY DEF OutsideEdit
<1>2. \A f \in Files : touched'[f] \/ (~touched[f] /\ survivors'[f] \subseteq survivors[f])
  BY DEF OutsideEdit, IInv, TypeOK
<1>3. SurvivorsInv'
  <2>1. CASE op \in Ops /\ journal[op].state # "none" /\ (Unfinished(op) \/ pc \in Applying)
    BY <1>1, <1>2, <2>1, SurvivorsKept
  <2>2. CASE ~(op \in Ops /\ journal[op].state # "none"
          /\ (Unfinished(op) \/ pc \in Applying))
    BY <1>1, <2>2 DEF SurvivorsInv, Unfinished
  <2> QED
    BY <2>1, <2>2
<1> QED
  BY <1>1, <1>3 DEF ExpectedInv

LEMMA StutterExpected ==
  ASSUME ExpectedInv, UNCHANGED vars
  PROVE  ExpectedInv'
  BY DEF vars, world, ExpectedInv, SurvivorsInv, Unfinished, FilesOf

(* Every step keeps it.                                                    *)
LEMMA ExpectedStep ==
  ASSUME IInv, DataInv, OwnedInv, ExpectedInv, ~StuckPools, PatchesKept, [Next]_vars
  PROVE  ExpectedInv'
  BY StepKinds, QuietExpected, RecordingExpected, CaptureExpected, CrashExpected,
     OutsideEditExpected, StutterExpected DEF CloseFails

(* What can be left of a file of the unfinished record, whatever was lost  *)
(* with the power, is its source, its candidate or nothing.                *)
THEOREM ExpectedInvHolds ==
  ASSUME ~StuckPools, MaxFaults <= 2, PatchesKept
  PROVE  Spec => [](IInv /\ DataInv /\ OwnedInv /\ ExpectedInv)
<1>1. Init => ExpectedInv
  BY InitExpected
<1>2. IInv /\ DataInv /\ OwnedInv /\ ExpectedInv /\ [Next]_vars => ExpectedInv'
  BY ExpectedStep
<1> QED
  BY <1>1, <1>2, OwnedInvHolds, PTL DEF Spec

(* validateJournal and the checks of recover meet only contents they accept, *)
(* unless an outside editor wrote the file: a crash at any step, and the loss *)
(* of any write that was not synced, leaves a batch that can be recovered. *)
THEOREM RecoveryAccepts ==
  ASSUME ~StuckPools, MaxFaults <= 2, PatchesKept
  PROVE  Spec => []RecoverableUnlessTouched
<1>1. DataInv /\ ExpectedInv => RecoverableUnlessTouched
  <2> SUFFICES ASSUME DataInv, ExpectedInv, NEW i \in Ops, Unfinished(i),
                      NEW f \in FilesOf(journal[i]), ~touched[f]
               PROVE  survivors[f] \subseteq Restorable(journal[i], f)
    BY DEF RecoverableUnlessTouched
  <2>1. i = op /\ journal[op].state # "none"
    BY DEF DataInv, RecordInv, Unfinished, Open
  <2> QED
    BY <2>1 DEF ExpectedInv, SurvivorsInv, Restorable
<1> QED
  BY <1>1, ExpectedInvHolds, PTL

(* A set of operations has a latest one.                                   *)
LEMMA HasMax ==
  ASSUME NEW S, S \subseteq Ops, S # {}
  PROVE  \E m \in S : \A j \in S : j <= m
<1> DEFINE T == {MaxOps - i : i \in S}
<1>1. T \subseteq Nat /\ T # {}
  <2>1. \A i \in S : i \in Int /\ MaxOps - i \in Nat
    BY Bounded DEF Ops
  <2>2. PICK i \in S : TRUE
    OBVIOUS
  <2>3. MaxOps - i \in T
    OBVIOUS
  <2>4. \A x \in T : x \in Nat
    BY <2>1
  <2> QED
    BY <2>3, <2>4
<1>2. PICK x \in T : \A y \in T : ~(<<y, x>> \in OpToRel(<, Nat))
  <2> HIDE DEF T
  <2> QED
    BY <1>1, WFMin, NatLessThanWellFounded
<1>3. \A y \in T : ~(y < x)
  BY <1>1, <1>2 DEF OpToRel
<1>4. PICK m \in S : x = MaxOps - m
  BY <1>2
<1>5. \A j \in S : MaxOps - j \in T
  OBVIOUS
<1>6. \A j \in S : ~(MaxOps - j < MaxOps - m)
  BY <1>3, <1>4, <1>5
<1>7. \A j \in S : j \in Int
  BY DEF Ops
<1> QED
  BY <1>6, <1>7, Bounded

(* The batch the promise is about is the running one once it has a record, *)
LEMMA BatchLatest ==
  ASSUME IInv, DataInv, op \in Ops, journal[op].state # "none"
  PROVE  Batch = journal[op]
<1>1. op \in Begun /\ \A j \in Begun : j <= op
  BY DEF Begun, IInv, TypeOK, DataInv, RecordInv, Ops
<1>2. \A i \in Begun : (\A j \in Begun : j <= i) => i = op
  BY <1>1 DEF Begun, Ops
<1>3. (CHOOSE i \in Begun : \A j \in Begun : j <= i) = op
  BY <1>1, <1>2
<1> QED
  BY <1>1, <1>3 DEF Batch

(* ... and a finished one when no record is unfinished.                    *)
LEMMA BatchFinished ==
  ASSUME IInv, DataInv, ~(op \in Ops /\ Unfinished(op))
  PROVE  Batch.state \notin Open
<1>1. CASE Begun = {}
  BY <1>1 DEF Batch, NoRecord, Open
<1>2. CASE Begun # {}
  <2>1. \E i \in Begun : \A j \in Begun : j <= i
    BY <1>2, HasMax DEF Begun
  <2>2. PICK i \in Ops : Batch = journal[i]
    BY <1>2, <2>1 DEF Batch, Begun
  <2> QED
    BY <2>2 DEF DataInv, RecordInv, Unfinished
<1> QED
  BY <1>1, <1>2

(* Without outside editors no file is touched.                             *)
LEMMA Untouched ==
  ASSUME MaxEdits = 0, IInv, EditsInv
  PROVE  \A f \in Files : ~touched[f]
  BY DEF EditsInv, IInv, TypeOK

(* A step that writes no record.                                           *)
LEMMA QuietStep ==
  ASSUME MaxEdits = 0, IInv, DataInv, OwnedInv, ExpectedInv, EditsInv,
         UNCHANGED journal, disk' \in [Files -> Hashes],
         \A f \in Files : disk'[f] = disk[f] \/ Owned(f),
         pc' \in Revocable => pc \in Revocable \/ (op \in Ops /\ Unfinished(op))
  PROVE  [Abstract!Next]_(Abstract!abstract)
<1>1. Batch' = Batch
  BY DEF Batch, Begun
<1>2. CASE op \in Ops /\ Unfinished(op)
  <2>1. Batch = journal[op] /\ Batch.state \in Open
    BY <1>2, BatchLatest DEF Unfinished, Open
  <2>2. \A f \in Files : f \notin FilesOf(Batch) => disk'[f] = disk[f]
    BY <2>1 DEF Owned
  <2>4. SeenBefore' = SeenBefore /\ SeenAfter' = SeenAfter
    BY <1>1, <2>2 DEF SeenBefore, SeenAfter, Viewed
  <2>5. SeenContents' = SeenContents
    BY <1>1, <2>1, <2>4 DEF SeenContents, SeenBefore
  <2>6. SeenSettled = FALSE /\ SeenSettled' = FALSE
    BY <1>1, <2>1 DEF SeenSettled, Open
  <2> QED
    BY <2>4, <2>5, <2>6 DEF Abstract!abstract
<1>3. CASE ~(op \in Ops /\ Unfinished(op))
  <2>1. disk' = disk
    BY <1>3 DEF Owned, IInv, TypeOK
  <2>2. UNCHANGED <<SeenContents, SeenBefore, SeenAfter>>
    BY <1>1, <2>1 DEF SeenContents, SeenBefore, SeenAfter, Viewed
  <2>3. CASE SeenSettled' = SeenSettled
    BY <2>2, <2>3 DEF Abstract!abstract
  <2>4. CASE SeenSettled' # SeenSettled
    <3>1. Batch.state = "succeeded" /\ pc \in Revocable /\ SeenSettled' = TRUE
      BY <1>1, <1>3, <2>4 DEF SeenSettled
    <3>2. pc \in Applying /\ op \in Ops /\ journal[op].state # "none" /\ req \in Requests
      BY <3>1 DEF Revocable, Applying, IInv, LoopInv, DataInv, RecordInv
    <3>3. k = Len(req.files) /\ req.written = req.candidate
      BY <1>3, <3>2, RangeOf DEF OwnedInv, HeldInv, ExpectedInv
    <3>4. \A f \in Range(req.files) : disk[f] = req.candidate[f]
      BY <3>2, <3>3, RangeOf, Untouched, RequestFiles DEF DataInv, ProgressInv
    <3>5. Batch = journal[op] /\ FilesOf(Batch) = Range(req.files)
            /\ Batch.candidate = req.candidate
      BY <3>2, BatchLatest, RangeOf DEF DataInv, RecordInv, Recorded, FilesOf
    <3>6. SeenAfter = disk
      BY <3>4, <3>5 DEF SeenAfter, Viewed, IInv, TypeOK
    <3>7. SeenContents = disk
      BY <1>3, BatchFinished DEF SeenContents
    <3> QED
      BY <2>2, <3>1, <3>6, <3>7 DEF Abstract!Next, Abstract!Confirm
  <2> QED
    BY <2>3, <2>4
<1> QED
  BY <1>2, <1>3

(* A change of the record's state that keeps it unfinished, or leaves it   *)
(* finished as it was.                                                     *)
LEMMA SameBatch ==
  ASSUME IInv, DataInv, IInv', DataInv', op \in Ops, op' = op, journal[op].state # "none",
         journal'[op].state # "none",
         journal'[op].files = journal[op].files,
         journal'[op].source = journal[op].source,
         journal'[op].candidate = journal[op].candidate,
         disk' = disk
  PROVE  /\ Batch = journal[op] /\ Batch' = journal'[op]
         /\ SeenBefore' = SeenBefore /\ SeenAfter' = SeenAfter
         /\ (Unfinished(op)' <=> Batch'.state \in Open)
         /\ (Unfinished(op) <=> Batch.state \in Open)
<1>1. Batch = journal[op]
  BY BatchLatest
<1>2. Batch' = journal'[op]
  <2>1. (IInv /\ DataInv /\ op \in Ops /\ journal[op].state # "none" => Batch = journal[op])'
    BY BatchLatest, PTL
  <2> QED
    BY <2>1
<1>3. FilesOf(Batch') = FilesOf(Batch)
  BY <1>1, <1>2 DEF FilesOf
<1> QED
  BY <1>1, <1>2, <1>3 DEF SeenBefore, SeenAfter, Viewed, FilesOf, Unfinished

LEMMA EditsStep ==
  ASSUME ~StuckPools, IInv, DataInv, OwnedInv, EditsInv, [Next]_vars
  PROVE  EditsInv'
<1>1. CASE Capture
  BY <1>1, CaptureFacts DEF EditsInv
<1>2. CASE OutsideEdit
  BY <1>2, ConstantsAssumption DEF OutsideEdit, EditsInv, IInv, TypeOK
<1>3. ASSUME UNCHANGED <<touched, edits>> PROVE EditsInv'
  BY <1>3 DEF EditsInv
<1>4. CASE Crash \/ PowerLoss \/ UNCHANGED vars
  BY <1>3, <1>4 DEF Crash, PowerLoss, Forget, vars, world, bounds
<1>5. CASE Looking \/ Syncing \/ Writing
  <2>1. edits' = edits
    BY <1>5 DEF Looking, Acquire, RecoverValidate, RecoverCheck, RecoverFails, Sweep,
       Release,
       Preflight, Stage, CheckTarget, ApplyFails, Dispose, RollbackCheck, UndoFails,
       Syncing, RecoverVerify, Refresh, RollbackEnds, Writing, RecoverReplace, Replace, Undo,
       Fault, bounds
  <2> QED
    BY <1>3, <1>5, <2>1, QuietFacts
<1>6. CASE Recording
  <2>1. edits' = edits
    BY <1>6 DEF Recording, RecoverSettle, RecoverReject, Begin, RecordCommit,
       Refreshing,
       Succeed, Unsettled, Fail, RolledBack, Transition, Journal, Fault, bounds
  <2> QED
    BY <1>3, <1>6, <2>1, RecordingFacts
<1> QED
  BY <1>1, <1>2, <1>4, <1>5, <1>6, StepKinds DEF CloseFails

LEMMA StillStep ==
  ASSUME MaxEdits = 0, IInv, DataInv, OwnedInv, ExpectedInv, EditsInv,
         UNCHANGED <<journal, disk>>, pc' \in Revocable => pc \in Applying
  PROVE  [Abstract!Next]_(Abstract!abstract)
<1>1. disk' \in [Files -> Hashes]
  BY DEF IInv, TypeOK
<1>2. pc \in Applying => pc \in Revocable \/ (op \in Ops /\ Unfinished(op))
  BY DEF OwnedInv, HeldInv, Revocable, IInv, LoopInv
<1> QED
  BY <1>1, <1>2, QuietStep

LEMMA QuietSeen ==
  ASSUME MaxEdits = 0, IInv, DataInv, OwnedInv, ExpectedInv, EditsInv,
         Looking \/ Syncing \/ Writing
  PROVE  [Abstract!Next]_(Abstract!abstract)
<1>1. CASE Looking \/ Syncing
  BY <1>1, QuietFacts, StillStep DEF Revocable, Applying
<1>2. CASE Writing
  <2>1. \A f \in Files : disk'[f] = disk[f] \/ Owned(f)
    BY <1>2, WritingFacts DEF Put, world, Owned, IInv, TypeOK
  <2>2. disk' \in [Files -> Hashes]
    <3>1. CASE UNCHANGED world
      BY <3>1 DEF world, IInv, TypeOK
    <3>2. CASE \E g \in FilesOf(journal[op]) \cap Files :
                 \/ Put(g, journal[op].source[g])
                 \/ req \in Requests /\ Put(g, req.written[g])
      BY <1>2, <3>2, WritingFacts DEF Put, IInv, TypeOK, Records, Requests
    <3> QED
      BY <1>2, <3>1, <3>2, WritingFacts
  <2>3. pc' \in Revocable => pc \in Revocable \/ (op \in Ops /\ Unfinished(op))
    BY <1>2, WritingFacts
  <2> QED
    BY <1>2, <2>1, <2>2, <2>3, QuietFacts, QuietStep
<1> QED
  BY <1>1, <1>2

LEMMA CrashSeen ==
  ASSUME MaxEdits = 0, IInv, DataInv, OwnedInv, ExpectedInv, EditsInv, Crash \/ PowerLoss
  PROVE  [Abstract!Next]_(Abstract!abstract)
<1>1. \A f \in Files : disk'[f] = disk[f] \/ Owned(f)
  BY DEF Crash, PowerLoss, OwnedInv, CleanInv, Clean
<1>2. disk' \in [Files -> Hashes] /\ pc' \notin Revocable /\ UNCHANGED journal
  BY DEF Crash, PowerLoss, Forget, Revocable, IInv, TypeOK
<1> QED
  BY <1>1, <1>2, QuietStep

LEMMA CaptureSeen ==
  ASSUME MaxEdits = 0, IInv, DataInv, OwnedInv, ExpectedInv, EditsInv, Capture
  PROVE  [Abstract!Next]_(Abstract!abstract)
  BY CaptureFacts, StillStep DEF Revocable

LEMMA BeginSeen ==
  ASSUME MaxEdits = 0, IInv, DataInv, OwnedInv, ExpectedInv, EditsInv, IInv', DataInv', Begin
  PROVE  [Abstract!Next]_(Abstract!abstract)
<1>1. CASE journal' = journal
  BY <1>1, BeginFacts, StillStep DEF Revocable
<1>2. CASE journal' # journal
  <2>1. /\ req \in Requests /\ op \in Ops /\ pc \in Preparing /\ ~Unfinished(op)
        /\ journal'[op].state = "running" /\ journal'[op].files = req.files
        /\ journal'[op].source = req.snapshot /\ journal'[op].candidate = req.candidate
        /\ disk' = disk /\ op' = op
    BY <1>2, BeginFacts DEF Preparing
  <2>2. Batch' = journal'[op]
    <3>1. (IInv /\ DataInv /\ op \in Ops /\ journal[op].state # "none"
             => Batch = journal[op])'
      BY BatchLatest, PTL
    <3> QED
      BY <2>1, <3>1
  <2>3. SeenContents = disk
    BY <2>1, BatchFinished DEF SeenContents
  <2>4. FilesOf(Batch') = Range(req.files) /\ Range(req.files) \subseteq Files
    BY <2>1, <2>2, RangeOf DEF FilesOf
  <2>5. \A f \in Range(req.files) : req.snapshot[f] = disk[f]
    BY <2>1, <2>4, Untouched DEF DataInv, ProgressInv
  <2>6. SeenBefore' = disk
    BY <2>1, <2>2, <2>4, <2>5 DEF SeenBefore, Viewed, IInv, TypeOK
  <2>7. Batch'.state \in Open
    BY <2>1, <2>2 DEF Open
  <2>8. SeenContents' = SeenContents
    BY <2>3, <2>6, <2>7 DEF SeenContents, SeenBefore
  <2>9. SeenAfter' \in [Files -> Hashes]
    BY <2>1, <2>2, <2>4, RequestFiles DEF SeenAfter, Viewed, IInv, TypeOK
  <2>10. SeenSettled' = FALSE
    BY <2>7 DEF SeenSettled, Open
  <2> QED
    BY <2>3, <2>6, <2>8, <2>9, <2>10 DEF Abstract!Next, Abstract!Start
<1> QED
  BY <1>1, <1>2

(* A record that was and stays unfinished.                                 *)
LEMMA StaysOpen ==
  ASSUME IInv, DataInv, IInv', DataInv', op \in Ops, op' = op, disk' = disk,
         journal'[op].files = journal[op].files,
         journal'[op].source = journal[op].source,
         journal'[op].candidate = journal[op].candidate,
         Unfinished(op), journal'[op].state \in Open
  PROVE  [Abstract!Next]_(Abstract!abstract)
<1>1. journal[op].state # "none" /\ journal'[op].state # "none"
  BY DEF Unfinished, Open
<1>2. /\ Batch = journal[op] /\ Batch' = journal'[op]
      /\ SeenBefore' = SeenBefore /\ SeenAfter' = SeenAfter
  BY <1>1, SameBatch
<1>3. Batch.state \in Open /\ Batch'.state \in Open
  BY <1>2 DEF Unfinished
<1>4. SeenContents' = SeenContents
  BY <1>2, <1>3 DEF SeenContents, SeenBefore
<1>5. SeenSettled = FALSE /\ SeenSettled' = FALSE
  BY <1>3 DEF SeenSettled, Open
<1> QED
  BY <1>2, <1>4, <1>5 DEF Abstract!abstract

(* A record whose files hold their sources, whatever becomes of it short   *)
(* of success.                                                             *)
LEMMA SourcesHeld ==
  ASSUME IInv, DataInv, IInv', DataInv', op \in Ops, op' = op, disk' = disk,
         journal'[op].files = journal[op].files,
         journal'[op].source = journal[op].source,
         journal'[op].candidate = journal[op].candidate,
         journal[op].state \notin {"none", "succeeded"},
         journal'[op].state \notin {"none", "succeeded"},
         \A f \in FilesOf(journal[op]) : disk[f] = journal[op].source[f]
  PROVE  [Abstract!Next]_(Abstract!abstract)
<1>1. /\ Batch = journal[op] /\ Batch' = journal'[op]
      /\ SeenBefore' = SeenBefore /\ SeenAfter' = SeenAfter
  BY SameBatch
<1>2. SeenBefore = disk
  BY <1>1 DEF SeenBefore, Viewed, IInv, TypeOK
<1>3. SeenContents = disk /\ SeenContents' = disk
  BY <1>1, <1>2 DEF SeenContents, SeenBefore
<1>4. SeenSettled = FALSE /\ SeenSettled' = FALSE
  BY <1>1 DEF SeenSettled
<1> QED
  BY <1>1, <1>3, <1>4 DEF Abstract!abstract

(* Every file of a batch that wrote them all holds its candidate.          *)
LEMMA AllWritten ==
  ASSUME MaxEdits = 0, IInv, DataInv, ExpectedInv, EditsInv,
         pc \in Applying, k = Len(req.files)
  PROVE  /\ op \in Ops /\ journal[op].state # "none"
         /\ \A f \in FilesOf(journal[op]) : disk[f] = journal[op].candidate[f]
<1>1. req \in Requests /\ op \in Ops /\ journal[op].state # "none"
  BY DEF IInv, LoopInv, DataInv, RecordInv
<1>2. FilesOf(journal[op]) = Range(req.files) /\ journal[op].candidate = req.candidate
      /\ req.written = req.candidate
  BY <1>1, RangeOf DEF DataInv, RecordInv, Recorded, FilesOf, ExpectedInv
<1>3. \A f \in Range(req.files) : disk[f] = req.written[f]
  BY <1>1, RangeOf, Untouched, RequestFiles DEF DataInv, ProgressInv
<1> QED
  BY <1>1, <1>2, <1>3

LEMMA SucceedSeen ==
  ASSUME MaxEdits = 0, IInv, DataInv, OwnedInv, ExpectedInv, EditsInv, IInv', DataInv',
         Succeed
  PROVE  [Abstract!Next]_(Abstract!abstract)
<1>1. /\ op \in Ops /\ pc = "succeed" /\ pc \in Applying
      /\ journal'[op].files = journal[op].files
      /\ journal'[op].source = journal[op].source
      /\ journal'[op].candidate = journal[op].candidate
      /\ journal'[op].state \in {journal[op].state, "succeeded"}
  BY SucceedFacts DEF Applying, Moves
<1>2. op' = op /\ disk' = disk
  BY DEF Succeed, world
<1>3. Unfinished(op)
  BY <1>1 DEF OwnedInv, HeldInv
<1>4. CASE journal'[op].state = journal[op].state
  BY <1>1, <1>2, <1>3, <1>4, StaysOpen DEF Unfinished
<1>5. CASE journal'[op].state = "succeeded"
  <2>1. journal[op].state # "none"
    BY <1>3 DEF Unfinished, Open
  <2>2. /\ Batch = journal[op] /\ Batch' = journal'[op]
        /\ SeenBefore' = SeenBefore /\ SeenAfter' = SeenAfter
    BY <1>1, <1>2, <1>5, <2>1, SameBatch
  <2>3. SeenContents = SeenBefore
    BY <1>3, <2>2 DEF SeenContents, SeenBefore, Unfinished
  <2>4. k = Len(req.files)
    BY <1>1 DEF DataInv, ProgressInv
  <2>5. SeenAfter = disk
    BY <1>1, <2>2, <2>4, AllWritten DEF SeenAfter, Viewed, IInv, TypeOK
  <2>6. SeenContents' = disk
    BY <1>2, <1>5, <2>2 DEF SeenContents, Open
  <2>7. SeenSettled' \in BOOLEAN
    BY DEF SeenSettled
  <2> QED
    BY <2>2, <2>3, <2>5, <2>6, <2>7 DEF Abstract!Next, Abstract!Apply
<1> QED
  BY <1>1, <1>4, <1>5

(* Marking a record for recovery, which takes back a success written over  *)
(* a failure report.                                                       *)
LEMMA MarkedSeen ==
  ASSUME MaxEdits = 0, IInv, DataInv, OwnedInv, ExpectedInv, EditsInv, IInv', DataInv',
         Unsettled \/ Fail
  PROVE  [Abstract!Next]_(Abstract!abstract)
<1>1. /\ op \in Ops /\ pc \in {"unsettled", "fail"} /\ pc' \in {"fail", "rollback"}
      /\ journal'[op].files = journal[op].files
      /\ journal'[op].source = journal[op].source
      /\ journal'[op].candidate = journal[op].candidate
      /\ journal'[op].state \in {journal[op].state, "recovery-required"}
  BY UnsettledFacts, FailFacts DEF Moves
<1>2. op' = op /\ disk' = disk
  BY DEF Unsettled, Fail, world
<1>3. pc \in Applying /\ pc \in Revocable /\ pc' \in Revocable
  BY <1>1 DEF Applying, Revocable
<1>4. CASE Unfinished(op)
  BY <1>1, <1>2, <1>4, StaysOpen DEF Unfinished, Open
<1>5. CASE ~Unfinished(op)
  <2>1. journal[op].state = "succeeded" /\ k = Len(req.files)
    BY <1>3, <1>5 DEF OwnedInv, HeldInv
  <2>2. /\ Batch = journal[op] /\ Batch' = journal'[op]
        /\ SeenBefore' = SeenBefore /\ SeenAfter' = SeenAfter
    BY <1>1, <1>2, <2>1, SameBatch
  <2>3. SeenAfter = disk
    BY <1>3, <2>1, <2>2, AllWritten DEF SeenAfter, Viewed, IInv, TypeOK
  <2>4. SeenContents = disk
    BY <2>1, <2>2 DEF SeenContents, Open
  <2>5. SeenSettled = FALSE /\ SeenSettled' = FALSE
    BY <1>3 DEF SeenSettled
  <2>6. CASE journal'[op].state = "succeeded"
    <3>1. SeenContents' = disk
      BY <1>2, <2>2, <2>6 DEF SeenContents, Open
    <3> QED
      BY <2>2, <2>4, <2>5, <3>1 DEF Abstract!abstract
  <2>7. CASE journal'[op].state = "recovery-required"
    <3>1. SeenContents' = SeenBefore
      BY <2>2, <2>7 DEF SeenContents, SeenBefore, Open
    <3> QED
      BY <2>2, <2>3, <2>4, <2>5, <3>1 DEF Abstract!Next, Abstract!Revoke
  <2> QED
    BY <1>1, <2>1, <2>6, <2>7
<1> QED
  BY <1>4, <1>5

LEMMA RolledBackSeen ==
  ASSUME MaxEdits = 0, IInv, DataInv, OwnedInv, ExpectedInv, EditsInv, IInv', DataInv',
         RolledBack
  PROVE  [Abstract!Next]_(Abstract!abstract)
<1>1. /\ op \in Ops /\ pc = "rolledBack" /\ pc \in Applying
      /\ journal'[op].files = journal[op].files
      /\ journal'[op].source = journal[op].source
      /\ journal'[op].candidate = journal[op].candidate
      /\ journal'[op].state \in {journal[op].state, "rolled-back"}
  BY RolledBackFacts DEF Applying, Moves
<1>2. op' = op /\ disk' = disk
  BY DEF RolledBack, world
<1>3. Unfinished(op) /\ req \in Requests
  BY <1>1 DEF OwnedInv, HeldInv, IInv, LoopInv
<1>4. FilesOf(journal[op]) = Range(req.files) /\ journal[op].source = req.snapshot
  BY <1>1, <1>3, RangeOf DEF DataInv, RecordInv, Recorded, FilesOf, Unfinished, Open
<1>5. \A f \in FilesOf(journal[op]) : disk[f] = journal[op].source[f]
  BY <1>1, <1>3, <1>4, RangeOf, Untouched DEF DataInv, SyncedInv, Durably, IInv,
     TypeOK
<1> QED
  BY <1>1, <1>2, <1>3, <1>5, SourcesHeld DEF Unfinished, Open

LEMMA RecoverSettleSeen ==
  ASSUME MaxEdits = 0, IInv, DataInv, OwnedInv, ExpectedInv, EditsInv, IInv', DataInv',
         RecoverSettle
  PROVE  [Abstract!Next]_(Abstract!abstract)
<1>1. /\ cur \in Ops /\ pc = "settle" /\ cur \in pass
      /\ journal'[cur].files = journal[cur].files
      /\ journal'[cur].source = journal[cur].source
      /\ journal'[cur].candidate = journal[cur].candidate
      /\ journal'[cur].state \in {journal[cur].state, "recovered"}
  BY RecoverSettleFacts DEF IInv, LoopInv, Recovering, Moves
<1>2. op' = op /\ disk' = disk
  BY DEF RecoverSettle, world
<1>3. cur = op /\ Unfinished(op)
  BY <1>1 DEF DataInv, RecordInv
<1>4. FilesOf(journal[op]) \subseteq Files
  BY <1>1, <1>3, RecordFiles DEF IInv
<1>5. \A f \in FilesOf(journal[op]) : disk[f] = journal[op].source[f]
  BY <1>1, <1>3, <1>4, Untouched DEF DataInv, SyncedInv, Durably, IInv, TypeOK
<1> QED
  BY <1>1, <1>2, <1>3, <1>5, SourcesHeld DEF Unfinished, Open

LEMMA RecoverRejectSeen ==
  ASSUME MaxEdits = 0, IInv, DataInv, OwnedInv, ExpectedInv, EditsInv, IInv', DataInv',
         RecoverReject
  PROVE  [Abstract!Next]_(Abstract!abstract)
<1>1. /\ cur \in Ops /\ pc = "reject" /\ cur \in pass
      /\ journal'[cur].files = journal[cur].files
      /\ journal'[cur].source = journal[cur].source
      /\ journal'[cur].candidate = journal[cur].candidate
      /\ journal'[cur].state \in {journal[cur].state, "recovery-required"}
  BY RecoverRejectFacts DEF IInv, LoopInv, Recovering, Moves
<1>2. op' = op /\ disk' = disk
  BY DEF RecoverReject, world
<1>3. cur = op /\ journal[op].state \in Open \cup {"recovered"}
  BY <1>1 DEF DataInv, RecordInv
<1>4. CASE Unfinished(op)
  BY <1>1, <1>2, <1>3, <1>4, StaysOpen DEF Unfinished, Open
<1>5. CASE ~Unfinished(op)
  <2>1. journal[op].state = "recovered"
    BY <1>3, <1>5 DEF Unfinished
  <2>2. FilesOf(journal[op]) \subseteq Files
    BY <1>1, <1>3, RecordFiles DEF IInv
  <2>3. \A f \in FilesOf(journal[op]) : disk[f] = journal[op].source[f]
    BY <1>1, <1>3, <1>5, <2>2, Untouched DEF DataInv, SyncedInv, Durably, IInv, TypeOK
  <2> QED
    BY <1>1, <1>2, <1>3, <2>1, <2>3, SourcesHeld
<1> QED
  BY <1>4, <1>5

(* Confirming a commit, and announcing the refresh.                        *)
LEMMA RecordingSeen ==
  ASSUME MaxEdits = 0, IInv, DataInv, OwnedInv, ExpectedInv, EditsInv, IInv', DataInv',
         RecordCommit \/ Refreshing
  PROVE  [Abstract!Next]_(Abstract!abstract)
<1>1. /\ op \in Ops /\ pc \in {"record", "apply"} /\ pc \in Applying
      /\ journal'[op].files = journal[op].files
      /\ journal'[op].source = journal[op].source
      /\ journal'[op].candidate = journal[op].candidate
      /\ journal'[op].state \in {journal[op].state, "running", "refreshing"}
  BY RecordCommitFacts, RefreshingFacts DEF Applying, Moves
<1>2. op' = op /\ disk' = disk
  BY DEF RecordCommit, Refreshing, world
<1>3. Unfinished(op)
  BY <1>1 DEF OwnedInv, HeldInv
<1> QED
  BY <1>1, <1>2, <1>3, StaysOpen DEF Unfinished, Open

(* A step that changes nothing.                                            *)
LEMMA StutterSeen ==
  ASSUME MaxEdits = 0, IInv, DataInv, OwnedInv, ExpectedInv, EditsInv, UNCHANGED vars
  PROVE  [Abstract!Next]_(Abstract!abstract)
<1>1. UNCHANGED <<journal, disk, pc>>
  BY DEF vars, world
<1> QED
  BY <1>1, StillStep DEF Revocable, Applying

(* Every step of the code is one of the promise's, or none.                *)
LEMMA StepSeen ==
  ASSUME ~StuckPools, MaxEdits = 0, IInv, DataInv, OwnedInv, ExpectedInv, EditsInv,
         IInv', DataInv', [Next]_vars
  PROVE  [Abstract!Next]_(Abstract!abstract)
<1>1. CASE Looking \/ Syncing \/ Writing
  BY <1>1, QuietSeen
<1>2. CASE Recording
  BY <1>2, BeginSeen, RecordingSeen, SucceedSeen, MarkedSeen, RolledBackSeen,
     RecoverSettleSeen,
     RecoverRejectSeen DEF Recording
<1>3. ~OutsideEdit
  BY DEF EditsInv, OutsideEdit, IInv, TypeOK
<1> QED
  BY <1>1, <1>2, <1>3, StepKinds, CaptureSeen, CrashSeen, StutterSeen DEF CloseFails

(* The initial states are initial states of the promise.                   *)
LEMMA InitSeen == Init => Abstract!Init
<1> SUFFICES ASSUME Init PROVE Abstract!Init
  OBVIOUS
<1>1. Begun = {}
  BY DEF Init, Begun, NoRecord
<1>2. Batch = NoRecord
  BY <1>1 DEF Batch
<1>3. FilesOf(Batch) = {}
  BY <1>2 DEF FilesOf, Range, NoRecord
<1>4. SeenBefore = disk /\ SeenAfter = disk /\ SeenContents = disk
        /\ disk \in [Files -> Hashes]
  BY <1>3 DEF SeenBefore, SeenAfter, SeenContents, Viewed, Init
<1>5. SeenSettled = FALSE
  BY <1>2 DEF SeenSettled, NoRecord
<1> QED
  BY <1>4, <1>5 DEF Abstract!Init

(* No edit happens at first.                                               *)
LEMMA InitEdits == Init => EditsInv
  BY ConstantsAssumption DEF Init, EditsInv

(* The transaction implements AtomicBatch: seen through recovery, a batch  *)
(* is applied whole or not at all, may be taken back whole until the caller *)
(* was told that it succeeded, and never after.                            *)
THEOREM BatchesAreAtomic ==
  ASSUME ~StuckPools, MaxFaults <= 2, PatchesKept, MaxEdits = 0
  PROVE  Spec => ImplementsAtomicBatch
<1> DEFINE Inv == IInv /\ DataInv /\ OwnedInv /\ ExpectedInv
<1>1. Spec => []Inv
  BY ExpectedInvHolds
<1>2. Inv /\ EditsInv /\ [Next]_vars => EditsInv'
  BY EditsStep
<1>3. Inv /\ Inv' /\ EditsInv /\ [Next]_vars => [Abstract!Next]_(Abstract!abstract)
  BY StepSeen
<1> HIDE DEF Inv
<1> QED
  BY <1>1, <1>2, <1>3, InitSeen, InitEdits, PTL DEF Spec, ImplementsAtomicBatch,
     Abstract!Spec
=============================================================================
