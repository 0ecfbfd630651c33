----------------------------- MODULE FileDelete -----------------------------
(* file_delete: deleteFilesSafely of runtime/file-delete.ts.  The references  *)
(* to the files are looked for before any lock is taken; then the files are   *)
(* staged, removed one by one and recorded in the journal; last, directories  *)
(* that became empty go.  Editors take no lock and may come at any time.      *)
EXTENDS Integers, Sequences, SequencesExt, FiniteSets, TLC

CONSTANTS Worlds,         \* what each path holds at first: a file or None
          Batches,        \* sequences of [path, force]
          Roots,          \* configured roots, directories
          Skipped,        \* names the search passes over: node_modules and those with a dot
          None,           \* no file
          MaxCandidates,  \* directory entries a search may list (100,000)
          MaxSources,     \* sources it may read (16 MiB)
          MaxFaults,      \* bound: errors of the disk and the journal, leases lost
          MaxEdits        \* bound: steps of editors

VARIABLES batch, disk, dirs,
          pc, i,
          walk,      \* the search under way: its root, directories and files to come, importers so far
          seen,      \* inventories, imports and importers kept for the batch, and what they cost
          blobs,     \* snapshots of the files
          gone,      \* entries removed so far
          journal, result, lease,
          removed, cleanup, climb,  \* directories removed, how that ended, those still to look at
          touched,   \* history: paths editors wrote
          faults, edits

tree    == <<disk, dirs>>
search  == <<walk, seen>>
tidying == <<removed, cleanup, climb>>
vars    == <<batch, tree, pc, i, search, blobs, gone, journal, result, lease, tidying, touched, faults, edits>>

-----------------------------------------------------------------------------
(* A path is the sequence of its directories, its stem and its extension.    *)
Paths     == DOMAIN disk
Dir(p)    == SubSeq(p, 1, Len(p) - 2)
Capable(p) == Last(p) = ".ts"
Targets   == {batch[n].path : n \in DOMAIN batch}
Entry     == batch[i]

(* createReferenceTargetIndex and referencedTargets.                          *)
Aliases(t) == {t, Front(t)}

(* Mutant: directories are not imported by their index.                       *)
ReferencedByName(t, bases) == \E b \in bases : b \in Aliases(t)

Referenced(t, bases) == \E b \in bases : {b, Append(b, "index")} \cap Aliases(t) # {}

(* referenceRootForPath: the longest root the path is under.                  *)
RootsOf(p) == {r \in Roots \cap dirs : IsStrictPrefix(r, p)}
RootOf(p)  == CHOOSE r \in RootsOf(p) : \A s \in RootsOf(p) : Len(s) <= Len(r)

(* ancestorPaths, the innermost first; none for a file outside every root.    *)
Ancestors(p) ==
    IF RootsOf(p) = {} THEN <<>>
    ELSE [n \in 1 .. Len(Dir(p)) - Len(RootOf(p)) |-> SubSeq(p, 1, Len(Dir(p)) + 1 - n)]

Fails(why) == pc' = "end" /\ result' = why

Prepared == IF i = Len(batch) THEN pc' = "lock" /\ i' = 1 ELSE pc' = "prepare" /\ i' = i + 1

NoWalk == [root |-> <<>>, pending |-> <<>>, files |-> {}, importers |-> [t \in Targets |-> {}]]

(* prepareDeleteEntry and referenceStatus.                                    *)
Prepare ==
    /\ pc = "prepare"
    /\ LET p == Entry.path
           unreferenced == Entry.force \/ ~Capable(p)
       IN CASE disk[p] = None \/ (~unreferenced /\ RootsOf(p) = {}) ->
                    Fails("refused") /\ UNCHANGED <<i, walk>>
            [] disk[p] # None /\ unreferenced -> Prepared /\ UNCHANGED <<result, walk>>
            [] OTHER ->
                    /\ pc' = IF RootOf(p) \in DOMAIN seen.roots THEN "judge" ELSE "walk"
                    /\ walk' = [NoWalk EXCEPT !.root = RootOf(p), !.pending = <<RootOf(p)>>]
                    /\ UNCHANGED <<i, result>>
    /\ UNCHANGED <<batch, tree, seen, blobs, gone, journal, lease, tidying, touched, faults, edits>>

Kept(name) == name \notin Skipped

Inventory(d) ==
    [count |-> Cardinality({p \in Paths : disk[p] # None /\ Dir(p) = d}
                           \cup {e \in dirs : Len(e) = Len(d) + 1 /\ IsPrefix(d, e)}),
     files |-> {p \in Paths : disk[p] # None /\ Dir(p) = d /\ Kept(p[Len(p) - 1])},
     dirs  |-> {e \in dirs : Len(e) = Len(d) + 1 /\ IsPrefix(d, e) /\ Kept(Last(e))}]

(* One directory of referenceCandidates, listed once per batch.               *)
OpenDirectory ==
    /\ pc = "walk" /\ walk.files = {} /\ walk.pending # <<>>
    /\ LET d    == Last(walk.pending)
           held == d \in DOMAIN seen.directories
           list == IF held THEN seen.directories[d] ELSE Inventory(d)
           cost == IF held THEN 0 ELSE list.count
       IN IF seen.candidates + cost > MaxCandidates
          THEN Fails("unverified") /\ UNCHANGED search
          ELSE /\ walk' = [walk EXCEPT !.pending = Front(@) \o SetToSeq(list.dirs),
                                       !.files = {p \in list.files : Capable(p)} \ Targets]
               /\ seen' = [seen EXCEPT !.directories = (d :> list) @@ @, !.candidates = @ + cost]
               /\ UNCHANGED <<pc, result>>
    /\ UNCHANGED <<batch, tree, i, blobs, gone, journal, lease, tidying, touched, faults, edits>>

Noted(f, bases) ==
    walk' = [walk EXCEPT !.files = @ \ {f},
                         !.importers = [t \in Targets |-> @[t] \cup IF Referenced(t, bases) THEN {f} ELSE {}]]

(* One source: what it imports is read, or known from another root.           *)
ReadCandidate ==
    /\ pc = "walk"
    /\ \E f \in walk.files :
         IF f \in DOMAIN seen.imports
         THEN Noted(f, seen.imports[f]) /\ UNCHANGED <<pc, result, seen>>
         ELSE IF disk[f] = None \/ seen.sources = MaxSources \/ ~disk[f].valid
         THEN Fails("unverified") /\ UNCHANGED search
         ELSE /\ Noted(f, disk[f].imports)
              /\ seen' = [seen EXCEPT !.imports = (f :> disk[f].imports) @@ @, !.sources = @ + 1]
              /\ UNCHANGED <<pc, result>>
    /\ UNCHANGED <<batch, tree, i, blobs, gone, journal, lease, tidying, touched, faults, edits>>

Walked ==
    /\ pc = "walk" /\ walk.files = {} /\ walk.pending = <<>>
    /\ pc' = "judge"
    /\ seen' = [seen EXCEPT !.roots = (walk.root :> walk.importers) @@ @]
    /\ UNCHANGED <<batch, tree, i, walk, blobs, gone, journal, result, lease, tidying, touched, faults, edits>>

(* requireUnreferenced.                                                       *)
Judge ==
    /\ pc = "judge"
    /\ IF seen.roots[walk.root][Entry.path] # {} THEN Fails("refused") /\ UNCHANGED i
       ELSE Prepared /\ UNCHANGED result
    /\ UNCHANGED <<batch, tree, search, blobs, gone, journal, lease, tidying, touched, faults, edits>>

Fault  == faults < MaxFaults /\ faults' = faults + 1
Broken == Fault \/ (~lease /\ UNCHANGED faults)

-----------------------------------------------------------------------------
(* Under the locks.  What is thrown leads back over the entries removed.      *)
Lock ==
    /\ pc = "lock"
    /\ \/ pc' = "stage" /\ UNCHANGED <<result, faults>>
       \/ Fault /\ Fails("failed")
    /\ UNCHANGED <<batch, tree, i, search, blobs, gone, journal, lease, tidying, touched, edits>>

(* stageFileSnapshot, and the hash the client read before its request.        *)
Stage ==
    /\ pc = "stage"
    /\ LET file == disk[Entry.path]
           good == file # None /\ file.version = 0
       IN /\ blobs' = IF good THEN (Entry.path :> file) @@ blobs ELSE blobs
          /\ pc' = IF ~good THEN "end" ELSE IF i = Len(batch) THEN "begin" ELSE pc
          /\ i' = IF good /\ i < Len(batch) THEN i + 1 ELSE 1
          /\ result' = IF good THEN result ELSE "failed"
    /\ UNCHANGED <<batch, tree, search, gone, journal, lease, tidying, touched, faults, edits>>

Begin ==
    /\ pc = "begin"
    /\ \/ lease /\ journal' = "running" /\ pc' = "check" /\ UNCHANGED <<result, faults>>
       \/ Broken /\ Fails("failed") /\ UNCHANGED journal
    /\ UNCHANGED <<batch, tree, i, search, blobs, gone, lease, tidying, touched, edits>>

(* The hash is compared in one step, the name removed in the next.            *)
Check ==
    /\ pc = "check"
    /\ pc' = IF lease /\ disk[Entry.path] = blobs[Entry.path] THEN "remove" ELSE "mark"
    /\ UNCHANGED <<batch, tree, i, search, blobs, gone, journal, result, lease, tidying, touched, faults, edits>>

RemoveFile ==
    /\ pc = "remove"
    /\ IF disk[Entry.path] = None THEN pc' = "mark" /\ UNCHANGED <<disk, gone>>
       ELSE disk' = [disk EXCEPT ![Entry.path] = None] /\ gone' = i /\ pc' = "record"
    /\ UNCHANGED <<batch, dirs, i, search, blobs, journal, result, lease, tidying, touched, faults, edits>>

Record ==
    /\ pc = "record"
    /\ \/ /\ lease
          /\ pc' = IF i = Len(batch) THEN "complete" ELSE "check"
          /\ i' = IF i = Len(batch) THEN i ELSE i + 1
          /\ UNCHANGED faults
       \/ Broken /\ pc' = "mark" /\ UNCHANGED i
    /\ UNCHANGED <<batch, tree, search, blobs, gone, journal, result, lease, tidying, touched, edits>>

(* completeMutation refreshes the index and settles the record.               *)
Complete ==
    /\ pc = "complete"
    /\ \/ lease /\ journal' = "succeeded" /\ result' = "deleted" /\ pc' = "tidy" /\ UNCHANGED faults
       \/ Broken /\ journal' \in {"running", "recovery"} /\ pc' = "mark" /\ UNCHANGED result
    /\ UNCHANGED <<batch, tree, i, search, blobs, gone, lease, tidying, touched, edits>>

(* An abort, or a file that cannot be read or removed.                        *)
Throws ==
    /\ pc \in {"check", "remove"} /\ Fault /\ pc' = "mark"
    /\ UNCHANGED <<batch, tree, i, search, blobs, gone, journal, result, lease, tidying, touched, edits>>

(* failMutation, whose own failure is ignored.                                *)
Mark ==
    /\ pc = "mark"
    /\ \/ journal' = "recovery" /\ UNCHANGED faults
       \/ Fault /\ UNCHANGED journal
    /\ pc' = "back" /\ i' = gone
    /\ UNCHANGED <<batch, tree, search, blobs, gone, result, lease, tidying, touched, edits>>

(* restoreSnapshotBlob replaces nothing; then the file is read again.  One    *)
(* that cannot be restored is passed over.                                    *)
Restore ==
    /\ pc = "back" /\ i > 0
    /\ LET p == Entry.path
       IN \/ /\ lease /\ disk[p] = None
             /\ disk' = [disk EXCEPT ![p] = blobs[p]] /\ pc' = "verify" /\ UNCHANGED <<i, result, faults>>
          \/ /\ IF lease /\ disk[p] = None THEN Fault ELSE UNCHANGED faults
             /\ i' = i - 1 /\ result' = "recover" /\ UNCHANGED <<disk, pc>>
    /\ UNCHANGED <<batch, dirs, search, blobs, gone, journal, lease, tidying, touched, edits>>

Verify ==
    /\ pc = "verify"
    /\ \/ UNCHANGED faults /\ result' = IF disk[Entry.path] = blobs[Entry.path] /\ lease THEN result ELSE "recover"
       \/ Fault /\ result' = "recover"
    /\ pc' = "back" /\ i' = i - 1
    /\ UNCHANGED <<batch, tree, search, blobs, gone, journal, lease, tidying, touched, edits>>

(* Mutant: the rollback is recorded whatever became of it.                    *)
RolledBackAnyway ==
    /\ pc = "back" /\ i = 0
    /\ \/ lease /\ journal' = "rolled-back" /\ UNCHANGED faults
       \/ Broken /\ UNCHANGED journal
    /\ Fails(IF result = "recover" THEN result ELSE "failed")
    /\ UNCHANGED <<batch, tree, i, search, blobs, gone, lease, tidying, touched, edits>>

RolledBack ==
    /\ pc = "back" /\ i = 0
    /\ \/ result # "recover" /\ lease /\ journal' = "rolled-back" /\ UNCHANGED faults
       \/ result # "recover" /\ Broken /\ UNCHANGED journal
       \/ result = "recover" /\ UNCHANGED <<journal, faults>>
    /\ Fails(IF result = "recover" THEN result ELSE "failed")
    /\ UNCHANGED <<batch, tree, i, search, blobs, gone, lease, tidying, touched, edits>>

-----------------------------------------------------------------------------
(* emptyParents, under the locks of the roots.  Whatever happens here, the    *)
(* files are deleted; on a failure the answer names no directory.             *)
Tidy ==
    /\ pc = "tidy"
    /\ \/ pc' = "climb" /\ i' = 1 /\ climb' = Ancestors(batch[1].path) /\ lease' = TRUE /\ UNCHANGED <<cleanup, faults>>
       \/ Fault /\ pc' = "end" /\ cleanup' = "deferred" /\ UNCHANGED <<i, climb, lease>>
    /\ UNCHANGED <<batch, tree, search, blobs, gone, journal, result, removed, touched, edits>>

Empty(d) == /\ \A p \in Paths : disk[p] # None => Dir(p) # d
            /\ \A e \in dirs : Len(e) = Len(d) + 1 => ~IsPrefix(d, e)

NextEntry ==
    IF i = Len(batch) THEN pc' = "end" /\ UNCHANGED <<i, climb>>
    ELSE pc' = "climb" /\ i' = i + 1 /\ climb' = Ancestors(batch[i + 1].path)

Climb ==
    /\ pc = "climb"
    /\ IF climb # <<>> /\ Head(climb) \in dirs /\ Empty(Head(climb))
       THEN pc' = "rmdir" /\ UNCHANGED <<i, climb>> ELSE NextEntry
    /\ UNCHANGED <<batch, tree, search, blobs, gone, journal, result, lease, removed, cleanup, touched, faults, edits>>

Rmdir ==
    /\ pc = "rmdir"
    /\ LET d == Head(climb)
       IN \/ lease /\ Empty(d) /\ dirs' = dirs \ {d} /\ removed' = removed \cup {d}
             /\ climb' = Tail(climb) /\ pc' = "climb" /\ UNCHANGED <<i, cleanup, faults>>
          \/ lease /\ ~Empty(d) /\ NextEntry /\ UNCHANGED <<dirs, removed, cleanup, faults>>
          \/ Broken /\ cleanup' = "failed" /\ removed' = {} /\ pc' = "end" /\ UNCHANGED <<dirs, i, climb>>
    /\ UNCHANGED <<batch, disk, search, blobs, gone, journal, result, lease, touched, edits>>

LoseLease ==
    /\ lease /\ pc \in {"check", "remove", "record", "complete", "back", "verify", "climb", "rmdir"}
    /\ Fault /\ lease' = FALSE
    /\ UNCHANGED <<batch, tree, pc, i, search, blobs, gone, journal, result, tidying, touched, edits>>

(* An editor writes, makes or removes a file.                                 *)
Edit ==
    /\ edits < MaxEdits /\ edits' = edits + 1 /\ pc # "end"
    /\ \E p \in Paths : \E file \in {None, [imports |-> {}, valid |-> TRUE, version |-> 1]} :
          /\ Dir(p) \in dirs /\ disk[p] # file
          /\ disk' = [disk EXCEPT ![p] = file] /\ touched' = touched \cup {p}
    /\ UNCHANGED <<batch, dirs, pc, i, search, blobs, gone, journal, result, lease, tidying, faults>>

Init ==
    /\ batch \in Batches /\ disk \in Worlds
    /\ dirs = UNION {{SubSeq(p, 1, n) : n \in 0 .. Len(p) - 2} : p \in {q \in Paths : disk[q] # None}}
    /\ pc = "prepare" /\ i = 1
    /\ walk = NoWalk
    /\ seen = [directories |-> <<>>, imports |-> <<>>, roots |-> <<>>, candidates |-> 0, sources |-> 0]
    /\ blobs = <<>> /\ gone = 0
    /\ journal = "none" /\ result = "none" /\ lease = TRUE
    /\ removed = {} /\ cleanup = "none" /\ climb = <<>>
    /\ touched = {} /\ faults = 0 /\ edits = 0

Stop == pc = "end" /\ UNCHANGED vars

Server == \/ Prepare \/ OpenDirectory \/ ReadCandidate \/ Walked \/ Judge
          \/ Lock \/ Stage \/ Begin \/ Check \/ RemoveFile \/ Record \/ Complete
          \/ Mark \/ Restore \/ Verify \/ RolledBack \/ Tidy \/ Climb \/ Rmdir

Next == Server \/ Throws \/ LoseLease \/ Edit \/ Stop

Spec == Init /\ [][Next]_vars

-----------------------------------------------------------------------------
Searched(r, p) == /\ IsPrefix(r, p)
                  /\ \A n \in Len(r) + 1 .. Len(p) - 1 : Kept(p[n])

Imports(p, t) == \E b \in disk[p].imports : t \in {b, Append(b, Last(t)), b \o <<"index", Last(t)>>}

(* A batch that was deleted leaves no source of the same root that imports one*)
(* of its files, whatever was kept from earlier searches, except what was     *)
(* forced and what editors write after the search has passed.                 *)
NothingIsOrphaned == result = "deleted" =>
    \A n \in DOMAIN batch : LET t == batch[n].path IN
        Capable(t) /\ ~batch[n].force =>
           \A p \in Paths \ (Targets \cup touched) :
               disk[p] # None /\ Capable(p) /\ Searched(RootOf(t), p) => ~Imports(p, t)

(* Without editors: a batch that was deleted is gone as a whole with every    *)
(* directory it leaves empty, unless the cleanup says otherwise; one that was *)
(* not leaves every file in place, or a record for recovery.                  *)
DeletionIsWhole ==
    /\ result = "deleted" <=> journal = "succeeded"
    /\ pc = "end" /\ edits = 0 =>
          /\ result = "deleted" =>
                /\ \A t \in Targets : disk[t] = None
                /\ cleanup = "none" =>
                      \A n \in DOMAIN batch : \A d \in ToSet(Ancestors(batch[n].path)) : d \in dirs => ~Empty(d)
          /\ result # "deleted" =>
                \/ journal \in {"running", "recovery"}
                \/ removed = {} /\ \A t \in DOMAIN blobs : disk[t] = blobs[t]

(* A batch recorded as rolled back has every file again, unless an editor     *)
(* wrote it since.                                                            *)
RollbackRestores == journal = "rolled-back" =>
    \A t \in DOMAIN blobs \ touched : disk[t] = blobs[t]

(* What file_delete promises.                                                 *)
DeletionsAreSafe == NothingIsOrphaned /\ DeletionIsWhole /\ RollbackRestores
=============================================================================
