-------------------------- MODULE StoreMaintenance --------------------------
(***************************************************************************)
(* What is done to a store as a whole.                                     *)
(*                                                                         *)
(* The copy of a store to another place: relocationPreview and relocate of *)
(* storage/store.ts, copyRelocationSnapshot of storage/relocation.ts. Each *)
(* of the two holds the store's lease, between them any process may write; *)
(* a lease that ran out lets others write while the copy goes on.          *)
(*                                                                         *)
(* Opening a store (initialize() of intelligence/storage/store.ts): tables *)
(* that do not exist are created, the column for publications is added to  *)
(* tables of the first schema, every tagged row gets its membership in     *)
(* generation_artifacts, and a retention policy is written.  One process   *)
(* at a time holds the store's lease; it may die or fail between any two   *)
(* writes, and the next one opens what there is.  A reader opens without   *)
(* the lease.                                                              *)
(***************************************************************************)
EXTENDS Integers, Sequences, FiniteSets, SequencesExt

CONSTANTS Names,    \* files a store may have
          Versions, \* contents of a file
          Places,   \* [support, relation]: the destinations a call may name
          MaxFaults,\* bound: expired leases, I/O errors, crashes
          MaxWrites,\* bound: writes of other processes
          None

CONSTANTS Tables,      \* all tables, in the order of ALL_TABLES
          Generation,  \* those whose rows belong to generations, in their order
          Stores,      \* what may be on disk: [schema, rows]
          MaxFailures  \* bound: openings that fail or die

VARIABLES place,
          source,   \* the files of the store, a function on some Names
          preview,  \* the files of the preview
          temporary,\* None or the files copied so far
          dest,     \* what is at the destination
          copied,   \* files of the preview gone through
          lease,    \* is the lease the relocation's
          stage, result,
          current,  \* history: the source when the lease was fenced
          theirs,   \* history: somebody put a directory with files there
          faults, writes

VARIABLES schema,      \* of each table: "absent", "legacy" or "current"
          rows,        \* <<table, key, tag>>; the tag names a publication or None
          links,       \* <<table, key, publication>>
          tagging,     \* the record of the first migration, or None
          linking,     \* the record of the second one, or None
          policy,      \* whether there is a retention policy
          pc, k,
          legacy,      \* the tables to migrate, in order
          migrated,    \* those that are done, and the links written
          reader,      \* "closed", "looking", "open" or "refused"
          looked,      \* tables the reader has checked
          failures

vars == <<place, source, preview, temporary, dest, copied, lease, stage, result, current, theirs, faults, writes>>

-----------------------------------------------------------------------------
(* The relocation.                                                         *)
Empty == [kind |-> "empty", files |-> <<>>]
Nothing == [kind |-> "none", files |-> <<>>]

(* The rows of the tables, as far as the files tell.                         *)
TableCounts(files) == Cardinality(DOMAIN files)

Fault == faults < MaxFaults /\ faults' = faults + 1

Fail == stage' = "end" /\ result' = "failed"

(* assertSupportedStoragePath, validateRelocationCoordinates.                *)
Supported == place.support \in {"local", "proven"}
Apart == place.relation = "disjoint"

Preview ==
    /\ stage = "preview"
    /\ IF Supported /\ Apart THEN preview' = source /\ stage' = "relocate" /\ UNCHANGED result
       ELSE Fail /\ UNCHANGED preview
    /\ UNCHANGED <<place, source, temporary, dest, copied, lease, current, theirs, faults, writes>>

(* The preview is compared before the lease and again under it.              *)
Compare ==
    /\ stage = "relocate"
    /\ IF TableCounts(source) = TableCounts(preview) THEN stage' = "lock" /\ UNCHANGED result ELSE Fail
    /\ UNCHANGED <<place, source, preview, temporary, dest, copied, lease, current, theirs, faults, writes>>

Lock ==
    /\ stage = "lock"
    /\ IF source = preview THEN lease' = TRUE /\ stage' = "make" /\ UNCHANGED result ELSE Fail /\ UNCHANGED lease
    /\ UNCHANGED <<place, source, preview, temporary, dest, copied, current, theirs, faults, writes>>

Make ==
    /\ stage = "make"
    /\ IF dest.kind = "none" THEN temporary' = [n \in {} |-> 0] /\ stage' = "copy" /\ UNCHANGED result
       ELSE Fail /\ UNCHANGED temporary
    /\ UNCHANGED <<place, source, preview, dest, copied, lease, current, theirs, faults, writes>>

(* One file; its content is compared with the preview's.                     *)
Copy ==
    /\ stage = "copy" /\ copied # DOMAIN preview
    /\ \E n \in DOMAIN preview \ copied :
          IF n \in DOMAIN source /\ source[n] = preview[n]
          THEN /\ temporary' = [m \in DOMAIN temporary \cup {n} |-> preview[m]]
               /\ copied' = copied \cup {n} /\ UNCHANGED stage
          ELSE stage' = "discard" /\ UNCHANGED <<temporary, copied>>
    /\ UNCHANGED <<place, source, preview, dest, lease, result, current, theirs, faults, writes>>

(* The files and the tables of the copy are compared with the preview's.     *)
Verify ==
    /\ stage = "copy" /\ copied = DOMAIN preview
    /\ stage' = IF temporary = preview /\ TableCounts(temporary) = TableCounts(preview) THEN "fence" ELSE "discard"
    /\ UNCHANGED <<place, source, preview, temporary, dest, copied, lease, result, current, theirs, faults, writes>>

(* Mutant: the copy is published without a look at the lease.                *)
FenceSkipped ==
    /\ stage = "fence"
    /\ stage' = "look"
    /\ current' = source
    /\ UNCHANGED <<place, source, preview, temporary, dest, copied, lease, result, theirs, faults, writes>>

Fence ==
    /\ stage = "fence"
    /\ stage' = IF lease THEN "look" ELSE "discard"
    /\ current' = source
    /\ UNCHANGED <<place, source, preview, temporary, dest, copied, lease, result, theirs, faults, writes>>

Look ==
    /\ stage = "look"
    /\ stage' = IF dest.kind = "none" THEN "rename" ELSE "discard"
    /\ UNCHANGED <<place, source, preview, temporary, dest, copied, lease, result, current, theirs, faults, writes>>

(* A directory can take the place of an empty one and of no other.           *)
Rename ==
    /\ stage = "rename"
    /\ IF dest.kind \in {"none", "empty"}
       THEN /\ dest' = [kind |-> "copy", files |-> temporary] /\ temporary' = None
            /\ stage' = "end" /\ result' = "relocated" /\ lease' = FALSE
       ELSE stage' = "discard" /\ UNCHANGED <<dest, temporary, result, lease>>
    /\ UNCHANGED <<place, source, preview, copied, current, theirs, faults, writes>>

Discard ==
    /\ stage = "discard"
    /\ temporary' = None /\ lease' = FALSE
    /\ Fail
    /\ UNCHANGED <<place, source, preview, dest, copied, current, theirs, faults, writes>>

IoError ==
    /\ stage \in {"copy", "fence", "look", "rename"} /\ Fault
    /\ stage' = "discard"
    /\ UNCHANGED <<place, source, preview, temporary, dest, copied, lease, result, current, theirs, writes>>

Crash ==
    /\ stage # "end" /\ Fault
    /\ stage' = "end" /\ lease' = FALSE
    /\ UNCHANGED <<place, source, preview, temporary, dest, copied, result, current, theirs, writes>>

(* Another process takes the lease over.                                     *)
Expire ==
    /\ lease /\ stage # "end" /\ Fault
    /\ lease' = FALSE
    /\ UNCHANGED <<place, source, preview, temporary, dest, copied, stage, result, current, theirs, writes>>

Write ==
    /\ ~lease /\ stage # "end" /\ writes < MaxWrites /\ writes' = writes + 1
    /\ \E n \in Names, v \in Versions : source' = [m \in DOMAIN source \cup {n} |-> IF m = n THEN v ELSE source[m]]
    /\ UNCHANGED <<place, preview, temporary, dest, copied, lease, stage, result, current, theirs, faults>>

Appear ==
    /\ dest.kind = "none" /\ stage # "end" /\ writes < MaxWrites /\ writes' = writes + 1
    /\ dest' \in {Empty, [Empty EXCEPT !.kind = "foreign"]}
    /\ theirs' = (dest'.kind = "foreign")
    /\ UNCHANGED <<place, source, preview, temporary, copied, lease, stage, result, current, faults>>

Init ==
    /\ place \in Places
    /\ source \in UNION {[S -> Versions] : S \in SUBSET Names \ {{}}}
    /\ preview = None /\ temporary = None /\ dest = Nothing /\ copied = {}
    /\ lease = FALSE /\ stage = "preview" /\ result = "none"
    /\ current = None /\ theirs = FALSE /\ faults = 0 /\ writes = 0

Stop == stage = "end" /\ UNCHANGED vars

Next == \/ Preview \/ Compare \/ Lock \/ Make \/ Copy \/ Verify \/ Fence \/ Look \/ Rename \/ Discard
        \/ IoError \/ Crash \/ Expire \/ Write \/ Appear \/ Stop

Spec == Init /\ [][Next]_vars

(* A copy that was published holds what the preview listed and the store held *)
(* when the lease was last proved, whoever wrote meanwhile; it is never there *)
(* in part, it replaces no files, and a failure leaves no copy behind.        *)
RelocationIsWhole ==
    /\ dest.kind = "copy" => dest.files = preview /\ dest.files = current
    /\ theirs => dest.kind = "foreign"
    /\ result = "failed" => temporary = None /\ dest.kind # "copy"
    /\ result = "relocated" => Supported /\ Apart

-----------------------------------------------------------------------------
(* The opening.                                                            *)
disk == <<schema, rows, links, tagging, linking, policy>>
memory == <<k, legacy, migrated>>
opening == <<disk, pc, memory, reader, looked, failures>>

MigrationInit ==
    /\ \E s \in Stores : schema = s.schema /\ rows = s.rows
    /\ links = {} /\ tagging = None /\ linking = None /\ policy = FALSE
    /\ pc = "closed" /\ k = 0 /\ legacy = << >> /\ migrated = {}
    /\ reader = "closed" /\ looked = {} /\ failures = 0

Done == UNCHANGED <<reader, looked, failures>>

----------------------------------------------------------------------------
Open == /\ pc = "closed" /\ pc' = "create" /\ k' = 1 /\ UNCHANGED <<disk, legacy, migrated>> /\ Done

(* Tables are created one after another, each under the fence.             *)
Create == /\ pc = "create"
          /\ IF k > Len(Tables) THEN pc' = "inspect" /\ UNCHANGED <<k, schema>>
             ELSE /\ k' = k + 1 /\ UNCHANGED pc
                  /\ schema' = IF schema[Tables[k]] = "absent" THEN [schema EXCEPT ![Tables[k]] = "current"] ELSE schema
          /\ UNCHANGED <<rows, links, tagging, linking, policy, legacy, migrated>> /\ Done

(* The migration is of the tables that lack the column now and of those    *)
(* that an interrupted migration named.                                    *)
Legacy == SelectSeq(Generation, LAMBDA t : schema[t] = "legacy")
Targets == (IF tagging = None THEN {} ELSE tagging.targets) \cup ToSet(Legacy)

Inspect == /\ pc = "inspect" /\ legacy' = Legacy /\ k' = 1
           /\ IF Legacy # << >> \/ (tagging # None /\ tagging.state = "running")
              THEN /\ pc' = "tag" /\ migrated' = Targets \ ToSet(Legacy)
                   /\ tagging' = [state |-> "running", targets |-> Targets, migrated |-> migrated']
              ELSE pc' = "membership" /\ UNCHANGED <<tagging, migrated>>
           /\ UNCHANGED <<schema, rows, links, linking, policy>> /\ Done

(* The column comes first, the record of it after.                         *)
AddColumn == /\ pc = "tag" /\ k <= Len(legacy) /\ pc' = "tagged"
             /\ schema' = [schema EXCEPT ![legacy[k]] = "current"]
             /\ migrated' = migrated \cup {legacy[k]}
             /\ UNCHANGED <<rows, links, tagging, linking, policy, k, legacy>> /\ Done

Record == /\ pc = "tagged" /\ pc' = "tag" /\ k' = k + 1
          /\ tagging' = [tagging EXCEPT !.migrated = migrated]
          /\ UNCHANGED <<schema, rows, links, linking, policy, legacy, migrated>> /\ Done

Tagged == /\ pc = "tag" /\ k > Len(legacy) /\ pc' = "membership"
          /\ tagging' = [tagging EXCEPT !.state = "completed"]
          /\ UNCHANGED <<schema, rows, links, linking, policy, memory>> /\ Done

(* Mutant: a migration that was begun counts.                              *)
LinkedOnceBegun == linking # None

Linked == linking # None /\ linking.state = "completed"

Membership == /\ pc = "membership" /\ k' = 1 /\ migrated' = {}
              /\ IF Linked THEN pc' = "policy" /\ UNCHANGED linking
                 ELSE pc' = "link" /\ linking' = [state |-> "running", links |-> 0]
              /\ UNCHANGED <<schema, rows, links, tagging, policy, legacy>> /\ Done

(* The links are written without replacing those there are.                *)
Owed(t) == {r \in rows : r[1] = t /\ r[3] # None}

Link == /\ pc = "link" /\ k <= Len(Generation) /\ pc' = "linked"
        /\ links' = links \cup Owed(Generation[k]) /\ migrated' = migrated \cup Owed(Generation[k])
        /\ UNCHANGED <<schema, rows, tagging, linking, policy, k, legacy>> /\ Done

RecordLinks == /\ pc = "linked" /\ pc' = "link" /\ k' = k + 1
               /\ linking' = [linking EXCEPT !.links = Cardinality(migrated)]
               /\ UNCHANGED <<schema, rows, links, tagging, policy, legacy, migrated>> /\ Done

LinksDone == /\ pc = "link" /\ k > Len(Generation) /\ pc' = "policy"
             /\ linking' = [linking EXCEPT !.state = "completed"]
             /\ UNCHANGED <<schema, rows, links, tagging, policy, memory>> /\ Done

Retention == /\ pc = "policy" /\ pc' = "open" /\ policy' = TRUE
             /\ UNCHANGED <<schema, rows, links, tagging, linking, memory>> /\ Done

OpeningFails ==
    /\ pc \notin {"closed", "open"} /\ failures < MaxFailures /\ failures' = failures + 1
    /\ pc' = "closed" /\ k' = 0 /\ legacy' = << >> /\ migrated' = {}
    /\ UNCHANGED <<disk, reader, looked>>

----------------------------------------------------------------------------
(* writeRowsUnlocked of an immutable row without a tag: a row of the same  *)
(* key keeps the tag a publication of the old protocol gave it; a new row  *)
(* belongs to its reservation by a link, written with it.                  *)
WriteRow ==
    /\ pc = "open" /\ \E t \in ToSet(Generation), key \in {r[2] : r \in rows} :
         rows' = IF \E r \in rows : r[1] = t /\ r[2] = key THEN rows ELSE rows \cup {<<t, key, None>>}
    /\ UNCHANGED <<schema, links, tagging, linking, policy, pc, memory>> /\ Done

CloseStore ==
    /\ pc = "open" /\ failures < MaxFailures /\ failures' = failures + 1 /\ pc' = "closed"
    /\ UNCHANGED <<disk, memory, reader, looked>>

(* open() with access "read-only": the recovery table first, then all      *)
(* tables by name, then the schema of one after another.                   *)
LookForTables ==
    /\ reader = "closed" /\ schema["coordinator_recovery"] # "absent"
    /\ reader' = IF \A t \in ToSet(Tables) : schema[t] # "absent" THEN "looking" ELSE "refused"
    /\ looked' = {} /\ UNCHANGED <<disk, pc, memory, failures>>

Check == /\ reader = "looking" /\ Cardinality(looked) < Len(Tables)
         /\ LET t == Tables[Cardinality(looked) + 1] IN
              IF schema[t] = "current" THEN looked' = looked \cup {t} /\ UNCHANGED reader
              ELSE reader' = "refused" /\ UNCHANGED looked
         /\ UNCHANGED <<disk, pc, memory, failures>>

Read == /\ reader = "looking" /\ Cardinality(looked) = Len(Tables) /\ reader' = "open"
        /\ UNCHANGED <<disk, pc, memory, looked, failures>>

Opened == pc = "open" /\ reader \in {"open", "refused"} /\ UNCHANGED opening

MigrationNext ==
    \/ Open \/ Create \/ Inspect \/ AddColumn \/ Record \/ Tagged
    \/ Membership \/ Link \/ RecordLinks \/ LinksDone \/ Retention \/ OpeningFails
    \/ WriteRow \/ CloseStore \/ LookForTables \/ Check \/ Read \/ Opened

----------------------------------------------------------------------------
(* A record of a migration tells the truth whatever died in between: what  *)
(* it calls migrated is, and once it is completed so is every table and    *)
(* every tagged row has its membership, by which collection and readers    *)
(* know that it is in use.                                                 *)
MigrationsAreRecorded ==
    /\ tagging # None =>
          /\ \A t \in tagging.migrated : schema[t] = "current"
          /\ tagging.migrated \subseteq tagging.targets
          /\ tagging.state = "completed" => tagging.migrated = tagging.targets
    /\ Linked => links = {r \in rows : r[3] # None} /\ linking.links = Cardinality(links)

(* A store that is open is of the current schema, whichever openings       *)
(* failed before, and a column that was missing was a migration on record. *)
OpenMeansCurrent ==
    /\ pc = "open" \/ reader = "open" => \A t \in ToSet(Tables) : schema[t] = "current"
    /\ pc = "open" => Linked /\ policy /\ (tagging # None => tagging.state = "completed")

StoresAreMigrated == MigrationsAreRecorded /\ OpenMeansCurrent
=============================================================================
