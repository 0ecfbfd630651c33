--------------------------- MODULE ConfigRegistry ---------------------------
(***************************************************************************)
(* The configuration of a request, in two parts.                           *)
(*                                                                         *)
(* How it is resolved (config/index.ts, config/identity.ts): the roots a   *)
(* request selects, the key the registry keeps the result under, and the   *)
(* layers -- defaults, the global file, the project's file, the            *)
(* environment -- that are merged section by section.  A section has       *)
(* settings of its own and one nested table, as safety has its hook; a     *)
(* setting is a value, the value None when a layer does not have it.       *)
(* Parsing, validation and the reading of files are left out.              *)
(*                                                                         *)
(* The registry (config/registry.ts) and the calls that edit a             *)
(* configuration file (runtime/config-write.ts, config/edit.ts).  A        *)
(* resolution reads several files one after another while others write     *)
(* them, so it is bracketed by two collections of fingerprints and done    *)
(* again, up to three times, when they differ.  One registry entry, as of  *)
(* one server; the eviction of entries is left out.  Contents are what     *)
(* edits they hold; every write makes a new version, which is what a       *)
(* fingerprint tells apart.  Loads, reconciliations and edits are separate *)
(* steps wherever the code awaits.                                         *)
(***************************************************************************)
EXTENDS Integers, FiniteSets, Sequences

CONSTANTS
  Environment,     \* values of the three variables that select roots
  Options,         \* what callers pass: client roots, directories, paths
  Layers,          \* the layers to merge, by name
  None,            \* no value
  File,            \* numbers: the order in which a collection looks at them
  Edited,          \* the file the editing calls write
  Edit,            \* the calls
  Tool,            \* the edits that are calls of this server's tools: they
                   \* hold the lock of the file, and wait for a reload
  Attempts,        \* of one resolution: 3 in the code
  MaxWrites,       \* bound: writes that are no edits
  MaxReloads       \* bound: reloads asked for by others

ConfigRegistryAssumption ==
  /\ File \subseteq Nat /\ Edited \in File /\ Tool \subseteq Edit
  /\ Attempts \in Nat \ {0}
  /\ MaxWrites \in Nat /\ MaxReloads \in Nat

VARIABLES
  disk,            \* the files
  writes, reloads, \* how often the bounded steps have happened
  entry,           \* the registry's entry: snapshot, timer, queued reloads
  load,            \* the resolution in progress
  check,           \* the reconciliation in progress
  edit,            \* the editing calls
  committed,       \* history: edits committed since the last other write
  past,            \* history: the versions that were on disk together
  fresh,           \* history: a reconciliation saw the files as they are
  env, options, layers   \* a request to resolve, or layers to merge

registryVars == <<disk, writes, reloads, entry, load, check, edit, committed,
                  past, fresh>>

----------------------------------------------------------------------------
(* Resolution.                                                             *)
resolutionVars == <<env, options, layers>>

ResolutionInit ==
  \/ env \in Environment /\ options \in Options /\ layers = << >>
  \/ env = << >> /\ options = << >> /\ layers \in Layers
ResolutionNext == UNCHANGED resolutionVars

----------------------------------------------------------------------------
(* The roots of a request.  An explicit directory, the server's otherwise. *)
Cwd(o) == IF o.cwd = None THEN o.launch ELSE o.cwd

(* hostProjectRootCandidate: the host's project, if nothing else selects.  *)
HostRoot(o) ==
  IF o.cwd = None /\ o.client = << >> /\ env.root = None /\ env.roots = << >>
  THEN env.host ELSE None

(* configuredSelectionRoots: roots that are named before anything is read. *)
Selection(o) ==
  IF o.client # << >> THEN o.client
  ELSE IF env.root # None THEN <<env.root>> ELSE env.roots

Roots(o) ==
  [candidates |-> IF Selection(o) # << >> THEN Selection(o)
                  ELSE IF HostRoot(o) # None THEN <<HostRoot(o)>> ELSE <<Cwd(o)>>,
   trusted |-> IF o.client # << >> THEN {o.client[i] : i \in DOMAIN o.client}
               ELSE IF env.root # None THEN {env.root}
               ELSE IF env.roots = << >> /\ HostRoot(o) # None THEN {HostRoot(o)}
               ELSE {Cwd(o)}]

(* The candidates a path of the request is in, or the first one.           *)
Matched(candidates, paths) ==
  LET hit == SelectSeq(candidates, LAMBDA d : d \in paths)
  IN IF hit = << >> THEN <<candidates[1]>> ELSE hit

Resolution(o) ==
  [roots |-> Roots(o), matched |-> Matched(Roots(o).candidates, o.paths)]

(* Mutant: only the directory itself is part of the key.                   *)
ExplicitNever(o) == None

Explicit(o) ==
  IF Selection(o) = << >> /\ env.host # None THEN o.cwd # None ELSE None

(* configurationResolutionKey: without anything that resolution finds out. *)
KeyOf(o) ==
  [client |-> o.client,
   cwd |-> IF o.client = << >> \/ env.relative THEN Cwd(o) ELSE None,
   explicit |-> Explicit(o),
   selected |-> IF Selection(o) = << >> THEN <<Cwd(o)>>
                ELSE Matched(Selection(o), o.paths)]

----------------------------------------------------------------------------
(* The layers.                                                             *)
Order == <<"default", "global", "project", "environment">>

Over(new, old) == [k \in DOMAIN old |-> IF new[k] = None THEN old[k] ELSE new[k]]

(* Mutant: the section is spread over the old one, its table with it.      *)
ReplacedTable(new, old) == IF new = None THEN old ELSE new

NestedTable(new, old) ==
  IF new = None THEN old ELSE IF old = None THEN new ELSE Over(new, old)

Spread(new, old) ==
  IF new = None THEN old
  ELSE IF old = None THEN new
  ELSE [own |-> IF new.own = None THEN old.own ELSE new.own,
        table |-> NestedTable(new.table, old.table)]

(* A dialect of its own drops the variant of another dialect.              *)
Sql(new, old) ==
  LET dialect == IF new.dialect = None THEN old.dialect ELSE new.dialect
      changed == new.dialect # None /\ dialect # old.dialect
  IN [dialect |-> dialect,
      variant |-> IF new.variant # None THEN new.variant
                  ELSE IF changed THEN None ELSE old.variant]

MergeLayer(new, old) ==
  [section |-> Spread(new.section, old.section),
   sql |-> Sql(new.sql, old.sql),
   filesystem |-> IF new.filesystem = None THEN old.filesystem ELSE new.filesystem,
   telemetry |-> IF new.telemetry = None THEN old.telemetry ELSE new.telemetry,
   version |-> IF new.version = None THEN old.version ELSE new.version]

Merged[n \in 1 .. 4] ==
  IF n = 1 THEN layers[Order[1]] ELSE MergeLayer(layers[Order[n]], Merged[n - 1])

(* A setting of a layer, as leaf() reads it.                               *)
Leaves == {"own", "x", "y", "dialect", "variant", "filesystem"}

Leaf(v, name) ==
  CASE name = "own" -> IF v.section = None THEN None ELSE v.section.own
    [] name \in {"x", "y"} -> IF v.section = None \/ v.section.table = None THEN None
                              ELSE v.section.table[name]
    [] name \in {"dialect", "variant"} -> v.sql[name]
    [] OTHER -> v[name]

(* configProvenance: the last layer that has the setting; none when a      *)
(* later layer has dropped it.                                             *)
Provenance(name) ==
  LET from[n \in 0 .. 4] ==
        IF n = 0 \/ Leaf(Merged[n], name) = None THEN None
        ELSE IF Leaf(layers[Order[n]], name) # None THEN Order[n]
        ELSE from[n - 1]
  IN from[4]

(* resolvedConfiguration: version 1 as soon as a file is of version 1; a   *)
(* global file that ends telemetry ends it; whose word the unrestricted    *)
(* access is.                                                              *)
FileVersions == {layers[l].version : l \in {"global", "project"}} \ {None}
Version == IF 1 \in FileVersions THEN 1 ELSE Merged[4].version

TelemetryEnabled == layers["global"].telemetry # FALSE /\ Merged[4].telemetry # FALSE

FilesystemAuthority ==
  IF Merged[4].filesystem = "unrestricted" /\ layers["global"].filesystem = "unrestricted"
  THEN "global"
  ELSE IF Provenance("filesystem") = None THEN "default" ELSE Provenance("filesystem")

----------------------------------------------------------------------------
(* Two calls that share a registry entry would resolve to the same roots,  *)
(* in the same environment: the key is made of what the callers pass, the  *)
(* roots of what was found.                                                *)
KeysAreFaithful ==
  \A o \in Options : KeyOf(o) = KeyOf(options) => Resolution(o) = Resolution(options)

(* Every setting is that of the last layer that has it, however deep it    *)
(* is, and that layer is named as its source; but for the variant, which   *)
(* must not be of another dialect than the one in force.                   *)
Writers(name) == {n \in 1 .. 4 : Leaf(layers[Order[n]], name) # None}
LastOf(S) == CHOOSE n \in S : \A k \in S : k <= n

LastWriterWins ==
  \A name \in Leaves \ {"variant"} :
    LET W == Writers(name)
    IN IF W = {} THEN Leaf(Merged[4], name) = None /\ Provenance(name) = None
       ELSE /\ Leaf(Merged[4], name) = Leaf(layers[Order[LastOf(W)]], name)
            /\ Provenance(name) = Order[LastOf(W)]

DialectAt(n) == Leaf(Merged[n], "dialect")

VariantFitsDialect ==
  LET w == LastOf(Writers("variant"))
  IN Leaf(Merged[4], "variant") # None =>
       /\ Leaf(Merged[4], "variant") = Leaf(layers[Order[w]], "variant")
       /\ \A n \in w .. 4 : DialectAt(n) = DialectAt(4)
       /\ Provenance("variant") = Order[w]

(* A project cannot take more than the user's own file gives: telemetry    *)
(* the user has ended, the authority to lift the file boundary, or the     *)
(* meaning of a file of version 1.                                         *)
ProjectsStayWithin ==
  /\ TelemetryEnabled => layers["global"].telemetry # FALSE
  /\ Merged[4].filesystem = "unrestricted" /\ FilesystemAuthority # "project"
       => layers["global"].filesystem = "unrestricted"
  /\ (/\ layers["global"].filesystem = "unrestricted"
      /\ layers["project"].filesystem \in {None, "unrestricted"})
        => FilesystemAuthority = "global"
  /\ Version = 2 <=> FileVersions = {2}

ConfigurationResolves ==
  IF layers = << >> THEN KeysAreFaithful
  ELSE LastWriterWins /\ VariantFitsDialect /\ ProjectsStayWithin

----------------------------------------------------------------------------
(* The registry.                                                           *)
Versions == [f \in File |-> disk[f].version]
NoLoad   == [step |-> "none", attempt |-> 0, force |-> FALSE, before |-> << >>,
             read |-> << >>, after |-> << >>]
NoCheck  == [on |-> FALSE, of |-> 0]
Nothing  == [generation |-> 0, healthy |-> FALSE, unstable |-> FALSE,
             prints |-> << >>, config |-> << >>]

Init ==
  /\ disk = [f \in File |-> [version |-> 1, edits |-> {}, valid |-> TRUE]]
  /\ writes = 0 /\ reloads = 0
  /\ entry = [snapshot |-> Nothing, timer |-> FALSE, force |-> FALSE,
              event |-> FALSE, queue |-> << >>]
  /\ load = NoLoad /\ check = NoCheck
  /\ edit = [e \in Edit |-> [step |-> "idle", expected |-> {}, awaits |-> 0]]
  /\ committed = {} /\ past = {Versions} /\ fresh = FALSE

HasSnapshot == entry.snapshot.generation > 0
Loading     == load.step # "none"
Quiet       == ~Loading /\ entry.queue = << >> /\ ~entry.timer /\ ~check.on

----------------------------------------------------------------------------
(* The files.  A watcher of the last snapshot's directories reports it.    *)
Written(f, content) ==
  /\ disk' = [disk EXCEPT ![f] = content]
  /\ past' = past \cup {[Versions EXCEPT ![f] = content.version]}
  /\ entry' = [entry EXCEPT !.event = @ \/ HasSnapshot]
  /\ fresh' = FALSE

NextVersion(f) == disk[f].version + 1

Write(f) ==
  /\ writes < MaxWrites /\ writes' = writes + 1
  /\ \E valid \in BOOLEAN :
       Written(f, [version |-> NextVersion(f), edits |-> {}, valid |-> valid])
  /\ committed' = IF f = Edited THEN {} ELSE committed
  /\ UNCHANGED <<reloads, load, check, edit>>

----------------------------------------------------------------------------
(* #queueReload: reloads run one after another; the timer is spent.        *)
Queued(force) ==
  [entry EXCEPT !.timer = FALSE, !.force = FALSE,
                !.queue = Append(@, force \/ entry.force)]

(* The first use of the entry, invalidate() after a stored approval, or    *)
(* reload() by a call.                                                     *)
Use ==
  /\ ~HasSnapshot /\ ~Loading /\ entry.queue = << >>
  /\ entry' = Queued(FALSE)
  /\ UNCHANGED <<disk, writes, reloads, load, check, edit, committed, past, fresh>>

Invalidate ==
  /\ HasSnapshot /\ reloads < MaxReloads /\ reloads' = reloads + 1
  /\ entry' = Queued(TRUE)
  /\ UNCHANGED <<disk, writes, load, check, edit, committed, past, fresh>>

TimerFires ==
  /\ entry.timer
  /\ entry' = Queued(FALSE)
  /\ UNCHANGED <<disk, writes, reloads, load, check, edit, committed, past, fresh>>

(* stableResolution: fingerprints, the files, fingerprints again.          *)
StartLoad ==
  /\ ~Loading /\ entry.queue # << >>
  /\ load' = [NoLoad EXCEPT !.step = "before", !.attempt = 1, !.force = Head(entry.queue)]
  /\ UNCHANGED <<disk, writes, reloads, entry, check, edit, committed, past, fresh>>

Extend(fn, f, value) == [x \in DOMAIN fn \cup {f} |-> IF x = f THEN value ELSE fn[x]]

Turn(f, seen) == f \notin DOMAIN seen /\ \A h \in File \ DOMAIN seen : f <= h

StatBefore(f) ==
  /\ load.step = "before" /\ Turn(f, load.before)
  /\ LET before == Extend(load.before, f, disk[f].version)
     IN load' = [load EXCEPT !.before = before,
                             !.step = IF DOMAIN before = File THEN "read" ELSE @]
  /\ UNCHANGED <<disk, writes, reloads, entry, check, edit, committed, past, fresh>>

Read(f) ==
  /\ load.step = "read" /\ Turn(f, load.read)
  /\ LET read == Extend(load.read, f, disk[f])
     IN load' = [load EXCEPT !.read = read,
                             !.step = IF DOMAIN read = File THEN "after" ELSE @]
  /\ UNCHANGED <<disk, writes, reloads, entry, check, edit, committed, past, fresh>>

StatAfter(f) ==
  /\ load.step = "after" /\ Turn(f, load.after)
  /\ load' = [load EXCEPT !.after = Extend(load.after, f, disk[f].version)]
  /\ UNCHANGED <<disk, writes, reloads, entry, check, edit, committed, past, fresh>>

Collected == load.step = "after" /\ DOMAIN load.after = File

(* Mutant: the fingerprints of before count, however old they are.         *)
StableByCount == DOMAIN load.before = DOMAIN load.after

Stable == load.before = load.after

Again ==
  /\ Collected /\ ~Stable /\ load.attempt < Attempts
  /\ load' = [NoLoad EXCEPT !.step = "before", !.attempt = load.attempt + 1,
                            !.force = load.force]
  /\ UNCHANGED <<disk, writes, reloads, entry, check, edit, committed, past, fresh>>

(* #reload: a snapshot is replaced when anything differs from it, or by    *)
(* force.  An unhealthy one keeps the last configuration for diagnostics.  *)
Resolved ==
  LET healthy == Stable /\ \A f \in File : load.read[f].valid
  IN [generation |-> entry.snapshot.generation + 1,
      healthy |-> healthy,
      unstable |-> ~Stable,
      prints |-> load.after,
      config |-> IF healthy THEN load.read ELSE entry.snapshot.config]

Replaces(s) ==
  \/ load.force
  \/ ~HasSnapshot
  \/ [s EXCEPT !.generation = entry.snapshot.generation] # entry.snapshot

Finish ==
  /\ Collected /\ (Stable \/ load.attempt = Attempts)
  /\ load' = NoLoad
  /\ entry' = [entry EXCEPT !.queue = Tail(@),
                 !.snapshot = IF Replaces(Resolved) THEN Resolved ELSE @]
  /\ edit' = [e \in Edit |-> [edit[e] EXCEPT !.awaits = IF @ = 0 THEN 0 ELSE @ - 1]]
  /\ fresh' = (fresh /\ ~Replaces(Resolved))
  /\ UNCHANGED <<disk, writes, reloads, check, committed, past>>

----------------------------------------------------------------------------
(* reconcile(): on a watcher's event and every thirty seconds, the latter  *)
(* here when nothing else is under way.  A finding about a snapshot that   *)
(* has been replaced meanwhile is dropped.                                 *)
StartCheck ==
  /\ HasSnapshot /\ ~check.on
  /\ entry.event \/ Quiet
  /\ check' = [on |-> TRUE, of |-> entry.snapshot.generation]
  /\ entry' = [entry EXCEPT !.event = FALSE]
  /\ fresh' = TRUE
  /\ UNCHANGED <<disk, writes, reloads, load, edit, committed, past>>

EndCheck ==
  /\ check.on /\ check' = NoCheck
  /\ LET differs == entry.snapshot.prints # Versions
         same    == entry.snapshot.generation = check.of
     IN entry' = [entry EXCEPT !.timer = @ \/ (same /\ differs)]
  /\ UNCHANGED <<disk, writes, reloads, load, edit, committed, past, fresh>>

----------------------------------------------------------------------------
(* An edit: the call needs a healthy configuration; a tool holds the lock  *)
(* of the file from before it reads it.                                    *)
Locked == \E e \in Tool : edit[e].step \in {"loaded", "written"}

(* An edit of a server that is asked, or stored approvals and the command  *)
(* line, which take no lock.                                               *)
LoadTarget(e) ==
  /\ edit[e].step = "idle" /\ disk[Edited].valid
  /\ e \in Tool => ~Locked /\ entry.snapshot.healthy
  /\ edit' = [edit EXCEPT ![e].step = "loaded", ![e].expected = disk[Edited]]
  /\ UNCHANGED <<disk, writes, reloads, entry, load, check, committed, past, fresh>>

(* Mutant: the file is replaced whatever it holds by now.                  *)
UncheckedTarget(e) == TRUE

(* Nobody has written since: the content is compared under the guard.      *)
SameTarget(e) == disk[Edited] = edit[e].expected

(* writeConfigSource, and reload() for the tools: the call waits for the   *)
(* reload it has queued behind those that are under way.                   *)
Commit(e) ==
  /\ edit[e].step = "loaded" /\ SameTarget(e)
  /\ Written(Edited, [edit[e].expected EXCEPT !.version = NextVersion(Edited),
                                               !.edits = @ \cup {e}])
  /\ committed' = committed \cup {e}
  /\ edit' = [edit EXCEPT ![e].step = IF e \in Tool THEN "written" ELSE "done"]
  /\ UNCHANGED <<writes, reloads, load, check>>

(* The content differs, or another commit holds the guard.                 *)
Conflict(e) ==
  /\ edit[e].step = "loaded"
  /\ ~SameTarget(e) \/ \E o \in Edit \ {e} : edit[o].step = "loaded"
  /\ edit' = [edit EXCEPT ![e].step = "done"]
  /\ UNCHANGED <<disk, writes, reloads, entry, load, check, committed, past, fresh>>

(* Mutant: the call takes the reload that is under way for its own.        *)
OwnReloadJoins == IF entry.queue = << >> THEN Queued(FALSE) ELSE entry

OwnReload == Queued(FALSE)

AskReload(e) ==
  /\ edit[e].step = "written" /\ edit[e].awaits = 0
  /\ entry' = OwnReload
  /\ edit' = [edit EXCEPT ![e].step = "reloading", ![e].awaits = Len(OwnReload.queue)]
  /\ UNCHANGED <<disk, writes, reloads, load, check, committed, past, fresh>>

Reports(e) == edit[e].step = "reloading" /\ edit[e].awaits = 0

(* The generation and health the call reports are the registry's by then.  *)
Report(e) ==
  /\ Reports(e)
  /\ edit' = [edit EXCEPT ![e].step = "done"]
  /\ UNCHANGED <<disk, writes, reloads, entry, load, check, committed, past, fresh>>

Next ==
  \/ \E f \in File : Write(f) \/ StatBefore(f) \/ Read(f) \/ StatAfter(f)
  \/ Use \/ Invalidate \/ TimerFires \/ StartLoad \/ Again \/ Finish
  \/ StartCheck \/ EndCheck
  \/ \E e \in Edit : LoadTarget(e) \/ Commit(e) \/ Conflict(e) \/ AskReload(e) \/ Report(e)

Spec == Init /\ [][Next]_registryVars

----------------------------------------------------------------------------
(* The contents of a healthy snapshot were on disk at one moment, although *)
(* the files are read one after another.                                   *)
SnapshotIsReal ==
  entry.snapshot.healthy =>
    [f \in File |-> entry.snapshot.config[f].version] \in past

(* A committed edit is in the file until something else than an edit       *)
(* replaces the file: no edit undoes another one.                          *)
EditsAreKept == committed \subseteq disk[Edited].edits

(* With nothing under way, and a reconciliation since the last write and   *)
(* the last snapshot, the snapshot is of the files as they are.            *)
QuietMeansCurrent == Quiet /\ fresh => entry.snapshot.prints = Versions

(* What a call is about to report as healthy holds its edit, unless        *)
(* something else has replaced the file by then.                           *)
ReportsInclude ==
  \A e \in committed : Reports(e) /\ entry.snapshot.healthy =>
    e \in entry.snapshot.config[Edited].edits

(* The registry serves what the files hold, and edits add up.              *)
RegistryIsSound ==
  SnapshotIsReal /\ EditsAreKept /\ QuietMeansCurrent /\ ReportsInclude
=============================================================================
