----------------------------- MODULE IndexRefresh -----------------------------
(***************************************************************************)
(* One refresh of an index after another (refreshMutationIntelligence of   *)
(* mutation/freshness.ts with workspace/git.ts), while editors write files,*)
(* stage and commit them: which files belong to the selected revision, what*)
(* is read of them, which dirty state the generation is labelled with, and *)
(* which rows are written under which identities.  A content stands for    *)
(* its digest, an identity for what it hashes; PublicationStore has the    *)
(* protocol of publications, GraphRepository the graph.  Renames that Git  *)
(* detects and links are left out.                                         *)
(***************************************************************************)
EXTENDS Integers, Sequences, FiniteSets, SequencesExt, FiniteSetsExt

CONSTANTS Directories, \* in the order of the walk: sequences of paths
          Kind,        \* of each path: "code", "document", "project" or "none"
          Ignored,     \* paths that Git ignores
          Contents,
          Names,       \* of each content, the symbols with a text
          Empty,       \* the content of a path that is only intended to be added
          Worlds,      \* [tree, staged, head]: contents or None; an index entry
                       \* may be "intent", "unmerged" or "module", a path of a
                       \* commit "module"
          Selectors,   \* of revisions: "working", "index", "commit"
          None,
          MaxRuns, MaxEdits  \* bounds: refreshes, steps of editors

VARIABLES tree, staged, head,   \* the files, Git's index, the current commit
          pc, selector,
          revision,    \* selected: of each path its entry, and what it intends to add
          k, files,    \* the paths to read and how far
          units,       \* what was read and analysed: [path, content]
          skipped,
          records,     \* of ls-files or status, those not looked at yet
          overlay,     \* the dirty entries, None for a clean tree
          rows,        \* of each table of the store: [id, value]
          generations, \* published
          held,        \* history: what each path held during the refresh
          edited,      \* history: editors came during this refresh
          raced,       \* history: during any refresh
          unseen,      \* history: files changed that Git's status does not show
          edits, runs

git == <<tree, staged, head>>
reading == <<k, files, units, skipped, records, overlay>>
store == <<rows, generations>>
history == <<held, edited, raced, unseen, edits>>
vars == <<git, pc, selector, revision, reading, store, history, runs>>

Tables == {"artifacts", "syntax_facts", "chunks", "relationships", "dirty_overlays", "revision_manifests"}
Paths == ToSet(FlattenSeq(Directories))
InOrder(S) == SelectSeq(FlattenSeq(Directories), LAMBDA p : p \in S)

(* What the selected revision has of a path; a blob that is only intended  *)
(* to be added is empty.                                                   *)
Blob(entry) == CASE entry = "intent" -> Empty [] entry \in {"unmerged", "module"} -> None [] OTHER -> entry
View(s, p) == CASE s = "working" -> tree[p] [] s = "index" -> Blob(staged[p]) [] s = "commit" -> Blob(revision[p][1])

(* resolveRevision: the fingerprint of an index also hashes the files that *)
(* are only intended to be added.                                          *)
Commit == [p \in Paths |-> <<head[p]>>]
Fingerprint == [p \in Paths |-> IF staged[p] = "intent" /\ tree[p] # None THEN <<"intent", tree[p]>> ELSE <<staged[p]>>]

Init == /\ \E w \in Worlds : tree = w.tree /\ staged = w.staged /\ head = w.head
        /\ pc = "idle" /\ selector = "working" /\ revision = Commit
        /\ k = 1 /\ files = << >> /\ units = << >> /\ skipped = << >> /\ records = << >> /\ overlay = None
        /\ rows = [t \in Tables |-> {}] /\ generations = << >>
        /\ held = [p \in Paths |-> {}] /\ edited = FALSE /\ raced = FALSE /\ unseen = FALSE /\ edits = 0 /\ runs = 0

Ended == pc \in {"idle", "published", "reused", "conflict", "failed"}

Start == /\ Ended /\ runs < MaxRuns /\ runs' = runs + 1
         /\ selector' \in Selectors /\ revision' = IF selector' = "index" THEN Fingerprint ELSE Commit
         /\ pc' = CASE selector' = "working" -> "walk" [] selector' = "index" -> "list" [] selector' = "commit" -> "tree"
         /\ k' = 1 /\ files' = << >> /\ units' = << >> /\ skipped' = << >> /\ records' = << >> /\ overlay' = None
         /\ held' = [p \in Paths |-> {CASE selector' = "working" -> tree[p] [] selector' = "index" -> Blob(staged[p])
                                        [] selector' = "commit" -> Blob(head[p])}]
         /\ edited' = FALSE /\ UNCHANGED <<git, store, raced, unseen, edits>>

----------------------------------------------------------------------------
(* repositoryFiles: directories are listed one after another.              *)
Walk == /\ pc = "walk"
        /\ IF k > Len(Directories) THEN pc' = "read" /\ k' = 1 /\ UNCHANGED files
           ELSE /\ files' = files \o SelectSeq(Directories[k], LAMBDA p : tree[p] # None)
                /\ k' = k + 1 /\ UNCHANGED pc
        /\ UNCHANGED <<git, selector, revision, units, skipped, records, overlay, store, history, runs>>

(* revisionPaths: of the index in two calls of Git, of a commit in one.    *)
List == /\ pc = "list" /\ pc' = "intent"
        /\ records' = [i \in DOMAIN InOrder({p \in Paths : staged[p] # None}) |->
                         LET p == InOrder({q \in Paths : staged[q] # None})[i] IN [path |-> p, entry |-> staged[p]]]
        /\ UNCHANGED <<git, selector, revision, k, files, units, skipped, overlay, store, history, runs>>

(* Mutant: paths that are only intended to be added are not left out.      *)
IntendedNone == {}

Intended == {p \in Paths : staged[p] = "intent" /\ tree[p] # None}

Intent == /\ pc = "intent" /\ pc' = "read" /\ records' = << >>
          /\ LET all  == {r.path : r \in ToSet(records)}
                 take == {r.path : r \in {q \in ToSet(records) : q.entry \notin {"unmerged", "module"}}} \ Intended IN
               files' = InOrder(take) /\ skipped' = InOrder(all \ take)
          /\ UNCHANGED <<git, selector, revision, k, units, overlay, store, history, runs>>

Tree == /\ pc = "tree" /\ pc' = "read"
        /\ files' = InOrder({p \in Paths : revision[p][1] \notin {None, "module"}})
        /\ skipped' = InOrder({p \in Paths : revision[p][1] = "module"})
        /\ UNCHANGED <<git, selector, revision, k, units, records, overlay, store, history, runs>>

(* A file that is gone fails the refresh, before anything is reserved.     *)
Read == /\ pc = "read" /\ k <= Len(files) /\ k' = k + 1
        /\ LET p == files[k] IN
             \/ Kind[p] = "none" /\ skipped' = Append(skipped, p) /\ UNCHANGED <<pc, units>>
             \/ /\ Kind[p] # "none" /\ View(selector, p) # None
                /\ units' = Append(units, [path |-> p, content |-> View(selector, p)]) /\ UNCHANGED <<pc, skipped>>
             \/ Kind[p] # "none" /\ View(selector, p) = None /\ pc' = "failed" /\ UNCHANGED <<units, skipped>>
        /\ UNCHANGED <<git, selector, revision, files, records, overlay, store, history, runs>>

----------------------------------------------------------------------------
(* gitDirtyOverlayId: status first, then the content of each entry.        *)
Changed(p) == head[p] # staged[p] \/ staged[p] # tree[p]

(* Mutant: untracked files are not listed.                                 *)
UntrackedNone(p) == FALSE

Untracked(p) == staged[p] = None /\ tree[p] # None /\ p \notin Ignored
Deleted(p)   == (head[p] # None /\ staged[p] = None) \/ (staged[p] # None /\ tree[p] = None)
Added(p)     == staged[p] = "intent" \/ (staged[p] # None /\ head[p] = None)

Status(p) ==
  (IF (head[p] # None \/ staged[p] # None) /\ Changed(p)
   THEN <<[path |-> p, status |-> IF Deleted(p) THEN "deleted" ELSE IF Added(p) THEN "added" ELSE "modified"]>> ELSE << >>)
  \o (IF Untracked(p) THEN <<[path |-> p, status |-> "added"]>> ELSE << >>)

Inspect == /\ pc = "read" /\ k > Len(files)
           /\ IF selector = "working"
              THEN pc' = "digest" /\ records' = FlattenSeq([i \in DOMAIN InOrder(Paths) |-> Status(InOrder(Paths)[i])])
              ELSE pc' = "reuse" /\ UNCHANGED records
           /\ UNCHANGED <<git, selector, revision, k, files, units, skipped, overlay, store, history, runs>>

Dirty == IF overlay = None THEN << >> ELSE overlay

Entry(r) == IF r.status = "deleted" \/ tree[r.path] = None THEN [path |-> r.path, status |-> "deleted", content |-> None]
            ELSE [path |-> r.path, status |-> r.status, content |-> tree[r.path]]

(* A path that is listed twice, deleted and untracked, is refused.         *)
Digest == /\ pc = "digest"
          /\ IF records = << >>
             THEN pc' = (IF Dirty # << >> /\ ~IsInjective([i \in DOMAIN Dirty |-> Dirty[i].path]) THEN "failed" ELSE "reuse")
                  /\ UNCHANGED <<records, overlay>>
             ELSE /\ records' = Tail(records) /\ UNCHANGED pc
                  /\ overlay' = Append(Dirty, Entry(Head(records)))
          /\ UNCHANGED <<git, selector, revision, k, files, units, skipped, store, history, runs>>

----------------------------------------------------------------------------
(* The rows of a generation: the identity of each hashes what tells it     *)
(* from others, and rows but those of "artifacts" are never replaced.      *)
Row(id, value) == [id |-> id, value |-> value]
Language(u) == Kind[u.path]

Related(u) == UNION {{<<v.path, n>> : n \in Names[u.content] \cap Names[v.content]} : v \in ToSet(units) \ {u}}
RelationId(u) == <<u.path, Related(u), Language(u), u.content>>
Relations == {Row(RelationId(u), <<Related(u), Language(u), u.content>>) : u \in ToSet(units)}

(* Mutant: a chunk is identified by its text alone.                        *)
ChunkIdOfText(u, n) == <<n, Language(u), u.content>>

ChunkId(u, n) == <<u.path, n, Language(u), u.content>>
Chunks == UNION {{Row(ChunkId(u, n), <<u.path, n, u.content>>) : n \in Names[u.content]} : u \in ToSet(units)}

Sources == {Row([source |-> u.content], [source |-> u.content]) : u \in ToSet(units)}
Syntax  == {Row(<<Language(u), u.content>>, u.content) : u \in ToSet(units)}

OverlayId(o) == <<revision, o>>
Nodes == FoldLeft(LAMBDA n, u : n + 1 + Cardinality(Names[u.content]), 0, units)
Overlays == IF overlay = None THEN {}
  ELSE {Row(OverlayId(overlay),
            <<Len(units), Nodes, {u.path : u \in ToSet(units)} \cup ToSet(skipped)>>)}

Manifest == [overlay |-> IF overlay = None THEN None ELSE OverlayId(overlay), revision |-> <<selector, revision>>,
             entries |-> [i \in DOMAIN units |->
                            [path |-> units[i].path, source |-> [source |-> units[i].content], relations |-> RelationId(units[i]),
                             syntax |-> <<Language(units[i]), units[i].content>>]]]
Manifests == {Row(Manifest, Len(units))}

Conflicts(table, new) == \E r \in new, s \in rows[table] : s.id = r.id /\ s.value # r.value

(* Mutant: what is published for the dirty state is reused.                *)
ReusableOfState(g) == g.overlay = Manifest.overlay /\ g.revision = Manifest.revision

Reusable(g) == g = Manifest

Reuse == /\ pc = "reuse"
         /\ pc' = IF \E g \in ToSet(generations) : Reusable(g) THEN "reused" ELSE "relations"
         /\ UNCHANGED <<git, selector, revision, reading, store, history, runs>>

(* putReservedRows and putReservedRowsBatch: the batch goes table by table *)
(* and stops at the first conflict.                                        *)
Put == /\ pc = "relations"
       /\ IF Conflicts("relationships", Relations) THEN pc' = "conflict" /\ UNCHANGED rows
          ELSE pc' = "batch" /\ rows' = [rows EXCEPT !["relationships"] = @ \cup Relations]
       /\ UNCHANGED <<git, selector, revision, reading, generations, history, runs>>

Batch == <<<<"artifacts", Sources \cup {Row(Manifest, Manifest)}>>, <<"syntax_facts", Syntax>>, <<"chunks", Chunks>>,
           <<"dirty_overlays", Overlays>>, <<"revision_manifests", Manifests>> >>

PutBatch ==
  /\ pc = "batch"
  /\ LET bad  == {i \in DOMAIN Batch : Batch[i][1] # "artifacts" /\ Conflicts(Batch[i][1], Batch[i][2])}
         good == IF bad = {} THEN DOMAIN Batch ELSE 1 .. Min(bad) - 1 IN
       /\ pc' = IF bad = {} THEN "publish" ELSE "conflict"
       /\ rows' = [t \in Tables |-> rows[t] \cup UNION {Batch[i][2] : i \in {h \in good : Batch[h][1] = t}}]
  /\ UNCHANGED <<git, selector, revision, reading, generations, history, runs>>

Publish == /\ pc = "publish" /\ pc' = "published" /\ generations' = Append(generations, Manifest)
           /\ UNCHANGED <<git, selector, revision, reading, rows, history, runs>>

(* The call is aborted, or an analysis, the store or Git fails.            *)
Fail == /\ ~Ended /\ pc' = "failed"
        /\ UNCHANGED <<git, selector, revision, reading, store, history, runs>>

----------------------------------------------------------------------------
(* Editors write or remove a file, stage it, take it out of the index, or  *)
(* commit what is staged.                                                  *)
Edit ==
  /\ edits < MaxEdits /\ edits' = edits + 1
  /\ \/ \E p \in Paths : \E c \in (Contents \cup {None}) \ {tree[p]} :
          /\ tree' = [tree EXCEPT ![p] = c] /\ UNCHANGED <<staged, head>>
          /\ unseen' = (unseen \/ (p \in Ignored /\ staged[p] = None /\ head[p] = None))
     \/ /\ \E p \in Paths : \E c \in {tree[p], None} \ {staged[p]} : staged' = [staged EXCEPT ![p] = c]
        /\ UNCHANGED <<tree, head, unseen>>
     \/ /\ \E p \in Paths : staged[p] = None /\ tree[p] # None /\ staged' = [staged EXCEPT ![p] = "intent"]
        /\ UNCHANGED <<tree, head, unseen>>
     \/ /\ \A p \in Paths : staged[p] # "unmerged"
        /\ head' = [p \in Paths |-> IF staged[p] = "intent" THEN None ELSE staged[p]] /\ head' # head
        /\ UNCHANGED <<tree, staged, unseen>>
  /\ edited' = (edited \/ ~Ended) /\ raced' = (raced \/ ~Ended)
  /\ held' = IF Ended THEN held
             ELSE [p \in Paths |-> held[p] \cup {CASE selector = "working" -> tree'[p] [] selector = "index" -> Blob(staged'[p])
                                                   [] selector = "commit" -> Blob(revision[p][1])}]
  /\ UNCHANGED <<pc, selector, revision, reading, store, runs>>

Stop == Ended /\ runs = MaxRuns /\ UNCHANGED vars

Next == \/ Start \/ Walk \/ List \/ Intent \/ Tree \/ Read \/ Inspect \/ Digest
        \/ Reuse \/ Put \/ PutBatch \/ Publish \/ Fail \/ Edit \/ Stop

Spec == Init /\ [][Next]_vars

----------------------------------------------------------------------------
Answered == pc \in {"published", "reused"}
Indexed(p) == {u.content : u \in {v \in ToSet(units) : v.path = p}}

(* What was indexed is what the revision held while it was: every content  *)
(* is one its path had, a path that is missing was absent at some moment,  *)
(* and without editors the label names the dirty state exactly.            *)
IndexedWasThere == Answered =>
  /\ \A p \in Paths : Cardinality(Indexed(p)) <= 1 /\ Indexed(p) \subseteq held[p] \ {None}
  /\ \A p \in Paths : Kind[p] # "none" /\ Indexed(p) = {} => None \in held[p] \/ p \in ToSet(skipped)
  /\ ToSet(files) \subseteq {u.path : u \in ToSet(units)} \cup ToSet(skipped)
  /\ selector = "working" /\ ~edited =>
        \A p \in Paths : Kind[p] # "none" /\ p \notin Ignored =>
          IF \E e \in ToSet(Dirty) : e.path = p
          THEN \E e \in ToSet(Dirty) : e.path = p /\ Indexed(p) = {e.content} \ {None}
          ELSE Indexed(p) = {revision[p][1]} \ {None}

(* An index of Git's index has no path that is only intended to be added   *)
(* and whose file is there.                                                *)
IntentionsStayOut == Answered /\ selector = "index" /\ ~edited =>
  \A p \in Paths : staged[p] = "intent" /\ tree[p] # None => Indexed(p) = {}

(* Each entry of a published manifest has its rows, with their contents,   *)
(* whichever earlier or failed refresh wrote them; a generation that is    *)
(* reused is of what was read now.                                         *)
ManifestsAreBacked ==
  /\ \A g \in ToSet(generations) :
       /\ g.overlay # None => \E r \in rows["dirty_overlays"] : r.id = g.overlay
       /\ \A i \in DOMAIN g.entries :
            /\ \E r \in rows["artifacts"] : r.id = g.entries[i].source /\ r.value = g.entries[i].source
            /\ \E r \in rows["syntax_facts"] : r.id = g.entries[i].syntax
            /\ \E r \in rows["relationships"] : r.id = g.entries[i].relations
  /\ Answered => \E g \in ToSet(generations) :
                    /\ [i \in DOMAIN g.entries |-> <<g.entries[i].path, g.entries[i].source.source>>]
                         = [i \in DOMAIN units |-> <<units[i].path, units[i].content>>]
                    /\ g.revision = <<selector, revision>>

(* A refresh finds a row of the same identity and another meaning only for *)
(* a dirty state that does not name the tree: one an editor changed under  *)
(* a refresh, or one whose ignored files changed.                          *)
ConflictsAreExplained == pc = "conflict" => raced \/ unseen

IndexIsOfTheTree == IndexedWasThere /\ IntentionsStayOut /\ ManifestsAreBacked /\ ConflictsAreExplained
=============================================================================
