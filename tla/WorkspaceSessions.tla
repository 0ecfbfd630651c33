-------------------------- MODULE WorkspaceSessions -------------------------
(***************************************************************************)
(* The workspaces of a session and the calls that run in them              *)
(* (src/src/intelligence/workspace/registry.ts, git.ts, storage.ts and     *)
(* src/src/tools/configured.ts).  A call reads the client's roots, takes   *)
(* or opens a workspace, checks it against the checkout and runs.  The     *)
(* checkout, the configuration and the roots change between any two of its *)
(* steps.  Directory "x" is a Git checkout, any other one a plain          *)
(* directory.  One call is under way at a time.                            *)
(***************************************************************************)
EXTENDS Naturals, Sequences, FiniteSets

CONSTANTS Checkouts,      \* the states the checkout may start in
          Requests,       \* what the calls ask for
          Roots,          \* Roots[v]: what version v of the client's roots lists
          Readable,       \* the directories whose trees the policy lets be read
          MaxEdits, MaxCalls, MaxAsks

VARIABLES world,          \* the checkout
          generation,     \* that of the configuration of its directory
          rootsVersion,   \* which of the client's roots hold
          notified,       \* the version whose notification has arrived
          supported,      \* the client answers roots/list
          asked,          \* the requests for the roots
          rootsPromise,   \* the index of the one kept, 0 when there is none
          workspaces,     \* the registry: workspaceId to its record
          call,           \* the call under way
          calls, edits

vars == <<world, generation, rootsVersion, notified, supported, asked, rootsPromise, workspaces, call, calls, edits>>

None == [kind |-> "none"]

-----------------------------------------------------------------------------
(* Git.  A file's content is a number, 0 where it is absent; Intent in the *)
(* index is a file added with --intent-to-add; n is a nested repository.   *)

Intent == 3
Plain == {"a", "b"}

Renamed(w, p, q) == p # q /\ w.head[p] # 0 /\ w.index[p] = 0 /\ w.head[q] = 0 /\ w.index[q] = w.head[p]

Staged(w, p) ==
    IF w.index[p] = Intent \/ w.index[p] = w.head[p] THEN " "
    ELSE IF w.index[p] = 0 THEN "D" ELSE IF \E q \in Plain : Renamed(w, q, p) THEN "R"
    ELSE IF w.head[p] = 0 THEN "A" ELSE "M"

Unstaged(w, p) ==
    IF w.index[p] = 0 \/ w.work[p] = w.index[p] THEN " "
    ELSE IF w.work[p] = 0 THEN "D" ELSE IF w.index[p] = Intent THEN "A" ELSE "M"

(* git status --porcelain=v1 --untracked-files=all                         *)
StatusRecords(w) ==
    {[code |-> <<Staged(w, p), Unstaged(w, p)>>, path |-> p, source |-> {q \in Plain : Renamed(w, q, p)}] :
        p \in {q \in Plain : /\ <<Staged(w, q), Unstaged(w, q)>> # <<" ", " ">>
                             /\ ~\E r \in Plain : Renamed(w, q, r)}}
    \cup {[code |-> <<"?", "?">>, path |-> p, source |-> {}] : p \in {q \in Plain : w.index[q] = 0 /\ w.work[q] # 0}}
    \cup {[code |-> <<"?", "?">>, path |-> "n", source |-> {}]}

(* A nested repository is told by its head and by what it has changed, not *)
(* by the content of that.                                                 *)
Content(w, p) == IF p = "n" THEN <<w.nested.head, w.nested.changed>> ELSE <<w.work[p]>>

Has(code, c) == code[1] = c \/ code[2] = c

DirtyEntry(w, p, code, forced) ==
    LET deleted == "deleted" \in forced \/ Has(code, "D") \/ (p \in Plain /\ w.work[p] = 0) IN
    [path    |-> p,
     status  |-> IF forced # {} THEN CHOOSE s \in forced : TRUE
                 ELSE IF deleted THEN "deleted"
                 ELSE IF code = <<"?", "?">> \/ Has(code, "A") THEN "added" ELSE "modified",
     content |-> IF deleted THEN << >> ELSE Content(w, p)]

DirtyEntries(w) ==
    UNION {{DirtyEntry(w, r.path, r.code, {})} \cup {DirtyEntry(w, q, r.code, {"deleted"}) : q \in r.source} :
             r \in StatusRecords(w)}

(* The overlay of a working tree; one that lists a path twice is refused.  *)
Overlay(w, base) == [base |-> base, entries |-> DirtyEntries(w)]

OverlayIsValid(w) == \A e, f \in DirtyEntries(w) : e.path = f.path => e = f

(* The index, and the files whose content it does not hold yet.            *)
IndexFingerprint(w) == <<w.index, [p \in {q \in Plain : w.index[q] = Intent} |-> w.work[p]]>>

Revision(w, dir, selector) ==
    [selector |-> selector, repository |-> dir,
     oid |-> IF dir # "x" THEN << >>
             ELSE CASE selector = "index"   -> IndexFingerprint(w)
                    [] selector = "working" -> <<w.head>>
                    [] OTHER                -> <<w.refs[selector]>>]

DirtyOverlayId(w, dir, revision) ==
    IF dir = "x" /\ revision.selector = "working" THEN Overlay(w, revision) ELSE None

StorageDomain(dir, placement) == IF placement = "global" THEN <<"global">> ELSE <<placement, dir>>

(* The placement the configuration of a generation names.                  *)
Placement(g) == IF g % 2 = 0 THEN "global" ELSE "local"

-----------------------------------------------------------------------------
(* The client's roots are asked for once and kept until they change.       *)

NoCall == [at |-> "idle"]

Fail(code) == call' = [at |-> "idle", code |-> code]

Unchanged == UNCHANGED <<world, generation, rootsVersion, notified, supported, edits, calls>>
Still     == UNCHANGED <<asked, rootsPromise>>

Moment == [world |-> world, generation |-> generation]

Begin ==
    /\ call.at = "idle" /\ calls < MaxCalls
    /\ calls' = calls + 1
    /\ \E r \in Requests, id \in {None} \cup DOMAIN workspaces :
         /\ r.named = (id # None)
         /\ call' = [at |-> "roots", request |-> r, promise |-> 0, roots |-> {}, version |-> 0, since |-> notified,
                     named |-> IF r.named THEN [id |-> id, record |-> workspaces[id]] ELSE None,
                     look |-> None, generation |-> 0, directory |-> "", opened |-> None, past |-> {Moment}]
    /\ Still /\ UNCHANGED <<world, generation, rootsVersion, notified, supported, workspaces, edits>>

(* configRequestPaths, but for the paths of a file operation outside the   *)
(* roots.                                                                  *)
SelectionPaths(r, roots) == IF r.file THEN r.paths \cap roots ELSE r.paths

SelectDirectory(roots, paths) ==
    IF roots = {} THEN [code |-> "none"]
    ELSE IF paths \ roots # {} THEN [code |-> "workspace_mismatch"]
    ELSE IF Cardinality(paths) > 1 \/ (paths = {} /\ Cardinality(roots) > 1) THEN [code |-> "workspace_ambiguous"]
    ELSE [code |-> "selected", directory |-> CHOOSE d \in roots : paths \subseteq {d}]

(* The directory of a call that names no workspace.                        *)
Select(c) ==
    LET to == IF c.request.tool = "workspace_open" THEN [code |-> "selected", directory |-> CHOOSE d \in c.request.paths : TRUE]
              ELSE SelectDirectory(c.roots, SelectionPaths(c.request, c.roots))
    IN CASE to.code = "selected" -> call' = [c EXCEPT !.directory = to.directory, !.at = "configure"]
         [] to.code = "none" /\ c.request.revision = {} -> call' = [c EXCEPT !.at = "plain"]
         [] to.code = "none" /\ c.request.revision # {} -> Fail("workspace_required")
         [] OTHER -> Fail(to.code)

Rooted(c) == IF c.named # None THEN call' = [c EXCEPT !.at = "named", !.directory = c.named.id.root] ELSE Select(c)

ClientRoots ==
    /\ call.at = "roots"
    /\ IF call.promise # 0
       THEN /\ asked[call.promise].state # "pending"
            /\ IF asked[call.promise].state = "failed" THEN Fail("timeout")
               ELSE Rooted([call EXCEPT !.roots = Roots[asked[call.promise].version], !.version = asked[call.promise].version])
            /\ Still
       ELSE IF ~supported THEN Rooted([call EXCEPT !.version = notified]) /\ Still
       ELSE IF rootsPromise # 0 THEN call' = [call EXCEPT !.promise = rootsPromise] /\ Still
       ELSE /\ Len(asked) < MaxAsks
            /\ asked' = Append(asked, [state |-> "pending", version |-> rootsVersion])
            /\ rootsPromise' = Len(asked) + 1
            /\ call' = [call EXCEPT !.promise = Len(asked) + 1]
    /\ UNCHANGED workspaces /\ Unchanged

(* The client lists the roots it has at some moment, or never answers.     *)
AnswerRoots ==
    /\ \E i \in DOMAIN asked :
         /\ asked[i].state = "pending"
         /\ \/ /\ \E v \in asked[i].version..rootsVersion : asked' = [asked EXCEPT ![i] = [state |-> "listed", version |-> v]]
               /\ UNCHANGED rootsPromise
            \/ /\ asked' = [asked EXCEPT ![i] = [state |-> "failed"]]
               /\ rootsPromise' = IF rootsPromise = i THEN 0 ELSE rootsPromise
    /\ UNCHANGED <<workspaces, call>> /\ Unchanged

(* What a refresh makes of the promise that is kept.                       *)
RefreshedOnceListed == IF rootsPromise # 0 /\ asked[rootsPromise].state = "pending" THEN rootsPromise ELSE 0
Refreshed == 0

RefreshRoots ==
    /\ notified # rootsVersion
    /\ notified' = rootsVersion
    /\ rootsPromise' = Refreshed
    /\ UNCHANGED <<world, generation, rootsVersion, supported, asked, workspaces, call, calls, edits>>

(* A call that is cancelled before it runs leaves the others' promises.    *)
Abort ==
    /\ call.at \notin {"idle", "running"}
    /\ Fail("aborted")
    /\ Still /\ UNCHANGED workspaces /\ Unchanged

-----------------------------------------------------------------------------
(* A workspace is checked in two looks at its checkout.                    *)

Looked(dir, selector) == [kind |-> "look", inode |-> world.inode, revision |-> Revision(world, dir, selector)]

Look(id, next) ==
    IF id.root = "x" /\ ~world.exists THEN Fail("workspace_not_found")
    ELSE call' = [call EXCEPT !.at = next, !.look = Looked(id.root, id.revision.selector)]

MismatchesOfRevision(id, record, expected) ==
    {m \in {"checkoutIdentity", "revisionId", "configurationGeneration"} :
       CASE m = "checkoutIdentity" -> id.root = "x" /\ call.look.inode # record.inode
         [] m = "revisionId"       -> call.look.revision # id.revision
         [] m = "configurationGeneration" -> expected # {} /\ id.generation \notin expected}

(* The overlay's second look, and every coordinate that has drifted.       *)
Mismatches(id, record, expected) ==
    {m \in {"checkoutIdentity", "revisionId", "dirtyOverlayId", "configurationGeneration"} :
       CASE m = "checkoutIdentity" -> id.root = "x" /\ call.look.inode # record.inode
         [] m = "revisionId"       -> call.look.revision # id.revision
         [] m = "dirtyOverlayId"   -> DirtyOverlayId(world, id.root, call.look.revision) # id.overlay
         [] m = "configurationGeneration" -> expected # {} /\ id.generation \notin expected}

Drifted(id, record, expected) == Mismatches(id, record, expected) # {}

Compare(id, record, expected, next) ==
    IF DirtyOverlayId(world, id.root, call.look.revision) # None /\ ~OverlayIsValid(world) THEN Fail("invalid")
    ELSE IF Drifted(id, record, expected) THEN Fail("workspace_mismatch") ELSE next

(* registry.get of the named workspace; its paths; the configuration of    *)
(* its directory; and registry.get again.                                  *)
Outside(id) == ~call.request.file /\ call.request.paths \ {id.root} # {}

Named ==
    LET id == call.named.id  record == call.named.record IN
    /\ \/ call.at = "named" /\ Look(id, "namedOverlay")
       \/ /\ call.at = "namedOverlay"
          /\ Compare(id, record, {}, IF Outside(id) THEN Fail("workspace_mismatch") ELSE call' = [call EXCEPT !.at = "current"])
       \/ call.at = "current" /\ call' = [call EXCEPT !.at = "again", !.generation = generation]
       \/ call.at = "again" /\ Look(id, "againOverlay")
       \/ call.at = "againOverlay" /\ Compare(id, record, {call.generation}, call' = [call EXCEPT !.at = "configure"])
    /\ Still /\ UNCHANGED workspaces /\ Unchanged

(* configuredWorkspace: the policy of the directory and its configuration. *)
Configure ==
    /\ call.at = "configure"
    /\ IF call.roots # {} /\ call.directory \notin call.roots THEN Fail("workspace_mismatch")
       ELSE IF ~call.request.file /\ call.directory \notin Readable THEN Fail("path_denied")
       ELSE call' = [call EXCEPT !.at = "open", !.generation = generation]
    /\ Still /\ UNCHANGED workspaces /\ Unchanged

Selector == IF call.request.revision # {} THEN CHOOSE s \in call.request.revision : TRUE
            ELSE IF call.named # None THEN call.named.id.revision.selector ELSE "working"

OpenPlacement == IF call.named # None THEN call.named.id.placement ELSE Placement(call.generation)

Open ==
    /\ call.at = "open"
    /\ IF call.directory = "x" /\ ~world.exists THEN Fail("workspace_not_found")
       ELSE IF call.directory # "x" /\ Selector # "working" THEN Fail("workspace_revision_invalid")
       ELSE call' = [call EXCEPT !.at = "openOverlay", !.look = Looked(call.directory, Selector)]
    /\ Still /\ UNCHANGED workspaces /\ Unchanged

(* The identity of a workspace is all of its coordinates.                  *)
Opened ==
    [kind |-> "workspace", root |-> call.directory, generation |-> call.generation, revision |-> call.look.revision,
     overlay |-> DirtyOverlayId(world, call.directory, call.look.revision), placement |-> OpenPlacement,
     domain |-> StorageDomain(call.directory, OpenPlacement), eligible |-> call.look.revision.selector = "working"]

Register ==
    /\ call.at = "openOverlay"
    /\ IF Opened.overlay # None /\ ~OverlayIsValid(world) THEN Fail("invalid") /\ UNCHANGED workspaces
       ELSE IF call.directory = "x" /\ ~world.exists THEN Fail("workspace_not_found") /\ UNCHANGED workspaces
       ELSE /\ workspaces' = [id \in DOMAIN workspaces \cup {Opened} |->
                                IF id = Opened THEN [inode |-> world.inode, files |-> world.work] ELSE workspaces[id]]
            /\ call' = [call EXCEPT !.at = "confirm", !.opened = Opened]
    /\ Still /\ Unchanged

(* The configuration is read again, the workspace checked once more.       *)
Confirm ==
    /\ call.at = "confirm"
    /\ IF generation # call.opened.generation THEN Fail("workspace_mismatch")
       ELSE call' = [call EXCEPT !.at = "verify", !.generation = generation]
    /\ Still /\ UNCHANGED workspaces /\ Unchanged

Verify ==
    LET id == call.opened IN
    /\ \/ call.at = "verify" /\ Look(id, "verifyOverlay")
       \/ /\ call.at = "verifyOverlay"
          /\ Compare(id, workspaces[id], {call.generation},
                     IF Outside(id) /\ call.request.tool # "workspace_open" THEN Fail("workspace_mismatch")
                     ELSE call' = [call EXCEPT !.at = "running"])
    /\ Still /\ UNCHANGED workspaces /\ Unchanged

(* A call outside every workspace runs with its configuration alone.       *)
RunPlain ==
    /\ call.at = "plain"
    /\ call' = [call EXCEPT !.at = "running", !.generation = generation]
    /\ Still /\ UNCHANGED workspaces /\ Unchanged

(* A write in a revision that is read-only is refused.                     *)
Finish ==
    /\ call.at = "running"
    /\ IF call.request.write /\ call.opened # None /\ ~call.opened.eligible THEN Fail("workspace_read_only")
       ELSE call' = NoCall
    /\ Still /\ UNCHANGED workspaces /\ Unchanged

-----------------------------------------------------------------------------
(* What the user, Git and the client do meanwhile.                         *)

Changed(w, g) ==
    /\ edits < MaxEdits /\ edits' = edits + 1
    /\ world' = w /\ generation' = g
    /\ call' = IF call.at = "idle" THEN call ELSE [call EXCEPT !.past = @ \cup {[world |-> w, generation |-> g]}]
    /\ Still /\ UNCHANGED <<rootsVersion, notified, supported, workspaces, calls>>

Edit ==
    \/ \E p \in Plain, v \in 0..2 : world.work[p] # v /\ Changed([world EXCEPT !.work[p] = v], generation)
    \/ \E p \in Plain : \E v \in {0, Intent, world.work[p]} :
         /\ world.index[p] # v /\ (v = Intent => world.index[p] = 0 /\ world.work[p] # 0)
         /\ Changed([world EXCEPT !.index[p] = v], generation)
    \/ /\ \E p \in Plain : world.index[p] \notin {world.head[p], Intent}
       /\ Changed([world EXCEPT !.head = [p \in Plain |-> IF world.index[p] = Intent THEN 0 ELSE world.index[p]]], generation)
    \/ \E r \in DOMAIN world.refs : world.refs[r] # world.head /\ Changed([world EXCEPT !.refs[r] = world.head], generation)
    \/ Changed([world EXCEPT !.nested.content = 1 - @, !.nested.changed = TRUE], generation)
    \/ Changed([world EXCEPT !.inode = @ + 1], generation)
    \/ world.exists /\ Changed([world EXCEPT !.exists = FALSE], generation)
    \/ Changed(world, generation + 1)

ChangeRoots ==
    /\ supported /\ rootsVersion < Len(Roots) /\ rootsVersion' = rootsVersion + 1
    /\ Still /\ UNCHANGED <<world, generation, notified, supported, workspaces, call, calls, edits>>

Stop == call.at = "idle" /\ calls = MaxCalls /\ UNCHANGED vars

Init ==
    /\ world \in Checkouts /\ generation = 0
    /\ rootsVersion = 1 /\ notified = 1 /\ supported \in BOOLEAN
    /\ asked = << >> /\ rootsPromise = 0
    /\ workspaces = [id \in {} |-> None]
    /\ call = NoCall /\ calls = 0 /\ edits = 0

Next ==
    \/ Begin \/ ClientRoots \/ AnswerRoots \/ RefreshRoots \/ Abort
    \/ Named \/ Configure \/ Open \/ Register \/ Confirm \/ Verify \/ RunPlain \/ Finish
    \/ Edit \/ ChangeRoots \/ Stop

Spec == Init /\ [][Next]_vars

-----------------------------------------------------------------------------
Running == call.at = "running" /\ call.opened # None

(* A workspace that an operation runs in was there, with its revision, its *)
(* overlay and its configuration, at moments of the call that runs it; the *)
(* paths of the call and the roots of the client hold it.                  *)
WorkspacesHold ==
    Running =>
      LET w == call.opened IN
      /\ \E m \in call.past : Revision(m.world, w.root, w.revision.selector) = w.revision
      /\ \E m \in call.past : DirtyOverlayId(m.world, w.root, w.revision) = w.overlay
      /\ \E m \in call.past : m.generation = w.generation
      /\ call.generation = w.generation
      /\ call.roots # {} => w.root \in call.roots
      /\ call.request.file \/ call.request.tool = "workspace_open" \/ call.request.paths \subseteq {w.root}

(* A workspace that a call names still held the files it held when it was  *)
(* opened, at a moment of the call, and the call runs in one of the same   *)
(* checkout and storage.                                                   *)
NamedWorkspacesHold ==
    Running /\ call.named # None =>
      LET id == call.named.id IN
      /\ call.opened.root = id.root /\ call.opened.domain = id.domain
      /\ id.root = "x" => \E m \in call.past : m.world.inode = call.named.record.inode
      /\ id.overlay # None => \E m \in call.past : m.world.work = call.named.record.files

(* The roots that a call goes by were listed after the last notification   *)
(* that came before it.                                                    *)
RootsAreCurrent == call.at \notin {"idle", "roots"} => call.version >= call.since

SessionsAreSound == WorkspacesHold /\ NamedWorkspacesHold /\ RootsAreCurrent

=============================================================================
