--------------------------- MODULE GraphRepository --------------------------
(***************************************************************************)
(* The graph of a revision, from facts to rows.                            *)
(*                                                                         *)
(* src/src/intelligence/resolution/resolver.ts: the facts of the sources   *)
(* are validated, the sources are taken in the order of their paths, first *)
(* for their declarations, then for their hierarchies, then for their      *)
(* relationships, and a relationship is resolved among the nodes there are *)
(* by then.                                                                *)
(*                                                                         *)
(* src/src/intelligence/graph: the resolved graph becomes a snapshot of    *)
(* nodes, occurrences, edges and evidence; the snapshot is put into tables *)
(* that all generations share, under identities that name the version of   *)
(* each node, with memberships that say which rows belong to a generation; *)
(* and a bounded load finds a part of a generation again.                  *)
(*                                                                         *)
(* An identity of the code (a digest) is the tuple or record it is of.     *)
(***************************************************************************)
EXTENDS Naturals, Sequences, FiniteSets, SequencesExt

CONSTANTS Paths,         \* 1..n, in the order of the paths
          Variants,      \* the facts a source may have
          Answers,       \* the module names each path answers to
          MaxGenerations,
          Options,       \* what loads ask for
          Later          \* the sources an edit may leave behind

VARIABLES request,       \* the source at each path, or Absent
          stage,         \* "asked", "refused" or "done", and what follows
          graph,
          generation,
          writes,        \* the tables the reservation has still to write
          tables,        \* the rows, of all generations
          published,     \* history: the snapshot of each generation, or NoSnapshot
          load           \* the load in progress

vars == <<request, stage, graph>>

Absent    == [kind |-> "absent"]
Structured == {"document", "project"}

GraphResolutionAssumption ==
    /\ Paths = 1..Cardinality(Paths)
    /\ \A v \in Variants : v.kind \in {"code"} \cup Structured

-----------------------------------------------------------------------------
(* What is accepted.                                                       *)

(* The ids of a source's facts are distinct: the facts are sets, so two    *)
(* with one id show as fewer ids than facts.                               *)
Unique(F) == \A f, g \in F : f.id = g.id => f = g

Parents(nodes, n) == {m \in nodes : m.id = n.parent}

(* The parents of n, at most as many steps up as there are nodes.          *)
Ancestors(nodes, n) ==
    LET up[k \in 0..Cardinality(nodes)] ==
            IF k = 0 THEN Parents(nodes, n)
            ELSE up[k - 1] \cup UNION {Parents(nodes, m) : m \in up[k - 1]}
    IN up[Cardinality(nodes)]

ParentsExist(nodes) == \A n \in nodes : n.parent = "none" \/ \E m \in nodes : m.id = n.parent

ValidCode(f) ==
    /\ Unique(f.symbols \cup f.uses \cup f.imports \cup f.exports)
    /\ \A u \in f.uses : u.within = "none" \/ \E s \in f.symbols : s.id = u.within

ValidDocument(f) ==
    /\ Unique(f.nodes \cup f.edges) /\ ParentsExist(f.nodes)
    /\ \A n \in f.nodes : n \notin Ancestors(f.nodes, n)
    /\ \A e \in f.edges : e.from = "none" \/ \E n \in f.nodes : n.id = e.from

(* Of a project the links must be reciprocal; nothing looks for cycles.    *)
ValidProject(f) ==
    /\ Unique(f.nodes \cup f.edges) /\ ParentsExist(f.nodes)
    /\ \A e \in f.edges : e.from = "none" \/ \E n \in f.nodes : n.id = e.from

Valid(s) == CASE s.kind = "code"     -> ValidCode(s)
              [] s.kind = "document" -> ValidDocument(s)
              [] s.kind = "project"  -> ValidProject(s)
              [] s.kind = "absent"   -> TRUE

-----------------------------------------------------------------------------
(* The parts of the output.                                                *)

Empty == [nodes |-> {}, relationships |-> {}, evidence |-> {}, memberships |-> {}]

AddOccurrence(g, p, f, role) ==
    [g EXCEPT !.memberships = @ \cup {<<p, <<f.id, role>>, "occurrence">>}]

AddEvidence(g, p, f, basis) ==
    [g EXCEPT !.evidence = @ \cup {[path |-> p, fact |-> f.id, basis |-> basis]},
              !.memberships = @ \cup {<<p, <<f.id, basis>>, "evidence">>}]

(* A node is its source's fact, or the target a relationship brings along. *)
AddNode(g, p, f, as, kind, name) ==
    [g EXCEPT !.nodes = @ \cup {[id |-> <<p, f.id, as>>, kind |-> kind, name |-> name, path |-> p]},
              !.memberships = @ \cup {<<p, <<f.id, as>>, "node">>}]

NodeOf(p, id) == IF id = "none" THEN << >> ELSE <<p, id, "declaration">>

ResolutionStatus(targets, exact) ==
    IF targets = {} THEN "unresolved"
    ELSE IF exact /\ Cardinality(targets) = 1 THEN "resolved" ELSE "ambiguous"

AddRelationship(g, p, f, kind, basis, target, targets, exact, from) ==
    LET h == AddEvidence(AddOccurrence(g, p, f, kind), p, f, basis) IN
    [h EXCEPT !.relationships = @ \cup
                 {[path |-> p, fact |-> f.id, kind |-> kind, target |-> target, targets |-> targets,
                   status |-> ResolutionStatus(targets, exact), from |-> from]},
              !.memberships = @ \cup {<<p, <<f.id, kind>>, "relationship">>}]

Each(g, F, Op(_, _)) == FoldLeft(Op, g, SetToSeq(F))

Declared(g, p, f, kind) ==
    AddEvidence(AddNode(AddOccurrence(g, p, f, "declaration"), p, f, "declaration", kind, f.name), p, f,
                "declaration")

CodeDeclarations(g, p) ==
    Each(g, request[p].symbols, LAMBDA h, s : Declared(h, p, s, "symbol"))

StructuredDeclarations(g, p) ==
    Each(g, request[p].nodes, LAMBDA h, n : Declared(h, p, n, n.kind))

HierarchyRelationships(g, p) ==
    Each(g, {n \in request[p].nodes : n.parent # "none"},
         LAMBDA h, n : AddRelationship(h, p, n, "containment", "hierarchy", n.name, {NodeOf(p, n.id)}, TRUE,
                                       NodeOf(p, n.parent)))

-----------------------------------------------------------------------------
(* What a name may mean.                                                   *)

TargetsByName(g, name, Ps, kinds) ==
    {n.id : n \in {m \in g.nodes : m.name = name /\ m.path \in Ps /\ m.kind \in kinds}}

AnyKind == {"symbol", "package", "project", "document", "section", "resource", "component", "external"}

(* Mutant: a name is looked up in all sources.                             *)
HereEverywhere(g, name, p) == TargetsByName(g, name, Paths, AnyKind)

Here(g, name, p) == TargetsByName(g, name, {p}, AnyKind)

(* Symbols of the scope that encloses the use come first, then the         *)
(* variables declared before it, of those the nearest.                     *)
LocalCandidates(p, u) ==
    LET all    == {s \in request[p].symbols : s.name = u.name}
        outer  == UNION {{s.scope} : s \in {t \in request[p].symbols : t.id = u.within}} \ {"top"}
        scoped == {s \in all : s.scope \in outer}
        seen   == IF scoped = {} THEN all ELSE scoped
        vars_  == {s \in seen : s.variable /\ s.at <= u.at}
        near   == {s \in vars_ : \A t \in vars_ : t.at <= s.at}
    IN {NodeOf(p, s.id) : s \in IF vars_ = {} THEN seen ELSE near}

(* A relative module is one of the sources; any other specifier is the     *)
(* name of a package or a project, and whether a package that only a       *)
(* dependency brought along is found depends on the order of the paths.    *)
Exported(g, i) ==
    IF i.relative
    THEN UNION {UNION {Here(g, e.local, q) : e \in {x \in request[q].exports : x.name = i.name}}
                  : q \in {r \in Paths : request[r].kind = "code" /\ i.module \in Answers[r]}}
    ELSE TargetsByName(g, i.module, Paths, {"package", "project"})

CodeRelationships(g, p) ==
    LET use(h, u) ==
          CASE u.kind = "reference" ->
                 AddRelationship(h, p, u, "reference", "local-scope", u.name, LocalCandidates(p, u), TRUE,
                                 NodeOf(p, u.within))
            [] u.kind = "call" ->
                 AddRelationship(h, p, u, "call", "name-only", u.name, LocalCandidates(p, u), FALSE,
                                 NodeOf(p, u.within))
            [] u.kind \in {"inheritance", "implementation"} ->
                 AddRelationship(h, p, u, u.kind, "local-scope", u.name, Here(h, u.name, p), TRUE,
                                 NodeOf(p, u.within))
        import(h, i) == AddRelationship(h, p, i, "import", "module-export", i.module, Exported(h, i), TRUE,
                                        << >>)
        export(h, e) == AddRelationship(h, p, e, "export", "local-scope", e.name, Here(h, e.local, p), TRUE,
                                        << >>)
    IN Each(Each(Each(g, request[p].uses, use), request[p].imports, import), request[p].exports, export)

AllowedKinds(kind) ==
    CASE kind = "dependency"     -> {"package"}
      [] kind = "resource"       -> {"resource"}
      [] kind = "document-link"  -> {"document", "section"}
      [] kind = "type-reference" -> {"symbol", "component"}
      [] OTHER                   -> {"project", "document", "section"}

(* A target nobody has declared so far becomes a node of this source.      *)
DirectRelationships(g, p) ==
    LET edge(h, e) ==
          LET kind  == IF e.kind = "reference" /\ request[p].kind = "document" THEN "document-link"
                       ELSE e.kind
              found == TargetsByName(h, e.target, Paths, AllowedKinds(kind))
              made  == CASE e.kind = "dependency" -> "package" [] e.kind = "resource" -> "resource"
                         [] OTHER -> "external"
              h2    == IF found # {} THEN h
                       ELSE AddNode(AddOccurrence(h, p, e, "target"), p, e, "target", made, e.target)
          IN AddRelationship(h2, p, e, kind, "direct", e.target,
                             IF found # {} THEN found ELSE {<<p, e.id, "target">>}, TRUE, NodeOf(p, e.from))
    IN Each(g, request[p].edges, edge)

PathsOf(kinds) == SelectSeq([i \in 1..Cardinality(Paths) |-> i], LAMBDA p : request[p].kind \in kinds)

Declarations(g, p) ==
    IF request[p].kind = "code" THEN CodeDeclarations(g, p) ELSE StructuredDeclarations(g, p)
Relationships(g, p) ==
    IF request[p].kind = "code" THEN CodeRelationships(g, p) ELSE DirectRelationships(g, p)

Materialized ==
    LET declared == FoldLeft(Declarations, Empty, PathsOf({"code"} \cup Structured))
        placed   == FoldLeft(HierarchyRelationships, declared, PathsOf(Structured))
    IN FoldLeft(Relationships, placed, PathsOf({"code"} \cup Structured))

-----------------------------------------------------------------------------
Init == /\ request \in [Paths -> Variants \cup {Absent}]
        /\ stage = "asked" /\ graph = Empty

MaterializeResolutionInput ==
    /\ stage = "asked"
    /\ IF \A p \in Paths : Valid(request[p])
       THEN stage' = "done" /\ graph' = Materialized
       ELSE stage' = "refused" /\ UNCHANGED graph
    /\ UNCHANGED request

Ended == stage # "asked" /\ UNCHANGED vars

Next == MaterializeResolutionInput \/ Ended

Spec == Init /\ [][Next]_vars

-----------------------------------------------------------------------------
Ids == {n.id : n \in graph.nodes}

(* Whatever a relationship names is in the graph, with evidence and a      *)
(* membership of its own source; a resolved one has exactly one target.    *)
EndpointsExist ==
    \A r \in graph.relationships :
       /\ r.targets \subseteq Ids /\ r.from \in Ids \cup {<< >>}
       /\ r.status = "resolved" => Cardinality(r.targets) = 1
       /\ r.kind = "call" => r.status # "resolved"
       /\ \E e \in graph.evidence : e.path = r.path /\ e.fact = r.fact

(* What stands in a document is a tree.                                    *)
DocumentsAreTrees ==
    LET up(n) == {r.from : r \in {x \in graph.relationships : x.kind = "containment" /\ n \in x.targets}}
    IN \A n \in graph.nodes : /\ Cardinality(up(n.id)) <= 1
                              /\ request[n.path].kind = "document" => n.id \notin up(n.id)

(* Names that no import carries stay in their source: a reference, a call, *)
(* an export or an inheritance never reaches another file, so that a file  *)
(* changed elsewhere does not change what they mean; an import of a module *)
(* reaches only that module's exports.                                     *)
NamesStayHome ==
    \A r \in graph.relationships :
       /\ r.kind \in {"reference", "call", "export", "inheritance", "implementation"} =>
             \A t \in r.targets : t[1] = r.path
       /\ r.kind = "import" => \A t \in r.targets :
             \A i \in request[r.path].imports :
                i.id = r.fact /\ i.relative =>
                   i.module \in Answers[t[1]] /\ \E e \in request[t[1]].exports : e.name = i.name

ResolutionIsSound == EndpointsExist /\ DocumentsAreTrees /\ NamesStayHome

-----------------------------------------------------------------------------
(* The stored graph.                                                       *)

stored == <<generation, writes, tables, published>>
repositoryVars == <<vars, stored, load>>

Kinds   == <<"nodes", "occurrences", "edges", "evidence", "memberships">>

NoSnapshot == [nodes |-> {}, occurrences |-> {}, edges |-> {}, evidence |-> {}]
NoTables   == [t \in ToSet(Kinds) |-> {}]
NoLoad     == [step |-> "none"]

-----------------------------------------------------------------------------
(* graphFromResolution                                                     *)

Digest(p) == request[p].digest

(* Parents that lead back to the node: the whole graph is refused.         *)
Cyclic == \E p \in Paths : /\ request[p].kind \in Structured
                           /\ \E n \in request[p].nodes : n \in Ancestors(request[p].nodes, n)

Repository  == [id |-> <<"repository">>, fp |-> <<"repository">>, about |-> << >>]
FileId(p)   == <<"file", p>>
File(p)     == [id |-> FileId(p), fp |-> <<"source", Digest(p)>>, about |-> << >>]
ResolvedId(i) == <<"resolved", i[1], i[2], i[3], Digest(i[1])>>
Resolved(n) == [id |-> ResolvedId(n.id), fp |-> <<"source", Digest(n.path)>>, about |-> <<n.name, n.kind>>]

(* Mutant: the identity of a relationship leaves its targets out.          *)
IdWithoutTargets(r) == <<r.path, r.fact, r.kind, Digest(r.path), r.target>>

RelationshipId(r) == <<r.path, r.fact, r.kind, Digest(r.path), r.target, {ResolvedId(t) : t \in r.targets}>>

(* Where a relationship leads: its one target, a concept for several, or a *)
(* name for none.                                                          *)
Target(r) ==
    CASE r.status = "ambiguous" ->
           [id |-> <<"ambiguous", RelationshipId(r)>>, fp |-> <<"id", RelationshipId(r)>>,
            about |-> <<r.target, {ResolvedId(t) : t \in r.targets}>>]
      [] r.status = "resolved" ->
           LET t == CHOOSE i \in r.targets : TRUE
           IN Resolved(CHOOSE n \in graph.nodes : n.id = t)
      [] r.status = "unresolved" ->
           [id |-> <<"external", r.target>>, fp |-> <<"name", r.target>>, about |-> <<r.target>>]

Occurring == {<<m[1], m[2][1], m[2][2]>> : m \in {x \in graph.memberships : x[3] = "occurrence"}}

(* Whose occurrence it is: of what it declares, of where it leads from, or *)
(* of the file.                                                            *)
Owner(p, fact, role) ==
    LET from == {r.from : r \in {x \in graph.relationships : x.path = p /\ x.fact = fact /\ x.kind = role}}
                \ {<< >>}
    IN IF role \in {"declaration", "target"} THEN ResolvedId(<<p, fact, role>>)
       ELSE IF from # {} THEN ResolvedId(CHOOSE i \in from : TRUE)
       ELSE FileId(p)

OccurrenceRole(role) == IF role \in {"import", "export", "call", "declaration"} THEN role ELSE "reference"

Occurrence(p, fact, role) ==
    [node |-> Owner(p, fact, role), path |-> p, range |-> fact, role |-> OccurrenceRole(role),
     source |-> Digest(p)]

Files == {n.path : n \in graph.nodes} \cup {o[1] : o \in Occurring}

(* A file stands where the first of its occurrences stands.                *)
Containment(p) ==
    LET first == CHOOSE o \in Occurring : o[1] = p
    IN [node |-> FileId(p), path |-> p, range |-> first[2], role |-> "containment", source |-> Digest(p)]

Edge(kind, from, to, mark, p, status, candidates) ==
    [id |-> [kind |-> kind, from |-> from, to |-> to, mark |-> mark, source |-> Digest(p)],
     status |-> status, candidates |-> candidates]

RelationshipOccurrence(r) == Occurrence(r.path, r.fact, r.kind)

RelationshipEdge(r) ==
    Edge(r.kind, IF r.from = << >> THEN RelationshipOccurrence(r).node ELSE ResolvedId(r.from),
         Target(r).id, <<"resolution", RelationshipId(r)>>, r.path, r.status, {ResolvedId(t) : t \in r.targets})

Declaration(n) == Edge("declares", FileId(n.path), ResolvedId(n.id), <<"declaration", n.id>>, n.path, "explicit", {})

FileEdge(p) == Edge("contains", <<"repository">>, FileId(p), <<"file", p>>, p, "explicit", {})

(* Each edge with the occurrence that shows it.                            *)
Shown ==
    {<<FileEdge(p), Containment(p)>> : p \in Files}
    \cup {<<Declaration(n), Occurrence(n.id[1], n.id[2], n.id[3])>> : n \in graph.nodes}
    \cup {<<RelationshipEdge(r), RelationshipOccurrence(r)>> : r \in graph.relationships}

GraphFromResolution ==
    [nodes |-> {Repository} \cup {File(p) : p \in Files} \cup {Resolved(n) : n \in graph.nodes}
               \cup {Target(r) : r \in graph.relationships},
     occurrences |-> {Occurrence(o[1], o[2], o[3]) : o \in Occurring} \cup {Containment(p) : p \in Files},
     edges |-> {s[1] : s \in Shown},
     evidence |-> {[edge |-> s[1].id, occurrence |-> s[2]] : s \in Shown}]

-----------------------------------------------------------------------------
(* Storage identities: a node's is of its version, the others follow.      *)

Renamed(s, name) ==
    LET edgeId(i) == [i EXCEPT !.from = name[@], !.to = name[@]]
        moved(o)  == [o EXCEPT !.node = name[@]]
    IN [nodes |-> {[id |-> name[n.id], node |-> n] : n \in s.nodes},
        occurrences |-> {moved(o) : o \in s.occurrences},
        edges |-> {[e EXCEPT !.id = edgeId(@)] : e \in s.edges},
        evidence |-> {[edge |-> edgeId(x.edge), occurrence |-> moved(x.occurrence)] : x \in s.evidence}]

EncodeStored(s) ==
    LET version == [i \in {n.id : n \in s.nodes} |-> <<i, (CHOOSE n \in s.nodes : n.id = i).fp>>]
    IN Renamed(s, version)

DecodeStored(s) ==
    [Renamed(s, [v \in {n.id : n \in s.nodes} |-> v[1]]) EXCEPT !.nodes = {n.node : n \in s.nodes}]

Memberships(g, s) ==
    {<<g, "node", n.id>> : n \in s.nodes} \cup {<<g, "edge", e.id>> : e \in s.edges}
    \cup {<<g, "occurrence", o>> : o \in s.occurrences} \cup {<<g, "evidence", x>> : x \in s.evidence}

Rows(table) ==
    LET s == EncodeStored(GraphFromResolution)
    IN IF table = "memberships" THEN Memberships(generation, s) ELSE s[table]

(* A row is never replaced: one that differs from what is stored under its *)
(* identity makes the call fail.                                           *)
Conflicts(table) ==
    /\ table \in {"nodes", "edges"}
    /\ \E row \in Rows(table), old \in tables[table] : row.id = old.id /\ row # old

(* The resolution, refused when a hierarchy runs in a circle.              *)
Resolve ==
    /\ stage = "asked"
    /\ LET valid == \A p \in Paths : Valid(request[p])
       IN /\ graph' = IF valid /\ ~Cyclic THEN Materialized ELSE graph
          /\ stage' = IF valid /\ ~Cyclic THEN "persisting" ELSE "refused"
          /\ writes' = Kinds
    /\ UNCHANGED <<request, generation, tables, published, load>>

(* One table after the other, each in a section of its own.                *)
PersistTable ==
    /\ stage = "persisting" /\ writes # << >>
    /\ IF Conflicts(Head(writes))
       THEN stage' = "failed" /\ UNCHANGED <<writes, tables>>
       ELSE /\ tables' = [tables EXCEPT ![Head(writes)] = @ \cup Rows(Head(writes))]
            /\ writes' = Tail(writes) /\ UNCHANGED stage
    /\ UNCHANGED <<request, graph, generation, published, load>>

Publish ==
    /\ stage = "persisting" /\ writes = << >>
    /\ stage' = "published"
    /\ published' = [published EXCEPT ![generation] = GraphFromResolution]
    /\ UNCHANGED <<request, graph, generation, writes, tables, load>>

(* The process ends, or the refresh is cancelled: the rows stay.           *)
Interrupt ==
    /\ stage = "persisting" /\ stage' = "interrupted"
    /\ UNCHANGED <<request, graph, stored, load>>

(* A source has changed: the next generation.                              *)
Edit ==
    /\ stage \in {"published", "interrupted", "refused"}
    /\ generation < MaxGenerations /\ load.step = "none"
    /\ \E p \in Paths, v \in Later : request' = [request EXCEPT ![p] = v]
    /\ generation' = generation + 1 /\ stage' = "asked" /\ graph' = Empty
    /\ UNCHANGED <<writes, tables, published, load>>

-----------------------------------------------------------------------------
(* load(): under a budget, in steps that read the tables.                  *)

(* The order of the identities, which are digests, is any fixed one.       *)
FirstOf(S, n) ==
    LET take[k \in 0..Cardinality(S)] ==
            IF k = 0 THEN {} ELSE take[k - 1] \cup {CHOOSE x \in S \ take[k - 1] : TRUE}
    IN IF n >= Cardinality(S) THEN S ELSE take[n]

(* What a read gives: all, all but the last, or nothing.  The time that    *)
(* has run out ends all reads, the bytes that have run out end the reads   *)
(* of rows.                                                                *)
Reads(S) == {<<S, {}>>} \cup
    IF S = {} THEN {}
    ELSE {<<FirstOf(S, Cardinality(S) - 1), {"bytes"}>>, <<{}, {"milliseconds"}>>}

Out(reasons) == reasons \cap {"bytes", "milliseconds"} # {}

(* Mutant: an entity is taken whatever generation it belongs to.           *)
OfAnyGeneration(kind, S) == {x \in S : \E g \in 1..MaxGenerations : <<g, kind, x>> \in tables["memberships"]}

Members(kind, S) == {x \in S : <<load.of, kind, x>> \in tables["memberships"]}

StoredNodes(S) == {n \in tables["nodes"] : n.id \in S}

Start ==
    /\ stage = "published" /\ load.step = "none"
    /\ \E g \in 1..MaxGenerations, o \in Options :
          /\ published[g] # NoSnapshot
          /\ load' = [step |-> "nodes", of |-> g, asks |-> o, nodes |-> {}, edges |-> {}, frontier |-> {},
                      visited |-> {}, depth |-> 0, result |-> NoSnapshot, reasons |-> {}]
    /\ UNCHANGED <<vars, stored>>

(* The nodes asked for, in this generation's versions; with none asked for *)
(* as many as the budget takes.  When none is found the memberships are    *)
(* read as an older version of the store has them.                         *)
LoadNodes ==
    /\ load.step = "nodes"
    /\ LET all    == Members("node", {n.id : n \in tables["nodes"]})
           asked  == {v \in all : v[1] \in load.asks.ids}
           want   == IF load.asks.ids = {} THEN FirstOf(all, load.asks.maxNodes) ELSE asked
           over   == asked = {} /\ Cardinality(all) > load.asks.maxNodes
       IN \E r \in Reads(want) :
             load' = [load EXCEPT !.step = "edges", !.nodes = r[1], !.frontier = r[1],
                                  !.reasons = @ \cup r[2] \cup (IF over THEN {"nodes"} ELSE {})]
    /\ UNCHANGED <<vars, stored>>

Touches(e, frontier) ==
    \/ load.asks.direction # "reverse" /\ e.id.from \in frontier
    \/ load.asks.direction # "forward" /\ e.id.to \in frontier

(* One level: the edges of the frontier, their other ends, and on.         *)
LoadLevel ==
    /\ load.step = "edges"
    /\ LET room == load.asks.maxEdges - Cardinality(load.edges)
           candidates == {e \in tables["edges"] : Touches(e, load.frontier) /\ e \notin load.edges}
           mine == {e \in candidates : e.id \in Members("edge", {c.id : c \in candidates})}
           blind == Out(load.reasons) \/ room <= 0
       IN \E r \in IF blind THEN {<<{}, {}>>} ELSE Reads(FirstOf(mine, room)) :
            LET ends    == UNION {{e.id.from, e.id.to} : e \in r[1]} \ load.nodes
                space   == load.asks.maxNodes - Cardinality(load.nodes)
                cut     == load.reasons \cup r[2]
                full    == (IF room <= 0 /\ load.frontier # {} THEN {"edges"} ELSE {})
                           \cup (IF room > 0 /\ Cardinality(r[1]) >= room
                                     /\ Cardinality(candidates) > Cardinality(r[1]) THEN {"edges"} ELSE {})
                           \cup (IF load.asks.ids # {} /\ Cardinality(ends) > space THEN {"nodes"} ELSE {})
            IN \E n \in IF Out(cut) \/ load.asks.ids = {} THEN {<<{}, {}>>}
                        ELSE Reads(FirstOf(Members("node", ends), space)) :
                 LET nodes == load.nodes \cup n[1]
                     edges == {e \in r[1] : e.id.from \in nodes /\ e.id.to \in nodes}
                     next  == {IF load.asks.direction = "reverse" THEN e.id.from ELSE e.id.to : e \in edges}
                              \ load.visited
                     last  == load.asks.ids = {} \/ load.depth >= load.asks.depth \/ next = {}
                              \/ "milliseconds" \in cut \cup n[2]
                 IN load' = [load EXCEPT !.nodes = nodes, !.edges = @ \cup edges, !.depth = @ + 1,
                                         !.visited = @ \cup load.frontier, !.frontier = next,
                                         !.reasons = cut \cup full \cup n[2],
                                         !.step = IF last THEN "evidence" ELSE "edges"]
    /\ UNCHANGED <<vars, stored>>

(* The evidence of the edges and its occurrences; an edge without any is   *)
(* left out.                                                               *)
LoadEvidence ==
    /\ load.step = "evidence"
    /\ LET candidates == {x \in tables["evidence"] : \E e \in load.edges : e.id = x.edge}
           limit == 4 * load.asks.maxEdges
       IN \E r \in IF Out(load.reasons) THEN {<<{}, {}>>}
                   ELSE Reads(FirstOf(Members("evidence", candidates), limit)) :
          \E o \in IF Out(load.reasons \cup r[2]) THEN {<<{}, {}>>}
                   ELSE Reads(FirstOf(Members("occurrence", {x.occurrence : x \in r[1]}), limit)) :
            LET evidence == {x \in r[1] : x.occurrence \in o[1]}
                over     == Cardinality(r[1]) >= limit /\ Cardinality(candidates) > Cardinality(r[1])
            IN load' = [load EXCEPT !.step = "done",
                          !.reasons = @ \cup r[2] \cup o[2] \cup (IF over THEN {"edges"} ELSE {}),
                          !.result = DecodeStored(
                             [nodes |-> StoredNodes(load.nodes),
                              occurrences |-> {x.occurrence : x \in evidence},
                              edges |-> {e \in load.edges : \E x \in evidence : x.edge = e.id},
                              evidence |-> evidence])]
    /\ UNCHANGED <<vars, stored>>

Answer ==
    /\ load.step = "done" /\ load' = NoLoad
    /\ UNCHANGED <<vars, stored>>

Stop ==
    /\ \/ stage = "failed"
       \/ stage \in {"refused", "interrupted"} /\ generation = MaxGenerations
    /\ UNCHANGED repositoryVars

RepositoryInit ==
    /\ request \in [Paths -> Variants] /\ stage = "asked" /\ graph = Empty
    /\ generation = 1 /\ writes = << >> /\ tables = NoTables
    /\ published = [g \in 1..MaxGenerations |-> NoSnapshot] /\ load = NoLoad

RepositoryNext ==
    \/ Resolve \/ PersistTable \/ Publish \/ Interrupt \/ Edit
    \/ Start \/ LoadNodes \/ LoadLevel \/ LoadEvidence \/ Answer \/ Stop

RepositorySpec == RepositoryInit /\ [][RepositoryNext]_repositoryVars

-----------------------------------------------------------------------------
(* The nodes a load asks for and, as many steps away as it says, those the *)
(* edges lead to, read off the published snapshot itself.                  *)
Reached(s, o) ==
    LET step(S) == S \cup UNION {IF o.direction = "reverse" THEN IF e.id.to \in S THEN {e.id.from} ELSE {}
                                 ELSE IF e.id.from \in S THEN {e.id.to} ELSE {} : e \in s.edges}
        near[k \in 0..o.depth] == IF k = 0 THEN o.ids \cap {n.id : n \in s.nodes} ELSE step(near[k - 1])
    IN near[o.depth]

Expected(s, o) ==
    LET from  == Reached(s, o)
        edges == IF o.ids = {} THEN s.edges
                 ELSE {e \in s.edges : \/ o.direction # "reverse" /\ e.id.from \in from
                                       \/ o.direction # "forward" /\ e.id.to \in from}
        ends  == from \cup UNION {{e.id.from, e.id.to} : e \in edges}
        shown == {x \in s.evidence : \E e \in edges : e.id = x.edge}
    IN [nodes |-> IF o.ids = {} THEN s.nodes ELSE {n \in s.nodes : n.id \in ends},
        edges |-> edges, evidence |-> shown, occurrences |-> {x.occurrence : x \in shown}]

Part(s, t) == /\ s.nodes \subseteq t.nodes /\ s.edges \subseteq t.edges
              /\ s.evidence \subseteq t.evidence /\ s.occurrences \subseteq t.occurrences

(* Endpoints, evidence and its occurrences are in the snapshot, each node  *)
(* once, and what shows an edge belongs to one of its ends.                *)
Closed(s) ==
    LET ids == {n.id : n \in s.nodes} IN
    /\ Cardinality(ids) = Cardinality(s.nodes)
    /\ Cardinality({e.id : e \in s.edges}) = Cardinality(s.edges)
    /\ \A e \in s.edges : e.id.from \in ids /\ e.id.to \in ids /\ \E x \in s.evidence : x.edge = e.id
    /\ \A o \in s.occurrences : o.node \in ids
    /\ \A x \in s.evidence : /\ x.occurrence \in s.occurrences
                             /\ \E e \in s.edges : e.id = x.edge
                             /\ x.occurrence.node \in {x.edge.from, x.edge.to}

(* A resolution that was not refused gives a snapshot that is whole, and   *)
(* storing it never meets a row of another generation that says something  *)
(* else under the same identity.                                           *)
SnapshotsAreStored ==
    /\ stage = "persisting" => Closed(GraphFromResolution)
    /\ stage # "failed"

(* What a load answers is a part of what its generation published, in the  *)
(* versions of that generation, with nothing that hangs in the air; when   *)
(* it gives no reason for being incomplete it is all that was asked for.   *)
LoadsAreHonest ==
    load.step = "done" =>
      LET all == Expected(published[load.of], load.asks) IN
      /\ Closed(load.result) /\ Part(load.result, all)
      /\ load.reasons = {} => load.result = all

(* The stored graph is the resolved one, whatever else the tables hold.    *)
GraphIsStored == SnapshotsAreStored /\ LoadsAreHonest
=============================================================================
