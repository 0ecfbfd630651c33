---------------------------- MODULE MCComponents ----------------------------
(***************************************************************************)
(* The components around the core, each checked by itself in one run: a    *)
(* behaviour is that of one part.  The parts share nothing, so v1, v2, ... *)
(* stand for the variables of whichever part it is.                        *)
(***************************************************************************)
EXTENDS Integers, Sequences, FiniteSets, TLC


CONSTANT NoValue

----------------------------------------------------------------------------
(* What the parts are given: small inputs, one group for each component.  *)

UpTo(S, n) == UNION {[1 .. k -> S] : k \in 0 .. n}

----------------------------------------------------------------------------
(* Approvals: two calls of one session, the second needs two decisions.    *)
CallSession == [c \in {"c1", "c2"} |-> "s1"]
CallTool    == [c \in {"c1", "c2"} |-> "write"]
CallNeeds   == ("c1" :> <<"path">>) @@ ("c2" :> <<"filesystem", "path">>)

(* PathPolicy: rules with wildcards and exclusions over a tree of depth 3. *)
FileNames   == {"x", "y"}
PolicyPaths == UpTo(FileNames, 3)
Only(g)     == [heads |-> {<<>>}, tail |-> g]
Selectors   == {Only(<<"**", "*">>), Only(<<"x", "**">>), Only(<<"y">>), Only(<<"**", "x", "**">>),
                [heads |-> {<<"x">>, <<"y">>}, tail |-> <<"**">>]}
RuleOf(a, i, e, r, s) ==
  [anchor |-> a, includes |-> i, excludes |-> e, read |-> r, write |-> "allow", source |-> s]
PolicyRules == {RuleOf(a, {s}, e, r, "global") :
                a \in {<<>>, <<"x">>}, s \in Selectors, e \in {{}, {Only(<<"y">>)}, {Only(<<"**", "x", "**">>)}}, r \in {"allow", "deny"}}
Policy(r, t, w, v, l) ==
  [rules |-> r, trusted |-> t, worktrees |-> w, linked |-> {<<"y", "x">>}, project |-> <<"x">>, version |-> v,
   anyPath |-> l = "any", temporary |-> IF l = "temp" THEN {<<"y">>} ELSE {}, unrestricted |-> v = 2, files |-> {<<"x", "x">>}]
WholeTree   == RuleOf(<<>>, {Only(<<"**", "*">>)}, {}, "allow", "global")
OwnAllow    == RuleOf(<<"x">>, {Only(<<"x", "**">>)}, {}, "allow", "project")
Policies    == {Policy({r, q}, {t}, w, 2, "") :
                r \in PolicyRules, q \in {WholeTree, OwnAllow}, t \in {<<"x", "x">>, <<"y">>}, w \in {"request", "include"}}
               \cup {Policy({r}, {<<"x">>}, "ignore", 1, l) : r \in PolicyRules, l \in {"any", "temp"}}

(* ConfigResolution: every way four layers can set or leave a section.     *)
Environments == [root : {NoValue, "b"}, roots : {<<>>, <<"b">>, <<"b", "a">>}, host : {NoValue, "a"}, relative : BOOLEAN]
ResolutionOptions == [client : {<<>>, <<"a">>, <<"b">>, <<"a", "b">>}, cwd : {NoValue, "a", "b"}, launch : {"a", "b"},
                      paths : {{}, {"b"}, {"a", "b"}}]
Unset == [section |-> NoValue, sql |-> [dialect |-> NoValue, variant |-> NoValue], filesystem |-> NoValue,
          telemetry |-> NoValue, version |-> NoValue]
Defaults == [section |-> [own |-> 0, table |-> [x |-> 0, y |-> 0]], sql |-> [dialect |-> NoValue, variant |-> NoValue],
             filesystem |-> "restricted", telemetry |-> TRUE, version |-> 1]
LayersOf(g, p, e) == [default |-> Defaults, global |-> g, project |-> p, environment |-> e]
Sections == {NoValue} \cup [own : {NoValue, 1}, table : {NoValue} \cup [x : {NoValue, 1}, y : {NoValue, 1}]]
Dialects == [dialect : {NoValue, "p", "q"}, variant : {NoValue, 1}]
Section(s) == [Unset EXCEPT !.section = s]
Sql(s)     == [Unset EXCEPT !.sql = s]
Switches   == {Unset} \cup [section : {NoValue}, sql : {Unset.sql}, filesystem : {NoValue, "restricted", "unrestricted"},
                            telemetry : {NoValue, TRUE, FALSE}, version : {1, 2}]
ConfigLayers ==
  {LayersOf(Section(g), Section(p), Section(e)) : g \in Sections, p \in Sections,
      e \in {NoValue, [own |-> 1, table |-> NoValue], [own |-> NoValue, table |-> [x |-> 1, y |-> NoValue]]}}
  \cup {LayersOf(Sql(g), Sql(p), Unset) : g \in Dialects, p \in Dialects}
  \cup {LayersOf(g, p, Unset) : g \in Switches, p \in Switches}

----------------------------------------------------------------------------
(* LanguageWorkers: the third request is of another dispatcher.            *)
DispatcherOf == [r \in 1 .. 3 |-> IF r = 3 THEN "d2" ELSE "d1"]
SourceBytes  == [r \in 1 .. 3 |-> IF r = 2 THEN 2 ELSE 1]

(* GraphResolution: shadowed and global names, imports, documents, and     *)
(* projects with parents.                                                  *)
Sym(i, n, s, v, a) == [id |-> i, name |-> n, scope |-> s, variable |-> v, at |-> a]
Use(i, k, n, w, a) == [id |-> i, kind |-> k, name |-> n, within |-> w, at |-> a]
Imp(i, m, r, n)    == [id |-> i, module |-> m, relative |-> r, name |-> n]
Exp(i, n, l)       == [id |-> i, name |-> n, local |-> l]
Code(S, U, I, E)   == [kind |-> "code", symbols |-> S, uses |-> U, imports |-> I, exports |-> E]
Structure(k, N, E) == [kind |-> k, nodes |-> N, edges |-> E]
Node(i, k, n, p)   == [id |-> i, kind |-> k, name |-> n, parent |-> p]
Edge(i, k, t, f)   == [id |-> i, kind |-> k, target |-> t, from |-> f]
Facts ==
  {Code({Sym("s1", "x", "f", TRUE, 1), Sym("s2", "x", "f", TRUE, 4), Sym("s3", "f", "top", FALSE, 0), Sym("s4", "g", "f", FALSE, 2)},
        {Use("u1", "reference", "x", "s4", 3), Use("u2", "call", "f", "none", 5), Use("u3", "inheritance", "f", "s3", 6)},
        {}, {Exp("e1", "f", "f")}),
   Code({Sym("s1", "f", "top", FALSE, 0)}, {Use("u1", "reference", "x", "s1", 3)},
        {Imp("i1", "m1", TRUE, "f"), Imp("i2", "lib", FALSE, "f")}, {Exp("e1", "g", "f")}),
   Code({}, {Use("u1", "reference", "x", "s9", 3)}, {}, {})}
  \cup {Structure("document", {Node("n1", "document", "d", p), Node("n2", "section", "x", q)},
                  {Edge("r1", "reference", "d", "n2"), Edge("r2", "dependency", "lib", "none")}) :
        p \in {"none", "n1", "n2"}, q \in {"none", "n1", "n2"}}
  \cup {Structure("project", {Node("n1", "project", "lib", "none"), Node("n2", "component", "f", p)},
                  {Edge("r1", "dependency", "lib", "n1"), Edge("r2", "type-reference", "f", "n1")}) : p \in {"n1", "n3"}}
FactAnswers == [p \in 1 .. 3 |-> IF p = 2 THEN {"m1"} ELSE {"m2"}]

(* GraphRepository: the same facts in several generations.                 *)
Dated(d, f) == f @@ [digest |-> d]
Lib         == Node("n1", "project", "lib", "none")
StoredCode  == Dated(1, Code({Sym("s1", "f", "top", FALSE, 0)}, {Use("u1", "call", "f", "s1", 3), Use("u2", "reference", "f", "none", 3)},
                             {Imp("i1", "lib", FALSE, "f")}, {}))
Dependent   == Dated(2, Structure("project", {Lib}, {Edge("r1", "dependency", "x", "n1")}))
Parental    == Dated(3, Structure("project", {Lib, Node("n2", "package", "lib", "n1")}, {}))
Circular    == Dated(4, Structure("project", {Node("n1", "project", "lib", "n1")}, {}))
Unrelated   == Dated(5, Structure("project", {Lib, Node("n2", "package", "lib", "none")}, {}))
StoredFacts   == {StoredCode, Dependent, Parental, Circular}
LaterFacts    == {Dependent, Unrelated}
StoredAnswers == [p \in 1 .. 2 |-> {"m1"}]
Load(ids, d, k, n, e) == [ids |-> ids, direction |-> d, depth |-> k, maxNodes |-> n, maxEdges |-> e]
LoadOptions ==
  {Load({}, "both", 0, 50, 50), Load({}, "both", 0, 3, 50),
   Load({<<"file", 1>>}, "forward", 1, 50, 50), Load({<<"file", 1>>}, "both", 0, 50, 2),
   Load({<<"external", "lib">>, <<"file", 2>>}, "reverse", 1, 4, 50)}

(* GraphAlgorithms: three nodes, each edge of six shown or not; budgets    *)
(* that stop a request at its depth, its nodes or its bytes.               *)
GraphEdges == <<<<1, 2>>, <<1, 3>>, <<2, 1>>, <<2, 3>>, <<3, 2>>, <<3, 3>>>>
EdgeSet    == {GraphEdges[k] : k \in 1 .. 6}
Snapshot(n, t) == [nodes |-> n, status |-> [e \in EdgeSet |-> IF e = <<1, 3>> THEN "ambiguous" ELSE "resolved"], shown |-> t]
Shown(t)   == /\ <<1, 2>> \in t
              /\ <<3, 3>> \in t => <<2, 1>> \in t
              /\ <<3, 2>> \in t <=> <<2, 3>> \in t
              /\ <<2, 1>> \in t => <<1, 3>> \in t
GraphSnapshots == {Snapshot({1, 2, 3}, t) : t \in {u \in SUBSET EdgeSet : Shown(u)}}
  \cup {Snapshot({1, 2}, EdgeSet), [Snapshot({1, 2, 3}, EdgeSet) EXCEPT !.status[<<1, 3>>] = "resolved"]}
Budget(d, n, e, b, p) == [maxDepth |-> d, maxNodes |-> n, maxEdges |-> e, maxBytes |-> b, pageSize |-> p]
Budgets    == {Budget(3, 4, 6, 9, 2), Budget(3, 4, 6, 9, 9), Budget(1, 4, 6, 9, 2),
               Budget(3, 2, 3, 9, 2), Budget(3, 4, 6, 2, 9)}
Asking(a, b, d, st) == [algorithm |-> a, budget |-> b, direction |-> d, statuses |-> st, starts |-> {1}, target |-> 3]
GraphRequests ==
  {Asking(a, b, d, {"resolved", "ambiguous"}) : a \in {"traverse", "path", "scc"}, b \in Budgets, d \in {"forward", "reverse"}}
  \cup {Asking("path", Budget(3, 4, 6, 9, 2), "forward", {"resolved"})}
  \cup {[algorithm |-> "diff", budget |-> Budget(3, 4, 6, 9, 2), base |-> b] : b \in {s \in GraphSnapshots : Cardinality(s.shown) \in {2, 6}}}

(* GraphAnalytics: graphs of four nodes, and three that need more levels   *)
(* or more nodes than the budget allows.                                   *)
Pairs   == <<<<1, 2>>, <<2, 3>>, <<3, 1>>, <<3, 4>>, <<4, 1>>, <<1, 1>>, <<2, 4>>>>
Four(w) == [nodes |-> 1 .. 4, edges |-> {<<k, Pairs[k][1], Pairs[k][2], w[k]>> : k \in {x \in DOMAIN w : w[x] >= 0}}]
Plain(n, es) == [nodes |-> 1 .. n, edges |-> {<<k, es[k][1], es[k][2], 1>> : k \in DOMAIN es}]
AnalysedGraphs == {Four(w) : w \in [1 .. 6 -> {-1, 1}]} \cup {Four(w) : w \in [1 .. 4 -> {0, 2}]}
  \cup {Plain(6, <<<<1, 2>>, <<2, 3>>, <<3, 1>>, <<4, 5>>, <<5, 6>>, <<6, 4>>, <<3, 4>>>>),
        Plain(6, <<<<1, 4>>, <<2, 5>>, <<3, 6>>, <<4, 2>>, <<5, 3>>, <<6, 1>>>>),
        Plain(7, <<<<1, 2>>, <<2, 3>>, <<3, 4>>, <<4, 5>>, <<5, 6>>, <<6, 7>>>>)}

----------------------------------------------------------------------------
(* Retrieval: chunks with good, missing, corrupt and foreign vectors.      *)
Vector(s, k) == [state |-> s, score |-> k]
ChunkOf(i, src, sy, w, l, r, sz, v) ==
  [id |-> i, source |-> src, symbols |-> sy, words |-> w, language |-> l, range |-> r, size |-> sz, text |-> i, vector |-> v, whole |-> TRUE]
Occurrence(i, n, src, p, pl, r) == [id |-> i, node |-> n, source |-> src, path |-> p, place |-> pl, range |-> r, active |-> TRUE]
Chunk1 == ChunkOf(1, "a", {"f"}, {"f", "g"}, "ts", <<0, 4>>, 1, Vector("good", 1))
Chunk2 == ChunkOf(2, "a", {}, {"g"}, "ts", <<4, 8>>, 2, Vector("good", 2))
Chunk3 == ChunkOf(3, "b", {"g"}, {}, "md", <<0, 4>>, 1, Vector("corrupt", 1))
Occurrences == {Occurrence(1, 1, "a", <<"src", "x">>, 2, <<0, 6>>), Occurrence(2, 2, "b", <<"doc">>, 1, <<0, 2>>),
                Occurrence(3, 1, "a", <<"src", "x">>, 2, <<1, 2>>), Occurrence(4, 3, "a", <<"src", "y">>, 3, <<5, 7>>)}
StoredWorld(c, o, e) == [scope |-> "s", chunks |-> c, occurrences |-> o, names |-> <<"f", "g", "h">>, edges |-> e]
StoredWorlds ==
  {StoredWorld({Chunk1, Chunk2, Chunk3}, Occurrences, <<<<1, 2>>, <<2, 3>>>>),
   StoredWorld({Chunk1, [Chunk2 EXCEPT !.vector.state = "foreign"], [Chunk3 EXCEPT !.whole = FALSE]},
               {[o EXCEPT !.active = o.id # 3] : o \in Occurrences}, <<<<1, 3>>>>),
   StoredWorld({[Chunk1 EXCEPT !.vector.state = "none"], [Chunk3 EXCEPT !.vector.state = "good"]}, Occurrences, << >>)}
Limits(c, b, i) == [maxCandidates |-> c, maxBytes |-> b, maxItems |-> i, maxVectorCandidates |-> 2, maxVectorScan |-> 2,
                    maxDepth |-> 1, maxNodes |-> 3, maxGraphBytes |-> 5]
Wide == Limits(4, 9, 4)
Query(sc, w, ex, inc, den, l, sem, text, b) ==
  [scope |-> sc, words |-> w, exact |-> ex, included |-> inc, denied |-> den, languages |-> l, semantic |-> sem, model |-> sem,
   text |-> text, vectors |-> "auto", intent |-> "implementation", budget |-> b]
Queries ==
  {Query("s", {"g"}, x, inc, den, {}, TRUE, t, b) : x \in {{}, {"f"}}, inc \in {{}, {<<"src">>}}, den \in {{}, {<<"src", "y">>}},
      t \in {"auto", "local"}, b \in {Wide, Limits(2, 3, 4), Limits(4, 9, 1)}}
  \cup {Query("t", {"g"}, {}, {}, {}, {}, TRUE, "local", Wide),
        [Query("s", {"h"}, {}, {}, {}, {"ts"}, FALSE, "local", Wide) EXCEPT !.intent = "search"],
        [Query("s", {"f"}, {}, {}, {}, {"ts"}, TRUE, "auto", [Wide EXCEPT !.maxNodes = 1, !.maxVectorScan = 1])
           EXCEPT !.intent = "documentation", !.vectors = "exact"]}

(* CodeIntelligence: trees with cycles of imports and calls, with files    *)
(* too large, of no grammar, or with errors.                               *)
Named(n, t) == [name |-> n, targets |-> t]
CallFrom(a, b) == [caller |-> a, callee |-> b]
Source(l, sz, fa, p, im, ca) ==
  [artifact |-> FALSE, language |-> l, size |-> sz, facts |-> fa, partial |-> p, imports |-> im, calls |-> ca]
CodeTrees ==
  {<<Source("ts", 1, 1, FALSE, {Named(11, {2}), Named(12, {3})}, {CallFrom("f", "g")}),
     Source("ts", 1, 1, FALSE, {Named(12, {3}), Named(13, {})}, {CallFrom("g", "h"), CallFrom("none", "f")}),
     Source("ts", 1, 1, FALSE, {Named(14, {1}), Named(15, {1, 2})}, {CallFrom("h", "f")})>>,
   <<Source("ts", 1, 1, FALSE, {Named(11, {2})}, {}), Source("ts", 2, 3, TRUE, {Named(12, {3})}, {CallFrom("g", "f")}),
     Source("md", 3, 1, FALSE, {}, {})>>,
   <<Source("ts", 3, 1, FALSE, {}, {}), [Source("none", 1, 1, FALSE, {}, {}) EXCEPT !.artifact = TRUE],
     Source("ts", 2, 3, FALSE, {Named(14, {1})}, {}), Source("ts", 2, 2, FALSE, {Named(12, {3})}, {})>>}
CodeInput(n, p, f, lim) ==
  [name |-> n, paths |-> p, file |-> f, languages |-> {}, scanLimit |-> 3, hideExternal |-> FALSE, hideAmbiguous |-> FALSE,
   target |-> "f", depth |-> 2, limit |-> lim, budget |-> 9]
CodeInputs ==
  {[CodeInput("cycles", {}, {}, 1) EXCEPT !.hideAmbiguous = TRUE], CodeInput("deps", {}, {1}, 9),
   [CodeInput("graph", {1, 3}, {}, 1) EXCEPT !.hideExternal = TRUE], CodeInput("impact", {}, {3}, 9),
   [CodeInput("trace", {}, {}, 9) EXCEPT !.scanLimit = 2], [CodeInput("callers", {}, {}, 9) EXCEPT !.languages = {"ts"}],
   CodeInput("reverse_deps", {}, {2}, 9)}

(* Documents: every short sequence of the lines that nest, and some longer *)
(* ones.                                                                   *)
Line(k) == <<k, "">>
Fence   == <<"fence", "t">>
Mark    == <<"symbol", "x">>
Raw     == <<"code", "x">>
Title(n) == <<"head", n>>
MarkdownLines == {Line("dash"), Fence, Title(1), Title(2), <<"open", "comment">>, <<"shut", "comment">>, Mark, Raw}
Markdowns ==
  {<<Title(1), Fence, Mark, Fence, Title(2), Raw, Fence, Mark, Fence>>, <<Title(1), Fence, Mark, Fence, Title(1), Raw, Fence, Mark, Fence>>,
   <<Title(2), Raw, Title(1), Fence, Mark, Fence, Title(2), Fence, Mark, Fence, Raw>>, <<Title(1), Title(2), Title(2), Raw, Title(1), Fence, Mark, Fence>>,
   <<Line("row"), Line("rule"), Line("row"), Line("text"), Line("rule"), Line("rule"), Line("rule")>>,
   <<<<"open", "script">>, Fence, <<"shut", "script">>, Raw, Fence, Mark, Fence>>, <<Title(1), Fence, <<"fence", "z">>, Fence, Raw>>}
Jsons == {<<"{", "s", ":", "[", "n", ",", "s", "]", "}">>, <<"[", "n", ",", "n", ",", "]">>, <<"{", "s", ":", "n", ",", "s", ":", "n", "}">>,
          <<"[", "{", "}", ",", "[", "]", "]">>, <<"{", "s", ":", "}">>, <<"[", "[", "n", "]">>, <<"{", "s", "}">>,
          <<"{", "s", ":", "{", "s", ":", "n", "}", "}">>}
Tag(a, n) == <<a, n>>
Tags == {Tag("<", "a"), Tag("</", "a"), Tag("<", "br"), Tag("</", "b"), Tag("<", "b"), Tag("/>", "a")}
Texts ==
  {[format |-> "markdown", of |-> s] : s \in UpTo(MarkdownLines, 3) \cup Markdowns}
  \cup {[format |-> "mdx", of |-> s] : s \in Markdowns \cup {<<<<"open", "brace">>, Title(1), <<"shut", "brace">>, Title(1)>>}}
  \cup {[format |-> "json", of |-> s] : s \in UpTo({"{", "}", "[", "]", ":", ",", "s"}, 3) \cup Jsons}
  \cup {[format |-> "html", of |-> s] : s \in UpTo(Tags, 4)}
  \cup {[format |-> "xml", of |-> s] :
          s \in {<<Tag("<", "a"), Tag("<", "br"), <<"comment", "closed">>, Tag("</", "br"), Line("!"), Tag("</", "a")>>,
                 <<Tag("<", "br"), <<"comment", "open">>>>}}
  \cup {[format |-> "rtf", of |-> s] :
          s \in UpTo({"{", "}", "hex", "text", "broken", "word"}, 3) \cup {<<"{", "escape", "unicode", "text", "}", "broken">>}}
  \cup {[format |-> "text", of |-> s] : s \in UpTo({Line("blank"), Line("text")}, 4)}
  \cup {[format |-> f, of |-> <<Line("section"), Line("property"), Line("entry"), Line("blank")>>] : f \in {"toml", "yaml"}}

----------------------------------------------------------------------------
(* WorkspaceSessions: a checkout with staged, changed and missing files.   *)
Checkout(index, work) ==
  [exists |-> TRUE, inode |-> 0, head |-> [a |-> 1, b |-> 0], index |-> index, work |-> work,
   nested |-> [head |-> 0, changed |-> FALSE, content |-> 0], refs |-> [main |-> [a |-> 2, b |-> 1]]]
Checkouts == {Checkout([a |-> 1, b |-> 0], [a |-> 1, b |-> 0]), Checkout([a |-> 0, b |-> 1], [a |-> 0, b |-> 1])}
WorkspaceCall(named, tool, paths, file, rev, write) ==
  [named |-> named, tool |-> tool, paths |-> paths, file |-> file, revision |-> rev, write |-> write]
WorkspaceCalls ==
  {WorkspaceCall(FALSE, "symbol", {"x"}, FALSE, {"index"}, FALSE),
   WorkspaceCall(TRUE, "symbol", {"x"}, FALSE, {}, FALSE), WorkspaceCall(TRUE, "file_patch", {}, TRUE, {"main"}, TRUE),
   WorkspaceCall(FALSE, "file_read", {"x", "y"}, TRUE, {}, FALSE)}
ClientRoots == <<{"x"}, {"x", "y"}>>

(* ServerLifecycle, StdioTransport, Telemetry.                             *)
HttpKinds   == <<{"initialize"}, {"call", "delete"}, {"delete"}>>
StdinInputs ==
  {<<"m", "m", "n", "m", "m", "m", "n", "[", "m", "m", "n">>, <<"m", "m", "m", "m", "m", "n", "m", "r", "n", "!", "n", "r", "r", "n">>,
   <<"[", "n", "[", "?", "m", "n", "[", "!", "m", "n", "n", "m">>, <<"m", "m", "m", "n", "m", "r", "r", "n", "m", "m", "m", "m", "m">>}
ToolOutcomes == {[tool |-> "symbol", code |-> "none"], [tool |-> "private", code |-> "timeout"], [tool |-> "symbol", code |-> "secret"]}

----------------------------------------------------------------------------
(* Receipts: previews, changes without one and changes with one.           *)
Entry(f, k, t) == [file |-> f, kind |-> k, token |-> t]
BatchPlans == {<<Entry("f", "preview", "none"), Entry("g", "direct", "none")>>, <<Entry("f", "receipt", 1)>>,
               <<Entry("g", "receipt", 1), Entry("f", "preview", "none")>>}

(* FileRename: moves alone, into new directories, onto each other and of   *)
(* files that are not there.                                               *)
Move(f, t)    == [from |-> f, to |-> t]
RenameProbes  == [p \in {"a", "b", "x", "y"} |-> IF p = "y" THEN "py" ELSE "px"]
RenameParents == [p \in {"a", "b", "x", "y", "z", "px", "py"} |-> IF p \in {"y", "py"} THEN <<"d", "e">> ELSE <<>>]
RenameBatches ==
  {<<Move("a", "x")>>, <<Move("a", "y"), Move("b", "x")>>, <<Move("a", "x"), Move("b", "y")>>, <<Move("a", "a")>>,
   <<Move("a", "b")>>, <<Move("a", "x"), Move("b", "x")>>, <<Move("z", "x")>>}

(* FileAttributes: modes that forbid writing or do not, or none given.     *)
Chmod(f, m) == [file |-> f, chmod |-> m]
ModeBatches == {<<Chmod("f", "rw")>>, <<Chmod("f", "r"), Chmod("g", "rw")>>, <<Chmod("f", "rw"), Chmod("g", "r")>>,
                <<Chmod("f", "none"), Chmod("g", "r")>>}

(* StorageRelocation: destinations that may be used, and ones that may not.*)
Destination(s, r) == [support |-> s, relation |-> r]
Destinations == {Destination("local", "disjoint"), Destination("proven", "disjoint"), Destination("network", "disjoint"),
                 Destination("local", "nested"), Destination("local", "same")}

(* FileDelete: sources that import by name and by directory, one that      *)
(* cannot be parsed, one the search passes over, one outside every root.   *)
SourceFile(imports) == [imports |-> imports, valid |-> TRUE, version |-> 0]
DeleteTree(b, deep, passed) ==
  <<"src", "a", ".ts">> :> SourceFile({}) @@ <<"src", "b", ".ts">> :> SourceFile(b)
  @@ <<"src", "lib", "index", ".ts">> :> SourceFile({}) @@ <<"src", "lib", "deep", "c", ".ts">> :> deep
  @@ <<"src", "lib", "node_modules", "d", ".ts">> :> passed @@ <<"out", "e", ".ts">> :> SourceFile({<<"src", "a">>})
DeleteWorlds ==
  {DeleteTree(b, deep, passed) : b \in {{}, {<<"src", "a">>}, {<<"src", "lib">>}},
     deep \in {NoValue, SourceFile({<<"src", "lib">>}), [SourceFile({}) EXCEPT !.valid = FALSE]},
     passed \in {NoValue, SourceFile({<<"src", "a">>})}}
Deletion(p, f) == [path |-> p, force |-> f]
DeleteBatches ==
  {<<Deletion(<<"src", "a", ".ts">>, FALSE)>>, <<Deletion(<<"out", "e", ".ts">>, FALSE)>>,
   <<Deletion(<<"src", "lib", "index", ".ts">>, FALSE), Deletion(<<"src", "a", ".ts">>, FALSE)>>,
   <<Deletion(<<"src", "lib", "index", ".ts">>, TRUE), Deletion(<<"src", "lib", "deep", "c", ".ts">>, FALSE)>>,
   <<Deletion(<<"src", "a", ".ts">>, FALSE), Deletion(<<"src", "lib", "deep", "c", ".ts">>, FALSE)>>}
DeleteRoots == {<<"src">>, <<"src", "lib">>}

(* FileRead: lines that end with the file, with a chunk or in the middle.  *)
Page(m, a, b, n) == [mode |-> m, lines |-> <<a, b>>, maxBytes |-> n]
ReadBatches ==
  {<<Page("text", 0, 1, 9)>>, <<Page("text", 1, 2, 9), Page("ast", 0, 1, 1)>>, <<Page("text", 1, 3, 2)>>,
   <<Page("text", 0, 3, 9)>>, <<Page("auto", 0, 1, 1), Page("auto", 0, 2, 2)>>}
ReadFiles ==
  {<<"c", "n", "c", "n">>, <<"c", "n", "n", "c", "c">>, <<"c", "x">>, <<>>, <<"n", "c", "c", "c">>}
AppendedBytes == {<<"c">>, <<"n">>}
SavedFiles    == {<<"n", "x">>, <<"c">>}

(* The grammars: the same grammar twice, another of its language, a bad     *)
(* library and a fingerprint that is not the grammar's.                    *)
Grammar(id, library, claimed) == [id |-> id, asset |-> library, claimed |-> claimed]
GrammarCalls   == [c \in {"c1", "c2", "c3", "c4"} |-> IF c = "c3" THEN "r2" ELSE "r1"]
GrammarEntries == [c \in {"c1", "c2", "c3", "c4"} |->
  CASE c = "c1" -> <<Grammar("zig", "z", {})>>
    [] c = "c2" -> <<Grammar("nim", "n", {<<"nim", "n">>}), Grammar("zig", "y", {})>>
    [] c = "c3" -> <<Grammar("zig", "z", {}), Grammar("nim", "bad", {})>>
    [] c = "c4" -> <<Grammar("nim", "n", {<<"nim", "m">>})>>]
Libraries      == [a \in {"z", "y", "n", "bad"} |-> IF a = "bad" THEN "bad" ELSE "good"]
PinnedGrammars == {<<"bash", "pinned">>}

(* Generation: evidence that may be used and that may not, and answers     *)
(* that cite it, or more than there is.                                    *)
Found(id, a, scope, n) == [id |-> id, artifact |-> a, scope |-> scope, length |-> n]
GenerationRequests ==
  {[enabled |-> on, provider |-> p, allowed |-> {"A"}, evidence |-> ev, scope |-> "here", maxItems |-> 2, maxBytes |-> 3,
    maxOutput |-> 4] :
     on \in BOOLEAN, p \in {"none", "http", "mcp", "mute"},
     ev \in {<<Found("e", "A", "here", 2)>>, <<Found("e", "A", "here", 2), Found("f", "A", "here", 1)>>,
             <<Found("e", "A", "there", 1)>>, <<Found("e", "B", "here", 1)>>,
             <<Found("e", "A", "here", 1), Found("e", "A", "here", 1)>>, <<>>}}
Cited(id, a, b) == [id |-> id, from |-> a, to |-> b]
GenerationResponses ==
  {[kind |-> k, citations |-> {}, size |-> 1] : k \in {"failure", "refusal", "garbage", "answer"}}
  \cup {[kind |-> "answer", citations |-> c, size |-> s] :
          c \in {{Cited("e", 0, 2)}, {Cited("e", 0, 1), Cited("f", 0, 1)}, {Cited("f", 1, 1)}, {Cited("e", 1, 3)}}, s \in {4, 5}}

(* SnapshotFiles: two chunks in either order.                              *)
CapturedTexts == {<<"a", "b">>, <<"b", "a">>}

(* StoreMigration: an empty directory, and stores of which any of two      *)
(* tables is still of the first schema, with or without tagged rows.       *)
StoreTables      == <<"coordinator_recovery", "artifacts", "relationships", "publications">>
GenerationTables == <<"artifacts", "relationships">>
StoreTableNames  == {"coordinator_recovery", "artifacts", "relationships", "publications"}
OldStores ==
  {[schema |-> [t \in StoreTableNames |-> "absent"], rows |-> {}]} \cup
  {[schema |-> [t \in StoreTableNames |-> IF t \in old THEN "legacy" ELSE "current"],
    rows |-> {<<t, "a", IF t \in old THEN NoValue ELSE g>> : t \in {"artifacts", "relationships"}}] :
     old \in SUBSET {"artifacts", "relationships"}, g \in {NoValue, "g"}}

(* IndexRefresh: an ignored file that is not indexed; a clean tree, one    *)
(* with a staged and a changed file, and one that is being merged.         *)
IndexedDirectories == <<<<"a", "i">>, <<"s">>>>
IndexedKinds == [p \in {"a", "i", "s"} |-> IF p = "i" THEN "none" ELSE "code"]
IndexedNames == [c \in {"", "x", "xy"} |-> CASE c = "" -> {} [] c = "x" -> {"x"} [] c = "xy" -> {"x", "y"}]
GitPaths(a, i, s) == ("a" :> a) @@ ("i" :> i) @@ ("s" :> s)
GitWorld(t, s, h) == [tree |-> t, staged |-> s, head |-> h]
GitWorlds ==
  {GitWorld(GitPaths("x", NoValue, "x"), GitPaths("x", NoValue, NoValue), GitPaths("x", NoValue, NoValue)),
   GitWorld(GitPaths("xy", "x", "x"), GitPaths("x", NoValue, "x"), GitPaths("x", NoValue, "x")),
   GitWorld(GitPaths("x", "x", "x"), GitPaths("x", NoValue, "unmerged"), GitPaths("x", NoValue, "module"))}

(* PatchWorkers: the second request that fits is larger than the others.   *)
PatchSizes == <<1, 1, 2, 1>>

(* SqlValidation: a content that stays valid, one that formatting repairs  *)
(* and one that it breaks, and a body the parser does not read; validation *)
(* is required by configuration, or by one call only.                      *)
SqlOptions(policy, dialect, version) == [policy |-> policy, dialect |-> dialect, version |-> version]
SqlCall(how, options, candidate) == [how |-> how, options |-> options, candidate |-> candidate]
SqlFormatted == [ok |-> "ok", raw |-> "ok", trap |-> "bad", fn |-> "fn"]
SqlVerdicts  == [ok |-> "valid", raw |-> "valid", trap |-> "valid", bad |-> "invalid", fn |-> "unsupported"]
NoSql == SqlOptions("", "", "")
SqlPatches ==
  {[defaults |-> SqlOptions("required", "postgresql", "18"),
    calls    |-> <<SqlCall("preview", NoSql, "raw"), SqlCall("receipt", SqlOptions("", "", v), "raw"),
                   SqlCall("direct", SqlOptions(p, "", ""), y)>>] :
     y \in {"trap", "fn"}, v \in {"", "18"}, p \in {"", "advisory", "skip"}}
  \cup {[defaults |-> SqlOptions("", "mysql", "8"),
         calls    |-> <<SqlCall("preview", SqlOptions("advisory", d, ""), "raw"), SqlCall("receipt", NoSql, "raw"),
                        SqlCall("direct", SqlOptions("required", "postgresql", v), "ok")>>] :
          d \in {"", "postgresql"}, v \in {"", "17"}}

----------------------------------------------------------------------------
VARIABLES part, v1, v2, v3, v4, v5, v6, v7, v8, v9, v10, v11, v12, v13, v14, v15, v16, v17, v18, v19, v20, v21, v22,
  v23, v24, v25, v26

all == <<part, v1, v2, v3, v4, v5, v6, v7, v8, v9, v10, v11, v12, v13, v14, v15, v16, v17, v18, v19, v20, v21, v22, v23, v24, v25, v26>>

(* The variables a part does not need, from the k-th on, stay 0.           *)
No24 == v24 = 0 /\ v25 = 0 /\ v26 = 0
No23 == v23 = 0 /\ No24
No21 == v21 = 0 /\ v22 = 0 /\ No23
No19 == v19 = 0 /\ v20 = 0 /\ No21
No17 == v17 = 0 /\ v18 = 0 /\ No19
No15 == v15 = 0 /\ v16 = 0 /\ No17
No14 == v14 = 0 /\ No15
No13 == v13 = 0 /\ No14
No12 == v12 = 0 /\ No13
No11 == v11 = 0 /\ No12
No9 == v9 = 0 /\ v10 = 0 /\ No11
No8 == v8 = 0 /\ No9
No7 == v7 = 0 /\ No8
No6 == v6 = 0 /\ No7
No4 == v4 = 0 /\ v5 = 0 /\ No6
No3 == v3 = 0 /\ No4

Rest24 == <<v24, v25, v26>>
Rest23 == <<v23, Rest24>>
Rest21 == <<v21, v22, Rest23>>
Rest19 == <<v19, v20, Rest21>>
Rest17 == <<v17, v18, Rest19>>
Rest15 == <<v15, v16, Rest17>>
Rest14 == <<v14, Rest15>>
Rest13 == <<v13, Rest14>>
Rest12 == <<v12, Rest13>>
Rest11 == <<v11, Rest12>>
Rest9 == <<v9, v10, Rest11>>
Rest8 == <<v8, Rest9>>
Rest7 == <<v7, Rest8>>
Rest6 == <<v6, Rest7>>
Rest4 == <<v4, v5, Rest6>>
Rest3 == <<v3, Rest4>>

TheApprovals == INSTANCE Approvals WITH
  Session <- {"s1", "s2"}, Form <- {"s1"}, Call <- {"c1", "c2"}, SessionOf <- CallSession, ToolOf <- CallTool,
  NeedsOf <- CallNeeds, Decision <- {"path", "filesystem", "probe"}, Filesystem <- "filesystem", Probe <- "probe", Fixed <- {},
  MaxChallenges <- 2, MaxPerSession <- 2, MaxIds <- 2, MaxAnswers <- 1, MaxSent <- 1, MaxEvents <- 1,
  config <- v1, rules <- v2, grants <- v3, challenges <- v4, call <- v5, shown <- v6, void <- v7, spent <- v8,
  answers <- v9, events <- v10

TheConfigRegistry == INSTANCE ConfigRegistry WITH
  File <- {1, 2}, Edited <- 2, Edit <- {"e1", "e2"}, Tool <- {"e1"}, Attempts <- 2, MaxWrites <- 0, MaxReloads <- 0,
  Environment <- {}, Options <- {}, Layers <- {}, None <- NoValue,
  disk <- v1, writes <- v2, reloads <- v3, entry <- v4, load <- v5, check <- v6, edit <- v7, committed <- v8,
  past <- v9, fresh <- v10, env <- v11, options <- v12, layers <- v13

TheWrittenRegistry == INSTANCE ConfigRegistry WITH
  File <- {1, 2}, Edited <- 2, Edit <- {"e1"}, Tool <- {"e1"}, Attempts <- 2, MaxWrites <- 1, MaxReloads <- 0,
  Environment <- {}, Options <- {}, Layers <- {}, None <- NoValue,
  disk <- v1, writes <- v2, reloads <- v3, entry <- v4, load <- v5, check <- v6, edit <- v7, committed <- v8,
  past <- v9, fresh <- v10, env <- v11, options <- v12, layers <- v13

ThePathPolicy == INSTANCE PathPolicy WITH
  Path <- PolicyPaths, Rule <- PolicyRules, Configuration <- Policies, Star <- "*", StarStar <- "**", ExpansionLimit <- 2,
  config <- v1, tree <- v2

TheConfigResolution == INSTANCE ConfigRegistry WITH
  Environment <- Environments, Options <- ResolutionOptions, Layers <- ConfigLayers, None <- NoValue,
  File <- {}, Edited <- 1, Edit <- {}, Tool <- {}, Attempts <- 1, MaxWrites <- 0, MaxReloads <- 0,
  env <- v1, options <- v2, layers <- v3, disk <- v4, writes <- v5, reloads <- v6, entry <- v7, load <- v8,
  check <- v9, edit <- v10, committed <- v11, past <- v12, fresh <- v13

TheInstaller == INSTANCE Installer WITH
  MaxEdits <- 1, MaxFaults <- 1, Modes <- {"install"}, Platforms <- {"darwin"},
  mode <- v1, platform <- v2, disk <- v3, dir <- v4, manager <- v5, seen <- v6, entries <- v7, step <- v8,
  staged <- v9, phase <- v10, undo <- v11, prior <- v12, armed <- v13, failures <- v14, start <- v15, latest <- v16,
  touched <- v17, faults <- v18

TheRemoval == INSTANCE Installer WITH
  MaxEdits <- 1, MaxFaults <- 1, Modes <- {"uninstall"}, Platforms <- {"linux"},
  mode <- v1, platform <- v2, disk <- v3, dir <- v4, manager <- v5, seen <- v6, entries <- v7, step <- v8,
  staged <- v9, phase <- v10, undo <- v11, prior <- v12, armed <- v13, failures <- v14, start <- v15, latest <- v16,
  touched <- v17, faults <- v18

TheLaunchOwnership == INSTANCE LaunchOwnership WITH
  Own <- {"http", "stdio"}, Theirs <- {"t1", "t2"}, MaxEdits <- 1, MaxRuns <- 3,
  target <- v1, entry <- v2, receipt <- v3, policy <- v4, overlay <- v5, hooks <- v6, wish <- v7, installed <- v8,
  edits <- v9, runs <- v10

TheLanguageWorkers == INSTANCE LanguageWorkers WITH
  Dispatchers <- {"d1", "d2"}, Requests <- {1, 2, 3}, Of <- DispatcherOf, MaxPending <- 2, MaxBytes <- 3,
  Bytes <- SourceBytes, MaxFaults <- 2, Registries <- {}, Pinned <- {}, Calls <- {}, OnRegistry <- <<>>, Entries <- <<>>,
  Assets <- <<>>,
  worker <- v1, threads <- v2, termination <- v3, req <- v4, waits <- v5, pending <- v6, outstanding <- v7,
  retiring <- v8, leases <- v9, disp <- v10, ready <- v11, shutdown <- v12, lost <- v13, workerFaults <- v14,
  grammars <- v15, registered <- v16, native <- v17, call <- v18, refused <- v19

TheEmbeddingPool == INSTANCE EmbeddingPool WITH
  Chunks <- 2, Queries <- 1, Workers <- 2, MaxQueue <- 1, BatchSize <- 2, Retries <- 1, MaxFaults <- 1,
  task <- v1, attempts <- v2, queue <- v3, batch <- v4, call <- v5, thread <- v6, alive <- v7, retirement <- v8,
  poolState <- v9, job <- v10, rows <- v11, aborted <- v12, poolFaults <- v13

TheGraphResolution == INSTANCE GraphRepository WITH
  Paths <- {1, 2, 3}, Variants <- Facts, Answers <- FactAnswers, Later <- {}, Options <- {}, MaxGenerations <- 0,
  request <- v1, stage <- v2, graph <- v3, generation <- v4, writes <- v5, tables <- v6, published <- v7, load <- v8

TheGraphRepository == INSTANCE GraphRepository WITH
  Paths <- {1, 2}, Variants <- StoredFacts, Answers <- StoredAnswers, Later <- LaterFacts, Options <- LoadOptions,
  MaxGenerations <- 2,
  request <- v1, stage <- v2, graph <- v3, generation <- v4, writes <- v5, tables <- v6, published <- v7, load <- v8

TheGraphAlgorithms == INSTANCE GraphAlgorithms WITH
  NodeOrder <- <<1, 2, 3>>, EdgeOrder <- GraphEdges, Snapshots <- GraphSnapshots, Requests <- GraphRequests, MaxChanges <- 1,
  snapshot <- v1, request <- v2, pages <- v3, cursor <- v4, changes <- v5

TheRetrieval == INSTANCE Retrieval WITH
  Worlds <- StoredWorlds, Requests <- Queries, Jobs <- {0, 1}, MaxProgress <- 1,
  world <- v1, request <- v2, stage <- v3, jobs <- v4, progress <- v5, read <- v6, answer <- v7

TheCodeIntelligence == INSTANCE CodeIntelligence WITH
  Callers <- {"c1", "c2"}, Trees <- CodeTrees, Inputs <- CodeInputs, MaxActiveRequests <- 1, MaxSourceBytes <- 2,
  MaxRequestBytes <- 4, MaxFaults <- 1,
  tree <- v1, requests <- v2, activeRequests <- v3, closed <- v4, faults <- v5

TheWorkspaceSessions == INSTANCE WorkspaceSessions WITH
  Checkouts <- Checkouts, Requests <- WorkspaceCalls, Roots <- ClientRoots, Readable <- {"x", "y"}, MaxEdits <- 1,
  MaxCalls <- 2, MaxAsks <- 3,
  world <- v1, generation <- v2, rootsVersion <- v3, notified <- v4, supported <- v5, asked <- v6, rootsPromise <- v7,
  workspaces <- v8, call <- v9, calls <- v10, edits <- v11

TheServerLifecycle == INSTANCE ServerLifecycle WITH
  Requests <- {1, 2}, Kinds <- HttpKinds, Models <- {"m1", "m2"}, MaxPools <- 1, MaxFaults <- 1, MaxSignals <- 2,
  Inputs <- {}, Writes <- {}, MaxFrame <- 0,
  req <- v1, server <- v2, servers <- v3, sessions <- v4, closing <- v5, shutdown <- v6, awaited <- v7, signals <- v8,
  exit <- v9, faults <- v10, rest <- v11, seen <- v12, frame <- v13, discarding <- v14, received <- v15,
  writes <- v16, closed <- v17

TheStdioTransport == INSTANCE ServerLifecycle WITH
  Inputs <- StdinInputs, Writes <- {1, 2}, MaxFrame <- 3, Requests <- {}, Kinds <- <<>>, Models <- {}, MaxPools <- 0,
  MaxFaults <- 0, MaxSignals <- 0,
  rest <- v1, seen <- v2, frame <- v3, discarding <- v4, received <- v5, writes <- v6, closed <- v7, req <- v8,
  server <- v9, servers <- v10, sessions <- v11, closing <- v12, shutdown <- v13, awaited <- v14, signals <- v15,
  exit <- v16, faults <- v17

TheTelemetry == INSTANCE Telemetry WITH
  Runs <- {1}, Outcomes <- ToolOutcomes, Known <- {"symbol"}, Expected <- {"timeout", "tool_stalled"}, MaxPending <- 1,
  MaxSwitches <- 1, MaxSends <- 1,
  enabled <- v1, run <- v2, pending <- v3, sdk <- v4, queue <- v5, sending <- v6, sent <- v7, aged <- v8,
  session <- v9, closed <- v10, terminated <- v11, switches <- v12

TheReceipts == INSTANCE Receipts WITH
  Batches <- {1, 2, 3}, Sessions <- {"s"}, Plans <- BatchPlans, Tokens <- {1}, Contents <- {"a", "b"}, MaxReceipts <- 1,
  MaxChanges <- 1,
  world <- v1, receipts <- v2, reserved <- v3, expired <- v4, batch <- v5, made <- v6

TheGraphAnalytics == INSTANCE GraphAnalytics WITH
  Inputs <- AnalysedGraphs, MaxNodes <- 6, MaxEdges <- 6, MaxSweeps <- 3, MaxLevels <- 3, MaxSources <- 6, MaxRankings <- 2,
  input <- v1, projection <- v2, phase <- v3, graph <- v4, partition <- v5, refined <- v6, sweeps <- v7,
  hierarchy <- v8, limits <- v9, ranks <- v10, rankings <- v11, answer <- v12, rows <- v13

TheDocuments == INSTANCE Documents WITH
  Inputs <- Texts,
  doc <- v1, at <- v2, phase <- v3, nodes <- v4, stack <- v5, errors <- v6, found <- v7

TheFileRename == INSTANCE FileRename WITH
  Batches <- RenameBatches, Sources <- {"a", "b"}, Parents <- RenameParents, ProbeOf <- RenameProbes, None <- 0,
  MaxFaults <- 2, MaxEdits <- 1,
  batch <- v1, disk <- v2, content <- v3, dirs <- v4, made <- v5, pc <- v6, i <- v7, moved <- v8, late <- v9,
  undone <- v10, journal <- v11, result <- v12, lease <- v13, given <- v14, faults <- v15, edits <- v16

TheFileAttributes == INSTANCE FileAttributes WITH
  Batches <- ModeBatches, Files <- {"f", "g"}, Modes <- {"r", "rw"}, ReadOnly <- "r", NoMode <- "none",
  Platforms <- {"posix", "win32"}, MaxFaults <- 1, MaxEdits <- 1,
  platform <- v1, batch <- v2, mode <- v3, durable <- v4, same <- v5, first <- v6, before <- v7, flush <- v8,
  dirty <- v9, changed <- v10, applied <- v11, undoing <- v12, whole <- v13, pc <- v14, i <- v15, journal <- v16,
  result <- v17, aborted <- v18, lease <- v19, chmods <- v20, faults <- v21, edits <- v22

TheFileDelete == INSTANCE FileDelete WITH
  Worlds <- DeleteWorlds, Batches <- DeleteBatches, Roots <- DeleteRoots, Skipped <- {"node_modules"}, None <- NoValue,
  MaxCandidates <- 7, MaxSources <- 3, MaxFaults <- 1, MaxEdits <- 1,
  batch <- v1, disk <- v2, dirs <- v3, pc <- v4, i <- v5, walk <- v6, seen <- v7, blobs <- v8, gone <- v9,
  journal <- v10, result <- v11, lease <- v12, removed <- v13, cleanup <- v14, climb <- v15, touched <- v16,
  faults <- v17, edits <- v18

TheFileRead == INSTANCE FileRead WITH
  Batches <- ReadBatches, Files <- ReadFiles, Additions <- AppendedBytes, Replacements <- SavedFiles, Workers <- {1, 2},
  Chunk <- 2, MaxEdits <- 1,
  batch <- v1, inodes <- v2, current <- v3, reads <- v4, next <- v5, at <- v6, call <- v7, edits <- v8

TheGrammars == INSTANCE LanguageWorkers WITH
  Registries <- {"r1", "r2"}, Pinned <- PinnedGrammars, Calls <- {"c1", "c2", "c3", "c4"}, OnRegistry <- GrammarCalls,
  Entries <- GrammarEntries, Assets <- Libraries, Dispatchers <- {}, Requests <- {}, Of <- <<>>, MaxPending <- 0, MaxBytes <- 0,
  Bytes <- <<>>, MaxFaults <- 0,
  grammars <- v1, registered <- v2, native <- v3, call <- v4, refused <- v5, worker <- v6, threads <- v7,
  termination <- v8, req <- v9, waits <- v10, pending <- v11, outstanding <- v12, retiring <- v13, leases <- v14,
  disp <- v15, ready <- v16, shutdown <- v17, lost <- v18, workerFaults <- v19

TheGeneration == INSTANCE Generation WITH
  Requests <- GenerationRequests, Responses <- GenerationResponses, Overhead <- 1,
  request <- v1, step <- v2, signal <- v3, timer <- v4, listening <- v5, response <- v6, overdue <- v7, result <- v8

TheStorageRelocation == INSTANCE StoreMaintenance WITH
  Names <- {"m", "d"}, Versions <- {1, 2}, Places <- Destinations, MaxFaults <- 2, MaxWrites <- 2, None <- NoValue,
  Tables <- <<>>, Generation <- <<>>, Stores <- {}, MaxFailures <- 0,
  place <- v1, source <- v2, preview <- v3, temporary <- v4, dest <- v5, copied <- v6, lease <- v7, stage <- v8,
  result <- v9, current <- v10, theirs <- v11, faults <- v12, writes <- v13, schema <- v14, rows <- v15, links <- v16,
  tagging <- v17, linking <- v18, policy <- v19, pc <- v20, k <- v21, legacy <- v22, migrated <- v23, reader <- v24,
  looked <- v25, failures <- v26

TheSnapshotFiles == INSTANCE SnapshotFiles WITH
  Contents <- CapturedTexts, Modes <- {"r"}, Private <- "p", None <- NoValue, MaxFaults <- 1, MaxEdits <- 1,
  data <- v1, target <- v2, temporary <- v3, pending <- v4, blob <- v5, linking <- v6, entry <- v7, pc <- v8,
  source <- v9, output <- v10, metadata <- v11, snapshot <- v12, directory <- v13, active <- v14, alive <- v15,
  old <- v16, retained <- v17, seen <- v18, theirs <- v19, late <- v20, stranded <- v21, faults <- v22, edits <- v23

TheStoreMigration == INSTANCE StoreMaintenance WITH
  Tables <- StoreTables, Generation <- GenerationTables, Stores <- OldStores, None <- NoValue, MaxFailures <- 2,
  Names <- {}, Versions <- {}, Places <- {}, MaxFaults <- 0, MaxWrites <- 0,
  schema <- v1, rows <- v2, links <- v3, tagging <- v4, linking <- v5, policy <- v6, pc <- v7, k <- v8, legacy <- v9,
  migrated <- v10, reader <- v11, looked <- v12, failures <- v13, place <- v14, source <- v15, preview <- v16,
  temporary <- v17, dest <- v18, copied <- v19, lease <- v20, stage <- v21, result <- v22, current <- v23,
  theirs <- v24, faults <- v25, writes <- v26

TheIndexRefresh == INSTANCE IndexRefresh WITH
  Directories <- IndexedDirectories, Kind <- IndexedKinds, Ignored <- {"i"}, Contents <- {"x", "xy"}, Names <- IndexedNames, Empty <- "",
  Worlds <- GitWorlds, Selectors <- {"working", "index", "commit"}, None <- NoValue, MaxRuns <- 2, MaxEdits <- 1,
  tree <- v1, staged <- v2, head <- v3, pc <- v4, selector <- v5, revision <- v6, k <- v7, files <- v8, units <- v9,
  skipped <- v10, records <- v11, overlay <- v12, rows <- v13, generations <- v14, held <- v15, edited <- v16,
  raced <- v17, unseen <- v18, edits <- v19, runs <- v20

ThePatchWorkers == INSTANCE PatchWorkers WITH
  Tasks <- {1, 2, 3, 4}, Size <- PatchSizes, Uncloneable <- {4}, MaxPending <- 3, MaxBytes <- 3, MaxWorkers <- 2, MaxFaults <- 1,
  MaxEdits <- 1,
  inputs <- v1, snapshot <- v2, state <- v3, answer <- v4, queue <- v5, active <- v6, bytes <- v7, pending <- v8,
  given <- v9, threads <- v10, posted <- v11, retiring <- v12, kept <- v13, fired <- v14

TheSqlValidation == INSTANCE SqlValidation WITH
  Worlds <- SqlPatches, Formatted <- SqlFormatted, Verdicts <- SqlVerdicts, Loaders <- {"postgresql"}, None <- "", MaxPending <- 2,
  MaxFaults <- 2,
  world <- v1, call <- v2, stage <- v3, decision <- v4, receipt <- v5, queue <- v6, active <- v7, pending <- v8,
  task <- v9, result <- v10, threads <- v11, fired <- v12

TheChildProcesses == INSTANCE ChildProcesses WITH
  Runners <- {"input", "git", "inventory", "service", "query"}, Limit <- 1, MaxOutput <- 2,
  runner <- v1, deaf <- v2, alive <- v3, holds <- v4, started <- v5, code <- v6, written <- v7, got <- v8,
  reader <- v9, term <- v10, due <- v11, outcome <- v12

----------------------------------------------------------------------------
Init ==
  \/ part = "Approvals" /\ TheApprovals!Init /\ No11
  \/ part = "ConfigRegistry" /\ TheConfigRegistry!Init /\ No11
  \/ part = "WrittenRegistry" /\ TheWrittenRegistry!Init /\ No11
  \/ part = "PathPolicy" /\ ThePathPolicy!Init /\ No3
  \/ part = "ConfigResolution" /\ TheConfigResolution!ResolutionInit /\ No4
  \/ part = "Installer" /\ TheInstaller!Init /\ No19
  \/ part = "Removal" /\ TheRemoval!Init /\ No19
  \/ part = "LaunchOwnership" /\ TheLaunchOwnership!Init /\ No11
  \/ part = "LanguageWorkers" /\ TheLanguageWorkers!Init /\ No15
  \/ part = "EmbeddingPool" /\ TheEmbeddingPool!Init /\ No14
  \/ part = "GraphResolution" /\ TheGraphResolution!Init /\ No4
  \/ part = "GraphRepository" /\ TheGraphRepository!RepositoryInit /\ No9
  \/ part = "GraphAlgorithms" /\ TheGraphAlgorithms!Init /\ No6
  \/ part = "Retrieval" /\ TheRetrieval!Init /\ No8
  \/ part = "CodeIntelligence" /\ TheCodeIntelligence!Init /\ No6
  \/ part = "WorkspaceSessions" /\ TheWorkspaceSessions!Init /\ No12
  \/ part = "ServerLifecycle" /\ TheServerLifecycle!Init /\ No11
  \/ part = "StdioTransport" /\ TheStdioTransport!StdioInit /\ No8
  \/ part = "Telemetry" /\ TheTelemetry!Init /\ No13
  \/ part = "Receipts" /\ TheReceipts!Init /\ No7
  \/ part = "GraphAnalytics" /\ TheGraphAnalytics!Init /\ No14
  \/ part = "Documents" /\ TheDocuments!Init /\ No8
  \/ part = "FileRename" /\ TheFileRename!Init /\ No17
  \/ part = "FileAttributes" /\ TheFileAttributes!Init /\ No23
  \/ part = "FileDelete" /\ TheFileDelete!Init /\ No19
  \/ part = "FileRead" /\ TheFileRead!Init /\ No9
  \/ part = "Grammars" /\ TheGrammars!GrammarInit /\ No6
  \/ part = "Generation" /\ TheGeneration!Init /\ No9
  \/ part = "StorageRelocation" /\ TheStorageRelocation!Init /\ No14
  \/ part = "SnapshotFiles" /\ TheSnapshotFiles!Init /\ No24
  \/ part = "StoreMigration" /\ TheStoreMigration!MigrationInit /\ No14
  \/ part = "IndexRefresh" /\ TheIndexRefresh!Init /\ No21
  \/ part = "PatchWorkers" /\ ThePatchWorkers!Init /\ No15
  \/ part = "SqlValidation" /\ TheSqlValidation!Init /\ No13
  \/ part = "ChildProcesses" /\ TheChildProcesses!Init /\ No13

RunApprovals == part = "Approvals" /\ TheApprovals!Next /\ UNCHANGED <<part, Rest11>>
RunConfigRegistry == part = "ConfigRegistry" /\ TheConfigRegistry!Next /\ UNCHANGED <<part, Rest11>>
RunWrittenRegistry == part = "WrittenRegistry" /\ TheWrittenRegistry!Next /\ UNCHANGED <<part, Rest11>>
RunPathPolicy == part = "PathPolicy" /\ ThePathPolicy!Next /\ UNCHANGED <<part, Rest3>>
RunConfigResolution == part = "ConfigResolution" /\ TheConfigResolution!ResolutionNext /\ UNCHANGED <<part, Rest4>>
RunInstaller == part = "Installer" /\ TheInstaller!Next /\ UNCHANGED <<part, Rest19>>
RunRemoval == part = "Removal" /\ TheRemoval!Next /\ UNCHANGED <<part, Rest19>>
RunLaunchOwnership == part = "LaunchOwnership" /\ TheLaunchOwnership!Next /\ UNCHANGED <<part, Rest11>>
RunLanguageWorkers == part = "LanguageWorkers" /\ TheLanguageWorkers!Next /\ UNCHANGED <<part, Rest15>>
RunEmbeddingPool == part = "EmbeddingPool" /\ TheEmbeddingPool!Next /\ UNCHANGED <<part, Rest14>>
RunGraphResolution == part = "GraphResolution" /\ TheGraphResolution!Next /\ UNCHANGED <<part, Rest4>>
RunGraphRepository == part = "GraphRepository" /\ TheGraphRepository!RepositoryNext /\ UNCHANGED <<part, Rest9>>
RunGraphAlgorithms == part = "GraphAlgorithms" /\ TheGraphAlgorithms!Next /\ UNCHANGED <<part, Rest6>>
RunRetrieval == part = "Retrieval" /\ TheRetrieval!Next /\ UNCHANGED <<part, Rest8>>
RunCodeIntelligence == part = "CodeIntelligence" /\ TheCodeIntelligence!Next /\ UNCHANGED <<part, Rest6>>
RunWorkspaceSessions == part = "WorkspaceSessions" /\ TheWorkspaceSessions!Next /\ UNCHANGED <<part, Rest12>>
RunServerLifecycle == part = "ServerLifecycle" /\ TheServerLifecycle!Next /\ UNCHANGED <<part, Rest11>>
RunStdioTransport == part = "StdioTransport" /\ TheStdioTransport!StdioNext /\ UNCHANGED <<part, Rest8>>
RunTelemetry == part = "Telemetry" /\ TheTelemetry!Next /\ UNCHANGED <<part, Rest13>>
RunReceipts == part = "Receipts" /\ TheReceipts!Next /\ UNCHANGED <<part, Rest7>>
RunGraphAnalytics == part = "GraphAnalytics" /\ TheGraphAnalytics!Next /\ UNCHANGED <<part, Rest14>>
RunDocuments == part = "Documents" /\ TheDocuments!Next /\ UNCHANGED <<part, Rest8>>
RunFileRename == part = "FileRename" /\ TheFileRename!Next /\ UNCHANGED <<part, Rest17>>
RunFileAttributes == part = "FileAttributes" /\ TheFileAttributes!Next /\ UNCHANGED <<part, Rest23>>
RunFileDelete == part = "FileDelete" /\ TheFileDelete!Next /\ UNCHANGED <<part, Rest19>>
RunFileRead == part = "FileRead" /\ TheFileRead!Next /\ UNCHANGED <<part, Rest9>>
RunGrammars == part = "Grammars" /\ TheGrammars!GrammarNext /\ UNCHANGED <<part, Rest6>>
RunGeneration == part = "Generation" /\ TheGeneration!Next /\ UNCHANGED <<part, Rest9>>
RunStorageRelocation == part = "StorageRelocation" /\ TheStorageRelocation!Next /\ UNCHANGED <<part, Rest14>>
RunSnapshotFiles == part = "SnapshotFiles" /\ TheSnapshotFiles!Next /\ UNCHANGED <<part, Rest24>>
RunStoreMigration == part = "StoreMigration" /\ TheStoreMigration!MigrationNext /\ UNCHANGED <<part, Rest14>>
RunIndexRefresh == part = "IndexRefresh" /\ TheIndexRefresh!Next /\ UNCHANGED <<part, Rest21>>
RunPatchWorkers == part = "PatchWorkers" /\ ThePatchWorkers!Next /\ UNCHANGED <<part, Rest15>>
RunSqlValidation == part = "SqlValidation" /\ TheSqlValidation!Next /\ UNCHANGED <<part, Rest13>>
RunChildProcesses == part = "ChildProcesses" /\ TheChildProcesses!Next /\ UNCHANGED <<part, Rest13>>

Next == RunApprovals \/ RunConfigRegistry \/ RunWrittenRegistry \/ RunPathPolicy \/ RunConfigResolution \/ RunInstaller \/
  RunRemoval \/ RunLaunchOwnership \/ RunLanguageWorkers \/ RunEmbeddingPool \/ RunGraphResolution \/ RunGraphRepository \/
  RunGraphAlgorithms \/ RunRetrieval \/ RunCodeIntelligence \/ RunWorkspaceSessions \/ RunServerLifecycle \/ RunStdioTransport \/
  RunTelemetry \/ RunReceipts \/ RunGraphAnalytics \/ RunDocuments \/ RunFileRename \/ RunFileAttributes \/ RunFileDelete \/
  RunFileRead \/ RunGrammars \/ RunGeneration \/ RunStorageRelocation \/ RunSnapshotFiles \/ RunStoreMigration \/ RunIndexRefresh \/
  RunPatchWorkers \/ RunSqlValidation \/ RunChildProcesses

Spec == Init /\ [][Next]_all

ASSUME
  /\ TheApprovals!ApprovalsAssumption /\ TheConfigRegistry!ConfigRegistryAssumption
  /\ TheReceipts!ReceiptsAssumption

----------------------------------------------------------------------------
(* Configuration as read, resolved and enforced: see RegistryIsSound,      *)
(* ConfigurationResolves and TreesAreReadable.  A healthy snapshot is of   *)
(* files that were on disk together and keeps every committed edit; each   *)
(* setting comes from the highest layer that sets it; a tree that may be   *)
(* read holds no path that may not.                                        *)
ConfigurationIsSafe ==
  /\ part = "ConfigRegistry"   => TheConfigRegistry!RegistryIsSound
  /\ part = "WrittenRegistry"  => TheWrittenRegistry!RegistryIsSound
  /\ part = "ConfigResolution" => TheConfigResolution!ConfigurationResolves
  /\ part = "PathPolicy"       => ThePathPolicy!TreesAreReadable

(* Installations: see InstallIsUndone and OwnershipIsHonest.  A run that   *)
(* fails leaves the machine as it found it but for what it reports, and    *)
(* what is the user's own in the clients' configurations outlives any      *)
(* sequence of installations and removals.                                 *)
InstallationIsHonest ==
  /\ part = "Installer"       => TheInstaller!InstallIsUndone
  /\ part = "Removal"         => TheRemoval!InstallIsUndone
  /\ part = "LaunchOwnership" => TheLaunchOwnership!OwnershipIsHonest

(* The worker pools of languages, embeddings and patches, and the grammars *)
(* they use: see WorkersAreSound, EmbeddingsAreSound, GrammarsAreKnown and *)
(* PatchesArePrepared.  Limits hold, no answer of a retired thread is taken*)
(* for a current one's, a patch is of what was asked, and nobody waits for *)
(* work nobody will do.                                                    *)
WorkersKeepTheirWord ==
  /\ part = "LanguageWorkers" => TheLanguageWorkers!WorkersAreSound
  /\ part = "EmbeddingPool"   => TheEmbeddingPool!EmbeddingsAreSound
  /\ part = "Grammars" => TheGrammars!GrammarsAreKnown
  /\ part = "PatchWorkers"    => ThePatchWorkers!PatchesArePrepared

(* The graph from the facts of the sources to the answers about it: see    *)
(* ResolutionIsSound, GraphIsStored, GraphAnswersAreRight and              *)
(* AnalyticsAreRight.  Names resolve to what the rules of scope say, a     *)
(* load is a closed part of what its generation published, and pages and   *)
(* communities agree with their definitions.                               *)
GraphIsRight ==
  /\ part = "GraphResolution" => TheGraphResolution!ResolutionIsSound
  /\ part = "GraphRepository" => TheGraphRepository!GraphIsStored
  /\ part = "GraphAlgorithms" => TheGraphAlgorithms!GraphAnswersAreRight
  /\ part = "GraphAnalytics"  => TheGraphAnalytics!AnalyticsAreRight

(* What is read out of code and documents: see IndexIsOfTheTree,           *)
(* RetrievalIsSound, CodeAnswersAreHonest, DocumentsAreRead, ReadsAreSound *)
(* and GenerationIsGrounded.  An index is of what the revision held, denied*)
(* paths never show, a cut answer says so, a node of a document spans what *)
(* belongs to it, a hash is of the bytes returned, and a generated answer  *)
(* cites evidence there is.                                                *)
AnswersAreHonest ==
  /\ part = "IndexRefresh"     => TheIndexRefresh!IndexIsOfTheTree
  /\ part = "Retrieval"        => TheRetrieval!RetrievalIsSound
  /\ part = "CodeIntelligence" => TheCodeIntelligence!CodeAnswersAreHonest
  /\ part = "Documents"        => TheDocuments!DocumentsAreRead
  /\ part = "FileRead"         => TheFileRead!ReadsAreSound
  /\ part = "Generation"       => TheGeneration!GenerationIsGrounded

(* The process around the tools: see SessionsAreSound, ServersEndWell,     *)
(* LinesArrive, TelemetryIsAllowed and ChildrenAreAccounted.  A call sees  *)
(* a current workspace of its client's roots, a shutdown leaves nothing    *)
(* running, each line comes in whole, nothing is reported that the switch  *)
(* forbids, and a command that fails leaves no process behind.             *)
ServingEndsWell ==
  /\ part = "WorkspaceSessions" => TheWorkspaceSessions!SessionsAreSound
  /\ part = "ServerLifecycle"   => TheServerLifecycle!ServersEndWell
  /\ part = "StdioTransport"    => TheStdioTransport!LinesArrive
  /\ part = "Telemetry"         => TheTelemetry!TelemetryIsAllowed
  /\ part = "ChildProcesses"    => TheChildProcesses!ChildrenAreAccounted


(* No step of a call goes beyond what it may do: see AnswersHonoured,      *)
(* NoFileIsLost and EditorsKeepTheirFiles.  An approval is used only as its*)
(* user gave it, a rename takes no file's last name, and a restoration     *)
(* takes no file an editor put there.                                      *)
StepsStayWithinBounds ==
  [][/\ part = "Approvals"  => TheApprovals!AnswersHonoured
     /\ part = "FileRename" => TheFileRename!NoFileIsLost
     /\ part = "SnapshotFiles" => TheSnapshotFiles!EditorsKeepTheirFiles]_all
=============================================================================
