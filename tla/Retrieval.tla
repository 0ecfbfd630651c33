----------------------------- MODULE Retrieval -----------------------------
(***************************************************************************)
(* A query over one pinned generation                                      *)
(* (src/src/intelligence/retrieval/query.ts): the chunks of the sources    *)
(* the request may see are selected within the budget, ranked by exact     *)
(* symbols, text, vectors and nearness in the graph, and given out by      *)
(* their scores.  The generation is pinned; the jobs that embed its chunks *)
(* are not, and go on while the query runs.  A chunk of text takes its     *)
(* size in bytes, a row of the graph takes one.                            *)
(***************************************************************************)
EXTENDS Naturals, Sequences, FiniteSets, SequencesExt

CONSTANTS Worlds,        \* [chunks, occurrences, names, edges] of generations
          Requests,
          Jobs,          \* how many jobs there may be of a state
          MaxProgress    \* bound on the steps of the jobs during a query

VARIABLES world, request, stage, jobs, progress,
          read,          \* what the query has found so far
          answer

vars == <<world, request, stage, jobs, progress, read, answer>>

Nothing == [chunks |-> << >>]

Least2(a, b) == IF a < b THEN a ELSE b

(* S in the order of Before.                                               *)
Ordered(S, Before(_, _)) ==
    LET first(T) == CHOOSE x \in T : \A y \in T \ {x} : Before(x, y)
        seq[T \in SUBSET S] == IF T = {} THEN << >> ELSE <<first(T)>> \o seq[T \ {first(T)}]
    IN seq[S]

-----------------------------------------------------------------------------
(* What the request may see.                                               *)

(* A path is the sequence of its segments.                                 *)
PathMatches(path, selector) == IsPrefix(selector, path)

(* Mutant: the paths asked for come before those denied.                   *)
EligibleIncludedFirst(r, path) ==
    \/ \E s \in r.included : PathMatches(path, s)
    \/ r.included = {} /\ ~\E s \in r.denied : PathMatches(path, s)

EligiblePath(r, path) ==
    /\ ~\E s \in r.denied : PathMatches(path, s)
    /\ r.included = {} \/ \E s \in r.included : PathMatches(path, s)

Seen(r, w) == {o \in w.occurrences : o.active /\ EligiblePath(r, o.path)}

Decoded(w) == {c \in w.chunks : c.whole}

EligibleChunks(r, w) ==
    {c \in Decoded(w) : /\ \E o \in Seen(r, w) : o.source = c.source
                        /\ r.languages = {} \/ c.language \in r.languages}

(* The words of the query that look like identifiers count as symbols.     *)
ExactSymbols(r) == r.exact \cup r.words

Exact(r, w) == {c \in Decoded(w) : c.symbols \cap ExactSymbols(r) # {}}

(* The chunks that are ranked: those with the symbols first.               *)
Select(r, w) ==
    LET first(c, d) == IF (c \in Exact(r, w)) = (d \in Exact(r, w)) THEN c.id < d.id ELSE c \in Exact(r, w)
        take(s, c) ==
          IF s.candidates \/ Len(s.chunks) >= r.budget.maxCandidates THEN [s EXCEPT !.candidates = TRUE]
          ELSE IF s.used + c.size > r.budget.maxBytes THEN [s EXCEPT !.bytes = TRUE]
          ELSE [s EXCEPT !.chunks = Append(@, c), !.used = @ + c.size]
    IN FoldLeft(take, [chunks |-> << >>, used |-> 0, bytes |-> FALSE, candidates |-> FALSE],
                Ordered(EligibleChunks(r, w), first))

-----------------------------------------------------------------------------
(* The rankings: sequences of chunks.                                      *)

ExactRanks(r, w, chosen) == Ordered({c \in ToSet(chosen) : c \in Exact(r, w)}, LAMBDA c, d : c.id < d.id)

Matches(r, c) == Cardinality(c.words \cap r.words)

(* By how well it matches, then by its id.                                 *)
LocalBm25(r, chosen) ==
    Ordered({c \in ToSet(chosen) : Matches(r, c) > 0},
            LAMBDA c, d : Matches(r, c) > Matches(r, d) \/ (Matches(r, c) = Matches(r, d) /\ c.id < d.id))

(* LanceDB's ranking counts if it has any row.                             *)
LexicalRanks(r, chosen, fts) == IF fts = << >> \/ r.text = "local" THEN LocalBm25(r, chosen) ELSE fts

(* The vectors of the model: a corrupt one is counted and left out, and    *)
(* the scan ends at its limit.                                             *)
Embeddings(r, chosen) ==
    LET scan(s, c) ==
          IF s.truncated \/ c.vector.state \in {"none", "foreign"} THEN s
          ELSE IF s.scanned >= r.budget.maxVectorScan THEN [s EXCEPT !.truncated = TRUE]
          ELSE IF c.vector.state = "corrupt" THEN [s EXCEPT !.scanned = @ + 1, !.corrupt = @ + 1]
          ELSE [s EXCEPT !.scanned = @ + 1, !.stored = @ \cup {c}]
    IN FoldLeft(scan, [scanned |-> 0, corrupt |-> 0, stored |-> {}, truncated |-> FALSE],
                Ordered(ToSet(chosen), LAMBDA c, d : c.id < d.id))

Cut(q, n) == SubSeq(q, 1, Least2(Len(q), n))

(* The index' nearest, or all vectors when it finds fewer than there are.  *)
VectorRanks(r, e, near) ==
    LET limit == r.budget.maxVectorCandidates
        few   == r.vectors = "exact" \/ Cardinality(near) < Least2(limit, Cardinality(e.stored))
    IN Cut(Ordered(IF few THEN e.stored ELSE near,
                   LAMBDA c, d : c.vector.score > d.vector.score
                                 \/ (c.vector.score = d.vector.score /\ c.id < d.id)), limit)

-----------------------------------------------------------------------------
(* How near the nodes are to those the symbols name, within the budget.    *)

EligibleNodes(r, w) == {o.node : o \in Seen(r, w)}

Seeds(r, w) ==
    LET look(g, n) ==
          IF g.truncated \/ n \notin EligibleNodes(r, w) THEN g
          ELSE IF g.bytes + 1 > r.budget.maxGraphBytes THEN [g EXCEPT !.truncated = TRUE]
          ELSE IF w.names[n] \notin ExactSymbols(r) THEN [g EXCEPT !.bytes = @ + 1]
          ELSE IF Len(g.queue) >= r.budget.maxNodes THEN [g EXCEPT !.bytes = @ + 1, !.truncated = TRUE]
          ELSE [g EXCEPT !.bytes = @ + 1, !.queue = Append(@, n), !.distances = @ \cup {<<n, 0>>}]
    IN FoldLeft(look, [bytes |-> 0, edges |-> 0, queue |-> << >>, distances |-> {}, truncated |-> FALSE],
                [n \in DOMAIN w.names |-> n])

Known(g) == {d[1] : d \in g.distances}

Along(r, w, n, depth, g, e) ==
    LET other == IF e[1] = n THEN e[2] ELSE e[1] IN
    IF g.stop \/ n \notin {e[1], e[2]} \/ ~({e[1], e[2]} \subseteq EligibleNodes(r, w)) THEN g
    ELSE IF \/ g.edges >= r.budget.maxNodes \/ g.bytes + 1 > r.budget.maxGraphBytes
            \/ (other \notin Known(g) /\ Cardinality(g.distances) >= r.budget.maxNodes)
    THEN [g EXCEPT !.truncated = TRUE, !.stop = TRUE]
    ELSE IF other \in Known(g) THEN [g EXCEPT !.bytes = @ + 1, !.edges = @ + 1]
    ELSE [g EXCEPT !.bytes = @ + 1, !.edges = @ + 1, !.queue = Append(@, other),
                   !.distances = @ \cup {<<other, depth + 1>>}]

DepthOf(g, n) == CHOOSE k \in 0..Cardinality(g.distances) : <<n, k>> \in g.distances

Expand(r, w, g) ==
    IF g.queue = << >> \/ g.stop THEN g
    ELSE IF Cardinality(g.distances) >= r.budget.maxNodes \/ g.edges >= r.budget.maxNodes
    THEN [g EXCEPT !.truncated = TRUE, !.stop = TRUE]
    ELSE IF DepthOf(g, Head(g.queue)) >= r.budget.maxDepth THEN [g EXCEPT !.queue = Tail(@)]
    ELSE FoldLeft(LAMBDA h, e : Along(r, w, Head(g.queue), DepthOf(g, Head(g.queue)), h, e),
                  [g EXCEPT !.queue = Tail(@)], w.edges)

(* Too many or too large seeds end the search for them, not the search     *)
(* from them.                                                              *)
GraphDistances(r, w) ==
    FoldLeft(LAMBDA g, k : Expand(r, w, g), Seeds(r, w) @@ [stop |-> FALSE],
             [k \in DOMAIN w.names |-> k])

-----------------------------------------------------------------------------
(* Candidates: a chunk at an occurrence it overlaps, for the signals that  *)
(* speak for it.  A score is exact: in units of 1 / (61 * 62 * 63 * 64).   *)

Overlap(c, o) == c.range[1] < o.range[2] /\ o.range[1] < c.range[2]

Weight(intent, signal) ==
    CASE intent = "implementation" ->
           [exact |-> 20, graph |-> 12, lexical |-> 13, semantic |-> 7][signal]
      [] intent = "documentation"  ->
           [exact |-> 8, graph |-> 6, lexical |-> 12, semantic |-> 18][signal]
      [] OTHER ->
           [exact |-> 10, graph |-> 8, lexical |-> 12, semantic |-> 16][signal]

Points(r, signal, rank) == (Weight(r.intent, signal) * (61 * 62 * 63 * 64)) \div (60 + rank)

Signals(g, rankings, c, o) ==
    {<<s, rank>> \in {"exact", "lexical", "semantic"} \X (1..4) :
        rank <= Len(rankings[s]) /\ rankings[s][rank] = c}
      \cup {<<"graph", d[2] + 1>> : d \in {x \in g.distances : x[1] = o.node}}

Score(r, signals) == FoldLeft(LAMBDA sum, s : sum + Points(r, s[1], s[2]), 0, SetToSeq(signals))

Pairs(r, w, chosen) ==
    Ordered({<<i, o>> \in (DOMAIN chosen) \X Seen(r, w) : o.source = chosen[i].source /\ Overlap(chosen[i], o)},
            LAMBDA p, q : p[1] < q[1] \/ (p[1] = q[1] /\ p[2].id < q[2].id))

Candidates(r, w, chosen, rankings, g) ==
    LET add(s, p) ==
          LET c == chosen[p[1]]
              signals == Signals(g, rankings, c, p[2])
          IN IF s.truncated \/ Len(s.found) >= r.budget.maxCandidates THEN [s EXCEPT !.truncated = TRUE]
             ELSE IF signals = {} THEN s
             ELSE [s EXCEPT !.found = Append(@, [chunk |-> c, at |-> p[2], signals |-> signals,
                                                 score |-> Score(r, signals)])]
    IN FoldLeft(add, [found |-> << >>, truncated |-> FALSE], Pairs(r, w, chosen))

(* Of candidates for one entity, path, range and text the best stays.      *)
SameCandidate(a, b) ==
    /\ a.at.node = b.at.node /\ a.at.path = b.at.path
    /\ a.chunk.range = b.chunk.range /\ a.chunk.text = b.chunk.text

Deduped(found) ==
    {found[i] : i \in {k \in DOMAIN found : \A j \in DOMAIN found :
                         SameCandidate(found[j], found[k]) =>
                           found[j].score < found[k].score \/ (found[j].score = found[k].score /\ k <= j)}}

Better(a, b) ==
    \/ a.score > b.score
    \/ a.score = b.score /\ <<a.at.place, a.chunk.range[1], a.at.node>> # <<b.at.place, b.chunk.range[1], b.at.node>>
       /\ \/ a.at.place < b.at.place
          \/ a.at.place = b.at.place /\ a.chunk.range[1] < b.chunk.range[1]
          \/ a.at.place = b.at.place /\ a.chunk.range[1] = b.chunk.range[1] /\ a.at.node < b.at.node

Results(r, candidates) ==
    LET give(s, c) ==
          IF s.items \/ Len(s.given) >= r.budget.maxItems THEN [s EXCEPT !.items = TRUE]
          ELSE IF s.used + c.chunk.size > r.budget.maxBytes THEN [s EXCEPT !.bytes = TRUE]
          ELSE [s EXCEPT !.given = Append(@, c), !.used = @ + c.chunk.size]
    IN FoldLeft(give, [given |-> << >>, used |-> 0, items |-> FALSE, bytes |-> FALSE],
                Ordered(Deduped(candidates), Better))

-----------------------------------------------------------------------------
(* The query: its reads are steps, the jobs go on between them.            *)

(* The workspace, the pin and the graph must be of the request's scope.    *)
Ask(r) ==
    /\ stage = "idle"
    /\ request' = r
    /\ IF r.scope = world.scope
       THEN stage' = "asked" /\ UNCHANGED answer
       ELSE stage' = "answered" /\ answer' = [refused |-> TRUE]
    /\ UNCHANGED <<world, jobs, progress, read>>

ReadChunks ==
    /\ stage = "asked"
    /\ read' = Select(request, world)
    /\ stage' = "selected"
    /\ UNCHANGED <<world, request, jobs, progress, answer>>

(* The search of text and of vectors may find anything among the chunks    *)
(* it was given, or fail.                                                  *)
Ranked(fts, near, e) ==
    /\ read' = read @@ [rankings |-> [exact    |-> ExactRanks(request, world, read.chunks),
                                      lexical  |-> LexicalRanks(request, read.chunks, fts),
                                      semantic |-> IF request.semantic /\ request.model
                                                   THEN VectorRanks(request, e, near) ELSE << >>],
                        scan     |-> e]
    /\ stage' = "ranked"
    /\ UNCHANGED <<world, request, jobs, progress, answer>>

Rank ==
    /\ stage = "selected"
    /\ \E found \in SUBSET ToSet(read.chunks) : \E near \in SUBSET ToSet(read.chunks) :
         /\ near \subseteq Embeddings(request, read.chunks).stored
         /\ Cardinality(near) <= request.budget.maxVectorCandidates
         /\ Ranked(Ordered(found, LAMBDA c, d : c.id > d.id), near, Embeddings(request, read.chunks))

SemanticState(r, e, chosen, pending) ==
    IF ~r.semantic THEN "disabled"
    ELSE IF pending > 0 THEN "pending"
    ELSE IF r.model /\ (chosen = << >> \/ e.scanned > 0) THEN "ready" ELSE "unavailable"

(* Out of time, an answer has the first of the results, or none.           *)
Report(sorted, candidates, g, late) ==
    LET semantic == SemanticState(request, read.scan, read.chunks, jobs.pending) IN
    [refused  |-> FALSE,
     results  |-> IF late THEN Cut(sorted.given, 1) ELSE sorted.given,
     truncated |-> [bytes |-> read.bytes \/ sorted.bytes, items |-> sorted.items, graph |-> g.truncated,
                    candidates |-> read.candidates \/ candidates.truncated, time |-> late,
                    vector |-> read.scan.truncated],
     semantic |-> semantic,
     stale    |-> jobs.pending > 0 \/ jobs.failed > 0,
     degraded |-> \/ Decoded(world) # world.chunks \/ read.scan.corrupt > 0 \/ jobs.failed > 0
                  \/ semantic = "unavailable"]

Assemble(candidates, g, late) ==
    answer' = Report(Results(request, candidates.found), candidates, g, late)

Answer ==
    /\ stage = "ranked"
    /\ \E late \in BOOLEAN :
         LET g == GraphDistances(request, world)
         IN Assemble(Candidates(request, world, read.chunks, read.rankings, g), g, late)
    /\ stage' = "answered"
    /\ UNCHANGED <<world, request, jobs, progress, read>>

(* A job ends, well or not, or another is queued.                          *)
Work ==
    /\ progress < MaxProgress /\ stage # "answered"
    /\ progress' = progress + 1
    /\ \E j \in [pending : Jobs, failed : Jobs] : jobs' = j
    /\ UNCHANGED <<world, request, stage, read, answer>>

Stop == stage = "answered" /\ UNCHANGED vars

Init ==
    /\ world \in Worlds
    /\ jobs \in [pending : Jobs, failed : Jobs]
    /\ request = [scope |-> "none"] /\ stage = "idle" /\ progress = 0
    /\ read = Nothing /\ answer = [refused |-> TRUE]

Next == (\E r \in Requests : Ask(r)) \/ ReadChunks \/ Rank \/ Answer \/ Work \/ Stop

Spec == Init /\ [][Next]_vars

-----------------------------------------------------------------------------
(* Properties.                                                             *)

Answered == stage = "answered" /\ ~answer.refused

(* What is given out lies where the request may look, in a language it     *)
(* asked for, within the budget, best first, and something speaks for it.  *)
ResultsAreEligible ==
    Answered =>
      /\ \A i \in DOMAIN answer.results :
           LET c == answer.results[i] IN
           /\ c.at.source = c.chunk.source /\ c.at.active /\ c.signals # {}
           /\ ~\E s \in request.denied : PathMatches(c.at.path, s)
           /\ request.included = {} \/ \E s \in request.included : PathMatches(c.at.path, s)
           /\ request.languages = {} \/ c.chunk.language \in request.languages
           /\ \A j \in 1..i - 1 : answer.results[j].score >= c.score
      /\ Len(answer.results) <= request.budget.maxItems
      /\ FoldLeft(LAMBDA n, c : n + c.chunk.size, 0, answer.results) <= request.budget.maxBytes

(* The chunks that name a symbol of the request, and those that contain a  *)
(* word of it when the text is searched here, at the occurrences in them.  *)
Wanted ==
    {p \in EligibleChunks(request, world) \X Seen(request, world) :
       /\ p[1].source = p[2].source /\ Overlap(p[1], p[2])
       /\ p[1] \in Exact(request, world) \/ (request.text = "local" /\ Matches(request, p[1]) > 0)}

(* None of them is missing from an answer that reports no limit.           *)
NothingIsMissing ==
    Answered /\ (\A k \in {"bytes", "items", "candidates", "time"} : ~answer.truncated[k]) =>
      \A p \in Wanted : \E i \in DOMAIN answer.results :
         SameCandidate(answer.results[i], [chunk |-> p[1], at |-> p[2]])

(* An answer that calls itself complete, fresh and ready has looked at the *)
(* vectors there are.                                                      *)
ReadyMeansLooked ==
    Answered /\ answer.semantic = "ready" /\ ~answer.degraded /\ ~answer.truncated.vector =>
      /\ jobs.pending = 0
      /\ Len(read.rankings.semantic) = Least2(request.budget.maxVectorCandidates,
           Cardinality({c \in ToSet(read.chunks) : c.vector.state = "good"}))

(* A query answers from where it may look and says what it left out.       *)
RetrievalIsSound == ResultsAreEligible /\ NothingIsMissing /\ ReadyMeansLooked

=============================================================================
