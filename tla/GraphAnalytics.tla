--------------------------- MODULE GraphAnalytics ---------------------------
(* analyzeGraph of analytics/analytics.ts: the weighted projection of a graph *)
(* within its budget, the Leiden communities with their hierarchy, PageRank   *)
(* and betweenness, and what LanceAnalyticsRepository stores and loads again. *)
(* Nodes are 1 .. n in the order of their ids, an edge carries the weight   *)
(* its evidence and status give it, the resolution is one and the tolerance   *)
(* zero; fractions are integers over a common denominator.                    *)
EXTENDS Integers, Sequences, FiniteSets, SequencesExt, FiniteSetsExt, Functions

CONSTANTS Inputs,      \* graphs: [nodes, edges], edges are <<id, from, to, weight>>
          MaxNodes,    \* budget.maxNodes
          MaxEdges,    \* budget.maxEdges
          MaxSweeps,   \* budget.maxIterations
          MaxLevels,   \* budget.maxLevels
          MaxSources,  \* budget.maxCentralitySources
          MaxRankings  \* budget.pagerankIterations

VARIABLES input,      \* the snapshot that is analysed
          projection, \* its nodes and edges within the budget, and their graph
          phase,      \* what analyzeGraph does next
          graph,      \* the LevelGraph of the current level
          partition,  \* localMove's partition of it, then its components
          refined,    \* leidenRefinement's partition
          sweeps,     \* localMove's iterations
          hierarchy,  \* the levels found so far
          limits,     \* iterationLimited, levelLimited, pageRankLimited
          ranks,      \* the ranks, as integers over a unit
          rankings,   \* how often they were computed
          answer,     \* the GraphAnalyticsResult
          rows        \* the tables communities and summaries

vars == <<input, projection, phase, graph, partition, refined, sweeps, hierarchy, limits, ranks, rankings, answer, rows>>

SumOf(S, f(_)) == FoldSet(LAMBDA x, sum : f(x) + sum, 0, S)

FirstOf(S, n) == IF Cardinality(S) <= n THEN S
                 ELSE {x \in S : Cardinality({y \in S : y < x}) < n}

(* The members of S by their keys.                                            *)
Sorted(S, key(_)) ==
    [k \in 1 .. Cardinality(S) |-> CHOOSE x \in S : Cardinality({y \in S : key(y) < key(x)}) = k - 1]

(* projectGraph: the first nodes, then the first edges between them.          *)
Selected(in) == FirstOf(in.nodes, MaxNodes)

Eligible(in) == {e \in in.edges : e[2] \in Selected(in) /\ e[3] \in Selected(in)}

Considered(in) == LET ids == FirstOf({e[1] : e \in Eligible(in)}, MaxEdges)
                  IN {e \in Eligible(in) : e[1] \in ids}

Between(edges, a, b) ==
    SumOf({e \in edges : {e[2], e[3]} = {a, b}}, LAMBDA e : e[4])

Dropped(in) == (IF Selected(in) # in.nodes THEN {"node-budget"} ELSE {})
               \cup (IF Considered(in) # Eligible(in) THEN {"edge-budget"} ELSE {})

(* levelGraph: a loop counts twice, so that a strength is a sum of weights.   *)
LevelGraph(groups, w) ==
    [members |-> groups,
     weight |-> [i, j \in DOMAIN groups |-> IF i = j THEN 2 * w[i, i] ELSE w[i, j]]]

FirstGraph(nodes, edges) ==
    LevelGraph([i \in 1 .. Cardinality(nodes) |-> {i}],
               [i, j \in 1 .. Cardinality(nodes) |-> Between(edges, i, j)])

Nodes(g) == DOMAIN g.members

Strength(g, i) == SumOf(Nodes(g), LAMBDA j : g.weight[i, j])

Twice(g) == SumOf(Nodes(g), LAMBDA i : Strength(g, i))

Neighbours(g, i) == {j \in Nodes(g) \ {i} : g.weight[i, j] > 0}

(* selectCommunity over the candidates in ascending order; the gain is taken  *)
(* times twice the total weight.                                              *)
Gain(g, p, i, c) ==
    Twice(g) * SumOf({j \in Neighbours(g, i) : p[j] = c}, LAMBDA j : g.weight[i, j])
      - Strength(g, i) * SumOf({j \in Nodes(g) \ {i} : p[j] = c}, LAMBDA j : Strength(g, j))

SelectCommunity(current, candidates, gain) ==
    FoldLeft(LAMBDA best, c :
               IF gain[c] > best.gain \/ (gain[c] = best.gain /\ c < best.community)
               THEN [community |-> c, gain |-> gain[c]] ELSE best,
             [community |-> current, gain |-> 0], Sorted(candidates, LAMBDA c : c)).community

(* One iteration of localMove: every node in the seeded order.                *)
Sweep(g, p, order) ==
    FoldLeft(LAMBDA q, i :
               [q EXCEPT ![i] = SelectCommunity(q[i], {q[i]} \cup {q[j] : j \in Neighbours(g, i)},
                                                [c \in Nodes(g) |-> Gain(g, q, i, c)])], p, order)

Reach(g, p, i) ==
    FoldSet(LAMBDA n, r : r \cup {j \in Nodes(g) : p[j] = p[i] /\ r \cap Neighbours(g, j) # {}},
            {i}, Nodes(g))

Lowest(g, p, i) == Min({j \in Nodes(g) : p[j] = p[i]})

(* connectedRefinement: communities fall apart into their components, which   *)
(* are numbered by the first node of the community, then of the component.    *)
Numbered(g, p, first) ==
    [i \in Nodes(g) |-> 1 + Cardinality({first[j] : j \in {k \in Nodes(g) :
        \/ Lowest(g, p, k) < Lowest(g, p, i)
        \/ Lowest(g, p, k) = Lowest(g, p, i) /\ first[k] < first[i]}})]

ConnectedRefinement(g, p) == Numbered(g, p, [i \in Nodes(g) |-> Min(Reach(g, p, i))])

(* leidenRefinement: from singletons, and only inside a coarse community; a   *)
(* node that others have joined stays.                                        *)
LeidenRefinement(g, coarse, order) ==
    FoldLeft(LAMBDA q, i :
               IF \E j \in Nodes(g) \ {i} : q[j] = q[i] THEN q
               ELSE [q EXCEPT ![i] = SelectCommunity(q[i],
                       {q[j] : j \in {k \in Neighbours(g, i) : coarse[k] = coarse[i]}},
                       [c \in Nodes(g) |-> Gain(g, q, i, c)])],
             [i \in Nodes(g) |-> i], order)

(* groupedMembers: sorted by their first member.                              *)
Grouped(g, p) ==
    Sorted({UNION {g.members[j] : j \in {k \in Nodes(g) : p[k] = p[i]}} : i \in Nodes(g)}, Min)

(* Modularity times the square of twice the total weight.                     *)
Modularity(g, p) ==
    SumOf({p[i] : i \in Nodes(g)}, LAMBDA c :
        Twice(g) * SumOf({ij \in Nodes(g) \X Nodes(g) : p[ij[1]] = c /\ p[ij[2]] = c},
                         LAMBDA ij : g.weight[ij[1], ij[2]])
          - SumOf({i \in Nodes(g) : p[i] = c}, LAMBDA i : Strength(g, i)) ^ 2)

AggregateKeepingLoops(g, groups) ==
    LET In(i) == {j \in Nodes(g) : g.members[j] \subseteq groups[i]}
    IN LevelGraph(groups, [a, b \in DOMAIN groups |->
         SumOf({ij \in In(a) \X In(b) : a # b \/ ij[1] <= ij[2]},
               LAMBDA ij : g.weight[ij[1], ij[2]])])

(* aggregate: groups become nodes; a loop's doubled weight is halved again.   *)
Aggregate(g, groups) ==
    LET In(i) == {j \in Nodes(g) : g.members[j] \subseteq groups[i]}
    IN LevelGraph(groups, [a, b \in DOMAIN groups |->
         SumOf({ij \in In(a) \X In(b) : a # b \/ ij[1] <= ij[2]},
               LAMBDA ij : IF ij[1] = ij[2] THEN g.weight[ij[1], ij[2]] \div 2
                           ELSE g.weight[ij[1], ij[2]])])

(* The communities the next level starts from: the coarse ones, numbered as   *)
(* the refined groups meet them.                                              *)
Carried(g, coarse, groups) ==
    LET of == [k \in DOMAIN groups |-> CHOOSE c \in {coarse[i] : i \in Nodes(g)} :
                 \E i \in Nodes(g) : coarse[i] = c /\ g.members[i] \subseteq groups[k]]
    IN [k \in DOMAIN groups |->
          Cardinality({of[j] : j \in 1 .. (CHOOSE f \in DOMAIN groups :
                         of[f] = of[k] /\ \A h \in 1 .. f - 1 : of[h] # of[k])})]

-----------------------------------------------------------------------------
Init == /\ input \in Inputs
        /\ phase = "move" /\ sweeps = 0 /\ hierarchy = <<>> /\ limits = {}
        /\ projection = [nodes |-> Selected(input), edges |-> Considered(input),
                         graph |-> FirstGraph(Selected(input), Considered(input))]
        /\ graph = projection.graph
        /\ refined = <<>>
        /\ partition = [i \in projection.nodes |-> i]
        /\ ranks = [of |-> [i \in projection.nodes |-> 1], unit |-> Cardinality(projection.nodes)]
        /\ rankings = 0 /\ answer = <<>> /\ rows = [communities |-> {}, summaries |-> {}]

(* The order the seed gives is any of the two of the model.                   *)
Orders(g) == {[i \in Nodes(g) |-> i], [i \in Nodes(g) |-> Cardinality(Nodes(g)) + 1 - i]}

Settle(p, q) ==
    /\ partition' = q /\ sweeps' = sweeps + 1
    /\ phase' = IF p = q \/ sweeps' = MaxSweeps THEN "refine" ELSE "move"
    /\ limits' = IF p # q /\ sweeps' = MaxSweeps THEN limits \cup {"iteration-budget"} ELSE limits

Move == /\ phase = "move"
        /\ IF Twice(graph) = 0
           THEN phase' = "refine" /\ UNCHANGED <<partition, sweeps, limits>>
           ELSE \E order \in Orders(graph) : Settle(partition, Sweep(graph, partition, order))
        /\ UNCHANGED <<input, projection, graph, refined, hierarchy, ranks, rankings, answer, rows>>

(* A level of partitionGraph, once its nodes have settled.                    *)
Connect == /\ phase = "refine"
           /\ partition' = ConnectedRefinement(graph, partition)
           /\ phase' = "leiden"
           /\ UNCHANGED <<input, projection, graph, refined, sweeps, hierarchy, limits, ranks, rankings, answer, rows>>

Refine == /\ phase = "leiden"
          /\ \E order \in Orders(graph) :
               refined' = ConnectedRefinement(graph, IF Twice(graph) = 0 THEN [i \in Nodes(graph) |-> i]
                                                     ELSE LeidenRefinement(graph, partition, order))
          /\ phase' = "level"
          /\ UNCHANGED <<input, projection, graph, partition, sweeps, hierarchy, limits, ranks, rankings, answer, rows>>

Level(coarse, groups) ==
    LET last == Len(groups) = Len(graph.members) \/ Len(coarse) <= 1
    IN /\ hierarchy' = Append(hierarchy, [communities |-> coarse, modularity |-> Modularity(graph, partition)])
       /\ limits' = IF ~last /\ Len(hierarchy') = MaxLevels THEN limits \cup {"level-budget"} ELSE limits
       /\ IF last \/ Len(hierarchy') = MaxLevels
          THEN phase' = "rank" /\ UNCHANGED <<graph, partition>>
          ELSE /\ phase' = "move"
               /\ graph' = Aggregate(graph, groups)
               /\ partition' = Carried(graph, partition, groups)

Ascend == /\ phase = "level"
          /\ Level(Grouped(graph, partition), Grouped(graph, refined))
          /\ sweeps' = 0
          /\ UNCHANGED <<input, projection, refined, ranks, rankings, answer, rows>>

(* centrality's PageRank: ranks.of over ranks.unit.  Sixty is divisible by    *)
(* every total of outgoing weights in the model.                              *)
Size == Cardinality(projection.nodes)

Outgoing(i) == SumOf({e \in projection.edges : e[2] = i}, LAMBDA e : e[4])

NextRankWithoutDangling(r, i) ==
    180 * r.unit + SumOf({e \in projection.edges : e[3] = i /\ Outgoing(e[2]) > 0},
                         LAMBDA e : (17 * 60 * Size * r.of[e[2]] * e[4]) \div Outgoing(e[2]))

(* A node that leads nowhere gives its rank to all.                           *)
NextRank(r, i) ==
    180 * r.unit + SumOf({e \in projection.edges : e[3] = i /\ Outgoing(e[2]) > 0},
                         LAMBDA e : (17 * 60 * Size * r.of[e[2]] * e[4]) \div Outgoing(e[2]))
      + 17 * 60 * SumOf({k \in projection.nodes : Outgoing(k) = 0}, LAMBDA k : r.of[k])

Rank == /\ phase = "rank"
        /\ LET next == [of |-> [i \in projection.nodes |-> NextRank(ranks, i)],
                        unit |-> ranks.unit * 1200 * Size]
               converged == \A i \in projection.nodes : next.of[i] = ranks.of[i] * 1200 * Size
           IN /\ ranks' = next /\ rankings' = rankings + 1
              /\ phase' = IF converged \/ rankings' = MaxRankings THEN "answer" ELSE "rank"
              /\ limits' = IF ~converged /\ rankings' = MaxRankings
                           THEN limits \cup {"iteration-budget"} ELSE limits
        /\ UNCHANGED <<input, projection, graph, partition, refined, sweeps, hierarchy, answer, rows>>

(* betweenness: shortest paths are counted from each source, and the sources' *)
(* dependencies are added up from the farthest node backwards, in twelfths.   *)
Linked(i, j) == i # j /\ projection.graph.weight[i, j] > 0

Ball(s, radius) ==
    FoldSet(LAMBDA n, b : b \cup {j \in projection.nodes : \E i \in b : Linked(i, j)}, {s}, 1 .. radius)

Distances(s) ==
    [i \in projection.nodes |->
       LET near == {n \in 0 .. Cardinality(projection.nodes) : i \in Ball(s, n)}
       IN IF near = {} THEN -1 ELSE Min(near)]

Paths(dist) ==
    LET paths[i \in projection.nodes] ==
          IF dist[i] = 0 THEN 1
          ELSE SumOf({k \in projection.nodes : Linked(k, i) /\ dist[k] = dist[i] - 1 /\ dist[k] >= 0},
                     LAMBDA k : paths[k])
    IN paths

Dependencies(dist, paths) ==
    LET dependency[i \in projection.nodes] ==
          SumOf({k \in projection.nodes : Linked(i, k) /\ dist[k] = dist[i] + 1},
                LAMBDA k : (paths[i] * (12 + dependency[k])) \div paths[k])
    IN dependency

DependencyOn(s, i, dist) ==
    IF i = s \/ dist[i] = -1 THEN 0 ELSE Dependencies(dist, Paths(dist))[i]

Betweenness ==
    [i \in projection.nodes |->
       SumOf(FirstOf(projection.nodes, MaxSources), LAMBDA s : DependencyOn(s, i, Distances(s)))]

(* Whether the members are reached from the first of them.                   *)
Connected(S) ==
    S = FoldSet(LAMBDA n, r : r \cup {j \in S : \E i \in r : Linked(i, j)}, {Min(S)}, S)

(* A community and its identity: the members with the projection they are of. *)
Community(members) ==
    [id |-> <<projection.edges, members>>, members |-> members, label |-> members, connected |-> Connected(members),
     summary |-> [content |-> members, digest |-> members, evidence |-> projection.edges]]

Answer ==
    /\ phase = "answer"
    /\ answer' = [communities |-> [k \in DOMAIN Last(hierarchy).communities |->
                                     Community(Last(hierarchy).communities[k])],
                  betweenness |-> Betweenness,
                  reasons |-> Dropped(input) \cup limits
                     \cup IF Size > MaxSources THEN {"centrality-budget"} ELSE {}]
    /\ phase' = "persist"
    /\ UNCHANGED <<input, projection, graph, partition, refined, sweeps, hierarchy, limits, ranks, rankings, rows>>

(* persist: one row for every community and one for its summary, each under   *)
(* an identity of its own in the generation g.                                *)
Persist(g) ==
    /\ phase = "persist"
    /\ rows' = [communities |-> {[generation |-> g, key |-> <<g, c.id>>, members |-> c.members, community |-> c] :
                                   c \in ToSet(answer.communities)},
                summaries |-> {[generation |-> g, key |-> <<g, c.id, c.summary>>, subject |-> c.id,
                                content |-> c.summary.content, summary |-> c.summary] :
                                   c \in ToSet(answer.communities)}]
    /\ phase' = "stored"
    /\ UNCHANGED <<input, projection, graph, partition, refined, sweeps, hierarchy, limits, ranks, rankings, answer>>

(* The store returns something else than was put into one field of a row.     *)
Damage ==
    /\ phase = "stored" /\ rows.communities # {}
    /\ LET r == CHOOSE x \in rows.communities : TRUE
           s == CHOOSE x \in rows.summaries : x.subject = r.community.id
           swap(old, new) == (rows.communities \ {old}) \cup {new}
           change(old, new) == (rows.summaries \ {old}) \cup {new}
       IN rows' \in
            {[rows EXCEPT !.communities = swap(r, n)] : n \in {[r EXCEPT !.key[1] = 0], [r EXCEPT !.members = {}],
               [r EXCEPT !.community.label = {}], [r EXCEPT !.community.id = <<{}, {}>>],
               [r EXCEPT !.community.summary.content = {}]}}
            \cup {[rows EXCEPT !.summaries = change(s, n)] : n \in {[s EXCEPT !.key[1] = 0],
               [s EXCEPT !.subject = <<{}, {}>>], [s EXCEPT !.content = {}], [s EXCEPT !.summary.digest = {}]}}
            \cup {[rows EXCEPT !.summaries = @ \ {s}]}
    /\ phase' = "damaged"
    /\ UNCHANGED <<input, projection, graph, partition, refined, sweeps, hierarchy, limits, ranks, rankings, answer>>

(* validateCommunity and communityPayload recompute what a row says of itself.*)
CommunityHolds(r) ==
    /\ r.key = <<r.generation, r.community.id>> /\ r.members = r.community.members
    /\ r.community = Community(r.community.members)

SummaryHolds(s) == /\ s.key = <<s.generation, s.subject, s.summary>>
                   /\ s.content = s.summary.content /\ s.summary.digest = s.summary.content

(* load: nothing of the generation is passed over, one bad row fails it all.  *)
Load(g) ==
    LET mine == {r \in rows.communities : r.generation = g}
    IN IF \/ \E r \in mine : ~CommunityHolds(r)
          \/ \E s \in rows.summaries : s.generation = g /\ ~SummaryHolds(s)
          \/ \E r \in mine : ~\E s \in rows.summaries :
               s.generation = g /\ s.subject = r.community.id /\ s.summary = r.community.summary
       THEN "invalid" ELSE "loaded"

Stop == phase = "damaged" /\ UNCHANGED vars

Next == Move \/ Connect \/ Refine \/ Ascend \/ Rank \/ Answer \/ Persist(1) \/ Damage \/ Stop

Spec == Init /\ [][Next]_vars

-----------------------------------------------------------------------------
(* Every level splits the selected nodes into communities that hang together  *)
(* in the projection, and no level is worse than the one before it.           *)
LevelsArePartitions == \A k \in DOMAIN hierarchy :
    LET cs == hierarchy[k].communities
    IN /\ UNION ToSet(cs) = projection.nodes
       /\ \A a, b \in DOMAIN cs : a # b => cs[a] \cap cs[b] = {}
       /\ \A a \in DOMAIN cs : cs[a] # {} /\ Connected(cs[a])
       /\ k > 1 => hierarchy[k].modularity >= hierarchy[k - 1].modularity

(* Merging nodes loses no weight: the modularity of a level is the one its    *)
(* communities have in the graph of the input.                                *)
WeightIsKept == \A k \in DOMAIN hierarchy :
    hierarchy[k].modularity =
         Modularity(projection.graph, [i \in projection.nodes |-> CHOOSE c \in DOMAIN hierarchy[k].communities :
                              i \in hierarchy[k].communities[c]])

(* The ranks are shares of one whole.                                         *)
RanksAreShares == SumOf(projection.nodes, LAMBDA i : ranks.of[i]) = ranks.unit

(* The share of the shortest paths between two others that lead over a node.  *)
Share(i, s, t) ==
    LET ds == Distances(s)
        di == Distances(i)
    IN IF s # t /\ i \notin {s, t} /\ ds[t] # -1 /\ ds[i] # -1 /\ ds[i] + di[t] = ds[t]
       THEN (12 * Paths(ds)[i] * Paths(di)[t]) \div Paths(ds)[t] ELSE 0

(* The dependencies add up to the shortest paths through a node.              *)
BetweennessCounts == phase = "persist" =>
    \A i \in projection.nodes : answer.betweenness[i] =
        SumOf(FirstOf(projection.nodes, MaxSources) \X projection.nodes, LAMBDA st : Share(i, st[1], st[2]))

(* An answer that leaves part of the graph out says so.                       *)
CutsAreTold == phase = "persist" =>
    ((projection.edges = input.edges /\ projection.nodes = input.nodes)
       \/ answer.reasons \cap {"node-budget", "edge-budget"} # {})

(* What was stored is loaded again, and a damaged row is never believed.      *)
StoredIsLoaded == /\ phase = "stored" => Load(1) = "loaded"
                  /\ phase = "damaged" => Load(1) = "invalid"

(* The analytics of a graph are those of its definition.                      *)
AnalyticsAreRight == /\ LevelsArePartitions
                     /\ phase = "rank" => WeightIsKept /\ RanksAreShares
                     /\ BetweennessCounts
                     /\ CutsAreTold
                     /\ StoredIsLoaded
=============================================================================
