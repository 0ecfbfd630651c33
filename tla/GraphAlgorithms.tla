-------------------------- MODULE GraphAlgorithms --------------------------
(***************************************************************************)
(* The questions asked of a loaded graph                                   *)
(* (src/src/intelligence/graph/algorithms/algorithms.ts, graph/diff.ts):   *)
(* what can be reached from some nodes, the shortest path between two, the *)
(* strongly connected components, and what a revision changed.  Every      *)
(* answer is computed whole within its budget and given out in pages; the  *)
(* cursor to the next page is bound to the request and to the whole        *)
(* answer.  A node or a relationship takes one unit of bytes.              *)
(***************************************************************************)
EXTENDS Naturals, Sequences, FiniteSets, SequencesExt

CONSTANTS NodeOrder,     \* the nodes, in the order of their names
          EdgeOrder,     \* the pairs that may be related, in their order
          Snapshots,     \* [nodes, status, shown] of the generations
          Requests,
          MaxChanges     \* generations published between pages

VARIABLES snapshot,      \* what is loaded now
          request,       \* the question, or Unasked
          pages,         \* the answers of its pages: [items, reasons]
          cursor,        \* [binding, offset], or Ended
          changes

vars == <<snapshot, request, pages, cursor, changes>>

Unasked == [algorithm |-> "none"]
Ended   == [offset |-> 0]

Min2(a, b) == IF a < b THEN a ELSE b

-----------------------------------------------------------------------------
(* The part of a snapshot that a question is about: nodes of the           *)
(* generation, and relationships between them that are selected and still  *)
(* have evidence and an occurrence.                                        *)

Nodes(s) == SelectSeq(NodeOrder, LAMBDA n : n \in s.nodes)

Relationships(s, r) ==
    SelectSeq(EdgeOrder, LAMBDA e : /\ e \in s.shown /\ {e[1], e[2]} \subseteq s.nodes
                                    /\ s.status[e] \in r.statuses)

Near(r, e)  == IF r.direction = "forward" THEN e[1] ELSE e[2]
Other(r, e) == IF r.direction = "forward" THEN e[2] ELSE e[1]

-----------------------------------------------------------------------------
(* The traversal: level by level, each level in the order of its nodes.    *)

Stopped(t) == t.reasons \cap {"bytes", "edges", "milliseconds", "nodes"} # {}

Because(t, reason) == [t EXCEPT !.reasons = @ \cup {reason}]

Emit(r, late, t, item) ==
    IF Len(t.items) >= late THEN Because(t, "milliseconds")
    ELSE IF Len(t.items) >= r.budget.maxBytes THEN Because(t, "bytes")
    ELSE [t EXCEPT !.items = Append(@, item)]

Discovered(t) == {n \in ToSet(NodeOrder) : <<n>> \in ToSet(t.items)}

Follow(r, late, t, e) ==
    IF Stopped(t) THEN t
    ELSE IF t.considered >= r.budget.maxEdges THEN Because(t, "edges")
    ELSE LET u == [t EXCEPT !.considered = @ + 1]
             v == IF e \in ToSet(u.items) THEN u ELSE Emit(r, late, u, e)
         IN IF Stopped(v) THEN v ELSE [v EXCEPT !.next = @ \cup {Other(r, e)}]

Visit(s, r, late, t, n) ==
    IF Stopped(t) \/ n \in Discovered(t) THEN t
    ELSE IF Cardinality(Discovered(t)) >= r.budget.maxNodes THEN Because(t, "nodes")
    ELSE FoldLeft(LAMBDA u, e : Follow(r, late, u, e), Emit(r, late, t, <<n>>),
                  SelectSeq(Relationships(s, r), LAMBDA e : Near(r, e) = n))

Deeper(t) == IF Stopped(t) THEN t ELSE [t EXCEPT !.frontier = t.next, !.next = {}, !.depth = @ + 1]

Level(s, r, late, t) ==
    IF Stopped(t) \/ "depth" \in t.reasons \/ t.frontier = {} THEN t
    ELSE IF t.depth > r.budget.maxDepth THEN Because(t, "depth")
    ELSE Deeper(FoldLeft(LAMBDA u, n : Visit(s, r, late, u, n), t,
                         SelectSeq(NodeOrder, LAMBDA n : n \in t.frontier)))

TraverseItems(s, r, late) ==
    FoldLeft(LAMBDA t, k : Level(s, r, late, t),
             [items |-> << >>, frontier |-> r.starts \cap s.nodes, next |-> {}, depth |-> 0,
              considered |-> 0, reasons |-> {}],
             [k \in 1..Len(NodeOrder) + 2 |-> k])

-----------------------------------------------------------------------------
(* The shortest path: back from the target, along the relationship that    *)
(* first led to each node.                                                 *)

(* Mutant: the last relationship seen to lead to a node is followed.       *)
LastOf(q) == q[Len(q)]

LedTo(q) == q[1]

PathNodes(r, t) ==
    LET to(n) == SelectSeq(t.items, LAMBDA i : Len(i) = 2 /\ Other(r, i) = n)
        back[k \in 0..Len(NodeOrder)] ==
          IF k = 0 THEN <<r.target>>
          ELSE LET p == back[k - 1] IN
               IF p[1] \in r.starts \/ p[1] \notin Discovered(t) \/ to(p[1]) = << >> THEN p
               ELSE <<Near(r, LedTo(to(p[1])))>> \o p
    IN back[Len(NodeOrder)]

Found(s, r, t, path) ==
    [items   |-> IF r.starts \cup {r.target} \subseteq s.nodes /\ path[1] \in r.starts
                    /\ "milliseconds" \notin t.reasons THEN path ELSE << >>,
     reasons |-> t.reasons]

PathOf(s, r, t) == Found(s, r, t, PathNodes(r, t))

ShortestPath(s, r, late) == PathOf(s, r, TraverseItems(s, r, late))

-----------------------------------------------------------------------------
(* The strongly connected components, by one depth-first visit.  A visit   *)
(* that gets too deep is given up, with all the visits it is nested in.    *)

SccNodes(s, r) == SubSeq(Nodes(s), 1, Min2(Len(Nodes(s)), r.budget.maxNodes))

Among(s, r) == SelectSeq(Relationships(s, r), LAMBDA e : {e[1], e[2]} \subseteq ToSet(SccNodes(s, r)))

SccEdges(s, r) == SubSeq(Among(s, r), 1, Min2(Len(Among(s, r)), r.budget.maxEdges))

Ends(q) == [i \in DOMAIN q |-> q[i][2]]

Adjacent(s, r, n) == Ends(SelectSeq(SccEdges(s, r), LAMBDA e : e[1] = n))

Enter(s, r, v, n) ==
    IF Len(v.calls) > r.budget.maxDepth
    THEN [Because(v, "depth") EXCEPT !.calls = << >>]
    ELSE [v EXCEPT !.calls = Append(@, [id |-> n, left |-> Adjacent(s, r, n)]),
                   !.stack = Append(@, n), !.index = @ @@ (n :> v.count), !.low = @ @@ (n :> v.count),
                   !.count = @ + 1]

Lower(v, n, by) == [v EXCEPT !.low[n] = Min2(@, by)]

(* The visit of n is over: a root takes its component off the stack, and   *)
(* the caller hears how far up the visit reached.                          *)
Pop(v, n, at) ==
    IF v.low[n] # v.index[n] THEN v
    ELSE [v EXCEPT !.components = @ \cup {ToSet(SubSeq(v.stack, at, Len(v.stack)))},
                   !.stack = SubSeq(@, 1, at - 1)]

Return(v, n) == IF v.calls = << >> THEN v ELSE Lower(v, Last(v.calls).id, v.low[n])

Leave(v, n) == Return(Pop([v EXCEPT !.calls = Front(@)], n, CHOOSE i \in DOMAIN v.stack : v.stack[i] = n), n)

Unvisited(s, r, v) == SelectSeq(SccNodes(s, r), LAMBDA n : n \notin DOMAIN v.index)

(* The next root, the end of the innermost visit, or its next target.      *)
Walk(s, r, v) ==
    LET top    == Last(v.calls)
        onward == [v EXCEPT !.calls[Len(v.calls)].left = Tail(@)]
    IN CASE v.calls = << >> /\ ("depth" \in v.reasons \/ Unvisited(s, r, v) = << >>) -> v
         [] v.calls = << >> /\ "depth" \notin v.reasons /\ Unvisited(s, r, v) # << >> ->
              Enter(s, r, v, Head(Unvisited(s, r, v)))
         [] v.calls # << >> /\ top.left = << >> -> Leave(v, top.id)
         [] v.calls # << >> /\ top.left # << >> ->
              IF Head(top.left) \notin DOMAIN v.index THEN Enter(s, r, onward, Head(top.left))
              ELSE IF Head(top.left) \in ToSet(v.stack) THEN Lower(onward, top.id, v.index[Head(top.left)])
              ELSE onward

Visited(s, r) ==
    FoldLeft(LAMBDA v, k : Walk(s, r, v),
             [calls |-> << >>, stack |-> << >>, index |-> << >>, low |-> << >>, count |-> 0,
              components |-> {},
              reasons |-> {x \in {"nodes"} : Len(Nodes(s)) > r.budget.maxNodes}
                          \cup {x \in {"edges"} : Len(Among(s, r)) > r.budget.maxEdges}],
             [k \in 1..2 * Len(NodeOrder) + Len(EdgeOrder) |-> k])

(* Sorted by the first of each component's nodes.                          *)
Sorted(v) ==
    LET least(C) == CHOOSE n \in C : \A m \in C : n <= m
    IN [items |-> SetToSortSeq(v.components, LAMBDA C, D : least(C) < least(D)), reasons |-> v.reasons]

Components(s, r) == Sorted(Visited(s, r))

-----------------------------------------------------------------------------
(* What a revision changed, by the memberships and the entities' contents. *)

Entities(s) == {<<n>> : n \in s.nodes} \cup s.shown

Contents(s, e) == IF Len(e) = 1 THEN "node" ELSE s.status[e]

Operation(a, b, e) ==
    IF e \notin Entities(a) THEN "added"
    ELSE IF e \notin Entities(b) THEN "removed"
    ELSE IF Contents(a, e) # Contents(b, e) THEN "changed" ELSE "same"

Changes(a, b) ==
    LET of(op) == LET is(e) == Operation(a, b, e) = op
                      at(S) == SelectSeq(S, LAMBDA e : e \in Entities(a) \cup Entities(b) /\ is(e))
                      all   == at(EdgeOrder \o [i \in DOMAIN NodeOrder |-> <<NodeOrder[i]>>])
                  IN [i \in DOMAIN all |-> <<op, all[i]>>]
    IN of("added") \o of("changed") \o of("removed")

(* A snapshot that was loaded out of time lacks its last nodes.            *)
Loaded(s, late) ==
    LET nodes == {n \in s.nodes : n <= late}
    IN [s EXCEPT !.nodes = nodes, !.shown = {e \in @ : {e[1], e[2]} \subseteq nodes}]

-----------------------------------------------------------------------------
(* An answer: the whole of it, then the page at the cursor.                *)

Whole(r, late) ==
    CASE r.algorithm = "traverse" -> TraverseItems(snapshot, r, late)
      [] r.algorithm = "path"     -> ShortestPath(snapshot, r, late)
      [] r.algorithm = "scc"      -> Components(snapshot, r)
      [] r.algorithm = "diff"     ->
           [items   |-> Changes(r.base, Loaded(snapshot, late)),
            reasons |-> {x \in {"milliseconds"} : Loaded(snapshot, late) # snapshot}]

Binding(r, whole) == <<r, snapshot, whole.items>>

(* The page of whole at offset, of which `given' items make it in time.    *)
PageAt(r, whole, offset, given) ==
    LET end   == Min2(offset + r.budget.pageSize, Len(whole.items))
        fit   == IF r.algorithm = "scc" THEN Min2(end, offset + r.budget.maxBytes) ELSE end
        late  == r.algorithm # "diff" /\ ("milliseconds" \in whole.reasons \/ offset + given < fit)
        kept  == IF ~late THEN fit ELSE IF "milliseconds" \in whole.reasons THEN offset ELSE offset + given
        more  == end < Len(whole.items) /\ ~(r.algorithm = "scc" /\ (fit < end \/ late))
        why   == <<"page", more, "bytes", fit < end, "milliseconds", late>>
    IN [items   |-> SubSeq(whole.items, offset + 1, kept),
        reasons |-> whole.reasons \cup {why[i] : i \in {k \in {1, 3, 5} : why[k + 1]}},
        next    |-> IF more THEN [offset |-> end, binding |-> Binding(r, whole)] ELSE Ended]

Page(r, whole, offset, given) ==
    IF r.algorithm = "path" THEN [items |-> whole.items, reasons |-> whole.reasons, next |-> Ended]
    ELSE PageAt(r, whole, offset, given)

Give(before, page) ==
    /\ pages' = Append(before, [items |-> page.items, reasons |-> page.reasons])
    /\ cursor' = page.next

Never == Len(NodeOrder) + Len(EdgeOrder) + 1

(* A question; its deadline may pass after `late' items, or in its page.   *)
Ask(r) ==
    /\ request = Unasked
    /\ request' = r
    /\ \E late, given \in {0, 1, Never} : Give(<< >>, Page(r, Whole(r, late), 0, given))
    /\ UNCHANGED <<snapshot, changes>>

(* The next page: refused unless the question still has the same answer.   *)
Resume(whole, given) ==
    IF cursor.binding = Binding(request, whole)
    THEN Give(pages, Page(request, whole, cursor.offset, given)) /\ UNCHANGED request
    ELSE request' = Unasked /\ pages' = << >> /\ cursor' = Ended

Continue ==
    /\ cursor # Ended
    /\ \E late, given \in {1, Never} : Resume(Whole(request, late), given)
    /\ UNCHANGED <<snapshot, changes>>

(* A refresh publishes another generation.                                 *)
Refresh ==
    /\ changes < MaxChanges /\ cursor # Ended
    /\ changes' = changes + 1
    /\ \E s \in Snapshots : snapshot' = s
    /\ UNCHANGED <<request, pages, cursor>>

Stop == (request # Unasked \/ changes = MaxChanges) /\ cursor = Ended /\ UNCHANGED vars

Init ==
    /\ snapshot \in Snapshots
    /\ request = Unasked /\ pages = << >> /\ cursor = Ended /\ changes = 0

Next == (\E r \in Requests : Ask(r)) \/ Continue \/ Refresh \/ Stop

Spec == Init /\ [][Next]_vars

-----------------------------------------------------------------------------
(* Properties.                                                             *)

Given == FlattenSeq([i \in DOMAIN pages |-> pages[i].items])

(* Nothing but the pages kept the answers short.                           *)
Unhurried == pages # << >> /\ \A i \in DOMAIN pages : pages[i].reasons \subseteq {"page"}

(* All pages have been read, of one snapshot.                              *)
Complete == Unhurried /\ cursor = Ended

(* The nodes at most k relationships away.                                 *)
Within(k) ==
    LET E == ToSet(Relationships(snapshot, request))
        R[i \in 0..k] == IF i = 0 THEN request.starts \cap snapshot.nodes
                         ELSE R[i - 1] \cup {Other(request, e) : e \in {f \in E : Near(request, f) \in R[i - 1]}}
    IN R[k]

Reached == Within(Len(NodeOrder))

(* A traversal that names no limit has given out, over all its pages,      *)
(* every node that can be reached and every relationship on the way, each  *)
(* once; whatever it gave out can be reached.                              *)
TraversalIsWhole ==
    request.algorithm = "traverse" /\ changes = 0 =>
      LET all == {<<n>> : n \in Reached}
                 \cup {e \in ToSet(Relationships(snapshot, request)) : Near(request, e) \in Reached}
      IN /\ ToSet(Given) \subseteq all
         /\ Complete => ToSet(Given) = all /\ IsInjective(Given)

(* A path is along relationships of the graph and no other is shorter; one *)
(* that is not found does not exist, unless the answer names a limit.      *)
PathIsShortest ==
    request.algorithm = "path" /\ pages # << >> =>
      LET p == Given IN
      IF p = << >> THEN Complete => request.target \notin Reached
      ELSE /\ p[1] \in request.starts /\ Last(p) = request.target
           /\ \A i \in 1..Len(p) - 1 : \E e \in ToSet(Relationships(snapshot, request)) :
                 Near(request, e) = p[i] /\ Other(request, e) = p[i + 1]
           /\ Len(p) > 1 => request.target \notin Within(Len(p) - 2)

(* The nodes that m and n reach each other, within what was considered.    *)
Connected(m, n) ==
    LET E == ToSet(SccEdges(snapshot, request))
        R[i \in 0..Len(NodeOrder)] == IF i = 0 THEN {m} ELSE R[i - 1] \cup {e[2] : e \in {f \in E : f[1] \in R[i - 1]}}
    IN n \in R[Len(NodeOrder)]

(* Every component given out is one, also when the visit was given up, and *)
(* they are all there unless the answer names a limit.                     *)
ComponentsAreRight ==
    request.algorithm = "scc" /\ changes = 0 =>
      LET N == ToSet(SccNodes(snapshot, request))
          C(n) == {m \in N : Connected(m, n) /\ Connected(n, m)}
      IN /\ ToSet(Given) \subseteq {C(n) : n \in N}
         /\ Complete => ToSet(Given) = {C(n) : n \in N} /\ IsInjective(Given)

(* Applying the changes of all pages to the base gives the revision.       *)
DiffIsWhole ==
    request.algorithm = "diff" /\ changes = 0 /\ Complete =>
      LET of(op) == {c[2] : c \in {x \in ToSet(Given) : x[1] = op}}
      IN /\ Entities(snapshot) = (Entities(request.base) \ of("removed")) \cup of("added")
         /\ of("changed") = {e \in Entities(snapshot) \cap Entities(request.base) :
                               Contents(snapshot, e) # Contents(request.base, e)}
         /\ IsInjective(Given)

(* What the graph's tools answer is right and says when it is not whole.   *)
GraphAnswersAreRight == TraversalIsWhole /\ PathIsShortest /\ ComponentsAreRight /\ DiffIsWhole

=============================================================================
