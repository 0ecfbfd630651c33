-------------------------- MODULE CodeIntelligence --------------------------
(***************************************************************************)
(* The native code tools (src/src/tools/code-intelligence.ts and           *)
(* code-intelligence-compute.ts): a request takes one of a few slots and a *)
(* worker of its own, reads and parses the files it selects one after      *)
(* another within budgets of bytes, and computes its answer from the facts *)
(* of those.  A deadline, the client or the server's end aborts it at any  *)
(* point.  Names, paths and sources are values; an item, a file's source   *)
(* and its facts have sizes; a specifier is a number beyond the files'.    *)
(***************************************************************************)
EXTENDS Naturals, Sequences, FiniteSets, SequencesExt

CONSTANTS Callers,            \* requests that may run at a time
          Trees,              \* the files of the checkout, by number
          Inputs,
          MaxActiveRequests, MaxSourceBytes, MaxRequestBytes,
          MaxFaults           \* bound on files that vanish and workers that break

VARIABLES tree, requests, activeRequests, closed, faults

vars == <<tree, requests, activeRequests, closed, faults>>

NoRequest == [state |-> "none"]

Graphs == {"deps", "reverse_deps", "cycles", "graph", "impact"}

Lesser(a, b) == IF a < b THEN a ELSE b

-----------------------------------------------------------------------------
(* Which files a request is about.                                         *)

(* A question about the graph of a file needs the others too.              *)
ScanOf(input) == IF input.name \in Graphs /\ input.paths = {} THEN DOMAIN tree
                 ELSE IF input.paths \cup input.file = {} THEN DOMAIN tree ELSE input.paths \cup input.file

Selected(input) == {f \in DOMAIN tree \cap ScanOf(input) : ~tree[f].artifact}

Supported(input, f) ==
    tree[f].language # "none" /\ (input.languages = {} \/ tree[f].language \in input.languages)

Eligible(input) == SelectSeq([f \in DOMAIN tree |-> f], LAMBDA f : f \in Selected(input) /\ Supported(input, f))

(* One file was asked for and it is the only one there is.                 *)
ExactFile(input) == Cardinality(Selected(input)) = 1 /\ input.name \notin Graphs
                    /\ input.paths \cup input.file = Selected(input)

-----------------------------------------------------------------------------
(* The scan: files are the parsed ones, omitted the others by reason.      *)

Reasons == {"scanLimit", "unreadable", "unsupported", "sourceSize", "sourceBytes", "parsedFacts"}

Start(input) ==
    LET all == Eligible(input) IN
    [queue       |-> SubSeq(all, 1, Lesser(Len(all), input.scanLimit)),
     files       |-> {},
     omitted     |-> [x \in Reasons |->
                        CASE x = "scanLimit"   -> ToSet(SubSeq(all, input.scanLimit + 1, Len(all)))
                          [] x = "unsupported" -> Selected(input) \ ToSet(all)
                          [] OTHER             -> {}],
     bytes       |-> 0,
     transferred |-> 0]

Omit(scan, reason, F, left) == [scan EXCEPT !.omitted[reason] = @ \cup F, !.queue = left]

(* What becomes of the next file.  A budget that is used up ends the scan: *)
(* the rest is reported without being read.                                *)
Room(scan) == Lesser(MaxSourceBytes, MaxRequestBytes - scan.bytes)

TooLarge(scan) == tree[Head(scan.queue)].size > Room(scan)

OverBudget(scan) ==
    IF tree[Head(scan.queue)].size > MaxSourceBytes THEN Omit(scan, "sourceSize", {Head(scan.queue)}, Tail(scan.queue))
    ELSE Omit(scan, "sourceBytes", ToSet(scan.queue), << >>)

Read(scan) == [scan EXCEPT !.bytes = @ + tree[Head(scan.queue)].size]

Unparsed(scan) == tree[Head(scan.queue)].facts > MaxRequestBytes - scan.transferred

Parsed(scan) ==
    LET f == Head(scan.queue) IN
    [scan EXCEPT !.files = @ \cup {f}, !.transferred = @ + tree[f].facts, !.queue = Tail(@),
                 !.omitted["parsedFacts"] = @ \cup (IF tree[f].partial THEN {f} ELSE {})]

(* Mutant: a file whose facts are cut short counts as parsed whole.        *)
ParsedRegardless(scan) ==
    LET f == Head(scan.queue) IN
    [scan EXCEPT !.files = @ \cup {f}, !.transferred = @ + tree[f].facts, !.queue = Tail(@)]

Take(scan) == Parsed(scan)

Incomplete(scan) == \E x \in Reasons \ {"unsupported"} : scan.omitted[x] # {}

-----------------------------------------------------------------------------
(* What is computed from the facts of the files.                           *)

(* An import leads to the files among those scanned that its specifier may *)
(* stand for; to none, and it is external.                                 *)
ImportGraph(files) ==
    UNION {UNION {LET to == s.targets \cap files IN
                  IF to = {} THEN {[from |-> f, to |-> s.name, external |-> TRUE, ambiguous |-> FALSE]}
                  ELSE {[from |-> f, to |-> t, external |-> FALSE, ambiguous |-> Cardinality(to) > 1] : t \in to}
                    : s \in tree[f].imports} : f \in files}

Visible(input, edges) ==
    {e \in edges : (input.hideExternal => ~e.external) /\ (input.hideAmbiguous => ~e.ambiguous)}

Adjacent(edges, n) == SelectSeq([f \in DOMAIN tree |-> f], LAMBDA f : \E e \in edges : e.from = n /\ ~e.external /\ e.to = f)

(* A cycle is written from its first file on.                              *)
CanonicalCycle(q) ==
    LET i == CHOOSE k \in DOMAIN q : \A j \in DOMAIN q : q[k] <= q[j]
    IN SubSeq(q, i, Len(q)) \o SubSeq(q, 1, i - 1)

(* A depth-first visit of every file; an import of a file whose visit is   *)
(* under way closes a cycle.                                               *)
VisitStep(edges, max, v) ==
    LET frame == Last(v.stack)
        next  == Head(frame.left)
        path  == [i \in DOMAIN v.stack |-> v.stack[i].node]
        on    == [v EXCEPT !.stack[Len(v.stack)].left = Tail(@)]
        enter(u, n) == [u EXCEPT !.stack = Append(@, [node |-> n, left |-> Adjacent(edges, n)]), !.seen = @ \cup {n}]
        roots == SelectSeq([f \in DOMAIN tree |-> f], LAMBDA f : f \notin v.seen /\ Adjacent(edges, f) # << >>)
        over  == Cardinality(v.cycles) > max
    IN IF v.stack = << >> THEN (IF over \/ roots = << >> THEN v ELSE enter(v, Head(roots)))
       ELSE IF over \/ frame.left = << >> THEN [v EXCEPT !.stack = Front(@)]
       ELSE IF next \in ToSet(path)
       THEN [on EXCEPT !.cycles = @ \cup {CanonicalCycle(SubSeq(path, CHOOSE i \in DOMAIN path : path[i] = next, Len(path)))}]
       ELSE IF next \in v.seen THEN on ELSE enter(on, next)

GraphCycles(edges, max) ==
    FoldLeft(LAMBDA v, k : VisitStep(edges, max, v), [stack |-> << >>, seen |-> {}, cycles |-> {}],
             [k \in 1..2 * Len(tree) + Len(tree) * Len(tree) |-> k]).cycles

Calls(files) == UNION {{[path |-> f] @@ c : c \in tree[f].calls} : f \in files}

CallsFor(files, name, direction) ==
    {c \in Calls(files) : (IF direction = "in" THEN c.callee ELSE c.caller) = name}

(* Level by level from the target, each name once.                         *)
TracedCalls(files, input, direction) ==
    LET near[k \in 0..input.depth] ==
          IF k = 0 THEN {}
          ELSE near[k - 1] \cup
               UNION {CallsFor(files, n, direction) :
                        n \in IF k = 1 THEN {input.target}
                              ELSE {IF direction = "in" THEN c.caller ELSE c.callee : c \in near[k - 1]} \ {"none"}}
    IN near[input.depth]

(* An answer's parts: all there is, and how many of it are given out.      *)
Bounded(S, input) == [all |-> S, given |-> Lesser(Cardinality(S), Lesser(input.limit, input.budget))]

Compute(input, files) ==
    LET edges == ImportGraph(files)
        seen  == Visible(input, edges)
        calls == [d \in {"in", "out"} |-> TracedCalls(files, input, d)]
    IN CASE input.name = "map"     -> <<Bounded(files, input)>>
         [] input.name = "graph"   -> <<Bounded(seen, input)>>
         [] input.name = "cycles"  -> <<Bounded(GraphCycles(seen, Lesser(input.limit, input.budget)), input)>>
         [] input.name = "deps"    -> <<Bounded({e \in seen : e.from \in input.file}, input)>>
         [] input.name = "reverse_deps" -> <<Bounded({e \in seen : e.to \in input.file}, input)>>
         [] input.name = "callers" -> <<Bounded(calls["in"], input)>>
         [] input.name = "trace"   -> <<Bounded(calls["out"], input), Bounded(calls["in"], input)>>
         [] input.name = "impact"  ->
              <<Bounded(calls["out"], input), Bounded(calls["in"], input),
                Bounded({e \in edges : e.to \in input.file}, input)>>

OutputOmissions(payload) == \E i \in DOMAIN payload : payload[i].given < Cardinality(payload[i].all)

Answered(r, payload) ==
    [state |-> "answered", input |-> r.input, payload |-> payload, scan |-> r.scan,
     exhaustive |-> ~Incomplete(r.scan) /\ ~OutputOmissions(payload)]

-----------------------------------------------------------------------------
(* The requests.  A slot and a worker are held from Enter until the        *)
(* request is settled, whatever becomes of the reading that it began.      *)

Is(c, s) == requests[c].state = s

Settle(c, answer) ==
    /\ requests' = [requests EXCEPT ![c] = answer]
    /\ activeRequests' = activeRequests - 1

Failed(c, code) == [state |-> "failed", input |-> requests[c].input, code |-> code]

Call(c, input) ==
    /\ Is(c, "none")
    /\ requests' = [requests EXCEPT ![c] = IF closed THEN [state |-> "failed", input |-> input, code |-> "aborted"]
                                           ELSE [state |-> "called", input |-> input]]
    /\ UNCHANGED <<tree, activeRequests, closed, faults>>

Enter(c) ==
    /\ Is(c, "called")
    /\ IF activeRequests >= MaxActiveRequests
       THEN requests' = [requests EXCEPT ![c] = Failed(c, "intelligence_budget_exceeded")] /\ UNCHANGED activeRequests
       ELSE /\ requests' = [requests EXCEPT ![c] = [state |-> "scanning", input |-> @.input, scan |-> Start(@.input),
                                                    worker |-> "live"]]
            /\ activeRequests' = activeRequests + 1
    /\ UNCHANGED <<tree, closed, faults>>

(* The next file is read and parsed, or its budget reported.               *)
Scanned(c, scan) ==
    /\ requests' = [requests EXCEPT ![c].scan = scan]
    /\ UNCHANGED activeRequests

Exceeded(c, scan) ==
    IF ExactFile(requests[c].input) THEN Settle(c, Failed(c, "intelligence_budget_exceeded")) ELSE Scanned(c, scan)

Parse(c) ==
    /\ Is(c, "scanning") /\ requests[c].worker = "live" /\ requests[c].scan.queue # << >>
    /\ LET scan == requests[c].scan IN
         IF TooLarge(scan) THEN Exceeded(c, OverBudget(scan))
         ELSE IF Unparsed(Read(scan)) THEN Exceeded(c, Omit(Read(scan), "parsedFacts", ToSet(scan.queue), << >>))
         ELSE Scanned(c, Take(Read(scan)))
    /\ UNCHANGED <<tree, closed, faults>>

(* The file is gone or its parse fails; a worker that broke may answer no  *)
(* more.                                                                   *)
Unreadable(c) ==
    /\ Is(c, "scanning") /\ requests[c].worker = "live" /\ requests[c].scan.queue # << >> /\ faults < MaxFaults
    /\ faults' = faults + 1
    /\ \E w \in {"live", "broken"} :
         requests' = [requests EXCEPT ![c].scan = Omit(@, "unreadable", {Head(@.queue)}, Tail(@.queue)), ![c].worker = w]
    /\ UNCHANGED <<tree, activeRequests, closed>>

Finish(c) ==
    /\ Is(c, "scanning") /\ requests[c].worker = "live" /\ requests[c].scan.queue = << >>
    /\ Settle(c, Answered(requests[c], Compute(requests[c].input, requests[c].scan.files)))
    /\ UNCHANGED <<tree, closed, faults>>

(* The deadline passes, the client gives up or the server closes.          *)
Cancelled(c, code) ==
    IF Is(c, "scanning") THEN Settle(c, Failed(c, code))
    ELSE requests' = [requests EXCEPT ![c] = Failed(c, code)] /\ UNCHANGED activeRequests

Abort(c) ==
    /\ requests[c].state \in {"called", "scanning"}
    /\ \E code \in {"timeout", "aborted"} : Cancelled(c, code)
    /\ UNCHANGED <<tree, closed, faults>>

Close ==
    /\ ~closed
    /\ closed' = TRUE
    /\ requests' = [c \in Callers |-> IF requests[c].state \in {"called", "scanning"} THEN Failed(c, "aborted") ELSE requests[c]]
    /\ activeRequests' = 0
    /\ UNCHANGED <<tree, faults>>

Stop ==
    /\ \A c \in Callers : requests[c].state \in {"answered", "failed"}
    /\ UNCHANGED vars

Init ==
    /\ tree \in Trees
    /\ requests = [c \in Callers |-> NoRequest]
    /\ activeRequests = 0 /\ closed = FALSE /\ faults = 0

Next ==
    \/ \E c \in Callers : \/ Enter(c) \/ Parse(c) \/ Unreadable(c) \/ Finish(c) \/ Abort(c)
                          \/ \E i \in Inputs : Call(c, i)
    \/ Close \/ Stop

Spec == Init /\ [][Next]_vars

-----------------------------------------------------------------------------
(* Properties.                                                             *)

(* Slots are neither lost nor lent twice, however requests end.            *)
SlotsAreReturned ==
    /\ activeRequests = Cardinality({c \in Callers : Is(c, "scanning")})
    /\ activeRequests <= MaxActiveRequests

(* What was read stays within the budgets, and every selected file is      *)
(* parsed, omitted for a reason, or still to be read.                      *)
ScansAreAccounted ==
    \A c \in Callers : requests[c].state \in {"scanning", "answered"} =>
      LET s == requests[c].scan IN
      /\ s.bytes <= MaxRequestBytes /\ s.transferred <= MaxRequestBytes
      /\ Selected(requests[c].input) = s.files \cup ToSet(s.queue) \cup UNION {s.omitted[x] : x \in Reasons}
      /\ \A x, y \in Reasons : x # y => s.omitted[x] \cap s.omitted[y] = {}

Whole(input) == ToSet(Eligible(input))

Reach(E, n) ==
    LET R[k \in 0..Len(tree)] == IF k = 0 THEN {e.to : e \in {x \in E : x.from = n}}
                                 ELSE R[k - 1] \cup {e.to : e \in {x \in E : x.from \in R[k - 1]}}
    IN R[Len(tree)]

(* An answer that calls itself exhaustive is the one that all the eligible *)
(* files give, whole ones.  A cycle that is reported is one; and whatever  *)
(* file is on a cycle, one is reported through a file it is tied to in     *)
(* both directions, though not every cycle is.                             *)
ExhaustiveMeansWhole ==
    \A c \in Callers : Is(c, "answered") =>
      LET r     == requests[c]
          edges == {e \in Visible(r.input, ImportGraph(r.scan.files)) : ~e.external}
      IN /\ r.exhaustive => /\ r.scan.files = Whole(r.input)
                            /\ \A f \in r.scan.files : ~tree[f].partial
                            /\ \A i \in DOMAIN r.payload : r.payload[i].given = Cardinality(r.payload[i].all)
         /\ r.input.name = "cycles" =>
              /\ \A q \in r.payload[1].all : \A i \in DOMAIN q :
                   \E e \in edges : e.from = q[i] /\ e.to = q[(i % Len(q)) + 1]
              /\ r.exhaustive =>
                   \A f \in r.scan.files : f \in Reach(edges, f) =>
                     \E q \in r.payload[1].all : q[1] = f \/ (q[1] \in Reach(edges, f) /\ f \in Reach(edges, q[1]))

(* Requests share the slots fairly and say what they did not look at.      *)
CodeAnswersAreHonest == SlotsAreReturned /\ ScansAreAccounted /\ ExhaustiveMeansWhole

=============================================================================
