----------------------------- MODULE PathPolicy -----------------------------
(***************************************************************************)
(* The path policy (runtime/path-policy.ts): what the rules, the trusted   *)
(* roots and the linked worktrees of a configuration say about one path,   *)
(* and the check a recursive read makes once for a whole tree instead of   *)
(* for every file.                                                         *)
(*                                                                         *)
(* A path is a sequence of names, a selector a glob of segments whose head *)
(* may have alternatives ({a,b}, [ab]).  Symbolic links, and the spelling  *)
(* of paths and globs, are left out.                                       *)
(***************************************************************************)
EXTENDS Integers, FiniteSets, Sequences

CONSTANTS
  Path,            \* sequences of names; << >> is the root of all
  Rule,            \* the rules a configuration may have
  Configuration,   \* the configurations
  Star, StarStar,  \* the segments * and **
  ExpansionLimit   \* alternatives looked at: 256 in the code

VARIABLES
  config,          \* the configuration in force
  tree             \* the tree a recursive read asks for

policyVars == <<config, tree>>

Policies == {"allow", "request", "deny"}

Init == config \in Configuration /\ tree \in Path
Next == UNCHANGED policyVars

----------------------------------------------------------------------------
(* Paths and globs.                                                        *)
Within(root, p) == Len(root) <= Len(p) /\ SubSeq(p, 1, Len(root)) = root
Relative(anchor, p) == SubSeq(p, Len(anchor) + 1, Len(p))

(* Bun.Glob: a final ** needs something to match.                          *)
Glob(segments, r) ==
  LET n == Len(segments)
      k == Len(r)
      fits[i \in 1 .. n + 1, j \in 1 .. k + 1] ==
        IF i > n THEN j > k
        ELSE IF segments[i] = StarStar
          THEN IF i = n THEN j <= k ELSE fits[i + 1, j] \/ (j <= k /\ fits[i, j + 1])
          ELSE j <= k /\ segments[i] \in {Star, r[j]} /\ fits[i + 1, j + 1]
  IN fits[1, 1]

Spelled(s) == {h \o s.tail : h \in s.heads}
GlobMatches(s, r) == \E g \in Spelled(s) : Glob(g, r)

(* recursiveSelectorPath: what a selector that ends in ** is under.        *)
Recursive(s) ==
  s.tail # << >> /\ \/ s.tail[Len(s.tail)] = StarStar
                    \/ /\ Len(s.tail) > 1 /\ s.tail[Len(s.tail)] = Star
                       /\ s.tail[Len(s.tail) - 1] = StarStar
Under(s) ==
  [s EXCEPT !.tail = SubSeq(@, 1, Len(@) - IF @[Len(@)] = StarStar THEN 1 ELSE 2)]
Top(s) == Spelled(s) = {<< >>}

Selects(s, r) ==
  \/ GlobMatches(s, r)
  \/ Recursive(s) /\ (Top(Under(s)) \/ GlobMatches(Under(s), r))

Matches(r, includes, excludes) ==
  /\ \A s \in excludes : ~Selects(s, r)
  /\ r = << >> \/ \E s \in includes : Selects(s, r)

----------------------------------------------------------------------------
(* One path.  A project's anchors are repeated in its linked worktrees.    *)
Anchors(rule) ==
  {rule.anchor} \cup
    IF config.worktrees = "ignore" \/ ~Within(config.project, rule.anchor) THEN {}
    ELSE {l \o Relative(config.project, rule.anchor) : l \in config.linked}

IsWild(segment) == segment \in {Star, StarStar}
Literal(g) == Cardinality({i \in 1 .. Len(g) : \A j \in 1 .. i : ~IsWild(g[j])})
MaxOf(S) == CHOOSE n \in S : \A k \in S : k <= n

(* matchRule: an exact anchor, then a deep one, then a literal selector.   *)
Specificity(rule, anchor, p) ==
  (IF anchor = p THEN 10000 ELSE 0) + 100 * Len(anchor)
    + MaxOf({0} \cup {Literal(g) : g \in UNION {Spelled(s) :
               s \in {i \in rule.includes : GlobMatches(i, Relative(anchor, p))}}})

Applies(rule, anchor, p) ==
  Within(anchor, p) /\ Matches(Relative(anchor, p), rule.includes, rule.excludes)

Trusted(p) == \E root \in config.trusted : Within(root, p)

Strictness(policy) == CASE policy = "allow" -> 0 [] policy = "request" -> 1 [] OTHER -> 2

Linked(p) == \E l \in config.linked : ~Within(config.project, p) /\ Within(l, p)

Worktree(p, policy) ==
  IF config.worktrees = "request" /\ policy # "deny" /\ Linked(p) THEN "request"
  ELSE policy

Candidates(p) ==
  {[rule |-> c[1], rank |-> Specificity(c[1], c[2], p)] :
     c \in {d \in {<<r, a>> : r \in config.rules, a \in Path} :
              d[2] \in Anchors(d[1]) /\ Applies(d[1], d[2], p)}}

Strictest(S, op) == CHOOSE c \in S : \A d \in S :
  Strictness(d.rule[op]) <= Strictness(c.rule[op])

Winner(p, op) ==
  LET S == Candidates(p)
  IN Strictest({c \in S : \A d \in S : d.rank <= c.rank}, op).rule

(* Without a rule: the legacy switches of version 1, the trusted roots.    *)
Baseline(p) ==
  IF \/ config.version = 1 /\ config.temporary # {} /\ \E t \in config.temporary : Within(t, p)
     \/ config.version = 1 /\ config.anyPath
     \/ Trusted(p)
  THEN "allow" ELSE "deny"

Restricted(p, op) ==
  IF op = "write" /\ p \in config.files THEN "request"
  ELSE IF Candidates(p) = {} THEN Worktree(p, Baseline(p))
  ELSE LET rule == Winner(p, op)
       IN Worktree(p, IF rule[op] = "allow" /\ ~Trusted(p) /\ rule.source = "project"
                      THEN "request" ELSE rule[op])

(* evaluatePolicy: unrestricted access, once it is authorized, is above    *)
(* the rules; until then it only turns the baseline's denial into a        *)
(* request.                                                                *)
Evaluate(p, op, authorized) ==
  IF config.unrestricted /\ authorized THEN "allow"
  ELSE IF config.unrestricted /\ Restricted(p, op) = "deny" /\ Candidates(p) = {}
       THEN "request"
       ELSE Restricted(p, op)

----------------------------------------------------------------------------
(* A whole tree.  allowRuleCoversAnchor: the rule allows all of it.        *)
Overlaps(prefix, r) == prefix = << >> \/ r = << >> \/ Within(prefix, r) \/ Within(r, prefix)
LiteralPart(g) == SubSeq(g, 1, Literal(g))

CoversAnchor(rule, anchor) ==
  /\ Within(anchor, tree)
  /\ LET r == Relative(anchor, tree)
     IN /\ \E s \in rule.includes : Recursive(s) /\ Cardinality(s.heads) = 1 /\
             \E g \in Spelled(Under(s)) : g = << >> \/ Within(g, r)
        /\ \A s \in rule.excludes : ~Overlaps(
             IF Cardinality(s.heads) = 1 THEN LiteralPart(CHOOSE g \in Spelled(s) : TRUE)
             ELSE << >>, r)

Covers(rule) == \E a \in Anchors(rule) : CoversAnchor(rule, a)

(* selectorAlternativeIntersectsTree: something the glob selects can be    *)
(* inside the tree.                                                        *)
Reaches(g, r) ==
  LET n == Len(g)
      k == Len(r)
      meets[i \in 1 .. n + 1, j \in 1 .. k + 1] ==
        IF j > k THEN TRUE
        ELSE IF i > n THEN FALSE
        ELSE IF g[i] = StarStar THEN meets[i + 1, j] \/ meets[i, j + 1]
        ELSE g[i] \in {Star, r[j]} /\ meets[i + 1, j + 1]
  IN meets[1, 1]

Expandable(s) == Cardinality(s.heads) <= ExpansionLimit

(* selectorCoveredByExclusion: a recursive exclusion without wildcards.    *)
Excluded(g, s) ==
  \/ Spelled(s) = {g}
  \/ /\ Recursive(s)
     /\ \E u \in Spelled(Under(s)) : Literal(u) = Len(u) /\ Within(u, g)

ExcludesTree(s, r) == Recursive(s) /\ Matches(r, {s}, {})

SelectorIntersects(s, excludes, r) ==
  /\ s \notin excludes
  /\ \/ ~Expandable(s)
     \/ \E g \in Spelled(s) :
          /\ Reaches(g, r)
          /\ \A x \in {y \in excludes : Expandable(y)} :
               \A h \in x.heads :
                 LET one == [x EXCEPT !.heads = {h}]
                 IN ~Excluded(g, one) /\ ~ExcludesTree(one, r)

(* Mutant: only rules that are anchored above the tree can concern it.     *)
IntersectsAbove(rule) == \E a \in Anchors(rule) :
  /\ Within(a, tree)
  /\ \E s \in rule.includes : SelectorIntersects(s, rule.excludes, Relative(a, tree))

Intersects(rule) ==
  \E a \in Anchors(rule) :
    \/ Within(tree, a)
    \/ /\ Within(a, tree)
       /\ \E s \in rule.includes :
            SelectorIntersects(s, rule.excludes, Relative(a, tree))

(* assertReadableTree, as of a session without approvals; unrestricted     *)
(* access does not count.                                                  *)
Readable ==
  /\ Restricted(tree, "read") = "allow"
  /\ \A rule \in config.rules : Intersects(rule) => rule.read = "allow"
  /\ \/ Trusted(tree)
     \/ /\ config.version = 1
        /\ config.anyPath \/ \E t \in config.temporary : Within(t, tree)
     \/ \E rule \in config.rules : Intersects(rule) /\ Covers(rule)

----------------------------------------------------------------------------
(* A recursive read that passes its one check reaches no path that a read  *)
(* of that path alone would be denied, and none it would have to ask for,  *)
(* but where only a linked worktree or a project's own "allow" beyond the  *)
(* trusted roots asks: those two the check does not look at.               *)
AsksByItself(p) ==
  \/ config.worktrees = "request" /\ Linked(p)
  \/ /\ Candidates(p) # {} /\ ~Trusted(p)
     /\ Winner(p, "read").read = "allow" /\ Winner(p, "read").source = "project"

(* And what asks for the configuration files does so whatever is allowed,  *)
(* short of unrestricted access.                                           *)
TreesAreReadable ==
  /\ Readable => \A p \in Path : Within(tree, p) =>
       Restricted(p, "read") = "allow"
         \/ (Restricted(p, "read") = "request" /\ AsksByItself(p))
  /\ \A p \in config.files : Evaluate(p, "write", FALSE) = "request"
=============================================================================
