----------------------------- MODULE Documents -----------------------------
(* analyzeDocument of documents/core.ts, without the characters: a Markdown   *)
(* document is a sequence of lines of a few kinds, JSON, markup and RTF are   *)
(* sequences of tokens.  Positions count lines and tokens (in RTF they count  *)
(* characters), a range ends before its `end`.                                *)
EXTENDS Integers, Sequences, SequencesExt, FiniteSets, FiniteSetsExt

CONSTANTS Inputs  \* documents: [format, of], `of` is the sequence

VARIABLES doc,    \* the document
          at,     \* the next line or token
          phase,  \* what the parser looks for next
          nodes,  \* the nodes found so far
          stack,  \* the containers, elements or groups that are open
          errors, \* the diagnostics of severity error
          found   \* embedded regions and excluded lines, or RTF segments

vars == <<doc, at, phase, nodes, stack, errors, found>>

Here == doc.of[at]

AtEnd == at > Len(doc.of)

Node(kind, start, end, parent) == [kind |-> kind, start |-> start, end |-> end, parent |-> parent]

Top == IF stack = <<>> THEN 0 ELSE Last(stack)

-----------------------------------------------------------------------------
(* Markdown.  Lines: "dash", <<"fence", d>>, <<"head", level>>, "row", "rule",*)
(* <<"open", k>> and <<"shut", k>> of something hidden, <<"symbol", s>>,      *)
(* <<"code", s>> and "text".                                                  *)
Kind(line) == line[1]

(* commentRanges, rawMarkupRanges and mdxExpressionRanges: what opens is      *)
(* hidden until it is shut, or to the end.                                    *)
HiddenBy(of, k) ==
    LET step(r, i) ==
          IF r.open = 0 /\ of[i] = <<"open", k>> THEN [r EXCEPT !.open = i, !.lines = @ \cup {i}]
          ELSE IF r.open = 0 THEN r
          ELSE [open |-> IF of[i] = <<"shut", k>> THEN 0 ELSE r.open, lines |-> r.lines \cup {i}]
    IN FoldLeft(step, [open |-> 0, lines |-> {}], [i \in DOMAIN of |-> i]).lines

Hidden(of, mdx) == UNION {HiddenBy(of, k) : k \in {"comment", "script"} \cup IF mdx THEN {"brace"} ELSE {}}

(* A dash in the first line begins the frontmatter.                           *)
FrontmatterEnd(of) ==
    LET closers == {i \in 2 .. Len(of) : Kind(of[i]) = "dash"}
    IN IF of = <<>> \/ Kind(of[1]) # "dash" THEN 0
       ELSE IF closers = {} THEN Len(of) + 1 ELSE Min(closers)

NoFence == [delimiter |-> "none", start |-> 0]

MarkdownStart(of, mdx) ==
    [excluded |-> Hidden(of, mdx) \cup 1 .. Min({FrontmatterEnd(of), Len(of)}),
     fence |-> NoFence, embedded |-> {}, references |-> {}]

Frontmatter(of) ==
    LET end == FrontmatterEnd(of)
    IN IF end = 0 \/ end > Len(of) THEN <<>> ELSE <<Node("frontmatter", 1, end + 1, 0)>>

(* One row of the fence scan; a closing fence need not be visible.            *)
MarkdownRow ==
    /\ doc.format \in {"markdown", "mdx"} /\ phase = "rows" /\ ~AtEnd
    /\ at' = at + 1
    /\ LET opens == Kind(Here) = "fence" /\ found.fence = NoFence /\ at \notin found.excluded
           shuts == Kind(Here) = "fence" /\ found.fence.delimiter = Here[2]
       IN found' = IF opens THEN [found EXCEPT !.fence = [delimiter |-> Here[2], start |-> at]]
                   ELSE IF shuts THEN [found EXCEPT !.fence = NoFence,
                                         !.embedded = @ \cup {<<found.fence.start + 1, at>>},
                                         !.excluded = @ \cup found.fence.start .. at]
                   ELSE found
    /\ UNCHANGED <<doc, phase, nodes, stack, errors>>

FencesEnd ==
    /\ doc.format \in {"markdown", "mdx"} /\ phase = "rows" /\ AtEnd
    /\ phase' = "structure"
    /\ found' = IF found.fence = NoFence THEN found
                ELSE [found EXCEPT !.excluded = @ \cup found.fence.start .. Len(doc.of)]
    /\ errors' = errors \cup (IF found.fence = NoFence THEN {} ELSE {"unclosed-fence"})
                        \cup (IF FrontmatterEnd(doc.of) > Len(doc.of) THEN {"unclosed-frontmatter"} ELSE {})
    /\ UNCHANGED <<doc, at, nodes, stack>>

Visible(i) == i \in DOMAIN doc.of /\ i \notin found.excluded

HeadsAt == {i \in DOMAIN doc.of : Visible(i) /\ Kind(doc.of[i]) = "head"}

SectionEndAtSameLevel(i) == Min({Len(doc.of) + 1} \cup {j \in HeadsAt : j > i /\ doc.of[j][2] = doc.of[i][2]})

(* A section ends where one of its level or above begins.                     *)
SectionEnd(i) == Min({Len(doc.of) + 1} \cup {j \in HeadsAt : j > i /\ doc.of[j][2] <= doc.of[i][2]})

TableEnd(i) == Min({j \in i + 2 .. Len(doc.of) + 1 : ~Visible(j) \/ Kind(doc.of[j]) \notin {"row", "rule"}})

Tables == {i \in DOMAIN doc.of : /\ Visible(i) /\ Visible(i + 1)
                                 /\ Kind(doc.of[i]) \in {"row", "rule"} /\ Kind(doc.of[i + 1]) = "rule"}

(* referenceScan of what is not excluded, as far as code is named.            *)
References == {i \in DOMAIN doc.of : Visible(i) /\ Kind(doc.of[i]) = "code"}

(* The end of markdown and the references of analyzeDocument.                 *)
Structure ==
    /\ phase = "structure"
    /\ phase' = "done"
    /\ nodes' = nodes \o SetToSeq({Node("section", i, SectionEnd(i), 0) : i \in HeadsAt}
                                  \cup {Node("table", i, TableEnd(i), 0) : i \in Tables})
    /\ found' = [found EXCEPT !.references = References]
    /\ UNCHANGED <<doc, at, stack, errors>>

(* The symbols of an embedded region, at their lines in the document.         *)
SymbolsIn(region, s) == {i \in region[1] .. region[2] - 1 : doc.of[i] = <<"symbol", s>>}

Sections == {n \in ToSet(nodes) : n.kind = "section"}

(* resolveCodeSymbol: the only symbol of the name in the document, or the only*)
(* one in the regions of the innermost section; 0 is none.                    *)
Resolved(i) ==
    LET s == doc.of[i][2]
        all == UNION {SymbolsIn(r, s) : r \in found.embedded}
        around == {n \in Sections : n.start <= i /\ i < n.end}
        inner == CHOOSE n \in around : \A m \in around : n.end - n.start <= m.end - m.start
        scoped == UNION {SymbolsIn(r, s) : r \in {x \in found.embedded : x[1] >= inner.start /\ x[2] <= inner.end}}
    IN IF Cardinality(all) = 1 THEN Min(all)
       ELSE IF around = {} \/ Cardinality(scoped) # 1 THEN 0 ELSE Min(scoped)

-----------------------------------------------------------------------------
(* JSON.  Tokens: the six marks, "s" for a string and "n" for a literal.      *)
Opens == [o \in {"{", "["} |-> IF o = "{" THEN "}" ELSE "]"]

Token == IF AtEnd THEN "end" ELSE Here

(* JsonParser.value: a container is entered, a scalar taken; a mark that is no*)
(* value returns null, which ends the container around it.                    *)
JsonValue ==
    /\ doc.format = "json" /\ phase = "value"
    /\ \/ /\ Token \in DOMAIN Opens
          /\ nodes' = Append(nodes, Node(Token, at, at, Top))
          /\ stack' = Append(stack, Len(nodes) + 1)
          /\ at' = at + 1 /\ phase' = "item" /\ UNCHANGED errors
       \/ /\ Token \in {"s", "n", ":"}
          /\ nodes' = Append(nodes, Node("value", at, at + 1, Top))
          /\ errors' = IF Token = ":" THEN errors \cup {"literal"} ELSE errors
          /\ at' = at + 1 /\ phase' = "after" /\ UNCHANGED stack
       \/ /\ Token \in {"end", ",", "}", "]"}
          /\ phase' = "close" /\ UNCHANGED <<at, nodes, stack, errors>>
    /\ UNCHANGED <<doc, found>>

(* The head of a container's loop, which asks for a key in an object.         *)
JsonItem ==
    /\ phase = "item"
    /\ LET object == nodes[Top].kind = "{"
           key == Token = "s" /\ at < Len(doc.of) /\ doc.of[at + 1] = ":"
       IN IF Token \in {"end", Opens[nodes[Top].kind]} THEN phase' = "close" /\ UNCHANGED at
          ELSE IF object /\ ~key THEN phase' = "close" /\ at' = IF Token = "s" THEN at + 1 ELSE at
          ELSE phase' = "value" /\ at' = IF object THEN at + 2 ELSE at
    /\ UNCHANGED <<doc, nodes, stack, errors, found>>

JsonAfter ==
    /\ phase = "after"
    /\ IF stack = <<>> THEN phase' = "end" /\ UNCHANGED at
       ELSE IF Token = "," THEN phase' = "item" /\ at' = at + 1
       ELSE phase' = "close" /\ UNCHANGED at
    /\ UNCHANGED <<doc, nodes, stack, errors, found>>

JsonClose ==
    /\ phase = "close"
    /\ IF stack = <<>> THEN phase' = "end" /\ UNCHANGED <<at, nodes, stack, errors>>
       ELSE LET closed == Token = Opens[nodes[Top].kind]
            IN /\ at' = IF closed THEN at + 1 ELSE at
               /\ errors' = IF closed THEN errors ELSE errors \cup {"unclosed"}
               /\ nodes' = [nodes EXCEPT ![Top].end = at']
               /\ stack' = Front(stack) /\ phase' = "after"
    /\ UNCHANGED <<doc, found>>

(* JSON.parse, which has the last word when the parser has no objection.      *)
IsValue(of) ==
    LET value[r \in (1 .. Len(of) + 1) \X (1 .. Len(of) + 1)] ==
          LET i == r[1]  j == r[2]
              members[k \in 1 .. Len(of) + 1] ==
                LET from == IF of[i] = "[" THEN k ELSE k + 2
                    named == of[i] = "[" \/ (k + 1 < j /\ of[k] = "s" /\ of[k + 1] = ":")
                IN named /\ \E m \in from + 1 .. j - 1 :
                     /\ value[<<from, m>>]
                     /\ m = j - 1 \/ (of[m] = "," /\ members[m + 1])
          IN /\ i < j
             /\ \/ j = i + 1 /\ of[i] \in {"s", "n"}
                \/ /\ j > i + 1 /\ of[i] \in DOMAIN Opens /\ of[j - 1] = Opens[of[i]]
                   /\ j = i + 2 \/ members[i + 1]
    IN value

JsonEnd ==
    /\ phase = "end"
    /\ phase' = "done"
    /\ errors' = IF ~AtEnd THEN errors \cup {"unexpected"}
                 ELSE IF errors = {} /\ ~IsValue(doc.of)[<<1, Len(doc.of) + 1>>] THEN {"invalid"} ELSE errors
    /\ UNCHANGED <<doc, at, nodes, stack, found>>

-----------------------------------------------------------------------------
(* Markup.  Tokens: <<"<", name>>, <<"</", name>>, <<"/>", name>>, <<"!", "">>*)
(* and <<"comment", closed>>.                                                 *)
Void == {"br", "img", "meta", "link", "input", "hr"}

MarkupToken ==
    /\ doc.format \in {"xml", "html"} /\ phase = "tokens" /\ ~AtEnd
    /\ LET matches == stack # <<>> /\ doc.of[nodes[Top].start][2] = Here[2]
       IN \/ /\ Kind(Here) = "comment"
             /\ nodes' = Append(nodes, Node("comment", at, at + 1, Top))
             /\ errors' = IF Here[2] = "open" THEN errors \cup {"comment"} ELSE errors
             /\ UNCHANGED stack
          \/ /\ Kind(Here) = "</"
             /\ IF matches THEN /\ nodes' = [nodes EXCEPT ![Top].end = at + 1]
                                /\ stack' = Front(stack) /\ UNCHANGED errors
                           ELSE errors' = errors \cup {"mismatched"} /\ UNCHANGED <<nodes, stack>>
          \/ /\ Kind(Here) \in {"<", "/>"}
             /\ nodes' = Append(nodes, Node("element", at, at + 1, Top))
             /\ stack' = IF Kind(Here) = "/>" \/ (doc.format = "html" /\ Here[2] \in Void)
                         THEN stack ELSE Append(stack, Len(nodes) + 1)
             /\ UNCHANGED errors
          \/ Kind(Here) = "!" /\ UNCHANGED <<nodes, stack, errors>>
    /\ at' = IF Here = <<"comment", "open">> THEN Len(doc.of) + 1 ELSE at + 1
    /\ UNCHANGED <<doc, phase, found>>

MarkupEnd ==
    /\ doc.format \in {"xml", "html"} /\ phase = "tokens" /\ AtEnd
    /\ phase' = "done"
    /\ errors' = IF stack = <<>> THEN errors ELSE errors \cup {"unclosed"}
    /\ UNCHANGED <<doc, at, nodes, stack, found>>

-----------------------------------------------------------------------------
(* RTF.  Tokens: "{", "}", "hex", "escape", "unicode", "word", "text" of two  *)
(* characters and "broken", such a text with a line break that is dropped.    *)
Width(t) == CASE t \in {"{", "}"} -> 1 [] t \in {"escape", "text"} -> 2
              [] t = "hex" -> 4 [] t = "unicode" -> 5 [] OTHER -> 3

Offset(i) == FoldLeft(LAMBDA sum, t : sum + Width(t), 0, SubSeq(doc.of, 1, i - 1))

Extracted(t) == CASE t \in {"hex", "escape", "unicode"} -> 1 [] t \in {"text", "broken"} -> 2 [] OTHER -> 0

RtfToken ==
    /\ doc.format = "rtf" /\ phase = "tokens" /\ ~AtEnd
    /\ \/ /\ Here = "{"
          /\ nodes' = Append(nodes, Node("control-group", Offset(at), Offset(Len(doc.of) + 1), Top))
          /\ stack' = Append(stack, Len(nodes) + 1) /\ UNCHANGED found
       \/ /\ Here = "}"
          /\ nodes' = IF stack = <<>> THEN nodes ELSE [nodes EXCEPT ![Top].end = Offset(at + 1)]
          /\ stack' = IF stack = <<>> THEN stack ELSE Front(stack)
          /\ UNCHANGED found
       \/ /\ Here \notin {"{", "}"}
          /\ found' = IF Extracted(Here) = 0 THEN found
                      ELSE [text |-> found.text + Extracted(Here),
                            segments |-> Append(found.segments,
                              [from |-> found.text, to |-> found.text + Extracted(Here), plain |-> Here = "text",
                               start |-> Offset(at), end |-> Offset(at + 1)])]
          /\ UNCHANGED <<nodes, stack>>
    /\ at' = at + 1
    /\ UNCHANGED <<doc, phase, errors>>

RtfEnd ==
    /\ doc.format = "rtf" /\ phase = "tokens" /\ AtEnd
    /\ phase' = "done"
    /\ errors' = IF stack = <<>> THEN errors ELSE errors \cup {"unclosed"}
    /\ UNCHANGED <<doc, at, nodes, stack, found>>

(* Where a reference from one extracted character to another lies in the file;*)
(* a segment that is not plain stands for the whole of its escape.            *)
InSource(from, to) ==
    LET first == CHOOSE s \in ToSet(found.segments) : s.from <= from /\ from < s.to
        last == CHOOSE s \in ToSet(found.segments) : s.from < to /\ to <= s.to
    IN <<IF first.plain THEN first.start + from - first.from ELSE first.start,
         IF last.plain THEN last.start + to - last.from ELSE last.end>>

-----------------------------------------------------------------------------
(* Text, TOML and YAML.  Lines: "blank", "text", and in the latter "section",  *)
(* "property" and "entry", a property behind a dash.  A paragraph that is open *)
(* is kept, by its start, on the stack.                                      *)
TextLine ==
    /\ doc.format = "text" /\ phase = "tokens" /\ ~AtEnd
    /\ LET blank == Kind(Here) = "blank"
           start == IF stack = <<>> THEN at ELSE Top
           open == stack # <<>> \/ ~blank
           ends == open /\ (blank \/ at = Len(doc.of))
       IN /\ nodes' = IF ends THEN Append(nodes, Node("paragraph", start, IF blank THEN at ELSE at + 1, 0)) ELSE nodes
          /\ stack' = IF open /\ ~ends THEN <<start>> ELSE <<>>
    /\ at' = at + 1
    /\ UNCHANGED <<doc, phase, errors, found>>

StructuredKind(line) ==
    CASE Kind(line) = "section" /\ doc.format = "toml" -> "section"
      [] Kind(line) = "entry" /\ doc.format = "yaml" -> "sequence-entry"
      [] Kind(line) \in {"entry", "property"} -> "property"
      [] OTHER -> "none"

StructuredLine ==
    /\ doc.format \in {"toml", "yaml"} /\ phase = "tokens" /\ ~AtEnd
    /\ nodes' = IF StructuredKind(Here) = "none" THEN nodes
                ELSE Append(nodes, Node(StructuredKind(Here), at, at + 1, 0))
    /\ at' = at + 1
    /\ UNCHANGED <<doc, phase, stack, errors, found>>

LinesEnd ==
    /\ doc.format \in {"text", "toml", "yaml"} /\ phase = "tokens" /\ AtEnd
    /\ phase' = "done"
    /\ UNCHANGED <<doc, at, nodes, stack, errors, found>>

-----------------------------------------------------------------------------
Init ==
    /\ doc \in Inputs
    /\ at = 1 /\ stack = <<>> /\ errors = {}
    /\ phase = CASE doc.format \in {"markdown", "mdx"} -> "rows" [] doc.format = "json" -> "value" [] OTHER -> "tokens"
    /\ nodes = IF doc.format \in {"markdown", "mdx"} THEN Frontmatter(doc.of) ELSE <<>>
    /\ found = CASE doc.format \in {"markdown", "mdx"} -> MarkdownStart(doc.of, doc.format = "mdx")
                 [] doc.format = "rtf" -> [text |-> 0, segments |-> <<>>]
                 [] OTHER -> <<>>

Stop == phase = "done" /\ UNCHANGED vars

Next == \/ MarkdownRow \/ FencesEnd \/ Structure
        \/ JsonValue \/ JsonItem \/ JsonAfter \/ JsonClose \/ JsonEnd
        \/ MarkupToken \/ MarkupEnd \/ RtfToken \/ RtfEnd
        \/ TextLine \/ StructuredLine \/ LinesEnd
        \/ Stop

Spec == Init /\ [][Next]_vars

-----------------------------------------------------------------------------
Within(n, m) == m.start <= n.start /\ n.end <= m.end

Apart(n, m) == n.end <= m.start \/ m.end <= n.start

(* In a document without errors nodes lie in their parents and otherwise never*)
(* overlap, and no two nodes have the same identity.                          *)
NodesNest == phase = "done" /\ errors = {} =>
    /\ \A n, m \in {x \in ToSet(nodes) : x.kind # "table"} : Within(n, m) \/ Within(m, n) \/ Apart(n, m)
    /\ \A n \in ToSet(nodes) : n.parent # 0 => Within(n, nodes[n.parent])
    /\ Cardinality(ToSet(nodes)) = Len(nodes)

(* A JSON document has errors exactly when it is none, and its nodes are its  *)
(* values, keys left out.                                                     *)
JsonIsRead == doc.format = "json" /\ phase = "done" =>
    LET value == IsValue(doc.of)
        end == Len(doc.of) + 1
    IN /\ (errors = {}) = value[<<1, end>>]
       /\ errors = {} => {<<n.start, n.end>> : n \in ToSet(nodes)} =
            {r \in (1 .. end) \X (1 .. end) :
               value[r] /\ ~(r[2] = r[1] + 1 /\ r[2] < end /\ doc.of[r[2]] = ":")}

Element(i) == \E n \in ToSet(nodes) : n.kind = "element" /\ n.start = i

(* Markup has no error only when every element that must be shut is shut by   *)
(* the tag of its name, in the right order.                                   *)
MarkupIsBalanced == doc.format \in {"xml", "html"} /\ phase = "done" /\ errors = {} =>
    \A i \in DOMAIN doc.of :
        Kind(doc.of[i]) = "</" => \E n \in ToSet(nodes) :
            n.end = i + 1 /\ n.start < i /\ doc.of[n.start] = <<"<", doc.of[i][2]>>

(* A reference found in the extracted text of RTF covers the source of all its*)
(* characters.                                                                *)
RtfIsMapped == doc.format = "rtf" /\ phase = "done" =>
    \A from, to \in 0 .. found.text : from < to =>
        \A s \in ToSet(found.segments) :
            s.from < to /\ from < s.to =>
                LET r == InSource(from, to)
                IN IF s.plain THEN /\ r[1] <= s.start + Max({from - s.from, 0})
                                   /\ s.start + Min({to, s.to}) - s.from <= r[2]
                   ELSE r[1] <= s.start /\ s.end <= r[2]

(* A paragraph is all the lines between two blank ones.                       *)
TextIsRead == doc.format = "text" /\ phase = "done" =>
    /\ UNION {n.start .. n.end - 1 : n \in ToSet(nodes)} = {i \in DOMAIN doc.of : Kind(doc.of[i]) # "blank"}
    /\ \A n, m \in ToSet(nodes) : n.end # m.start

(* What a reader of the document sees: fences first, unless a comment is open.*)
ReaderSees(of) ==
    LET step(r, i) ==
          CASE r.in = "fence" -> [r EXCEPT !.in = IF of[i] = <<"fence", r.mark>> THEN "text" ELSE @]
            [] r.in = "hidden" -> [r EXCEPT !.in = IF of[i] = <<"shut", r.mark>> THEN "text" ELSE @]
            [] Kind(of[i]) = "fence" -> [r EXCEPT !.in = "fence", !.mark = of[i][2]]
            [] Kind(of[i]) = "open" -> [r EXCEPT !.in = "hidden", !.mark = of[i][2]]
            [] OTHER -> [r EXCEPT !.seen = @ \cup {i}]
        front == Min({FrontmatterEnd(of), Len(of)})
    IN FoldLeft(step, [in |-> "text", mark |-> "none", seen |-> {}],
                [i \in 1 .. Len(of) - front |-> i + front]).seen

(* Where nothing hidden opens inside a fence or the frontmatter, what is read *)
(* are the lines a reader sees, and a code reference leads to a symbol of its *)
(* name that no other symbol in its section has.                              *)
MarkdownIsRead == doc.format = "markdown" /\ phase = "done" =>
    /\ (\A i \in DOMAIN doc.of : Kind(doc.of[i]) = "open" =>
          i > FrontmatterEnd(doc.of) /\ \A r \in found.embedded : i \notin r[1] .. r[2])
       => {i \in DOMAIN doc.of : Visible(i)} = ReaderSees(doc.of)
    /\ \A i \in found.references : Resolved(i) # 0 => doc.of[Resolved(i)] = <<"symbol", doc.of[i][2]>>
    /\ \A i \in found.references : \A n \in Sections :
          n.start <= i /\ i < n.end /\ Resolved(i) # 0
            => \/ n.start <= Resolved(i) /\ Resolved(i) < n.end
               \/ ~\E j \in n.start .. n.end - 1 :
                     \E r \in found.embedded : j \in r[1] .. r[2] - 1 /\ doc.of[j] = doc.of[Resolved(i)]

(* Documents are read for what they are, whatever their format.               *)
DocumentsAreRead == /\ NodesNest
                    /\ JsonIsRead
                    /\ MarkupIsBalanced
                    /\ RtfIsMapped
                    /\ MarkdownIsRead
                    /\ TextIsRead
=============================================================================
