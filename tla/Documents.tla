----------------------------- MODULE Documents -----------------------------
(***************************************************************************)
(* Subscription documents: what the generators publish and parser.Parse    *)
(* makes of it.  A document is a format, the number of base64 wrappings    *)
(* around it, and its lines: section headers (Surge), lines that stand for *)
(* a node, and others (settings, groups, rules, routing outbounds).        *)
(*                                                                         *)
(* A node has an identity, which stands for its server and port, the kind  *)
(* of its name, a type and the fields it holds.  The kinds of names are    *)
(* those a format is sensitive to:                                         *)
(*   "plain"    a name nothing is sensitive to                             *)
(*   "equals"   a name with an equals sign in it                           *)
(*   "comment"  a name that begins with #, ; or //                         *)
(*   "yaml"     a name that begins with "proxies:"                         *)
(*   "bracket"  a name that begins with an opening bracket                 *)
(*   "plus"     a name with a plus sign; "space": the same with a blank    *)
(***************************************************************************)
EXTENDS Dialects, SequencesExt, Naturals

DialectNames == {"clash", "surge", "shadowrocket", "singbox", "v2ray"}
NameKinds    == {"plain", "equals", "comment", "yaml", "bracket", "plus", "space"}

IsNode(n) ==
    /\ n = [id |-> n.id, name |-> n.name, type |-> n.type, has |-> n.has]
    /\ n.id \in Nat /\ n.type \in Types /\ n.name \in NameKinds
    /\ DOMAIN n.has \subseteq FieldsOf(n.type)
    /\ n.has \in [DOMAIN n.has -> Values]

FormOf(dialect) ==
    CASE dialect = "clash" -> "yaml"
      [] dialect = "singbox" -> "json"
      [] dialect = "v2ray" -> "links"
      [] OTHER -> "ini"

NodeLine(node, params) ==
    [what |-> "node", id |-> node.id, name |-> node.name, word |-> node.type,
     params |-> params]
Section(name) == [what |-> "section", id |-> 0, word |-> name]
Other         == [what |-> "other", id |-> 0, word |-> "group"]

\* A loop over n elements that takes those at some of the positions: which it
\* takes, in their order.
Picked(positions, n) ==
    LET after[i \in 0..n] ==
            IF i = 0 THEN <<>>
            ELSE IF i \in positions THEN Append(after[i-1], i)
            ELSE after[i-1]
    IN  after[n]

(***************************************************************************)
(* Publishing.  With list=true a document holds its nodes alone.  A node   *)
(* with no form in the dialect is left out and named in SkippedNodes.      *)
(***************************************************************************)
HasForm(dialect, node) ==
    CASE dialect = "clash" -> TRUE
      [] dialect = "singbox" -> node.type \in SingboxWords
      [] dialect = "v2ray" -> node.type \in LinkWords
      [] OTHER -> node.type \in SurgeWords(dialect)

Written(dialect, node) ==
    NodeLine(node, CASE dialect = "clash" -> node.has
                     [] dialect = "singbox" -> SingboxWritten(node.type, node.has)
                     [] dialect = "v2ray" -> LinkWritten(node.type, node.has)
                     [] OTHER -> SurgeWritten(node.type, node.has))

Published(dialect, listOnly, nodes) ==
    LET emitted == Picked({i \in DOMAIN nodes : HasForm(dialect, nodes[i])}, Len(nodes))
        lines   == [i \in DOMAIN emitted |-> Written(dialect, nodes[emitted[i]])]
        form    == FormOf(dialect)
        before  == IF form # "ini" THEN <<>>
                   ELSE IF listOnly THEN <<Section("proxy")>>
                   ELSE <<Section("general"), Other, Section("proxy")>>
        after   == IF listOnly \/ form \in {"yaml", "links"} THEN <<>>
                   ELSE IF form = "json" THEN <<Other>>
                   ELSE <<Section("proxy group"), Other, Section("rule")>>
    IN  [form  |-> form,
         wraps |-> IF form = "links" THEN 1 ELSE 0,
         lines |-> before \o lines \o after]

(***************************************************************************)
(* Recognising a document.  Only text that is not wrapped is recognised;   *)
(* one wrapping is taken off, if what is in it is recognised or has "://". *)
(***************************************************************************)
NodesOf(doc) == {i \in DOMAIN doc.lines : doc.lines[i].what = "node"}

\* A line of the text begins with "proxies:".  In a Surge document every node
\* line begins with the name of the node.
LooksLikeClashYAML(doc) ==
    /\ doc.wraps = 0
    /\ \/ doc.form = "yaml"
       \/ doc.form = "ini" /\ \E i \in NodesOf(doc) : doc.lines[i].name = "yaml"
LooksLikeSingboxJSON(doc) == doc.wraps = 0 /\ doc.form = "json"
LooksLikeSurge(doc) ==
    /\ doc.wraps = 0
    /\ doc.form = "ini"
    /\ ~LooksLikeClashYAML(doc)
    /\ \E i \in DOMAIN doc.lines :
          \/ doc.lines[i] = Section("proxy")
          \/ i \in NodesOf(doc) /\ doc.lines[i].word \in SurgeWords("shadowrocket")
Structured(doc) == LooksLikeClashYAML(doc) \/ LooksLikeSingboxJSON(doc) \/ LooksLikeSurge(doc)
HasLinks(doc)   == doc.wraps = 0 /\ doc.form = "links" /\ NodesOf(doc) # {}

Unwrapped(doc) == [doc EXCEPT !.wraps = @ - 1]
IsBase64(doc)  == doc.wraps > 0 /\ (Structured(Unwrapped(doc)) \/ HasLinks(Unwrapped(doc)))
Body(doc)      == IF IsBase64(doc) THEN Unwrapped(doc) ELSE doc

(***************************************************************************)
(* Reading one line.                                                       *)
(***************************************************************************)
Node(line, name, has) == [id |-> line.id, name |-> name, type |-> line.word, has |-> has]

\* Any line that begins with an opening and ends in a closing bracket is taken for
\* the header of a section, the line of a node with such a name and such a last
\* parameter too.  It closes [Proxy].
Closes(line) ==
    /\ line.what = "node" /\ line.name = "bracket"
    /\ EndsInBracket(line.word, line.params)
IsHeader(line)  == line.what = "section" \/ Closes(line)
IsComment(line) == line.what = "node" /\ line.name = "comment"

\* The lines of a Surge document that define nodes: comments are dropped, and so
\* is all that is outside of [Proxy] if the document has sections.
\* Mutant of InProxySection: a section, once entered, is not left.
SinceProxySection(doc, i) == \E j \in 1..i : doc.lines[j] = Section("proxy")
InProxySection(doc, i) ==
    LET headers == {j \in 1..i : IsHeader(doc.lines[j])}
    IN  \/ \A j \in DOMAIN doc.lines : ~IsHeader(doc.lines[j])
        \/ \E j \in headers : doc.lines[j] = Section("proxy") /\ \A k \in headers : k <= j
DefinesNode(doc, i) ==
    /\ ~IsHeader(doc.lines[i])
    /\ ~IsComment(doc.lines[i])
    /\ InProxySection(doc, i)

\* The names of links whose fragment is unescaped twice lose their plus signs.
LinkName(line) ==
    IF line.name = "plus" /\ line.word \notin {"ss", "ssr", "vmess"} THEN "space" ELSE line.name

\* Whether the parser of the form makes a node of line i, and which.
Readable(doc, i) ==
    LET line == doc.lines[i]
    IN  /\ line.what = "node"
        /\ CASE doc.form = "ini" -> SurgeReadable(line.word) /\ line.name # "equals"
             [] doc.form = "json" -> line.word \in SingboxWords
             [] doc.form = "links" -> LinkReadable(line.word, line.params)
             [] OTHER -> TRUE
Read(doc, i) ==
    LET line == doc.lines[i]
    IN  CASE doc.form = "ini" -> Node(line, line.name, SurgeRead(line.word, line.params))
          [] doc.form = "json" -> Node(line, line.name, SingboxRead(line.word, line.params))
          [] doc.form = "links" ->
                Node(line, LinkName(line), LinkRead(line.word, line.params))
          [] OTHER -> Node(line, line.name, line.params)

\* The lines a parser looks at: the parser of sing-box documents ignores the
\* outbounds that are no servers.
LookedAt(doc) ==
    {i \in DOMAIN doc.lines : IF doc.form = "ini" THEN DefinesNode(doc, i)
                              ELSE doc.lines[i].what = "node"}

(***************************************************************************)
(* Parse: the nodes, those whose lines are reported as skipped, and        *)
(* whether the document is reported as a whole: it is refused with an      *)
(* error, or what no format matches is taken for a list of share links,    *)
(* where a blob that is still wrapped is one line that is skipped.         *)
(***************************************************************************)
Parse(doc) ==
    LET body    == Body(doc)
        looked  == LookedAt(body)
        taken   == {i \in looked : Readable(body, i)}
        refused == LooksLikeClashYAML(body) /\ body.form # "yaml"
        blob    == body.wraps > 0 /\ body.lines # <<>>
        at      == Picked(taken, Len(body.lines))
    IN  IF refused \/ blob
        THEN [nodes |-> <<>>, skipped |-> {}, unread |-> TRUE]
        ELSE [nodes   |-> [k \in DOMAIN at |-> Read(body, at[k])],
              skipped |-> {body.lines[i].id : i \in looked \ taken},
              unread  |-> FALSE]
=============================================================================
