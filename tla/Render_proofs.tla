---------------------------- MODULE Render_proofs ---------------------------
(***************************************************************************)
(* Proofs about Render, for every input: lists of nodes and groups of any  *)
(* length, whatever the names, patterns, rename and emoji rules.           *)
(***************************************************************************)
EXTENDS Render, LeastNumbers, SequenceTheorems, TLAPS

-----------------------------------------------------------------------------
(* The types of what the helpers return.                                   *)

LEMMA PlainType ==
  ASSUME NEW word \in Words
  PROVE  Plain(word) \in Name
BY DEF Plain, Name

LEMMA BuiltinsType == Builtins \subseteq Name /\ Plain("DIRECT") \in Builtins
BY PlainType, RenderAssumption DEF Builtins

LEMMA InputType ==
  ASSUME input \in Inputs
  PROVE  /\ input.nodes \in Seq(Node)
         /\ input.groups \in Seq(GroupDef)
         /\ input.style \in Style
         /\ Rulesets \in Seq(Ruleset)
<1>1. input \in Input
  BY RenderAssumption
<1>2. /\ input.nodes \in Seq(Node)
      /\ input.groups \in Seq(GroupDef)
      /\ input.style \in Style
      /\ input.rulesets \in Seq(Ruleset)
  <2> HIDE DEF Style
  <2> QED BY <1>1 DEF Input
<1>3. <<>> \in Seq(Ruleset)
  OBVIOUS
<1> QED BY <1>2, <1>3 DEF Rulesets

LEMMA AddEmojiType ==
  ASSUME input \in Inputs, NEW name \in Name
  PROVE  AddEmoji(name) \in Name
<1>1. input.style.emoji[name.word] \in Emojis \cup {"none"}
  BY InputType DEF Style, Name
<1> DEFINE e == input.style.emoji[name.word]
<1>2. CASE e = "none"
  BY <1>2 DEF AddEmoji
<1>3. CASE e # "none"
  <2>1. <<e>> \o name.emojis \in Seq(Emojis)
    <3>1. e \in Emojis
      BY <1>1, <1>3
    <3>2. name.emojis \in Seq(Emojis)
      BY DEF Name
    <3> QED BY <3>1, <3>2
  <2>2. AddEmoji(name) = [name EXCEPT !.emojis = <<e>> \o name.emojis]
    BY <1>3 DEF AddEmoji
  <2> QED BY <2>1, <2>2 DEF Name
<1> QED BY <1>2, <1>3

LEMMA RestyledType ==
  ASSUME input \in Inputs, NEW name \in Name, NEW type \in Types
  PROVE  Restyled(name, type) \in Name
<1> DEFINE s       == input.style
           typed   == IF s.type THEN [name EXCEPT !.type = type] ELSE name
           bare    == IF s.bare THEN [typed EXCEPT !.emojis = <<>>] ELSE typed
           renamed == [bare EXCEPT !.word = s.rename[@]]
<1>1. typed \in Name
  BY DEF Name
<1>2. bare \in Name
  <2> HIDE DEF typed
  <2>1. <<>> \in Seq(Emojis)
    OBVIOUS
  <2> QED BY <1>1, <2>1 DEF Name
<1>3. s.rename \in [Words -> Words]
  BY InputType DEF Style
<1>4. renamed \in Name
  <2> HIDE DEF bare, s
  <2> QED BY <1>2, <1>3 DEF Name
<1> HIDE DEF renamed
<1>5. AddEmoji(renamed) \in Name
  BY <1>4, AddEmojiType
<1> QED BY <1>5 DEF Restyled, renamed

LEMMA NumberedType ==
  ASSUME NEW name \in Name, NEW i \in Nat
  PROVE  Numbered(name, i) \in Name
<1>1. Append(name.numbers, i) \in Seq(Nat)
  <2>1. name.numbers \in Seq(Nat)
    BY DEF Name
  <2> QED BY <2>1
<1> QED BY <1>1 DEF Numbered, Name

LEMMA FunctionIsSeq ==
  ASSUME NEW S, NEW n \in Nat, NEW f \in [1 .. n -> S]
  PROVE  f \in Seq(S)
BY SeqDef

LEMMA RangeOfAppend ==
  ASSUME NEW S, NEW s \in Seq(S), NEW e \in S
  PROVE  Range(Append(s, e)) = Range(s) \cup {e}
<1>1. /\ Len(Append(s, e)) = Len(s) + 1
      /\ \A i \in 1 .. Len(s) : Append(s, e)[i] = s[i]
      /\ Append(s, e)[Len(s) + 1] = e
  OBVIOUS
<1>2. /\ DOMAIN s = 1 .. Len(s)
      /\ DOMAIN Append(s, e) = 1 .. Len(s) + 1
      /\ Len(s) \in Nat
  OBVIOUS
<1>3. Range(Append(s, e)) \subseteq Range(s) \cup {e}
  BY <1>1, <1>2 DEF Range
<1>4. Range(s) \subseteq Range(Append(s, e))
  BY <1>1, <1>2 DEF Range
<1>5. e \in Range(Append(s, e))
  BY <1>1, <1>2 DEF Range
<1> QED BY <1>3, <1>4, <1>5

LEMMA ResolvedType ==
  ASSUME TypeOK, NEW d \in GroupDef
  PROVE  Resolved(d) \subseteq Name
<1>1. Range(proxies) \subseteq Name
  BY RangeOfSeq DEF TypeOK
<1>2. NodeNames \subseteq Name
  <2>1. Range(nodes) \subseteq Node
    BY RangeOfSeq DEF TypeOK
  <2> QED BY <2>1 DEF NodeNames, Node
<1>3. Range(d.selectors) \subseteq Selector
  BY RangeOfSeq DEF GroupDef
<1>4. ASSUME NEW sel \in Selector
      PROVE  Chosen(sel) \subseteq Name
  <2>1. CASE sel \in [kind : {"literal"}, name : Name]
    BY <2>1 DEF Chosen
  <2>2. CASE sel \in [kind : {"all"}]
    BY <2>2, <1>1 DEF Chosen
  <2>3. CASE sel \in [kind : {"pattern"}, part : Words \cup Types \cup Emojis]
    BY <2>3, <1>2 DEF Chosen
  <2> QED BY <2>1, <2>2, <2>3 DEF Selector
<1> QED BY <1>3, <1>4 DEF Resolved

LEMMA FormattedFacts ==
  ASSUME TypeOK, NEW d \in GroupDef
  PROVE  /\ Formatted(Members(d)) \subseteq Name
         /\ Formatted(Members(d)) # {}
         /\ \A m \in Formatted(Members(d)) : Referable(m) \/ m = Plain("DIRECT")
<1>1. Members(d) \subseteq Name
  BY ResolvedType, BuiltinsType DEF Members
<1> QED BY <1>1, BuiltinsType DEF Formatted

\* The line that the rules' loop is at.
LEMMA LineType ==
  ASSUME TypeOK, AtLine
  PROVE  /\ Rulesets[k] \in Ruleset
         /\ Lines(Rulesets[k])[line] \in Line
<1> DEFINE rs == Rulesets[k]
<1>1. rs \in Ruleset
  BY InputType, ElementOfSeq DEF AtLine, TypeOK
<1> HIDE DEF rs
<1>2. Lines(rs) \in Seq(Line)
  <2>1. CASE rs.source = "inline"
    <3>1. rs.line \in Line
      BY <1>1, <2>1 DEF Ruleset
    <3> QED BY <2>1, <3>1 DEF Lines
  <2>2. CASE rs.source = "remote"
    <3>1. rs.url \in Urls
      BY <1>1, <2>2 DEF Ruleset
    <3>2. Lists[rs.url] \in Seq(Line) /\ <<>> \in Seq(Line)
      BY <3>1, RulesAssumption
    <3> QED BY <2>2, <3>2 DEF Lines
  <2>3. CASE rs.source = "neither"
    BY <2>3 DEF Lines
  <2> QED BY <1>1, <2>1, <2>2, <2>3 DEF Ruleset
<1>3. line \in 1 .. Len(Lines(rs))
  <2>1. Len(Lines(rs)) \in Nat
    BY <1>2
  <2> QED BY <2>1 DEF AtLine, TypeOK, rs
<1>4. Lines(rs)[line] \in Line
  BY <1>2, <1>3, ElementOfSeq
<1> QED BY <1>1, <1>4 DEF rs

LEMMA TailscaleType == Tailscale \in Rule
<1>1. Canonical("IP-CIDR") = "IP-CIDR"
  BY DEF Canonical
<1>2. "IP-CIDR" \in CanonicalTypes
  BY <1>1, RenderAssumption DEF CanonicalTypes
<1> QED BY <1>2, BuiltinsType, RenderAssumption DEF Tailscale, Rule

-----------------------------------------------------------------------------

(* The variables keep their types (generator/*.go).                        *)
THEOREM TypeCorrect == Spec => []TypeOK
<1>1. Init => TypeOK
  <2> SUFFICES ASSUME Init
               PROVE  TypeOK
    OBVIOUS
  <2> QED BY BuiltinsType DEF Init, TypeOK
<1>2. TypeOK /\ [Next]_vars => TypeOK'
  <2> SUFFICES ASSUME TypeOK, [Next]_vars
               PROVE  TypeOK'
    OBVIOUS
  <2> USE DEF TypeOK, ruleVars
  <2>1. CASE FilterNode
    <3> DEFINE n == input.nodes[k]
    <3>1. n \in Node
      BY <2>1, InputType, ElementOfSeq DEF FilterNode
    <3>2. nodes' \in Seq(Node)
      <4>1. Append(nodes, n) \in Seq(Node)
        BY <3>1
      <4>2. nodes' = Append(nodes, n) \/ nodes' = nodes
        BY <2>1 DEF FilterNode
      <4> QED BY <4>1, <4>2
    <3>3. dropped' \in [Filters -> Nat]
      <4>1. DroppedBy(n) \in Filters \cup {"none"}
        BY DEF DroppedBy, Filters
      <4> HIDE DEF n
      <4>2. CASE DroppedBy(n) = "none"
        BY <2>1, <4>2 DEF FilterNode, n
      <4>3. CASE DroppedBy(n) # "none"
        <5>1. dropped' = [dropped EXCEPT ![DroppedBy(n)] = @ + 1]
          BY <2>1, <4>3 DEF FilterNode, n
        <5> QED BY <4>1, <4>3, <5>1
      <4> QED BY <4>2, <4>3
    <3>4. k' \in Nat \ {0}
      BY <2>1 DEF FilterNode
    <3>5. UNCHANGED <<input, phase, suffix, seen, proxies, skipped, groups,
                      emptyGroups, ruleVars>>
      BY <2>1 DEF FilterNode
    <3> QED BY <3>2, <3>3, <3>4, <3>5
  <2>2. CASE SortAndRestyle
    <3>1. PICK p \in [DOMAIN nodes -> DOMAIN nodes] :
            nodes' = [i \in DOMAIN nodes |->
                       [nodes[p[i]] EXCEPT !.name =
                          Restyled(@, nodes[p[i]].type)]]
      BY <2>2 DEF SortAndRestyle
    <3>2. ASSUME NEW i \in DOMAIN nodes
          PROVE  [nodes[p[i]] EXCEPT !.name = Restyled(@, nodes[p[i]].type)]
                   \in Node
      <4>1. nodes[p[i]] \in Node
        OBVIOUS
      <4>2. Restyled(nodes[p[i]].name, nodes[p[i]].type) \in Name
        BY <4>1, RestyledType DEF Node
      <4> QED BY <4>1, <4>2 DEF Node
    <3>3. nodes' \in [1 .. Len(nodes) -> Node]
      BY <3>1, <3>2
    <3>4. nodes' \in Seq(Node)
      <4>1. Len(nodes) \in Nat
        OBVIOUS
      <4> QED BY <3>3, <4>1, FunctionIsSeq
    <3> QED BY <2>2, <3>4 DEF SortAndRestyle, EndPass
  <2>3. CASE KeepName
    <3>1. nodes[k].name \in Name
      <4>1. nodes[k] \in Node
        BY <2>3, ElementOfSeq DEF KeepName
      <4> QED BY <4>1 DEF Node
    <3> QED BY <2>3, <3>1 DEF KeepName
  <2>4. CASE Probe
    BY <2>4 DEF Probe, NextSuffix
  <2>5. CASE RenameNode
    <3>1. nodes[k] \in Node /\ Candidate \in Name
      <4>1. nodes[k] \in Node
        BY <2>5, ElementOfSeq DEF RenameNode
      <4>2. nodes[k].name \in Name /\ suffix \in Nat
        BY <4>1 DEF Node
      <4> QED BY <4>1, <4>2, NumberedType DEF Candidate
    <3>2. [nodes[k] EXCEPT !.name = Candidate] \in Node
      BY <3>1 DEF Node
    <3>3. nodes' = [nodes EXCEPT ![k] = [nodes[k] EXCEPT !.name = Candidate]]
      BY <2>5 DEF RenameNode
    <3>4. nodes' \in Seq(Node)
      BY <2>5, <3>2, <3>3, ExceptSeq DEF RenameNode
    <3>5. seen' \subseteq Name /\ suffix' = 2 /\ k' = k + 1
      BY <2>5, <3>1 DEF RenameNode
    <3>6. UNCHANGED <<input, phase, dropped, proxies, skipped, groups,
                      emptyGroups, ruleVars>>
      BY <2>5 DEF RenameNode
    <3> QED BY <3>4, <3>5, <3>6
  <2>6. CASE Prepared
    BY <2>6 DEF Prepared, EndPass
  <2>7. CASE EmitNode
    <3>1. nodes[k].name \in Name
      <4>1. nodes[k] \in Node
        BY <2>7, ElementOfSeq DEF EmitNode
      <4> QED BY <4>1 DEF Node
    <3>2. /\ Append(proxies, nodes[k].name) \in Seq(Name)
          /\ Append(skipped, nodes[k].name) \in Seq(Name)
      BY <3>1
    <3>3. proxies' \in Seq(Name) /\ skipped' \in Seq(Name)
      BY <2>7, <3>2 DEF EmitNode
    <3>4. /\ k' = k + 1
          /\ UNCHANGED <<input, phase, nodes, dropped, suffix, seen, groups,
                         emptyGroups, ruleVars>>
      BY <2>7 DEF EmitNode
    <3> QED BY <3>3, <3>4
  <2>8. CASE Emitted
    BY <2>8 DEF Emitted, EndPass
  <2>9. CASE EmitGroup
    <3> DEFINE d == input.groups[k]
               g == [name |-> d.name, members |-> Formatted(Members(d))]
    <3>1. d \in GroupDef
      <4>1. input.groups \in Seq(GroupDef) /\ k \in 1 .. Len(input.groups)
        BY <2>9, InputType DEF EmitGroup
      <4> QED BY <4>1, ElementOfSeq
    <3>2. g \in [name : Name, members : SUBSET Name]
      BY <3>1, FormattedFacts DEF GroupDef
    <3>3. Append(groups, g) \in Seq([name : Name, members : SUBSET Name])
      BY <3>2
    <3>4. Append(emptyGroups, d.name) \in Seq(Name)
      BY <3>1 DEF GroupDef
    <3>5. groups' = Append(groups, g)
      BY <2>9 DEF EmitGroup
    <3>6. emptyGroups' \in {Append(emptyGroups, d.name), emptyGroups}
      BY <2>9 DEF EmitGroup
    <3> QED BY <2>9, <3>3, <3>4, <3>5, <3>6 DEF EmitGroup
  <2>10. CASE Rendered
    <3>1. <<Tailscale>> \in Seq(Rule) /\ <<>> \in Seq(Rule)
      BY TailscaleType
    <3>2. rules' \in Seq(Rule)
      BY <2>10, <3>1 DEF Rendered
    <3> QED BY <2>10, <3>2 DEF Rendered, EndPass
  <2>11. CASE EmitRule
    <3> DEFINE rs == Rulesets[k]
               x == Lines(rs)[line]
               rule == [type |-> Canonical(x.type), value |-> x.value,
                        group |-> rs.group]
    <3>1. rs \in Ruleset /\ x \in Line
      BY <2>11, LineType DEF EmitRule
    <3>2. rule \in Rule
      <4>1. Canonical(x.type) \in CanonicalTypes /\ x.value \in Values
        BY <3>1 DEF Line, CanonicalTypes
      <4>2. rs.group \in Name
        BY <3>1 DEF Ruleset
      <4> QED BY <4>1, <4>2 DEF Rule
    <3>3. rules' = Append(rules, rule)
      BY <2>11 DEF EmitRule, Placed
    <3>4. rules' \in Seq(Rule)
      <4>1. rules \in Seq(Rule)
        BY DEF TypeOK
      <4> HIDE DEF rule
      <4> QED BY <3>2, <3>3, <4>1
    <3> QED BY <2>11, <3>4 DEF EmitRule, OtherVars
  <2>12. CASE EmitFinal
    <3>1. Rulesets[k] \in Ruleset
      BY <2>12, LineType DEF EmitFinal
    <3>2. final' \in Name
      BY <2>12, <3>1 DEF EmitFinal, Ruleset
    <3> QED BY <2>12, <3>2 DEF EmitFinal, OtherVars
  <2>13. CASE SkipLine
    <3>1. skippedRules' \subseteq Nat \X Nat
      BY <2>13 DEF SkipLine
    <3> QED BY <2>13, <3>1 DEF SkipLine, OtherVars
  <2>14. CASE NextRuleset
    <3> DEFINE rs == Rulesets[k]
               r == [type |-> "PROVIDER", value |-> rs.url, group |-> rs.group]
    <3>1. rs \in Ruleset
      BY <2>14, InputType, ElementOfSeq DEF NextRuleset
    <3>2. CASE ByProvider(rs)
      <4>1. rs.url \in Urls /\ rs.group \in Name
        BY <3>1, <3>2 DEF ByProvider, Ruleset
      <4>2. r \in Rule
        BY <4>1 DEF Rule
      <4>3. rules' \in {Append(rules, r), rules}
        BY <2>14 DEF NextRuleset
      <4>4. rules' \in Seq(Rule)
        <5>1. rules \in Seq(Rule)
          BY DEF TypeOK
        <5> HIDE DEF r
        <5>2. Append(rules, r) \in Seq(Rule)
          BY <4>2, <5>1
        <5> QED BY <4>3, <5>1, <5>2
      <4> QED BY <2>14, <4>4 DEF NextRuleset
    <3>3. CASE ~ByProvider(rs)
      <4>1. rules' = rules
        BY <2>14, <3>3 DEF NextRuleset
      <4> QED BY <2>14, <4>1 DEF NextRuleset
    <3> QED BY <3>2, <3>3
  <2>15. CASE Ruled
    BY <2>15 DEF Ruled, EndPass
  <2>16. CASE UNCHANGED vars
    BY <2>16 DEF vars
  <2> QED BY <2>1, <2>2, <2>3, <2>4, <2>5, <2>6, <2>7, <2>8, <2>9, <2>10, <2>11,
             <2>12, <2>13, <2>14, <2>15, <2>16
          DEF Next
<1> QED BY <1>1, <1>2, PTL DEF Spec

-----------------------------------------------------------------------------
(* The rules come after everything else, and leave it alone.               *)

RuleStep == EmitRule \/ EmitFinal \/ SkipLine \/ NextRuleset \/ Ruled

LEMMA RuleStepKeeps ==
  ASSUME RuleStep
  PROVE  /\ phase = "rules" /\ phase' \in {"rules", "done"}
         /\ UNCHANGED <<input, nodes, seen, proxies, groups>>
BY DEF RuleStep, EmitRule, EmitFinal, SkipLine, NextRuleset, Ruled, AtLine,
       OtherVars, EndPass

-----------------------------------------------------------------------------
(* Names.  The names of the nodes that uniquifyNames has been over are     *)
(* distinct, and seen holds just those; the later passes keep the names.   *)

Taken(ns, n) == {ns[j].name : j \in 1 .. n}

DistinctUpTo(ns, n) ==
  \A i, j \in 1 .. n : i # j => ns[i].name # ns[j].name

Unique ==
  /\ phase = "filter" => seen = {}
  /\ phase \in {"filter", "uniquify"} => proxies = <<>>
  /\ phase = "uniquify" => /\ k <= Len(nodes) + 1
                           /\ seen = Taken(nodes, k - 1)
                           /\ DistinctUpTo(nodes, k - 1)
  /\ phase = "emit" => /\ k <= Len(nodes) + 1
                       /\ DistinctUpTo(nodes, Len(nodes))
                       /\ Range(proxies) \subseteq Taken(nodes, k - 1)
  /\ NamesDistinct

\* One more name that is not taken.
LEMMA OneMoreName ==
  ASSUME NEW ns, NEW ms, NEW m \in Nat, NEW n \in Nat, n = m + 1, NEW name,
         DistinctUpTo(ns, m), name \notin Taken(ns, m),
         \A j \in 1 .. m : ms[j].name = ns[j].name,
         ms[n].name = name
  PROVE  /\ DistinctUpTo(ms, n)
         /\ Taken(ms, n) = Taken(ns, m) \cup {name}
<1>1. \A j \in 1 .. n : j \in 1 .. m \/ j = n
  OBVIOUS
<1>2. n \in 1 .. n /\ \A j \in 1 .. m : j \in 1 .. n
  OBVIOUS
<1>3. \A j \in 1 .. m : ms[j].name # name
  BY DEF Taken
<1>4. DistinctUpTo(ms, n)
  BY <1>1, <1>3 DEF DistinctUpTo
<1>5. Taken(ms, n) \subseteq Taken(ns, m) \cup {name}
  BY <1>1 DEF Taken
<1>6. Taken(ns, m) \cup {name} \subseteq Taken(ms, n)
  BY <1>2 DEF Taken
<1> QED BY <1>4, <1>5, <1>6

LEMMA AppendDistinct ==
  ASSUME NEW S, NEW s \in Seq(S), NEW e \in S, e \notin Range(s),
         \A i, j \in DOMAIN s : i # j => s[i] # s[j]
  PROVE  \A i, j \in DOMAIN Append(s, e) :
           i # j => Append(s, e)[i] # Append(s, e)[j]
<1>1. /\ DOMAIN s = 1 .. Len(s) /\ Len(s) \in Nat
      /\ DOMAIN Append(s, e) = 1 .. Len(s) + 1
      /\ \A i \in 1 .. Len(s) : Append(s, e)[i] = s[i]
      /\ Append(s, e)[Len(s) + 1] = e
  BY AppendProperties, LenProperties
<1>2. \A i \in 1 .. Len(s) : s[i] # e
  BY <1>1 DEF Range
<1>3. \A i \in 1 .. Len(s) + 1 : i \in 1 .. Len(s) \/ i = Len(s) + 1
  BY <1>1
<1> QED BY <1>1, <1>2, <1>3

LEMMA UniqueInvariant == Spec => []Unique
<1>1. Init => Unique
  BY DEF Init, Unique, NamesDistinct
<1>2. TypeOK /\ Unique /\ [Next]_vars => Unique'
  <2> SUFFICES ASSUME TypeOK, Unique, [Next]_vars
               PROVE  Unique'
    OBVIOUS
  <2>0. /\ k \in Nat \ {0} /\ Len(nodes) \in Nat
        /\ k - 1 \in Nat /\ k = (k - 1) + 1
    BY DEF TypeOK
  <2>1. CASE FilterNode
    BY <2>1 DEF FilterNode, Unique, NamesDistinct
  <2>2. CASE SortAndRestyle
    <3>1. phase = "filter" /\ phase' = "uniquify" /\ k' = 1
          /\ seen' = seen /\ proxies' = proxies
      BY <2>2 DEF SortAndRestyle, EndPass
    <3>2. Len(nodes') \in Nat
      <4>1. PICK p \in [DOMAIN nodes -> DOMAIN nodes] :
              nodes' = [i \in DOMAIN nodes |->
                         [nodes[p[i]] EXCEPT !.name =
                            Restyled(@, nodes[p[i]].type)]]
        BY <2>2 DEF SortAndRestyle
      <4>2. DOMAIN nodes' = 1 .. Len(nodes)
        BY <4>1, LenProperties DEF TypeOK
      <4> QED BY <4>2, <2>0
    <3>3. seen' = Taken(nodes', k' - 1) /\ DistinctUpTo(nodes', k' - 1)
      BY <3>1 DEF Unique, Taken, DistinctUpTo
    <3> QED BY <3>1, <3>2, <3>3 DEF Unique, NamesDistinct
  <2>3. CASE KeepName
    <3>1. /\ DistinctUpTo(nodes, k)
          /\ Taken(nodes, k) = seen \cup {nodes[k].name}
      <4>1. /\ seen = Taken(nodes, k - 1)
            /\ DistinctUpTo(nodes, k - 1)
            /\ nodes[k].name \notin seen
        BY <2>3 DEF KeepName, Unique
      <4> QED BY <2>0, <4>1, OneMoreName
    <3>2. k' - 1 = k /\ k' <= Len(nodes') + 1
      BY <2>0, <2>3 DEF KeepName
    <3> QED BY <2>3, <3>1, <3>2 DEF KeepName, Unique, NamesDistinct
  <2>4. CASE Probe
    BY <2>4 DEF Probe, Unique, NamesDistinct
  <2>5. CASE RenameNode
    <3>1. Len(nodes') = Len(nodes)
      BY <2>5 DEF RenameNode, TypeOK
    <3>2. \A j \in 1 .. k - 1 : nodes'[j].name = nodes[j].name
      BY <2>0, <2>5 DEF RenameNode, TypeOK
    <3>3. nodes'[k].name = Candidate
      <4>1. nodes[k] \in Node /\ k \in DOMAIN nodes
        <5>1. nodes \in Seq(Node) /\ k \in 1 .. Len(nodes)
          BY <2>0, <2>5 DEF RenameNode, TypeOK
        <5> QED BY <5>1, ElementOfSeq, LenProperties
      <4>2. nodes'[k] = [nodes[k] EXCEPT !.name = Candidate]
        BY <2>5, <4>1 DEF RenameNode
      <4> QED BY <4>1, <4>2 DEF Node
    <3>4. Candidate \notin Taken(nodes, k - 1)
      BY <2>5 DEF RenameNode, Unique, Probing
    <3>5. DistinctUpTo(nodes, k - 1)
      BY <2>5 DEF RenameNode, Unique
    <3>6. /\ DistinctUpTo(nodes', k)
          /\ Taken(nodes', k) = seen \cup {Candidate}
      <4>1. PICK m \in Nat : m = k - 1 /\ k = m + 1
        BY <2>0
      <4>2. seen = Taken(nodes, m)
        BY <2>5, <4>1 DEF RenameNode, Unique
      <4>3. /\ DistinctUpTo(nodes, m) /\ Candidate \notin Taken(nodes, m)
            /\ \A j \in 1 .. m : nodes'[j].name = nodes[j].name
        BY <3>2, <3>4, <3>5, <4>1
      <4> HIDE DEF Candidate, Taken, DistinctUpTo
      <4> QED BY ONLY <2>0, <3>3, <4>1, <4>2, <4>3, OneMoreName
    <3>7. k' - 1 = k /\ k' <= Len(nodes') + 1
      BY <2>0, <2>5, <3>1 DEF RenameNode
    <3> QED BY <2>5, <3>6, <3>7 DEF RenameNode, Unique, NamesDistinct
  <2>6. CASE Prepared
    <3>1. k - 1 = Len(nodes)
      BY <2>0, <2>6 DEF Prepared, Unique
    <3>2. proxies = <<>> /\ proxies' = proxies /\ Range(proxies) = {}
      BY <2>6 DEF Prepared, Unique, Range
    <3> QED BY <2>0, <2>6, <3>1, <3>2
            DEF Prepared, EndPass, Unique, NamesDistinct
  <2>7. CASE EmitNode
    <3>1. nodes[k].name \in Name
      <4>1. nodes[k] \in Node
        BY <2>0, <2>7, ElementOfSeq DEF EmitNode, TypeOK
      <4> QED BY <4>1 DEF Node
    <3>2. /\ k' - 1 = k /\ k' <= Len(nodes') + 1
          /\ phase' = "emit" /\ nodes' = nodes
      BY <2>0, <2>7 DEF EmitNode
    <3>3. nodes[k].name \notin Taken(nodes, k - 1)
      <4>1. k \in 1 .. Len(nodes)
            /\ \A j \in 1 .. k - 1 : j \in 1 .. Len(nodes) /\ j # k
        BY <2>0, <2>7 DEF EmitNode
      <4>2. DistinctUpTo(nodes, Len(nodes))
        BY <2>7 DEF EmitNode, Unique
      <4>3. \A j \in 1 .. k - 1 : nodes[j].name # nodes[k].name
        BY <4>1, <4>2 DEF DistinctUpTo
      <4> QED BY <4>3 DEF Taken
    <3>4. Taken(nodes, k - 1) \cup {nodes[k].name} \subseteq Taken(nodes, k)
      BY <2>0 DEF Taken
    <3>5. DistinctUpTo(nodes, Len(nodes)) /\ NamesDistinct
          /\ Range(proxies) \subseteq Taken(nodes, k - 1)
      BY <2>7 DEF EmitNode, Unique
    <3>6. CASE proxies' = proxies
      BY <3>2, <3>4, <3>5, <3>6 DEF Unique, NamesDistinct
    <3>7. CASE proxies' = Append(proxies, nodes[k].name)
      <4>1. Range(proxies') = Range(proxies) \cup {nodes[k].name}
        BY <3>1, <3>7, RangeOfAppend DEF TypeOK
      <4>2. NamesDistinct'
        <5>1. proxies \in Seq(Name) /\ nodes[k].name \notin Range(proxies)
          BY <3>3, <3>5 DEF TypeOK
        <5>2. \A i, j \in DOMAIN proxies : i # j => proxies[i] # proxies[j]
          BY <3>5 DEF NamesDistinct
        <5>3. \A i, j \in DOMAIN proxies' : i # j => proxies'[i] # proxies'[j]
          BY <3>1, <3>7, <5>1, <5>2, AppendDistinct
        <5> QED BY <5>3 DEF NamesDistinct
      <4> QED BY <3>2, <3>4, <3>5, <4>1, <4>2 DEF Unique
    <3> QED BY <2>7, <3>6, <3>7 DEF EmitNode
  <2>8. CASE Emitted
    BY <2>8 DEF Emitted, EndPass, Unique, NamesDistinct
  <2>9. CASE EmitGroup
    BY <2>9 DEF EmitGroup, Unique, NamesDistinct
  <2>10. CASE Rendered
    BY <2>10 DEF Rendered, EndPass, Unique, NamesDistinct
  <2>11. CASE UNCHANGED vars
    BY <2>11 DEF vars, Unique, NamesDistinct
  <2>12. CASE RuleStep
    BY <2>12, RuleStepKeeps DEF Unique, NamesDistinct
  <2> QED BY <2>1, <2>2, <2>3, <2>4, <2>5, <2>6, <2>7, <2>8, <2>9, <2>10, <2>11,
             <2>12
          DEF Next, RuleStep
<1> QED BY <1>1, <1>2, TypeCorrect, PTL DEF Spec

(* No two nodes of the output have the same name (uniquifyNames).          *)
THEOREM NamesDistinctAlways == Spec => []NamesDistinct
<1>1. Unique => NamesDistinct
  BY DEF Unique
<1> QED BY <1>1, UniqueInvariant, PTL

-----------------------------------------------------------------------------
(* Groups.  They come after the nodes, and each was formatted against the  *)
(* nodes that are in the output.                                           *)

Grouped ==
  /\ phase \in {"filter", "uniquify", "emit"} => groups = <<>>
  /\ ReferencesResolve
  /\ NoGroupEmpty

LEMMA ReferableResolves ==
  ASSUME input.target # "clash", NEW m, Referable(m) \/ m = Plain("DIRECT")
  PROVE  m \in Builtins \cup GroupNames \cup Range(proxies)
<1>1. CASE input.target \in SurgeFamily
  BY <1>1, BuiltinsType DEF Referable
<1>2. CASE input.target \notin SurgeFamily
  BY <1>2, BuiltinsType DEF Referable
<1> QED BY <1>1, <1>2

LEMMA GroupedInvariant == Spec => []Grouped
<1>1. Init => Grouped
  BY DEF Init, Grouped, ReferencesResolve, NoGroupEmpty, Range
<1>2. TypeOK /\ Grouped /\ [Next]_vars => Grouped'
  <2> SUFFICES ASSUME TypeOK, Grouped, [Next]_vars
               PROVE  Grouped'
    OBVIOUS
  <2>1. CASE phase \in {"filter", "uniquify", "emit"} /\ groups' = groups
    BY <2>1 DEF Grouped, ReferencesResolve, NoGroupEmpty, Range
  <2>2. CASE EmitGroup
    <3> DEFINE d == input.groups[k]
               ms == Formatted(Members(d))
               g == [name |-> d.name, members |-> ms]
    <3>1. d \in GroupDef
      BY <2>2, InputType, ElementOfSeq DEF EmitGroup, TypeOK
    <3>2. /\ ms \subseteq Name /\ ms # {}
          /\ \A m \in ms : Referable(m) \/ m = Plain("DIRECT")
      BY <3>1, FormattedFacts
    <3>3. input.target # "clash" =>
            ms \subseteq Builtins \cup GroupNames \cup Range(proxies)
      BY <3>2, ReferableResolves
    <3>4. g \in [name : Name, members : SUBSET Name]
      BY <3>1, <3>2 DEF GroupDef
    <3>5. groups' = Append(groups, g)
      BY <2>2 DEF EmitGroup
    <3> HIDE DEF ms
    <3>9. g.members = ms
      OBVIOUS
    <3> HIDE DEF g
    <3>6. Range(groups') = Range(groups) \cup {g}
      <4> DEFINE G == [name : Name, members : SUBSET Name]
      <4>1. groups \in Seq(G) /\ g \in G
        BY <3>4 DEF TypeOK
      <4> HIDE DEF G
      <4>2. Range(Append(groups, g)) = Range(groups) \cup {g}
        BY <4>1, RangeOfAppend
      <4> QED BY <3>5, <4>2
    <3>7. UNCHANGED <<input, phase, proxies>> /\ phase = "groups"
      BY <2>2 DEF EmitGroup
    <3>8. GroupNames' = GroupNames /\ Range(proxies') = Range(proxies)
      BY <3>7 DEF GroupNames
    <3>10. ReferencesResolve'
      BY <3>3, <3>6, <3>7, <3>8, <3>9 DEF Grouped, ReferencesResolve
    <3>11. NoGroupEmpty'
      BY <3>2, <3>6, <3>9 DEF Grouped, NoGroupEmpty
    <3> QED BY <3>7, <3>10, <3>11 DEF Grouped
  <2>3. CASE UNCHANGED <<input, proxies, groups>>
             /\ phase' \notin {"filter", "uniquify", "emit"}
    BY <2>3 DEF Grouped, ReferencesResolve, NoGroupEmpty, GroupNames
  <2>4. CASE UNCHANGED vars
    BY <2>4 DEF vars, Grouped, ReferencesResolve, NoGroupEmpty, GroupNames
  <2>5. CASE FilterNode
    BY <2>5, <2>1 DEF FilterNode
  <2>6. CASE SortAndRestyle
    BY <2>6, <2>1 DEF SortAndRestyle
  <2>7. CASE KeepName \/ Probe \/ RenameNode \/ Prepared
    BY <2>7, <2>1 DEF KeepName, Probe, RenameNode, Prepared
  <2>8. CASE EmitNode \/ Emitted
    BY <2>8, <2>1 DEF EmitNode, Emitted
  <2>9. CASE Rendered
    BY <2>9, <2>3 DEF Rendered, EndPass
  <2>10. CASE RuleStep
    BY <2>10, <2>3, RuleStepKeeps
  <2> QED BY <2>2, <2>4, <2>5, <2>6, <2>7, <2>8, <2>9, <2>10 DEF Next, RuleStep
<1> QED BY <1>1, <1>2, TypeCorrect, PTL DEF Spec

(* No group refers to a node that was not rendered, or to nothing, for     *)
(* the targets that check (surge.go, quanx.go, singbox.go).                *)
THEOREM ReferencesResolveAlways == Spec => []ReferencesResolve
<1>1. Grouped => ReferencesResolve
  BY DEF Grouped
<1> QED BY <1>1, GroupedInvariant, PTL

(* No group is without members (clash.go, buildGroups, and the formatters).*)
THEOREM NoGroupEmptyAlways == Spec => []NoGroupEmpty
<1>1. Grouped => NoGroupEmpty
  BY DEF Grouped
<1> QED BY <1>1, GroupedInvariant, PTL

-----------------------------------------------------------------------------
(* Connections.  What the filters leave has every connection of the wanted *)
(* nodes looked at so far, and the later passes only rename and reorder.   *)

HasConnection(n) == \E m \in Range(nodes) : Connection(m) = Connection(n)

Kept ==
  /\ phase = "filter" =>
       /\ k <= Len(input.nodes) + 1
       /\ \A j \in 1 .. k - 1 :
            Wanted(input.nodes[j]) => HasConnection(input.nodes[j])
  /\ NoConnectionLost

\* A step that keeps the connections of the nodes.
LEMMA SameConnections ==
  ASSUME NoConnectionLost, phase # "filter", input' = input,
         \A m \in Range(nodes) :
           \E l \in Range(nodes') : Connection(l) = Connection(m)
  PROVE  NoConnectionLost'
<1>1. ASSUME NEW n \in Range(input.nodes), Wanted(n)
      PROVE  \E l \in Range(nodes') : Connection(l) = Connection(n)
  BY <1>1 DEF NoConnectionLost
<1>2. \A n : Wanted(n)' <=> Wanted(n)
  BY DEF Wanted
<1> QED BY <1>1, <1>2 DEF NoConnectionLost

LEMMA WantedOrDuplicate ==
  ASSUME NEW n, Wanted(n), DroppedBy(n) # "none"
  PROVE  IsDuplicate(n)
BY DEF Wanted, DroppedBy

LEMMA KeptInvariant == Spec => []Kept
<1>1. Init => Kept
  <2> SUFFICES ASSUME Init
               PROVE  Kept
    OBVIOUS
  <2>1. Len(input.nodes) \in Nat
    BY InputType, LenProperties DEF Init
  <2> QED BY <2>1 DEF Init, Kept, NoConnectionLost
<1>2. TypeOK /\ Kept /\ [Next]_vars => Kept'
  <2> SUFFICES ASSUME TypeOK, Kept, [Next]_vars
               PROVE  Kept'
    OBVIOUS
  <2>0. /\ k \in Nat \ {0} /\ nodes \in Seq(Node)
        /\ input.nodes \in Seq(Node) /\ Len(input.nodes) \in Nat
    BY InputType, LenProperties DEF TypeOK
  <2>1. CASE FilterNode
    <3> DEFINE n == input.nodes[k]
    <3>1. /\ phase = "filter" /\ phase' = "filter" /\ input' = input
          /\ k' = k + 1 /\ k <= Len(input.nodes)
      BY <2>1 DEF FilterNode
    <3>2. n \in Node
      BY <2>0, <3>1, ElementOfSeq
    <3>3. /\ nodes' = IF DroppedBy(n) = "none" THEN Append(nodes, n) ELSE nodes
          /\ Range(Append(nodes, n)) = Range(nodes) \cup {n}
      BY <2>0, <2>1, <3>2, RangeOfAppend DEF FilterNode
    <3> HIDE DEF n
    <3>4. Range(nodes) \subseteq Range(nodes')
      BY <3>3
    <3>5. ASSUME Wanted(n)
          PROVE  \E m \in Range(nodes') : Connection(m) = Connection(n)
      BY <3>3, <3>5, WantedOrDuplicate DEF IsDuplicate
    <3>6. ASSUME NEW j \in 1 .. k, Wanted(input.nodes[j])
          PROVE  \E m \in Range(nodes') :
                   Connection(m) = Connection(input.nodes[j])
      <4>1. CASE j = k
        BY <3>5, <3>6, <4>1 DEF n
      <4>2. CASE j # k
        <5>1. j \in 1 .. k - 1
          BY <2>0, <4>2
        <5> QED BY <3>1, <3>4, <3>6, <5>1 DEF Kept, HasConnection
      <4> QED BY <4>1, <4>2
    <3>7. \A m : Wanted(m)' <=> Wanted(m)
      BY <3>1 DEF Wanted
    <3>8. k' - 1 = k /\ k' <= Len(input.nodes) + 1
      BY <2>0, <3>1
    <3> QED BY <3>1, <3>6, <3>7, <3>8 DEF Kept, HasConnection, NoConnectionLost
  <2>2. CASE SortAndRestyle
    <3>1. /\ phase = "filter" /\ phase' = "uniquify" /\ input' = input
          /\ k > Len(input.nodes)
      BY <2>2 DEF SortAndRestyle, EndPass
    <3>2. PICK p \in [DOMAIN nodes -> DOMAIN nodes] :
            /\ IF input.sort THEN Sorts(p)
                             ELSE \A i \in DOMAIN nodes : p[i] = i
            /\ nodes' = [i \in DOMAIN nodes |->
                           [nodes[p[i]] EXCEPT !.name =
                              Restyled(@, nodes[p[i]].type)]]
      BY <2>2 DEF SortAndRestyle
    <3>3. \A j \in DOMAIN nodes : \E i \in DOMAIN nodes : p[i] = j
      BY <3>2 DEF Sorts, Range
    <3>4. ASSUME NEW m \in Range(nodes)
          PROVE  \E l \in Range(nodes') : Connection(l) = Connection(m)
      <4>1. PICK j \in DOMAIN nodes : m = nodes[j]
        BY <3>4 DEF Range
      <4>2. PICK i \in DOMAIN nodes : p[i] = j
        BY <3>3
      <4>3. m \in Node
        BY <2>0, <4>1, ElementOfSeq, LenProperties
      <4>4. nodes'[i] = [m EXCEPT !.name = Restyled(m.name, m.type)]
        BY <3>2, <4>1, <4>2
      <4>5. Connection(nodes'[i]) = Connection(m)
        BY <4>3, <4>4 DEF Connection, Node
      <4>6. nodes'[i] \in Range(nodes')
        BY <3>2 DEF Range
      <4> QED BY <4>5, <4>6
    <3>5. ASSUME NEW n \in Range(input.nodes), Wanted(n)
          PROVE  HasConnection(n)
      <4>1. PICK j \in 1 .. Len(input.nodes) : n = input.nodes[j]
        BY <2>0, <3>5, LenProperties DEF Range
      <4>2. j \in 1 .. k - 1
        BY <2>0, <3>1
      <4> QED BY <3>1, <3>5, <4>1, <4>2 DEF Kept
    <3>6. \A n : Wanted(n)' <=> Wanted(n)
      BY <3>1 DEF Wanted
    <3> QED BY <3>1, <3>4, <3>5, <3>6 DEF Kept, HasConnection, NoConnectionLost
  <2>3. CASE RenameNode
    <3>1. ASSUME NEW m \in Range(nodes)
          PROVE  \E l \in Range(nodes') : Connection(l) = Connection(m)
      <4>1. PICK j \in DOMAIN nodes : m = nodes[j]
        BY <3>1 DEF Range
      <4>2. m \in Node
        BY <2>0, <4>1, ElementOfSeq, LenProperties
      <4>3. nodes'[j] \in Range(nodes')
        BY <2>3 DEF RenameNode, Range
      <4>4. CASE j = k
        <5>1. nodes'[j] = [m EXCEPT !.name = Candidate]
          BY <2>3, <4>1, <4>4 DEF RenameNode
        <5> QED BY <4>2, <4>3, <5>1 DEF Connection, Node
      <4>5. CASE j # k
        BY <2>3, <4>1, <4>3, <4>5 DEF RenameNode
      <4> QED BY <4>4, <4>5
    <3>2. /\ phase = "uniquify" /\ phase' = "uniquify" /\ input' = input
      BY <2>3 DEF RenameNode
    <3> QED BY <3>1, <3>2, SameConnections DEF Kept
  <2>4. CASE UNCHANGED <<input, nodes>> /\ phase # "filter"
             /\ phase' # "filter"
    BY <2>4, SameConnections DEF Kept
  <2>5. CASE KeepName \/ Probe \/ Prepared
    BY <2>5, <2>4 DEF KeepName, Probe, Prepared, EndPass
  <2>6. CASE EmitNode \/ Emitted
    BY <2>6, <2>4 DEF EmitNode, Emitted, EndPass
  <2>7. CASE EmitGroup \/ Rendered
    BY <2>7, <2>4 DEF EmitGroup, Rendered, EndPass
  <2>8. CASE UNCHANGED vars
    BY <2>8 DEF vars, Kept, NoConnectionLost, HasConnection, Wanted
  <2>9. CASE RuleStep
    BY <2>9, <2>4, RuleStepKeeps
  <2> QED BY <2>1, <2>2, <2>3, <2>5, <2>6, <2>7, <2>8, <2>9 DEF Next, RuleStep
<1> QED BY <1>1, <1>2, TypeCorrect, PTL DEF Spec

(* The filters drop names, never a wanted connection (prepareNodes).       *)
THEOREM NoConnectionLostAlways == Spec => []NoConnectionLost
<1>1. Kept => NoConnectionLost
  BY DEF Kept
<1> QED BY <1>1, KeptInvariant, PTL

-----------------------------------------------------------------------------
(* Members.  A group is formatted against the names the output's nodes     *)
(* have, and they do not change any more.                                  *)

Followed ==
  /\ phase \in {"filter", "uniquify"} => proxies = <<>>
  /\ phase \in {"filter", "uniquify", "emit"} => groups = <<>>
  /\ phase = "groups" => Len(groups) = k - 1
  /\ Range(proxies) \subseteq NodeNames
  /\ GroupsFollowNames

\* What a selector has to give of the rendered nodes.
Selects(sel, name) ==
  sel.kind = "all" \/ (sel.kind = "pattern" /\ Matches(sel.part, name))

LEMMA SelectedIsMember ==
  ASSUME Range(proxies) \subseteq NodeNames,
         NEW d, NEW name \in Range(proxies) \ {NoName},
         NEW sel \in Range(d.selectors), Selects(sel, name)
  PROVE  name \in Formatted(Members(d))
<1>1. name \in Chosen(sel)
  BY DEF Chosen, Selects
<1>2. name \in Resolved(d)
  BY <1>1 DEF Resolved
<1>3. name \in Members(d)
  BY <1>2 DEF Members
<1>4. Referable(name)
  BY DEF Referable
<1> QED BY <1>3, <1>4 DEF Formatted

LEMMA FollowedInvariant == Spec => []Followed
<1>1. Init => Followed
  BY DEF Init, Followed, GroupsFollowNames, Range
<1>2. TypeOK /\ Followed /\ [Next]_vars => Followed'
  <2> SUFFICES ASSUME TypeOK, Followed, [Next]_vars
               PROVE  Followed'
    OBVIOUS
  <2>0. /\ nodes \in Seq(Node) /\ proxies \in Seq(Name) /\ k \in Nat \ {0}
        /\ groups \in Seq([name : Name, members : SUBSET Name])
    BY DEF TypeOK
  <2>1. CASE /\ phase \in {"filter", "uniquify"} /\ phase' # "groups"
             /\ UNCHANGED <<proxies, groups>>
    BY <2>1 DEF Followed, GroupsFollowNames, Range
  <2>2. CASE EmitNode
    <3>1. /\ phase = "emit" /\ phase' = "emit" /\ nodes' = nodes
          /\ groups = <<>> /\ groups' = <<>> /\ k <= Len(nodes)
      BY <2>2 DEF EmitNode, Followed
    <3>2. nodes[k] \in Node /\ k \in DOMAIN nodes
      BY <2>0, <3>1, ElementOfSeq, LenProperties
    <3>3. nodes[k].name \in Name /\ nodes[k].name \in NodeNames
      BY <3>2 DEF Node, NodeNames, Range
    <3>4. Range(Append(proxies, nodes[k].name))
            = Range(proxies) \cup {nodes[k].name}
      BY <2>0, <3>3, RangeOfAppend
    <3>5. proxies' \in {Append(proxies, nodes[k].name), proxies}
      BY <2>2 DEF EmitNode
    <3>6. Range(proxies') \subseteq NodeNames'
      BY <3>1, <3>3, <3>4, <3>5 DEF Followed, NodeNames
    <3> QED BY <3>1, <3>6 DEF Followed, GroupsFollowNames
  <2>3. CASE Emitted
    <3>1. /\ phase = "emit" /\ phase' \in {"groups", "done"} /\ k' = 1
          /\ groups = <<>> /\ UNCHANGED <<nodes, proxies, groups>>
      BY <2>3 DEF Emitted, EndPass, Followed
    <3>2. Len(groups') = k' - 1
      BY <3>1
    <3> QED BY <3>1, <3>2 DEF Followed, GroupsFollowNames, NodeNames
  <2>4. CASE EmitGroup
    <3> DEFINE d == input.groups[k]
               ms == Formatted(Members(d))
               g == [name |-> d.name, members |-> ms]
    <3>1. /\ phase = "groups" /\ phase' = "groups" /\ k' = k + 1
          /\ Len(groups) = k - 1 /\ groups' = Append(groups, g)
          /\ UNCHANGED <<input, nodes, proxies>>
      BY <2>4 DEF EmitGroup, Followed
    <3>2. d \in GroupDef
      BY <2>4, InputType, ElementOfSeq DEF EmitGroup, TypeOK
    <3>3. g \in [name : Name, members : SUBSET Name]
      BY <3>2, FormattedFacts DEF GroupDef
    <3>4. g.members = ms
      OBVIOUS
    <3> HIDE DEF g
    <3>5. /\ Len(groups') = k /\ DOMAIN groups' = 1 .. k
          /\ groups'[k] = g
          /\ \A i \in 1 .. k - 1 : groups'[i] = groups[i]
      BY <2>0, <3>1, <3>3
    <3>6. ASSUME NEW i \in 1 .. k, NEW name \in Range(proxies) \ {NoName},
                 NEW sel \in Range(input.groups[i].selectors),
                 Selects(sel, name)
          PROVE  name \in groups'[i].members
      <4>1. CASE i = k
        BY <3>4, <3>5, <3>6, <4>1, SelectedIsMember DEF Followed
      <4>2. CASE i # k
        <5>1. i \in 1 .. k - 1 /\ i \in DOMAIN groups
          BY <2>0, <3>1, <4>2
        <5> QED BY <3>5, <3>6, <5>1 DEF Followed, GroupsFollowNames, Selects
      <4> QED BY <4>1, <4>2
    <3>7. GroupsFollowNames'
      BY <3>1, <3>5, <3>6 DEF GroupsFollowNames, Selects, Matches
    <3>8. Len(groups') = k' - 1
      BY <2>0, <3>1, <3>5
    <3> QED BY <3>1, <3>7, <3>8 DEF Followed, NodeNames
  <2>5. CASE /\ phase' \in {"rules", "done"}
             /\ UNCHANGED <<input, nodes, proxies, groups>>
    BY <2>5 DEF Followed, GroupsFollowNames, NodeNames
  <2>6. CASE UNCHANGED vars
    BY <2>6 DEF vars, Followed, GroupsFollowNames, NodeNames
  <2>7. CASE FilterNode \/ SortAndRestyle
    BY <2>7, <2>1 DEF FilterNode, SortAndRestyle, EndPass
  <2>8. CASE KeepName \/ Probe \/ RenameNode \/ Prepared
    BY <2>8, <2>1 DEF KeepName, Probe, RenameNode, Prepared, EndPass
  <2>9. CASE Rendered
    BY <2>9, <2>5 DEF Rendered, EndPass
  <2>10. CASE RuleStep
    BY <2>10, <2>5, RuleStepKeeps
  <2> QED BY <2>2, <2>3, <2>4, <2>6, <2>7, <2>8, <2>9, <2>10 DEF Next, RuleStep
<1> QED BY <1>1, <1>2, TypeCorrect, PTL DEF Spec

(* A group has every rendered node that one of its selectors matches, by   *)
(* the name it has in the output, for every target (buildGroups and the    *)
(* formatters of the groups).                                              *)
THEOREM GroupsFollowNamesAlways == Spec => []GroupsFollowNames
<1>1. Followed => GroupsFollowNames
  BY DEF Followed
<1> QED BY <1>1, FollowedInvariant, PTL

-----------------------------------------------------------------------------
(* Routes.  At every line of every ruleset the rules so far route traffic  *)
(* as the lines so far do, read as the author of the config reads them.    *)

\* The lines that count for a ruleset, and the declaration of one of them.
LinesOf(rs) == IF rs.source = "remote" THEN Lists[rs.url] ELSE Lines(rs)

Declaration(i, l) ==
  [at |-> <<i, l>>, line |-> LinesOf(Rulesets[i])[l],
   group |-> Rulesets[i].group]

LEMMA LinesOfType ==
  ASSUME NEW rs \in Ruleset
  PROVE  /\ Lines(rs) \in Seq(Line) /\ Len(Lines(rs)) \in Nat
         /\ LinesOf(rs) \in Seq(Line) /\ Len(LinesOf(rs)) \in Nat
         /\ ~ByProvider(rs) => LinesOf(rs) = Lines(rs)
         /\ ByProvider(rs) => /\ rs.source = "remote" /\ rs.url \in Urls
                              /\ LinesOf(rs) = Lists[rs.url]
                              /\ Lines(rs) = <<>>
<1>1. CASE rs.source = "inline"
  <2>1. rs.line \in Line
    BY <1>1 DEF Ruleset
  <2>2. Lines(rs) = <<rs.line>> /\ LinesOf(rs) = Lines(rs) /\ ~ByProvider(rs)
    BY <1>1 DEF Lines, LinesOf, ByProvider
  <2> QED BY <2>1, <2>2
<1>2. CASE rs.source = "remote"
  <2>1. rs.url \in Urls
    BY <1>2 DEF Ruleset
  <2>2. Lists[rs.url] \in Seq(Line) /\ <<>> \in Seq(Line)
    BY <2>1, RulesAssumption
  <2>3. /\ Lines(rs) = IF ByProvider(rs) THEN <<>> ELSE Lists[rs.url]
        /\ LinesOf(rs) = Lists[rs.url]
    BY <1>2 DEF Lines, LinesOf
  <2>4. Lines(rs) \in Seq(Line) /\ LinesOf(rs) \in Seq(Line)
    BY <2>2, <2>3
  <2> QED BY <1>2, <2>1, <2>3, <2>4, LenProperties
<1>3. CASE rs.source = "neither"
  <2>1. Lines(rs) = <<>> /\ LinesOf(rs) = Lines(rs) /\ ~ByProvider(rs)
    BY <1>3 DEF Lines, LinesOf, ByProvider
  <2> QED BY <2>1
<1> QED BY <1>1, <1>2, <1>3 DEF Ruleset

\* What is declared, without the sets of sets.
LEMMA DeclaredIs ==
  \A d : d \in Declared <=>
    \E i \in DOMAIN Rulesets : \E l \in DOMAIN LinesOf(Rulesets[i]) :
      /\ Accepted(Rulesets[i], LinesOf(Rulesets[i])[l])
      /\ d = Declaration(i, l)
<1> DEFINE places(i) == {m \in DOMAIN LinesOf(Rulesets[i]) :
                          Accepted(Rulesets[i], LinesOf(Rulesets[i])[m])}
<1>1. Declared = UNION {{Declaration(i, l) : l \in places(i)} :
                          i \in DOMAIN Rulesets}
  BY DEF Declared, LinesOf, Declaration
<1> QED BY <1>1

\* A declaration is known by its place.
LEMMA DeclarationFacts ==
  ASSUME input \in Inputs, NEW d \in Declared
  PROVE  /\ d.at[1] \in 1 .. Len(Rulesets) /\ d.at[2] \in Nat \ {0}
         /\ d.at[2] <= Len(LinesOf(Rulesets[d.at[1]]))
         /\ Rulesets[d.at[1]] \in Ruleset
         /\ d = Declaration(d.at[1], d.at[2])
         /\ Accepted(Rulesets[d.at[1]], d.line)
         /\ d.line = LinesOf(Rulesets[d.at[1]])[d.at[2]]
         /\ d.line \in Line
         /\ d.group = Rulesets[d.at[1]].group
<1>0. PICK i \in DOMAIN Rulesets :
        \E l \in DOMAIN LinesOf(Rulesets[i]) :
          /\ Accepted(Rulesets[i], LinesOf(Rulesets[i])[l])
          /\ d = Declaration(i, l)
  BY DeclaredIs
<1>1. PICK l \in DOMAIN LinesOf(Rulesets[i]) :
        /\ Accepted(Rulesets[i], LinesOf(Rulesets[i])[l])
        /\ d = Declaration(i, l)
  BY <1>0
<1>2. d.at[1] = i /\ d.at[2] = l /\ d.line = LinesOf(Rulesets[i])[l]
      /\ d.group = Rulesets[i].group
  BY <1>1 DEF Declaration
<1>3. i \in 1 .. Len(Rulesets) /\ Rulesets[i] \in Ruleset
  BY InputType, ElementOfSeq, LenProperties
<1>4. PICK ls \in Seq(Line) : ls = LinesOf(Rulesets[i])
  BY <1>3, LinesOfType
<1>5. l \in 1 .. Len(ls) /\ Len(ls) \in Nat /\ ls[l] \in Line
  BY <1>1, <1>4, ElementOfSeq, LenProperties
<1> QED BY <1>1, <1>2, <1>3, <1>4, <1>5

LEMMA PlacesTellApart ==
  ASSUME input \in Inputs, NEW d \in Declared, NEW e \in Declared,
         Before(d, e), Before(e, d)
  PROVE  d = e
<1>1. d.at[1] = e.at[1] /\ d.at[2] = e.at[2]
  <2>1. /\ d.at[1] \in Int /\ d.at[2] \in Int
        /\ e.at[1] \in Int /\ e.at[2] \in Int
    BY DeclarationFacts
  <2> QED BY <2>1 DEF Before
<1>2. d = Declaration(d.at[1], d.at[2]) /\ e = Declaration(e.at[1], e.at[2])
  BY DeclarationFacts
<1> QED BY <1>1, <1>2

-----------------------------------------------------------------------------
(* Rules against declarations.                                             *)

Hits(d, t) == IsMatch(d.line) \/ t \in Covers[d.line.value]

FirstRule(rs, i, t) ==
  /\ i \in DOMAIN rs /\ t \in Matched(rs[i])
  /\ \A j \in DOMAIN rs : t \in Matched(rs[j]) => i <= j

FirstLine(D, d, t) ==
  /\ d \in D /\ Hits(d, t)
  /\ \A e \in D : Hits(e, t) => Before(d, e)

\* Traffic t takes the same way by the rules rs and by the declarations D.
Agrees(rs, D, t) ==
  \/ /\ \A i \in DOMAIN rs : t \notin Matched(rs[i])
     /\ \A d \in D : ~Hits(d, t)
  \/ \E i \in DOMAIN rs, d \in D :
       FirstRule(rs, i, t) /\ FirstLine(D, d, t) /\ rs[i].group = d.group

(* Later declarations agree with one more rule that does what they do, and *)
(* with no rule more if there is one like it.                              *)
LEMMA MoreAgrees ==
  ASSUME NEW rs \in Seq(Rule), NEW r \in Rule, NEW D, NEW E, NEW t,
         Agrees(rs, D, t), D \subseteq E,
         \A d \in D, e \in E \ D : Before(d, e),
         \A e \in E \ D : e.group = r.group,
         \A e \in E \ D : Hits(e, t) => t \in Matched(r),
         t \in Matched(r) => \E e \in E \ D : FirstLine(E \ D, e, t)
  PROVE  /\ Agrees(Append(rs, r), E, t)
         /\ r \in Range(rs) => Agrees(rs, E, t)
<1> DEFINE ext == Append(rs, r)
           n == Len(rs) + 1
<1>1. /\ DOMAIN ext = 1 .. n /\ DOMAIN rs = 1 .. n - 1 /\ n \in Nat \ {0}
      /\ ext[n] = r /\ \A i \in 1 .. n - 1 : ext[i] = rs[i]
  OBVIOUS
<1> HIDE DEF ext, n
<1>2. ASSUME NEW i \in DOMAIN rs, NEW d \in D,
             FirstRule(rs, i, t), FirstLine(D, d, t), rs[i].group = d.group
      PROVE  Agrees(ext, E, t) /\ Agrees(rs, E, t)
  <2>1. FirstLine(E, d, t)
    BY <1>2 DEF FirstLine
  <2>2. FirstRule(ext, i, t)
    <3>1. \A j \in 1 .. n : j = n \/ j \in 1 .. n - 1
      BY <1>1
    <3>2. i <= n /\ i \in 1 .. n
      BY <1>1
    <3> QED BY <1>1, <1>2, <3>1, <3>2 DEF FirstRule
  <2>3. ext[i].group = d.group /\ i \in DOMAIN ext /\ d \in E
    BY <1>1, <1>2
  <2> QED BY <1>2, <2>1, <2>2, <2>3 DEF Agrees
<1>3. ASSUME \A i \in DOMAIN rs : t \notin Matched(rs[i]),
             \A d \in D : ~Hits(d, t)
      PROVE  /\ Agrees(ext, E, t)
             /\ r \in Range(rs) => Agrees(rs, E, t)
  <2>1. CASE t \in Matched(r)
    <3>1. PICK e \in E \ D : FirstLine(E \ D, e, t)
      BY <2>1
    <3>2. FirstLine(E, e, t)
      BY <1>3, <3>1 DEF FirstLine
    <3>3. FirstRule(ext, n, t)
      <4>1. \A j \in 1 .. n : j = n \/ j \in 1 .. n - 1
        BY <1>1
      <4> QED BY <1>1, <1>3, <2>1, <4>1 DEF FirstRule
    <3>4. n \in DOMAIN ext /\ e \in E /\ ext[n].group = e.group
      BY <1>1
    <3>5. r \notin Range(rs)
      BY <1>3, <2>1 DEF Range
    <3> QED BY <3>2, <3>3, <3>4, <3>5 DEF Agrees
  <2>2. CASE t \notin Matched(r)
    <3>1. \A e \in E : ~Hits(e, t)
      BY <1>3, <2>2
    <3>2. \A i \in DOMAIN ext : t \notin Matched(ext[i])
      <4>1. \A j \in 1 .. n : j = n \/ j \in 1 .. n - 1
        BY <1>1
      <4> QED BY <1>1, <1>3, <2>2, <4>1
    <3> QED BY <1>3, <3>1, <3>2 DEF Agrees
  <2> QED BY <2>1, <2>2
<1> QED BY <1>2, <1>3 DEF Agrees, ext

\* What the rule that is made of a line matches, the line matches.
LEMMA RuleOfLine ==
  ASSUME NEW rs, NEW x, Accepted(rs, x), NEW g, NEW t \in Traffic
  PROVE  t \in Matched([type |-> Canonical(x.type), value |-> x.value,
                        group |-> g])
           <=> IsMatch(x) \/ t \in Covers[x.value]
<1> DEFINE r == [type |-> Canonical(x.type), value |-> x.value, group |-> g]
<1>1. Expressible(input.target, x)
  BY DEF Accepted
<1>2. CASE IsMatch(x)
  <2>1. Canonical(x.type) \in {"MATCH", "FINAL"}
    BY <1>2 DEF IsMatch, Canonical
  <2>2. r.type # "PROVIDER" /\ IsMatch(r)
    BY <2>1 DEF IsMatch
  <2> HIDE DEF r
  <2>3. Matched(r) = Traffic
    BY <2>2 DEF Matched
  <2> QED BY <1>2, <2>3 DEF r
<1>3. CASE ~IsMatch(x)
  <2>1. Canonical(x.type) \notin {"MATCH", "FINAL", "PROVIDER"}
    BY <1>1, <1>3 DEF Expressible, ClashRuleTypes, SurgeRuleTypes,
                      QuanXRuleTypes, SingboxRuleTypes
  <2>2. r.type # "PROVIDER" /\ ~IsMatch(r) /\ r.value = x.value
    BY <2>1 DEF IsMatch
  <2> HIDE DEF r
  <2>3. Matched(r) = Covers[x.value]
    BY <2>2 DEF Matched
  <2> QED BY <1>3, <2>3 DEF r
<1> QED BY <1>2, <1>3

-----------------------------------------------------------------------------
(* The loop over the rules.                                                *)

Comparable == ~input.list /\ input.target # "v2ray" /\ CatchAllInPlace

\* The declarations the loop is past, and those of them that become rules.
Past(d) ==
  \/ phase = "done"
  \/ d.at[1] < k
  \/ d.at[1] = k /\ d.at[2] < line

Inlined == {d \in Declared : Past(d) /\ ~IsFinal(d.line)}

\* Traffic that &tailscale=true sends elsewhere whatever the config says.
Exempt(t) == input.tailscale /\ t \in Covers["tailnet"]

Catching ==
  /\ \A d \in Declared : Past(d) /\ IsFinal(d.line) => final = d.group
  /\ (\A d \in Declared : Past(d) => ~IsFinal(d.line))
       => final = Plain("DIRECT")

InRuleset ==
  phase = "rules" /\ k <= Len(Rulesets)
    => line <= Len(Lines(Rulesets[k])) + 1

Routing ==
  /\ InRuleset
  /\ phase \notin {"rules", "done"} => final = Plain("DIRECT")
  /\ Comparable /\ phase \in {"rules", "done"} =>
       /\ \A t \in Traffic :
            IF Exempt(t) THEN 1 \in DOMAIN rules /\ rules[1] = Tailscale
                         ELSE Agrees(rules, Inlined, t)
       /\ Catching

\* What hangs on the input alone stays as it is.
LEMMA SameInput ==
  ASSUME input' = input
  PROVE  /\ Declared' = Declared /\ Rulesets' = Rulesets
         /\ Comparable' <=> Comparable
         /\ \A x : IsFinal(x)' <=> IsFinal(x)
         /\ \A t : Exempt(t)' <=> Exempt(t)
         /\ \A rs : Lines(rs)' = Lines(rs)
<1>1. Rulesets' = Rulesets
  BY DEF Rulesets
<1>2. \A rs : Lines(rs)' = Lines(rs)
  BY DEF Lines, ByProvider
<1>3. \A rs, x : Accepted(rs, x)' <=> Accepted(rs, x)
  BY DEF Accepted
<1>4. Declared' = Declared
  BY <1>1, <1>2, <1>3 DEF Declared
<1>5. \A x : IsFinal(x)' <=> IsFinal(x)
  BY DEF IsFinal
<1>6. CatchAllInPlace' <=> CatchAllInPlace
  BY <1>1, <1>4 DEF CatchAllInPlace, ByProvider
<1> QED BY <1>1, <1>2, <1>4, <1>5, <1>6 DEF Comparable, Exempt

LEMMA FirstLineInRuleset == TypeOK /\ line = 1 => InRuleset
<1> SUFFICES ASSUME TypeOK, line = 1, k <= Len(Rulesets)
             PROVE  line <= Len(Lines(Rulesets[k])) + 1
  BY DEF InRuleset
<1>1. Rulesets[k] \in Ruleset
  BY InputType, ElementOfSeq DEF TypeOK
<1>2. Len(Lines(Rulesets[k])) \in Nat
  BY <1>1, LinesOfType
<1> QED BY <1>2

\* A catch-all of sing-box is behind all else that is declared.
LEMMA FinalIsLast ==
  ASSUME CatchAllInPlace, NEW d \in Declared, IsFinal(d.line),
         NEW e \in Declared
  PROVE  Before(e, d)
BY DEF CatchAllInPlace, IsFinal

-----------------------------------------------------------------------------
(* One line on.                                                            *)

LEMMA LineStep ==
  ASSUME TypeOK, AtLine, input' = input, phase' = phase, k' = k,
         line' = line + 1
  PROVE  LET rs == Rulesets[k]
             x  == Lines(rs)[line]
             new == Declaration(k, line)
         IN  /\ rs \in Ruleset
             /\ new.line = x /\ new.group = rs.group
             /\ new \in Declared <=> Accepted(rs, x)
             /\ \A d \in Declared : Past(d)' <=> Past(d) \/ d = new
             /\ \A d \in Declared : Past(d) => Before(d, new) /\ d # new
             /\ InRuleset'
<1> DEFINE rs == Rulesets[k]
           x  == Lines(rs)[line]
           new == Declaration(k, line)
<1>1. /\ phase = "rules" /\ k \in Nat \ {0} /\ line \in Nat \ {0}
      /\ k <= Len(Rulesets) /\ line <= Len(Lines(rs)) /\ input \in Inputs
  BY DEF AtLine, TypeOK
<1>2. rs \in Ruleset
  BY LineType
<1>3. /\ Lines(rs) \in Seq(Line) /\ Len(Lines(rs)) \in Nat
      /\ ~ByProvider(rs) /\ LinesOf(rs) = Lines(rs)
  <2>1. PICK r \in Ruleset : r = rs
    BY <1>2
  <2>2. Len(Lines(r)) >= 1
    BY <1>1, <2>1, LinesOfType
  <2>3. Lines(r) # <<>>
    BY <2>2
  <2> QED BY <2>1, <2>3, LinesOfType
<1>4. k \in DOMAIN Rulesets /\ line \in DOMAIN LinesOf(rs)
  <2>1. line \in 1 .. Len(Lines(rs))
    BY <1>1, <1>3
  <2>2. k \in 1 .. Len(Rulesets) /\ Rulesets \in Seq(Ruleset)
    BY <1>1, InputType, LenProperties
  <2> QED BY <1>3, <2>1, <2>2, LenProperties
<1>5. new.line = x /\ new.group = rs.group /\ new.at = <<k, line>>
  BY <1>3 DEF Declaration
<1>6. Accepted(rs, x) => new \in Declared
  BY <1>3, <1>4, DeclaredIs
<1>7. ASSUME NEW d \in Declared
      PROVE  /\ Past(d)' <=> Past(d) \/ d = new
             /\ Past(d) => Before(d, new) /\ d # new
             /\ d = new => Accepted(rs, x)
  <2>1. /\ d.at[1] \in Nat /\ d.at[2] \in Nat
        /\ d = Declaration(d.at[1], d.at[2])
        /\ Accepted(Rulesets[d.at[1]], d.line)
    BY <1>1, DeclarationFacts
  <2>2. d = new <=> d.at[1] = k /\ d.at[2] = line
    BY <1>5, <2>1
  <2>3. Past(d) <=> d.at[1] < k \/ (d.at[1] = k /\ d.at[2] < line)
    BY <1>1 DEF Past
  <2>4. Past(d)' <=> d.at[1] < k \/ (d.at[1] = k /\ d.at[2] < line + 1)
    BY <1>1 DEF Past
  <2>5. new.at[1] = k /\ new.at[2] = line
    BY <1>5
  <2> HIDE DEF new
  <2>6. Past(d)' <=> Past(d) \/ d = new
    BY <1>1, <2>1, <2>2, <2>3, <2>4
  <2>7. Past(d) => Before(d, new) /\ d # new
    BY <1>1, <2>1, <2>2, <2>3, <2>5 DEF Before
  <2>8. d = new => Accepted(rs, x)
    BY <1>5, <2>1, <2>2 DEF new
  <2> QED BY <2>6, <2>7, <2>8
<1>8. InRuleset'
  <2>1. line' <= Len(Lines(rs)) + 1
    BY <1>1, <1>3
  <2>2. Rulesets' = Rulesets /\ \A s : Lines(s)' = Lines(s)
    BY SameInput
  <2> QED BY <2>1, <2>2 DEF InRuleset
<1> QED BY <1>2, <1>5, <1>6, <1>7, <1>8

LEMMA EmitRuleKeepsRouting ==
  ASSUME TypeOK, Routing, EmitRule
  PROVE  Routing'
<1> DEFINE rs == Rulesets[k]
           x  == Lines(rs)[line]
           r == [type |-> Canonical(x.type), value |-> x.value,
                 group |-> rs.group]
<1> PICK new : new = Declaration(k, line)
  OBVIOUS
<1>1. /\ AtLine /\ phase = "rules" /\ input' = input /\ phase' = phase
      /\ k' = k /\ line' = line + 1 /\ Accepted(rs, x) /\ ~IsFinal(x)
      /\ rules' = Append(rules, r) /\ final' = final
  BY DEF EmitRule, AtLine, OtherVars, Placed
<1>2. /\ rs \in Ruleset /\ new.line = x /\ new.group = rs.group
      /\ new \in Declared
      /\ \A d \in Declared : Past(d)' <=> Past(d) \/ d = new
      /\ \A d \in Declared : Past(d) => Before(d, new) /\ d # new
      /\ InRuleset'
  BY <1>1, LineStep
<1>3. x \in Line /\ r.group = rs.group
  BY <1>1, LineType
<1>4. r \in Rule /\ rules \in Seq(Rule)
  <2>1. Canonical(x.type) \in CanonicalTypes /\ x.value \in Values
    BY <1>3 DEF Line, CanonicalTypes
  <2>2. rs.group \in Name
    BY <1>2 DEF Ruleset
  <2> QED BY <2>1, <2>2 DEF Rule, TypeOK
<1>5. /\ Declared' = Declared /\ Rulesets' = Rulesets
      /\ Comparable' <=> Comparable
      /\ \A y : IsFinal(y)' <=> IsFinal(y)
      /\ \A t : Exempt(t)' <=> Exempt(t)
      /\ \A s : Lines(s)' = Lines(s)
  BY <1>1, SameInput
<1>6. /\ Inlined' = Inlined \cup {new} /\ new \notin Inlined
      /\ \A d \in Inlined : Before(d, new)
  BY <1>1, <1>2, <1>5 DEF Inlined
<1>7. \A t \in Traffic : t \in Matched(r) <=> Hits(new, t)
  BY <1>1, <1>2, RuleOfLine DEF Hits
<1> HIDE DEF r
<1>8. ASSUME Comparable, NEW t \in Traffic, ~Exempt(t)
      PROVE  Agrees(rules', Inlined', t)
  <2>1. Agrees(rules, Inlined, t)
    BY <1>1, <1>8 DEF Routing
  <2>2. PICK D, E : D = Inlined /\ E = Inlined'
    OBVIOUS
  <2>3. D \subseteq E /\ E \ D = {new} /\ Agrees(rules, D, t)
    BY <1>6, <2>1, <2>2
  <2>4. Before(new, new)
    <3>1. new.at[1] = k /\ new.at[2] = line
      BY DEF Declaration
    <3>2. k \in Int /\ line \in Int
      BY DEF TypeOK
    <3> QED BY <3>1, <3>2 DEF Before
  <2>5. t \in Matched(r) => FirstLine({new}, new, t)
    BY <1>7, <2>4 DEF FirstLine
  <2>6. Agrees(Append(rules, r), E, t)
    <3>1. \A d \in D, e \in E \ D : Before(d, e)
      BY <1>6, <2>2, <2>3
    <3>2. \A e \in E \ D : e.group = r.group /\ (Hits(e, t) => t \in Matched(r))
      BY <1>2, <1>3, <1>7, <2>3
    <3>3. t \in Matched(r) => \E e \in E \ D : FirstLine(E \ D, e, t)
      BY <2>3, <2>5
    <3> QED BY <1>4, <2>3, <3>1, <3>2, <3>3, MoreAgrees
  <2> QED BY <1>1, <2>2, <2>6
<1>9. ASSUME Comparable, NEW t \in Traffic, Exempt(t)
      PROVE  1 \in DOMAIN rules' /\ rules'[1] = Tailscale
  <2>1. 1 \in DOMAIN rules /\ rules[1] = Tailscale
    BY <1>1, <1>9 DEF Routing
  <2> QED BY <1>1, <1>4, <2>1
<1>10. ASSUME Comparable PROVE Catching'
  BY <1>1, <1>2, <1>5, <1>10 DEF Catching, Routing
<1>11. Tailscale' = Tailscale
  BY DEF Tailscale
<1>12. ASSUME NEW t \in Traffic
       PROVE  Agrees(rules, Inlined, t)' <=> Agrees(rules', Inlined', t)
  BY DEF Agrees, FirstRule, FirstLine, Hits, Matched
<1>13. Comparable' => \A t \in Traffic :
         IF Exempt(t)' THEN 1 \in DOMAIN rules' /\ rules'[1] = Tailscale
                       ELSE Agrees(rules, Inlined, t)'
  BY <1>5, <1>8, <1>9, <1>12
<1> QED BY <1>1, <1>2, <1>5, <1>10, <1>13, <1>11 DEF Routing

\* A step that changes neither the rules nor what has become one.
LEMMA SameRulesKeepRouting ==
  ASSUME Routing, phase \in {"rules", "done"}, phase' \in {"rules", "done"},
         input' = input, rules' = rules, Inlined' = Inlined,
         Comparable => Catching', InRuleset'
  PROVE  Routing'
<1>1. /\ Declared' = Declared /\ Rulesets' = Rulesets
      /\ Comparable' <=> Comparable
      /\ \A t : Exempt(t)' <=> Exempt(t)
      /\ \A s : Lines(s)' = Lines(s)
  BY SameInput
<1>2. Tailscale' = Tailscale
  BY DEF Tailscale
<1>3. ASSUME NEW t \in Traffic
      PROVE  Agrees(rules, Inlined, t)' <=> Agrees(rules, Inlined, t)
  BY DEF Agrees, FirstRule, FirstLine, Hits, Matched
<1>4. Comparable => \A t \in Traffic :
         IF Exempt(t) THEN 1 \in DOMAIN rules /\ rules[1] = Tailscale
                      ELSE Agrees(rules, Inlined, t)
  BY DEF Routing
<1>5. Comparable' => \A t \in Traffic :
         IF Exempt(t)' THEN 1 \in DOMAIN rules' /\ rules'[1] = Tailscale'
                       ELSE Agrees(rules, Inlined, t)'
  BY <1>1, <1>2, <1>3, <1>4
<1> QED BY <1>1, <1>5 DEF Routing

LEMMA EmitFinalKeepsRouting ==
  ASSUME TypeOK, Routing, EmitFinal
  PROVE  Routing'
<1> DEFINE rs == Rulesets[k]
           x  == Lines(rs)[line]
<1> PICK new : new = Declaration(k, line)
  OBVIOUS
<1>1. /\ AtLine /\ phase = "rules" /\ input' = input /\ phase' = phase
      /\ k' = k /\ line' = line + 1 /\ Accepted(rs, x) /\ IsFinal(x)
      /\ rules' = rules /\ final' = rs.group
  BY DEF EmitFinal, AtLine, OtherVars
<1>2. /\ new.line = x /\ new.group = rs.group
      /\ new \in Declared
      /\ \A d \in Declared : Past(d)' <=> Past(d) \/ d = new
      /\ \A d \in Declared : Past(d) => Before(d, new) /\ d # new
      /\ InRuleset'
  BY <1>1, LineStep
<1>3. /\ Declared' = Declared
      /\ \A y : IsFinal(y)' <=> IsFinal(y)
  BY <1>1, SameInput
<1>4. Inlined' = Inlined
  BY <1>1, <1>2, <1>3 DEF Inlined
<1>5. ASSUME Comparable PROVE Catching'
  <2>1. ASSUME NEW d \in Declared, IsFinal(d.line), Past(d) PROVE FALSE
    <3>1. Before(d, new) /\ Before(new, d) /\ d # new
      BY <1>2, <1>5, <2>1, FinalIsLast DEF Comparable
    <3> QED BY <1>2, <3>1, PlacesTellApart DEF TypeOK
  <2>2. \A d \in Declared : Past(d)' /\ IsFinal(d.line) => d = new
    BY <1>2, <2>1
  <2>3. Past(new)' /\ IsFinal(new.line)
    BY <1>1, <1>2
  <2> QED BY <1>1, <1>2, <1>3, <2>2, <2>3 DEF Catching
<1> QED BY <1>1, <1>2, <1>4, <1>5, SameRulesKeepRouting

LEMMA SkipLineKeepsRouting ==
  ASSUME TypeOK, Routing, SkipLine
  PROVE  Routing'
<1> DEFINE rs == Rulesets[k]
           x  == Lines(rs)[line]
<1> PICK new : new = Declaration(k, line)
  OBVIOUS
<1>1. /\ AtLine /\ phase = "rules" /\ input' = input /\ phase' = phase
      /\ k' = k /\ line' = line + 1 /\ ~Accepted(rs, x)
      /\ rules' = rules /\ final' = final
  BY DEF SkipLine, AtLine, OtherVars
<1>2. /\ new \notin Declared
      /\ \A d \in Declared : Past(d)' <=> Past(d) \/ d = new
      /\ InRuleset'
  BY <1>1, LineStep
<1>3. /\ Declared' = Declared
      /\ \A y : IsFinal(y)' <=> IsFinal(y)
  BY <1>1, SameInput
<1>4. Inlined' = Inlined
  BY <1>2, <1>3 DEF Inlined
<1>5. ASSUME Comparable PROVE Catching'
  BY <1>1, <1>2, <1>3, <1>5 DEF Catching, Routing
<1> QED BY <1>1, <1>2, <1>4, <1>5, SameRulesKeepRouting

LEMMA RuledKeepsRouting ==
  ASSUME TypeOK, Routing, Ruled
  PROVE  Routing'
<1>1. /\ phase = "rules" /\ phase' = "done" /\ input' = input
      /\ k > Len(Rulesets) /\ rules' = rules /\ final' = final
  BY DEF Ruled, EndPass, ruleVars
<1>2. \A d \in Declared : Past(d) /\ Past(d)'
  <2> SUFFICES ASSUME NEW d \in Declared PROVE Past(d) /\ Past(d)'
    OBVIOUS
  <2>1. d.at[1] \in 1 .. Len(Rulesets) /\ k \in Nat /\ Len(Rulesets) \in Nat
    BY DeclarationFacts, InputType, LenProperties DEF TypeOK
  <2> QED BY <1>1, <2>1 DEF Past
<1>3. /\ Declared' = Declared
      /\ \A y : IsFinal(y)' <=> IsFinal(y)
  BY <1>1, SameInput
<1>4. Inlined' = Inlined
  BY <1>2, <1>3 DEF Inlined
<1>5. ASSUME Comparable PROVE Catching'
  BY <1>1, <1>2, <1>3, <1>5 DEF Catching, Routing
<1>6. InRuleset'
  BY <1>1 DEF InRuleset
<1> QED BY <1>1, <1>4, <1>5, <1>6, SameRulesKeepRouting

LEMMA RenderedKeepsRouting ==
  ASSUME TypeOK, TypeOK', Routing, Rendered
  PROVE  Routing'
<1>1. /\ phase = "groups" /\ phase' = "rules" /\ input' = input
      /\ k' = 1 /\ line' = 1 /\ final' = final
      /\ rules' = IF input.tailscale THEN <<Tailscale>> ELSE <<>>
  BY DEF Rendered, EndPass
<1>2. /\ Declared' = Declared /\ Rulesets' = Rulesets
      /\ \A t : Exempt(t)' <=> Exempt(t)
      /\ \A s : Lines(s)' = Lines(s)
  BY <1>1, SameInput
<1>3. \A d \in Declared : ~Past(d)'
  <2> SUFFICES ASSUME NEW d \in Declared PROVE ~Past(d)'
    OBVIOUS
  <2>1. Len(Rulesets) \in Nat /\ input \in Inputs
    BY InputType, LenProperties DEF TypeOK
  <2>2. d.at[1] \in 1 .. Len(Rulesets) /\ d.at[2] \in Nat \ {0}
    BY <2>1, DeclarationFacts
  <2> QED BY <1>1, <2>1, <2>2 DEF Past
<1>4. Inlined' = {}
  BY <1>2, <1>3 DEF Inlined
<1>5. Catching'
  BY <1>1, <1>2, <1>3 DEF Catching, Routing
<1>6. Tailscale' = Tailscale
  BY DEF Tailscale
<1>7. ASSUME NEW t \in Traffic, ~Exempt(t)
      PROVE  \A i \in DOMAIN rules' : t \notin Matched(rules'[i])
  <2>1. CASE input.tailscale
    <3>1. DOMAIN rules' = {1} /\ rules'[1] = Tailscale
      <4>1. DOMAIN <<Tailscale>> = 1 .. 1 /\ <<Tailscale>>[1] = Tailscale
        OBVIOUS
      <4>2. 1 .. 1 = {1}
        OBVIOUS
      <4> QED BY <1>1, <2>1, <4>1, <4>2
    <3>2. Matched(Tailscale) = Covers["tailnet"]
      BY DEF Matched, Tailscale, IsMatch
    <3> QED BY <1>7, <2>1, <3>1, <3>2 DEF Exempt
  <2>2. CASE ~input.tailscale
    BY <1>1, <2>2
  <2> QED BY <2>1, <2>2
<1>8. ASSUME NEW t \in Traffic, ~Exempt(t)
      PROVE  Agrees(rules, Inlined, t)'
  BY <1>4, <1>7, <1>8 DEF Agrees, Matched
<1>9. ASSUME NEW t \in Traffic, Exempt(t)
      PROVE  1 \in DOMAIN rules' /\ rules'[1] = Tailscale
  BY <1>1, <1>9 DEF Exempt
<1>10. InRuleset'
  <2>1. (TypeOK /\ line = 1 => InRuleset)'
    BY FirstLineInRuleset, PTL
  <2> QED BY <1>1, <2>1
<1>11. \A t \in Traffic :
         IF Exempt(t)' THEN 1 \in DOMAIN rules' /\ rules'[1] = Tailscale'
                       ELSE Agrees(rules, Inlined, t)'
  BY <1>2, <1>6, <1>8, <1>9
<1> QED BY <1>1, <1>5, <1>10, <1>11 DEF Routing

\* What is declared by a ruleset, and the rule that refers to its provider.
DeclaredBy(i) == {d \in Declared : d.at[1] = i}

ReferenceTo(rs) == [type |-> "PROVIDER", value |-> rs.url, group |-> rs.group]

LEMMA ProviderMatches ==
  ASSUME input \in Inputs, CatchAllInPlace, NEW t,
         NEW i, i \in DOMAIN Rulesets, ByProvider(Rulesets[i])
  PROVE  /\ \A d \in DeclaredBy(i) :
              Hits(d, t) => t \in Matched(ReferenceTo(Rulesets[i]))
         /\ t \in Matched(ReferenceTo(Rulesets[i]))
              => \E d \in DeclaredBy(i) : FirstLine(DeclaredBy(i), d, t)
<1> PICK D, r : D = DeclaredBy(i) /\ r = ReferenceTo(Rulesets[i])
  OBVIOUS
<1>0. D = {d \in Declared : d.at[1] = i}
  BY DEF DeclaredBy
<1> PICK rs : rs = Rulesets[i]
  OBVIOUS
<1>1. rs \in Ruleset
  BY InputType, ElementOfSeq, LenProperties
<1>2. /\ rs.source = "remote" /\ LinesOf(rs) = Lists[rs.url]
      /\ LinesOf(rs) \in Seq(Line) /\ input.target = "clash"
  BY <1>1, LinesOfType DEF ByProvider
<1> PICK ls \in Seq(Line) : ls = LinesOf(rs)
  BY <1>2
<1> DEFINE counts(x) == RuleShaped(x, TRUE) /\ Expressible("clash", x)
<1>3. r.type = "PROVIDER" /\ r.value = rs.url /\ ~IsMatch(r)
  BY DEF ReferenceTo, IsMatch
<1>4. t \in Matched(r)
        <=> \E x \in Range(ls) : counts(x) /\ t \in Covers[x.value]
  <2>1. Lists[r.value] = ls
    BY <1>2, <1>3
  <2>2. Matched(r) = UNION {Covers[x.value] :
                              x \in {y \in Range(Lists[r.value]) : counts(y)}}
    BY <1>3 DEF Matched
  <2> HIDE DEF counts
  <2>3. Matched(r) = UNION {Covers[x.value] : x \in {y \in Range(ls) : counts(y)}}
    BY <2>1, <2>2
  <2> QED BY <2>3
<1>5. \A x : Accepted(rs, x) <=> counts(x)
  BY <1>2 DEF Accepted
<1> HIDE DEF counts
<1>6. ASSUME NEW d \in D
      PROVE  /\ d.at[1] = i /\ d.at[2] \in DOMAIN ls /\ d.at[2] \in Nat
             /\ d.line = ls[d.at[2]] /\ counts(d.line) /\ ~IsMatch(d.line)
  <2>1. /\ d \in Declared /\ d.at[1] = i
        /\ d.at[2] \in Nat \ {0} /\ d.at[2] <= Len(ls)
        /\ d.line = ls[d.at[2]] /\ Accepted(rs, d.line)
    BY <1>0, DeclarationFacts
  <2>2. d.at[2] \in DOMAIN ls
    BY <2>1, LenProperties
  <2>3. ~IsMatch(d.line)
    BY <2>1 DEF CatchAllInPlace
  <2> QED BY <1>5, <2>1, <2>2, <2>3
<1>7. ASSUME NEW l \in DOMAIN ls, counts(ls[l])
      PROVE  Declaration(i, l) \in D /\ Declaration(i, l).at = <<i, l>>
             /\ Declaration(i, l).line = ls[l]
  <2>1. Declaration(i, l) \in Declared
    BY <1>5, <1>7, DeclaredIs
  <2>2. Declaration(i, l).at = <<i, l>> /\ Declaration(i, l).line = ls[l]
    BY DEF Declaration
  <2> QED BY <1>0, <2>1, <2>2
<1>8. ASSUME NEW d \in D, Hits(d, t) PROVE t \in Matched(r)
  <2>1. ls[d.at[2]] \in Range(ls)
    BY <1>6 DEF Range
  <2> QED BY <1>4, <1>6, <1>8, <2>1 DEF Hits
<1>9. ASSUME t \in Matched(r) PROVE \E d \in D : FirstLine(D, d, t)
  <2> DEFINE T == {d.at[2] : d \in {e \in D : Hits(e, t)}}
  <2>1. T \subseteq Nat
    BY <1>6
  <2>2. PICK x \in Range(ls) : counts(x) /\ t \in Covers[x.value]
    BY <1>4, <1>9
  <2>3. PICK l \in DOMAIN ls : x = ls[l]
    BY <2>2 DEF Range
  <2>4. T # {}
    <3>1. Declaration(i, l) \in D /\ Hits(Declaration(i, l), t)
      BY <1>7, <2>2, <2>3 DEF Hits
    <3> QED BY <3>1
  <2>5. PICK m \in T : \A n \in T : m <= n
    <3> HIDE DEF T
    <3> QED BY <2>1, <2>4, LeastNat
  <2>6. PICK d \in D : Hits(d, t) /\ d.at[2] = m
    OBVIOUS
  <2>7. ASSUME NEW e \in D, Hits(e, t) PROVE Before(d, e)
    <3>1. d.at[2] <= e.at[2]
      BY <2>5, <2>6, <2>7
    <3>2. d.at[1] = e.at[1]
      BY <1>6
    <3> QED BY <3>1, <3>2 DEF Before
  <2> QED BY <2>6, <2>7 DEF FirstLine
<1> QED BY <1>8, <1>9

LEMMA NextRulesetKeepsRouting ==
  ASSUME TypeOK, TypeOK', Routing, NextRuleset
  PROVE  Routing'
<1> DEFINE rs == Rulesets[k]
           r  == [type |-> "PROVIDER", value |-> rs.url, group |-> rs.group]
<1>1. /\ phase = "rules" /\ input' = input /\ phase' = phase
      /\ k <= Len(Rulesets) /\ line > Len(Lines(rs))
      /\ k' = k + 1 /\ line' = 1 /\ final' = final
      /\ rules' = IF ByProvider(rs) /\ r \notin Range(rules)
                    THEN Append(rules, r) ELSE rules
  BY DEF NextRuleset
<1>2. /\ k \in Nat \ {0} /\ line \in Nat \ {0} /\ input \in Inputs
      /\ rules \in Seq(Rule)
  BY DEF TypeOK
<1>3. rs \in Ruleset /\ k \in DOMAIN Rulesets
  BY <1>1, <1>2, InputType, ElementOfSeq, LenProperties
<1>4. /\ Declared' = Declared
      /\ Comparable' <=> Comparable
      /\ \A y : IsFinal(y)' <=> IsFinal(y)
      /\ \A t : Exempt(t)' <=> Exempt(t)
  BY <1>1, SameInput
<1>5. InRuleset'
  <2>1. (TypeOK /\ line = 1 => InRuleset)'
    BY FirstLineInRuleset, PTL
  <2> QED BY <1>1, <2>1
<1>6. \A d \in Declared :
        /\ Past(d) <=> d.at[1] < k \/ (d.at[1] = k /\ d.at[2] < line)
        /\ Past(d)' <=> d.at[1] <= k
  <2> SUFFICES ASSUME NEW d \in Declared
               PROVE  /\ Past(d) <=> d.at[1] < k \/ (d.at[1] = k /\ d.at[2] < line)
                      /\ Past(d)' <=> d.at[1] <= k
    OBVIOUS
  <2>1. d.at[1] \in Nat /\ d.at[2] \in Nat \ {0}
    <3>1. Len(Rulesets) \in Nat
      BY InputType, LenProperties DEF TypeOK
    <3> QED BY <1>2, <3>1, DeclarationFacts
  <2> QED BY <1>1, <1>2, <2>1 DEF Past
<1>7. CASE ~ByProvider(rs)
  <2>1. ASSUME NEW d \in Declared PROVE Past(d)' <=> Past(d)
    <3>1. /\ d.at[1] \in Nat /\ d.at[2] \in Nat
          /\ d.at[2] <= Len(LinesOf(Rulesets[d.at[1]]))
      <4>1. Len(Rulesets) \in Nat
        BY InputType, LenProperties DEF TypeOK
      <4> QED BY <1>2, <4>1, DeclarationFacts
    <3>2. LinesOf(rs) = Lines(rs) /\ Len(Lines(rs)) \in Nat
      BY <1>3, <1>7, LinesOfType
    <3>3. d.at[1] = k => d.at[2] <= Len(Lines(rs))
      BY <3>1, <3>2
    <3> QED BY <1>1, <1>2, <1>6, <3>1, <3>2, <3>3
  <2>2. Inlined' = Inlined
    BY <1>4, <2>1 DEF Inlined
  <2>3. Comparable => Catching'
    BY <1>1, <1>4, <2>1 DEF Catching, Routing
  <2>4. rules' = rules
    BY <1>1, <1>7
  <2> QED BY <1>1, <1>5, <2>2, <2>3, <2>4, SameRulesKeepRouting
<1>8. CASE ByProvider(rs)
  <2>1. r \in Rule
    BY <1>3, <1>8, LinesOfType DEF Rule, Ruleset
  <2>2. line = 1
    <3>1. Len(Lines(rs)) = 0
      BY <1>3, <1>8, LinesOfType
    <3> QED BY <1>1, <1>2, <3>1 DEF Routing, InRuleset
  <2>3. ASSUME NEW d \in Declared
        PROVE  /\ Past(d) <=> d.at[1] < k
               /\ Past(d)' <=> Past(d) \/ d.at[1] = k
               /\ ~IsFinal(d.line)
               /\ d.at[1] \in Nat
               /\ d.group = Rulesets[d.at[1]].group
    <3>1. /\ d.at[1] \in Nat /\ d.at[2] \in Nat \ {0}
          /\ d.group = Rulesets[d.at[1]].group
      <4>1. Len(Rulesets) \in Nat
        BY InputType, LenProperties DEF TypeOK
      <4> QED BY <1>2, <4>1, DeclarationFacts
    <3>2. ~IsFinal(d.line)
      BY <1>8 DEF ByProvider, IsFinal
    <3> QED BY <1>2, <1>6, <2>2, <3>1, <3>2
  <2>4. PICK D, E, N : /\ D = Inlined /\ E = Inlined'
                       /\ N = {d \in Declared : d.at[1] = k}
    OBVIOUS
  <2>5. E = D \cup N /\ E \ D = N /\ \A d \in D, e \in N : Before(d, e)
    <3>1. D = {d \in Declared : d.at[1] < k}
      BY <2>3, <2>4 DEF Inlined
    <3>2. E = {d \in Declared : d.at[1] < k \/ d.at[1] = k}
      BY <1>4, <2>3, <2>4 DEF Inlined
    <3>3. \A d \in D, e \in N : d.at[1] < e.at[1]
      BY <2>4, <3>1
    <3>4. D \cap N = {}
      BY <1>2, <2>3, <2>4, <3>1
    <3> QED BY <2>4, <3>1, <3>2, <3>3, <3>4 DEF Before
  <2>6. \A e \in N : e.group = r.group
    BY <2>3, <2>4
  <2>7. ASSUME Comparable, NEW t \in Traffic, ~Exempt(t)
        PROVE  Agrees(rules', E, t)
    <3>1. Agrees(rules, D, t)
      BY <1>1, <2>4, <2>7 DEF Routing
    <3>2. PICK i : i = k
      OBVIOUS
    <3>3. /\ \A d \in N : Hits(d, t) => t \in Matched(r)
          /\ t \in Matched(r) => \E d \in N : FirstLine(N, d, t)
      <4>1. CatchAllInPlace /\ ByProvider(Rulesets[i]) /\ i \in DOMAIN Rulesets
        BY <1>3, <1>8, <2>7, <3>2 DEF Comparable
      <4>2. N = DeclaredBy(i)
        BY <2>4, <3>2 DEF DeclaredBy
      <4>3. r = ReferenceTo(Rulesets[i])
        BY <3>2 DEF ReferenceTo
      <4> HIDE DEF r
      <4>4. /\ \A d \in DeclaredBy(i) :
                 Hits(d, t) => t \in Matched(ReferenceTo(Rulesets[i]))
            /\ t \in Matched(ReferenceTo(Rulesets[i]))
                 => \E d \in DeclaredBy(i) : FirstLine(DeclaredBy(i), d, t)
        BY <1>2, <4>1, ProviderMatches
      <4> QED BY <4>2, <4>3, <4>4
    <3> HIDE DEF r
    <3>4. /\ Agrees(Append(rules, r), E, t)
          /\ r \in Range(rules) => Agrees(rules, E, t)
      <4>1. D \subseteq E
        BY <2>5
      <4>2. \A d \in D, e \in E \ D : Before(d, e)
        BY <2>5
      <4>3. \A e \in E \ D : e.group = r.group /\ (Hits(e, t) => t \in Matched(r))
        BY <2>5, <2>6, <3>3
      <4>4. t \in Matched(r) => \E e \in E \ D : FirstLine(E \ D, e, t)
        BY <2>5, <3>3
      <4> QED BY <1>2, <2>1, <3>1, <4>1, <4>2, <4>3, <4>4, MoreAgrees
    <3> QED BY <1>1, <1>8, <3>4 DEF r
  <2>8. ASSUME Comparable, NEW t \in Traffic, Exempt(t)
        PROVE  1 \in DOMAIN rules' /\ rules'[1] = Tailscale
    <3>1. 1 \in DOMAIN rules /\ rules[1] = Tailscale
      BY <1>1, <2>8 DEF Routing
    <3> HIDE DEF r
    <3>2. 1 \in DOMAIN Append(rules, r) /\ Append(rules, r)[1] = Tailscale
      BY <1>2, <2>1, <3>1
    <3> QED BY <1>1, <3>1, <3>2 DEF r
  <2>9. ASSUME Comparable PROVE Catching'
    BY <1>1, <1>4, <2>3, <2>9 DEF Catching, Routing
  <2>10. ASSUME NEW t \in Traffic
         PROVE  Agrees(rules, Inlined, t)' <=> Agrees(rules', E, t)
    BY <2>4 DEF Agrees, FirstRule, FirstLine, Hits, Matched
  <2>11. Tailscale' = Tailscale
    BY DEF Tailscale
  <2>12. Comparable' => \A t \in Traffic :
           IF Exempt(t)' THEN 1 \in DOMAIN rules' /\ rules'[1] = Tailscale'
                         ELSE Agrees(rules, Inlined, t)'
    BY <1>4, <2>7, <2>8, <2>10, <2>11
  <2> QED BY <1>1, <1>4, <1>5, <2>9, <2>12 DEF Routing
<1> QED BY <1>7, <1>8

LEMMA RoutingInvariant == Spec => []Routing
<1>1. Init => Routing
  BY DEF Init, Routing, InRuleset
<1>2. TypeOK /\ TypeOK' /\ Routing /\ [Next]_vars => Routing'
  <2> SUFFICES ASSUME TypeOK, TypeOK', Routing, [Next]_vars
               PROVE  Routing'
    OBVIOUS
  <2>1. CASE /\ phase \notin {"rules", "done"}
             /\ phase' \notin {"rules", "done"} /\ final' = final
    BY <2>1 DEF Routing, InRuleset
  <2>2. CASE Emitted
    <3>1. /\ phase \notin {"rules", "done"} /\ phase' \in {"groups", "done"}
          /\ final' = final /\ input' = input
          /\ phase' = "done" => input.list \/ input.target = "v2ray"
      BY <2>2 DEF Emitted, EndPass, ruleVars
    <3> QED BY <3>1 DEF Routing, InRuleset, Comparable
  <2>3. CASE UNCHANGED vars
    <3>1. CASE phase \in {"rules", "done"}
      <4>1. /\ Declared' = Declared /\ \A x : IsFinal(x)' <=> IsFinal(x)
        BY <2>3, SameInput DEF vars
      <4>2. \A d : Past(d)' <=> Past(d)
        BY <2>3 DEF vars, Past
      <4>3. Inlined' = Inlined
        BY <4>1, <4>2 DEF Inlined
      <4>4. Catching <=> Catching'
        BY <2>3, <4>1, <4>2 DEF Catching, vars
      <4>5. InRuleset'
        <5>1. Rulesets' = Rulesets /\ \A rs : Lines(rs)' = Lines(rs)
          BY <2>3, SameInput DEF vars
        <5> QED BY <2>3, <5>1 DEF vars, InRuleset, Routing
      <4>6. UNCHANGED <<input, phase, rules>>
        BY <2>3 DEF vars
      <4> QED BY <3>1, <4>3, <4>4, <4>5, <4>6, SameRulesKeepRouting DEF Routing
    <3>2. CASE phase \notin {"rules", "done"}
      BY <2>1, <2>3, <3>2 DEF vars
    <3> QED BY <3>1, <3>2
  <2>4. CASE FilterNode \/ SortAndRestyle
    BY <2>4, <2>1 DEF FilterNode, SortAndRestyle, EndPass, ruleVars
  <2>5. CASE KeepName \/ Probe \/ RenameNode \/ Prepared
    BY <2>5, <2>1 DEF KeepName, Probe, RenameNode, Prepared, EndPass, ruleVars
  <2>6. CASE EmitNode \/ EmitGroup
    BY <2>6, <2>1 DEF EmitNode, EmitGroup, ruleVars
  <2> QED BY <2>2, <2>3, <2>4, <2>5, <2>6, EmitRuleKeepsRouting,
             EmitFinalKeepsRouting, SkipLineKeepsRouting,
             NextRulesetKeepsRouting, RuledKeepsRouting, RenderedKeepsRouting
          DEF Next
<1> QED BY <1>1, <1>2, TypeCorrect, PTL DEF Spec

\* The first of the rules, and of the declarations, is the one chosen.
LEMMA FirstRuleRoutes ==
  ASSUME TypeOK, NEW t, NEW i, FirstRule(rules, i, t)
  PROVE  Routed(t) = rules[i].group
<1> DEFINE hits == {j \in DOMAIN rules : t \in Matched(rules[j])}
           first == CHOOSE j \in hits : \A l \in hits : j <= l
<1>1. i \in hits /\ \A j \in hits : i <= j
  BY DEF FirstRule
<1>2. hits \subseteq Nat
  <2>1. DOMAIN rules = 1 .. Len(rules) /\ Len(rules) \in Nat
    BY LenProperties DEF TypeOK
  <2> QED BY <2>1
<1>3. hits # {} => Routed(t) = rules[first].group
  BY DEF Routed
<1> HIDE DEF hits
<1>4. first \in hits /\ \A j \in hits : first <= j
  BY <1>1
<1> HIDE DEF first
<1>5. first = i
  BY <1>1, <1>2, <1>4
<1> QED BY <1>1, <1>3, <1>5

LEMMA FirstLineRoutes ==
  ASSUME TypeOK, NEW t, ~Exempt(t), NEW d, FirstLine(Declared, d, t)
  PROVE  Intended(t) = d.group
<1> DEFINE hits == {e \in Declared : Hits(e, t)}
           first == CHOOSE e \in hits : \A f \in hits : Before(e, f)
<1>1. d \in hits /\ \A e \in hits : Before(d, e)
  BY DEF FirstLine
<1>2. hits # {} => Intended(t) = first.group
  BY DEF Intended, Exempt, Hits
<1>3. hits \subseteq Declared
  OBVIOUS
<1> HIDE DEF hits
<1>4. first \in hits /\ \A e \in hits : Before(first, e)
  BY <1>1
<1> HIDE DEF first
<1>5. first = d
  BY <1>1, <1>3, <1>4, PlacesTellApart DEF TypeOK
<1> QED BY <1>1, <1>2, <1>5

(* The output routes all traffic as the config does: for every target, any *)
(* number of rulesets and lists of any length, inlined or by providers     *)
(* (collectRules, buildRuleProviders and the formatters of the rules).     *)
THEOREM RoutesKeptAlways == Spec => []RoutesKept
<1>1. TypeOK /\ Routing => RoutesKept
  <2> SUFFICES ASSUME TypeOK, Routing, phase = "done", Comparable,
                      NEW t \in Traffic
               PROVE  Routed(t) = Intended(t)
    BY DEF RoutesKept, Comparable
  <2>1. Inlined = {d \in Declared : ~IsFinal(d.line)}
    BY DEF Inlined, Past
  <2>2. /\ \A d \in Declared : IsFinal(d.line) => final = d.group
        /\ (\A d \in Declared : ~IsFinal(d.line)) => final = Plain("DIRECT")
    BY DEF Routing, Catching, Past
  <2>3. CatchAllInPlace
    BY DEF Comparable
  <2>4. CASE Exempt(t)
    <3>1. 1 \in DOMAIN rules /\ rules[1] = Tailscale
      BY <2>4 DEF Routing
    <3>2. t \in Matched(rules[1])
      BY <2>4, <3>1 DEF Matched, Tailscale, IsMatch, Exempt
    <3>3. DOMAIN rules = 1 .. Len(rules)
      BY LenProperties DEF TypeOK
    <3>4. FirstRule(rules, 1, t)
      BY <3>1, <3>2, <3>3 DEF FirstRule
    <3>5. Routed(t) = Plain("DIRECT")
      BY <3>1, <3>4, FirstRuleRoutes DEF Tailscale
    <3>6. Intended(t) = Plain("DIRECT")
      BY <2>4 DEF Intended, Exempt
    <3> QED BY <3>5, <3>6
  <2>5. CASE ~Exempt(t)
    <3>1. Agrees(rules, Inlined, t)
      BY <2>5 DEF Routing
    <3>2. ASSUME NEW i \in DOMAIN rules, NEW d \in Inlined,
                 FirstRule(rules, i, t), FirstLine(Inlined, d, t),
                 rules[i].group = d.group
          PROVE  Routed(t) = Intended(t)
      <4>1. \A e \in Declared : e \in Inlined \/ Before(d, e)
        BY <2>1, <2>3, FinalIsLast
      <4>2. FirstLine(Declared, d, t)
        BY <2>1, <3>2, <4>1 DEF FirstLine
      <4> QED BY <2>5, <3>2, <4>2, FirstRuleRoutes, FirstLineRoutes
    <3>3. ASSUME \A i \in DOMAIN rules : t \notin Matched(rules[i]),
                 \A d \in Inlined : ~Hits(d, t)
          PROVE  Routed(t) = Intended(t)
      <4>1. Routed(t) = final
        BY <3>3 DEF Routed
      <4>2. CASE \E d \in Declared : IsFinal(d.line)
        <5>1. PICK d \in Declared : IsFinal(d.line)
          BY <4>2
        <5>2. Hits(d, t)
          BY <5>1 DEF Hits, IsFinal
        <5>3. ASSUME NEW e \in Declared, Hits(e, t) PROVE Before(d, e)
          <6>1. IsFinal(e.line)
            BY <2>1, <3>3, <5>3
          <6> QED BY <2>3, <6>1, FinalIsLast
        <5>4. FirstLine(Declared, d, t)
          BY <5>2, <5>3 DEF FirstLine
        <5> QED BY <2>2, <2>5, <4>1, <5>1, <5>4, FirstLineRoutes
      <4>3. CASE \A d \in Declared : ~IsFinal(d.line)
        <5>1. \A d \in Declared : ~Hits(d, t)
          BY <2>1, <3>3, <4>3
        <5>2. Intended(t) = Plain("DIRECT")
          BY <2>5, <5>1 DEF Intended, Exempt, Hits
        <5> QED BY <2>2, <4>1, <4>3, <5>2
      <4> QED BY <4>2, <4>3
    <3> QED BY <3>1, <3>2, <3>3 DEF Agrees
  <2> QED BY <2>4, <2>5
<1> QED BY <1>1, TypeCorrect, RoutingInvariant, PTL

=============================================================================
