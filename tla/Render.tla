------------------------------- MODULE Render -------------------------------
(***************************************************************************)
(* The generators: from the parsed nodes of the subscriptions to the nodes *)
(* and policy groups of the output, for every target.  prepareNodes        *)
(* filters, sorts, restyles and uniquifies the nodes; the generator of the *)
(* target then drops the nodes the target cannot express, resolves the     *)
(* groups of the external config against what is left and drops, or not,   *)
(* the references that would dangle.                                       *)
(*                                                                         *)
(* The rules come last: the lines of the rulesets that are rule-shaped and *)
(* that the target can express, in the order of the external config.  They *)
(* are the rules as generated: what a clash_rule_base makes of them is     *)
(* part of Convert.                                                        *)
(*                                                                         *)
(* An iteration of a loop over nodes, groups or rules is a step.  The      *)
(* passes that filter the nodes look at one node at a time, and are one    *)
(* loop here; so are the parsing and the formatting of the rules.  The     *)
(* text of the nodes, of the groups and of the rules is left out.          *)
(***************************************************************************)
EXTENDS Rules, FiniteSets, Functions

CONSTANTS
  Inputs,      \* the inputs: a subset of Input
  Words,       \* the words names are made of
  Emojis,
  Servers,     \* what makes two nodes of one type different connections
  Precedes     \* the order of strings on the names of the inputs' nodes

Types == {"ss", "ssr", "vmess", "vless", "trojan", "hysteria", "hysteria2",
          "tuic", "anytls", "socks5", "http", "wireguard", "snell"}

\* A name: "[SS] ", emojis, a word, and the numbers uniquifyNames appends.
Name == [type : Types \cup {"none"}, emojis : Seq(Emojis), word : Words,
         numbers : Seq(Nat)]

Plain(word) == [type |-> "none", emojis |-> <<>>, word |-> word,
                numbers |-> <<>>]

\* The empty string, which a rename or the removal of emojis may leave.
NoName == Plain("")

\* deprecated: a Shadowsocks node with a cipher Clash does not know.
Node == [name : Name, type : Types, server : Servers, deprecated : BOOLEAN]

\* A literal names a group or a builtin policy, or a node; a pattern, a
\* regular expression, is a word to be found in a name.
Selector == [kind : {"literal"}, name : Name] \cup [kind : {"all"}]
              \cup [kind : {"pattern"}, part : Words \cup Types \cup Emojis]

GroupDef == [name : Name, selectors : Seq(Selector)]

\* PROVIDER: a RULE-SET that refers to the rule-provider of a URL.
Rule == [type : CanonicalTypes \cup {"PROVIDER"}, value : Values \cup Urls,
         group : Name]

\* neither: "ruleset=group,[]", which is neither a URL nor an inline rule.
Ruleset == [source : {"inline"}, group : Name, line : Line]
             \cup [source : {"remote"}, group : Name, url : Urls]
             \cup [source : {"neither"}, group : Name]

Targets == {"clash", "surge", "shadowrocket", "loon", "quanx", "singbox",
            "v2ray"}

\* excluded: the protocols the request or the config excludes.  exclude and
\* include: patterns on names.  style: what applyNodeOptions does, append_type,
\* remove_emoji, the rename rules, and the emoji it adds for each word, if any.
Style == [type : BOOLEAN, bare : BOOLEAN, rename : [Words -> Words],
          emoji : [Words -> Emojis \cup {"none"}]]

Input == [target : Targets, nodes : Seq(Node), excluded : SUBSET Types,
          exclude : SUBSET (Words \cup Types \cup Emojis),
          include : SUBSET (Words \cup Types \cup Emojis),
          deprecated : BOOLEAN, dedup : BOOLEAN, sort : BOOLEAN,
          style : Style, list : BOOLEAN, groups : Seq(GroupDef),
          generator : BOOLEAN, rulesets : Seq(Ruleset), expand : BOOLEAN,
          tailscale : BOOLEAN]

ASSUME RenderAssumption ==
  /\ Inputs \subseteq Input
  /\ Precedes \subseteq Name \X Name
  /\ {"", "DIRECT", "REJECT", "REJECT-DROP"} \subseteq Words
  /\ "none" \notin Types \cup Emojis
  /\ "IP-CIDR" \in RuleTypes /\ "tailnet" \in Values

-----------------------------------------------------------------------------
(* What the targets know: the case labels of each node renderer.           *)

SurgeTypes == {"ss", "vmess", "trojan", "hysteria2", "socks5", "http"}

ShadowrocketTypes ==
  SurgeTypes \cup {"hysteria", "vless", "tuic", "wireguard"}

LoonTypes == {"ss", "vmess", "trojan", "vless", "hysteria2", "hysteria",
              "tuic", "wireguard", "socks5", "http"}

QuanXTypes == {"ss", "vmess", "vless", "trojan", "socks5", "http"}

SingboxTypes == {"ss", "vmess", "vless", "trojan", "hysteria2", "tuic",
                 "socks5", "http", "wireguard", "hysteria"}

LinkTypes == SingboxTypes \cup {"ssr"}

Supported(target) ==
  CASE target = "clash" -> Types
    [] target = "surge" -> SurgeTypes
    [] target = "shadowrocket" -> ShadowrocketTypes
    [] target = "loon" -> LoonTypes
    [] target = "quanx" -> QuanXTypes
    [] target = "singbox" -> SingboxTypes
    [] target = "v2ray" -> LinkTypes

SurgeFamily == {"surge", "shadowrocket", "loon"}

Builtins == {Plain("DIRECT"), Plain("REJECT"), Plain("REJECT-DROP")}

-----------------------------------------------------------------------------

VARIABLES
  input,
  phase,        \* the pass under way
  k,            \* its loop variable
  nodes,        \* the nodes that are left
  dropped,      \* how many nodes each filter dropped (in Result, but for remarks)
  suffix,       \* the loop variable of uniquifyNames' inner loop
  seen,         \* uniquifyNames: the names taken
  proxies,      \* output: the names of the nodes, in order
  skipped,      \* Result.SkippedNodes
  groups,       \* output: the groups
  emptyGroups,  \* Result.EmptyGroups
  line,         \* the loop variable over the lines of a ruleset
  rules,        \* output: the rules, in order
  final,        \* output: sing-box's route.final
  skippedRules  \* Result.SkippedRules, as places in the rulesets

ruleVars == <<line, rules, final, skippedRules>>

vars == <<input, phase, k, nodes, dropped, suffix, seen, proxies, skipped,
          groups, emptyGroups, line, rules, final, skippedRules>>

Filters == {"excluded", "remarks", "deprecated", "duplicate"}

Init ==
  /\ input \in Inputs
  /\ phase = "filter"
  /\ k = 1
  /\ nodes = <<>>
  /\ dropped = [f \in Filters |-> 0]
  /\ suffix = 2
  /\ seen = {}
  /\ proxies = <<>>
  /\ skipped = <<>>
  /\ groups = <<>>
  /\ emptyGroups = <<>>
  /\ line = 1
  /\ rules = <<>>
  /\ final = Plain("DIRECT")
  /\ skippedRules = {}

EndPass(next) == phase' = next /\ k' = 1

-----------------------------------------------------------------------------
(* prepareNodes.                                                           *)

\* Whether a pattern is found in a name.
Matches(part, name) == part \in {name.type, name.word} \cup Range(name.emojis)

MatchesAny(parts, name) == \E part \in parts : Matches(part, name)

Connection(n) == <<n.type, n.server, n.deprecated>>

\* Mutant of IsDuplicate: dedup runs before the other filters.
IsDuplicateOfAny(n) ==
  \E j \in 1 .. k - 1 : Connection(input.nodes[j]) = Connection(n)

IsDuplicate(n) == \E m \in Range(nodes) : Connection(m) = Connection(n)

\* The filter that drops n, in the order of the passes, or "none".
DroppedBy(n) ==
  CASE n.type \in input.excluded -> "excluded"
    [] MatchesAny(input.exclude, n.name) -> "remarks"
    [] input.include # {} /\ ~MatchesAny(input.include, n.name) -> "remarks"
    [] input.deprecated /\ n.deprecated -> "deprecated"
    [] input.dedup /\ IsDuplicate(n) -> "duplicate"
    [] OTHER -> "none"

FilterNode ==
  /\ phase = "filter"
  /\ k <= Len(input.nodes)
  /\ LET n == input.nodes[k]
     IN  IF DroppedBy(n) = "none"
           THEN nodes' = Append(nodes, n) /\ UNCHANGED dropped
           ELSE /\ dropped' = [dropped EXCEPT ![DroppedBy(n)] = @ + 1]
                /\ UNCHANGED nodes
  /\ k' = k + 1
  /\ UNCHANGED <<input, phase, suffix, seen, proxies, skipped, groups,
                 emptyGroups, ruleVars>>

\* p is the order that a stable sort by name puts the nodes in.
Sorts(p) ==
  /\ Range(p) = DOMAIN nodes
  /\ \A i, j \in DOMAIN nodes :
       i < j =>
         /\ <<nodes[p[j]].name, nodes[p[i]].name>> \notin Precedes
         /\ p[i] > p[j] => <<nodes[p[i]].name, nodes[p[j]].name>> \in Precedes

\* Mutant of AddEmoji: a name no rule matches gets an emoji as well.
AddSomeEmoji(name) ==
  [name EXCEPT !.emojis = <<input.style.emoji[name.word]>> \o @]

\* emoji.Add: the first rule that matches, if any does.
AddEmoji(name) ==
  IF input.style.emoji[name.word] = "none"
    THEN name
    ELSE [name EXCEPT !.emojis = <<input.style.emoji[name.word]>> \o @]

\* applyNodeOptions on one name.
Restyled(name, type) ==
  LET s       == input.style
      typed   == IF s.type THEN [name EXCEPT !.type = type] ELSE name
      bare    == IF s.bare THEN [typed EXCEPT !.emojis = <<>>] ELSE typed
      renamed == [bare EXCEPT !.word = s.rename[@]]
  IN  AddEmoji(renamed)

\* The sort, which sees the names as they came, and applyNodeOptions.
SortAndRestyle ==
  /\ phase = "filter"
  /\ k > Len(input.nodes)
  /\ \E p \in [DOMAIN nodes -> DOMAIN nodes] :
       /\ IF input.sort THEN Sorts(p) ELSE \A i \in DOMAIN nodes : p[i] = i
       /\ nodes' = [i \in DOMAIN nodes |->
                      [nodes[p[i]] EXCEPT !.name =
                         Restyled(@, nodes[p[i]].type)]]
  /\ EndPass("uniquify")
  /\ UNCHANGED <<input, dropped, suffix, seen, proxies, skipped, groups,
                 emptyGroups, ruleVars>>

Numbered(name, i) == [name EXCEPT !.numbers = Append(@, i)]

Candidate == Numbered(nodes[k].name, suffix)

\* Mutant of Probing: the first duplicate gets " 2", taken or not.
NeverProbing == FALSE

Probing == Candidate \in seen

\* uniquifyNames, a name nobody has.
KeepName ==
  /\ phase = "uniquify"
  /\ k <= Len(nodes)
  /\ nodes[k].name \notin seen
  /\ seen' = seen \cup {nodes[k].name}
  /\ k' = k + 1
  /\ UNCHANGED <<input, phase, nodes, dropped, suffix, proxies, skipped,
                 groups, emptyGroups, ruleVars>>

\* Mutant of NextSuffix: the suffix stays at 2.
SameSuffix == suffix

NextSuffix == suffix + 1

\* The inner loop: the candidate is taken.
Probe ==
  /\ phase = "uniquify"
  /\ k <= Len(nodes)
  /\ nodes[k].name \in seen
  /\ Probing
  /\ suffix' = NextSuffix
  /\ UNCHANGED <<input, phase, k, nodes, dropped, seen, proxies, skipped,
                 groups, emptyGroups, ruleVars>>

\* The candidate is free.
RenameNode ==
  /\ phase = "uniquify"
  /\ k <= Len(nodes)
  /\ nodes[k].name \in seen
  /\ ~Probing
  /\ nodes' = [nodes EXCEPT ![k].name = Candidate]
  /\ seen' = seen \cup {Candidate}
  /\ suffix' = 2
  /\ k' = k + 1
  /\ UNCHANGED <<input, phase, dropped, proxies, skipped, groups, emptyGroups,
                 ruleVars>>

Prepared ==
  /\ phase = "uniquify"
  /\ k > Len(nodes)
  /\ EndPass("emit")
  /\ UNCHANGED <<input, nodes, dropped, suffix, seen, proxies, skipped, groups,
                 emptyGroups, ruleVars>>

-----------------------------------------------------------------------------
(* The generator of the target.                                            *)

\* A node is rendered or skipped.
EmitNode ==
  /\ phase = "emit"
  /\ k <= Len(nodes)
  /\ IF nodes[k].type \in Supported(input.target)
       THEN proxies' = Append(proxies, nodes[k].name) /\ UNCHANGED skipped
       ELSE skipped' = Append(skipped, nodes[k].name) /\ UNCHANGED proxies
  /\ k' = k + 1
  /\ UNCHANGED <<input, phase, nodes, dropped, suffix, seen, groups,
                 emptyGroups, ruleVars>>

\* list=true, and the list of share links, end here.
Emitted ==
  /\ phase = "emit"
  /\ k > Len(nodes)
  /\ EndPass(IF input.list \/ input.target = "v2ray" THEN "done" ELSE "groups")
  /\ UNCHANGED <<input, nodes, dropped, suffix, seen, proxies, skipped, groups,
                 emptyGroups, ruleVars>>

NodeNames == {n.name : n \in Range(nodes)}

GroupNames == {d.name : d \in Range(input.groups)}

\* Mutant of Chosen: patterns see the names as they came.
ChosenByOldNames(sel) ==
  CASE sel.kind = "literal" -> {sel.name}
    [] sel.kind = "all" -> Range(proxies)
    [] sel.kind = "pattern" ->
         {n.name : n \in {m \in Range(input.nodes) : Matches(sel.part, m.name)}}

\* What a selector gives: patterns see all nodes, ".*" the rendered ones.
Chosen(sel) ==
  CASE sel.kind = "literal" -> {sel.name}
    [] sel.kind = "all" -> Range(proxies)
    [] sel.kind = "pattern" -> {m \in NodeNames : Matches(sel.part, m)}

\* resolveSelectors: the members, as a set, none of them without a name.
Resolved(d) == (UNION {Chosen(sel) : sel \in Range(d.selectors)}) \ {NoName}

\* buildGroups.
Members(d) == IF Resolved(d) = {} THEN {Plain("DIRECT")} ELSE Resolved(d)

\* Mutant of Referable: QuanX and sing-box too keep every reference.
ReferableUnchecked(m) ==
  IF input.target \in SurgeFamily THEN m \in Builtins \cup Range(proxies)
                                  ELSE TRUE

\* The members the target's group formatter keeps.  In the Surge family
\* isNodeName, which is to let groups pass, only lets the builtins pass.
Referable(m) ==
  CASE input.target = "clash" -> TRUE
    [] input.target \in SurgeFamily -> m \in Builtins \cup Range(proxies)
    [] OTHER -> m \in Builtins \cup GroupNames \cup Range(proxies)

\* Mutant of Formatted: a group may be left empty.
FormattedOrEmpty(ms) == {m \in ms : Referable(m)}

Formatted(ms) ==
  LET kept == {m \in ms : Referable(m)}
  IN  IF kept = {} THEN {Plain("DIRECT")} ELSE kept

EmitGroup ==
  /\ phase = "groups"
  /\ k <= Len(input.groups)
  /\ LET d == input.groups[k]
     IN  /\ groups' = Append(groups, [name |-> d.name,
                                      members |-> Formatted(Members(d))])
         /\ emptyGroups' = IF Resolved(d) = {} THEN Append(emptyGroups, d.name)
                                               ELSE emptyGroups
  /\ k' = k + 1
  /\ UNCHANGED <<input, phase, nodes, dropped, suffix, seen, proxies, skipped,
                 ruleVars>>

Tailscale == [type |-> "IP-CIDR", value |-> "tailnet",
              group |-> Plain("DIRECT")]

\* The groups are done; &tailscale=true puts its rules before all others.
Rendered ==
  /\ phase = "groups"
  /\ k > Len(input.groups)
  /\ EndPass("rules")
  /\ line' = 1
  /\ rules' = IF input.tailscale THEN <<Tailscale>> ELSE <<>>
  /\ UNCHANGED <<input, nodes, dropped, suffix, seen, proxies, skipped, groups,
                 emptyGroups, final, skippedRules>>

-----------------------------------------------------------------------------
(* The rules.                                                              *)

Rulesets == IF input.generator THEN input.rulesets ELSE <<>>

\* Whether a ruleset becomes a rule-provider of Clash.
ByProvider(rs) ==
  input.target = "clash" /\ ~input.expand /\ rs.source = "remote"

\* The lines of a ruleset that are looked at here.
Lines(rs) ==
  CASE rs.source = "inline" -> <<rs.line>>
    [] rs.source = "remote" -> IF ByProvider(rs) THEN <<>> ELSE Lists[rs.url]
    [] rs.source = "neither" -> <<>>

Accepted(rs, x) ==
  RuleShaped(x, rs.source = "remote") /\ Expressible(input.target, x)

IsFinal(x) == input.target = "singbox" /\ IsMatch(x)

\* Mutant of Placed: later rules go first.
PlacedFirst(rule) == <<rule>> \o rules

Placed(rule) == Append(rules, rule)

AtLine ==
  /\ phase = "rules"
  /\ k <= Len(Rulesets)
  /\ line <= Len(Lines(Rulesets[k]))

OtherVars == <<input, phase, k, nodes, dropped, suffix, seen, proxies, skipped,
               groups, emptyGroups>>

\* A rule of the output.
EmitRule ==
  /\ AtLine
  /\ LET rs == Rulesets[k]
         x  == Lines(rs)[line]
     IN  /\ Accepted(rs, x) /\ ~IsFinal(x)
         /\ rules' = Placed([type |-> Canonical(x.type), value |-> x.value,
                             group |-> rs.group])
  /\ line' = line + 1
  /\ UNCHANGED <<OtherVars, final, skippedRules>>

\* sing-box has a field for the catch-all, wherever it comes from.
EmitFinal ==
  /\ AtLine
  /\ LET rs == Rulesets[k]
         x  == Lines(rs)[line]
     IN  /\ Accepted(rs, x) /\ IsFinal(x)
         /\ final' = rs.group
  /\ line' = line + 1
  /\ UNCHANGED <<OtherVars, rules, skippedRules>>

\* A line that cannot be expressed; one with too many fields is not reported.
SkipLine ==
  /\ AtLine
  /\ LET rs == Rulesets[k]
         x  == Lines(rs)[line]
     IN  /\ ~Accepted(rs, x)
         /\ skippedRules' =
              IF RuleShaped(x, rs.source = "remote") \/ Reported(x)
                THEN skippedRules \cup {<<k, line>>}
                ELSE skippedRules
  /\ line' = line + 1
  /\ UNCHANGED <<OtherVars, rules, final>>

\* The lines of a ruleset are done.  A rule-provider is referred to once for
\* each group.
NextRuleset ==
  /\ phase = "rules"
  /\ k <= Len(Rulesets)
  /\ line > Len(Lines(Rulesets[k]))
  /\ LET rs == Rulesets[k]
         r  == [type |-> "PROVIDER", value |-> rs.url, group |-> rs.group]
     IN  rules' = IF ByProvider(rs) /\ r \notin Range(rules)
                    THEN Append(rules, r) ELSE rules
  /\ k' = k + 1
  /\ line' = 1
  /\ UNCHANGED <<input, phase, nodes, dropped, suffix, seen, proxies, skipped,
                 groups, emptyGroups, final, skippedRules>>

\* The rules that were generated.  A clash_rule_base may replace them by its
\* own, or have them merged into it: clash.go:208-219, which is FinalRules of
\* Convert, since the base is fetched and the fetch may fail.
Ruled ==
  /\ phase = "rules"
  /\ k > Len(Rulesets)
  /\ EndPass("done")
  /\ UNCHANGED <<input, nodes, dropped, suffix, seen, proxies, skipped, groups,
                 emptyGroups, ruleVars>>

Next ==
  \/ FilterNode \/ SortAndRestyle
  \/ KeepName \/ Probe \/ RenameNode \/ Prepared
  \/ EmitNode \/ Emitted \/ EmitGroup \/ Rendered
  \/ EmitRule \/ EmitFinal \/ SkipLine \/ NextRuleset \/ Ruled

Spec == Init /\ [][Next]_vars

\* The loops run on.
FairSpec == Spec /\ WF_vars(Next)

-----------------------------------------------------------------------------
(* Properties.                                                             *)

TypeOK ==
  /\ input \in Inputs
  /\ phase \in {"filter", "uniquify", "emit", "groups", "rules", "done"}
  /\ k \in Nat \ {0}
  /\ nodes \in Seq(Node)
  /\ dropped \in [Filters -> Nat]
  /\ suffix \in Nat \ {0, 1}
  /\ seen \subseteq Name
  /\ proxies \in Seq(Name)
  /\ skipped \in Seq(Name)
  /\ groups \in Seq([name : Name, members : SUBSET Name])
  /\ emptyGroups \in Seq(Name)
  /\ line \in Nat \ {0}
  /\ rules \in Seq(Rule)
  /\ final \in Name
  /\ skippedRules \subseteq Nat \X Nat

(* No two nodes of the output have the same name, whatever the names were, *)
(* were renamed to or are left without, and though a numbered name may be  *)
(* another node's own (common.go, uniquifyNames).                          *)
NamesDistinct ==
  \A i, j \in DOMAIN proxies : i # j => proxies[i] # proxies[j]

(* In the Surge family, in QuanX and in sing-box no group refers to a node *)
(* that was not rendered or to nothing at all (surge.go, quanx.go and      *)
(* singbox.go, "so a group never points at a missing node line").          *)
ReferencesResolve ==
  input.target # "clash" =>
    \A g \in Range(groups) :
      g.members \subseteq Builtins \cup GroupNames \cup Range(proxies)

(* No group is without members, whatever was dropped from it (clash.go,    *)
(* buildGroups; "if that empties the group it falls back to DIRECT").      *)
NoGroupEmpty == \A g \in Range(groups) : g.members # {}

(* A group has every rendered node that one of its selectors matches, by   *)
(* the name the node has in the output ("so proxy-group member lists stay  *)
(* in sync", clash.go, applyNodeOptions).                                  *)
GroupsFollowNames ==
  \A i \in DOMAIN groups :
    \A name \in Range(proxies) \ {NoName} :
      \A sel \in Range(input.groups[i].selectors) :
        sel.kind = "all" \/ (sel.kind = "pattern" /\ Matches(sel.part, name))
          => name \in groups[i].members

\* What the filters say of a node when it is alone.
Wanted(n) ==
  /\ n.type \notin input.excluded
  /\ ~MatchesAny(input.exclude, n.name)
  /\ input.include # {} => MatchesAny(input.include, n.name)
  /\ input.deprecated => ~n.deprecated

(* Dedup drops names, never a connection: of the nodes that pass the other *)
(* filters at least one of each connection is left, though its duplicates  *)
(* are filtered out by their names (common.go, the order of the passes).   *)
NoConnectionLost ==
  phase # "filter" =>
    \A n \in Range(input.nodes) :
      Wanted(n) => \E m \in Range(nodes) : Connection(m) = Connection(n)

\* What a rule of the output matches.  Clash reads the lists of providers.
Matched(r) ==
  CASE r.type = "PROVIDER" ->
         UNION {Covers[x.value] :
                  x \in {y \in Range(Lists[r.value]) :
                           RuleShaped(y, TRUE) /\ Expressible("clash", y)}}
    [] IsMatch(r) -> Traffic
    [] OTHER -> Covers[r.value]

\* Where the output sends traffic t: the first rule that matches decides.
Routed(t) ==
  LET hits == {i \in DOMAIN rules : t \in Matched(rules[i])}
  IN  IF hits = {} THEN final
      ELSE rules[CHOOSE i \in hits : \A j \in hits : i <= j].group

\* The lines of the config, by ruleset and line, that the target can express.
Declared ==
  LET Of(rs) == IF rs.source = "remote" THEN Lists[rs.url] ELSE Lines(rs)
  IN  UNION {{[at |-> <<i, l>>, line |-> Of(Rulesets[i])[l],
               group |-> Rulesets[i].group] :
                l \in {m \in DOMAIN Of(Rulesets[i]) :
                         Accepted(Rulesets[i], Of(Rulesets[i])[m])}} :
               i \in DOMAIN Rulesets}

Before(d, e) ==
  d.at[1] < e.at[1] \/ (d.at[1] = e.at[1] /\ d.at[2] <= e.at[2])

\* Where the config sends it, as its author would read it.
Intended(t) ==
  LET hits == {d \in Declared : IsMatch(d.line) \/ t \in Covers[d.line.value]}
  IN  IF input.tailscale /\ t \in Covers["tailnet"] THEN Plain("DIRECT")
      ELSE IF hits = {} THEN Plain("DIRECT")
      ELSE (CHOOSE d \in hits : \A e \in hits : Before(d, e)).group

\* sing-box applies a catch-all last, and providers have none.
CatchAllInPlace ==
  \A d \in Declared :
    IsMatch(d.line) =>
      /\ input.target = "singbox" => \A e \in Declared : Before(e, d)
      /\ ~ByProvider(Rulesets[d.at[1]])

(* The output routes all traffic as the rules of the config do that the    *)
(* target can express: inlined, left to rule-providers that are named once *)
(* for each group, or with the catch-all moved to sing-box's final         *)
(* (common.go, collectRules; clash.go, buildRuleProviders; singbox.go).    *)
RoutesKept ==
  phase = "done" /\ ~input.list /\ input.target # "v2ray" /\ CatchAllInPlace
    => \A t \in Traffic : Routed(t) = Intended(t)

(* uniquifyNames finds a free name for every node, so rendering ends.      *)
EveryRenderEnds == <>(phase = "done")

-----------------------------------------------------------------------------
(* What a comment says and the code does not do.                           *)

(* surge.go, formatSurgeGroup: "Keep builtins/group refs; drop references  *)
(* to nodes we didn't emit".  The references to other groups are dropped.  *)
GroupReferencesKept ==
  input.target \in SurgeFamily =>
    \A i \in DOMAIN groups :
      Members(input.groups[i]) \cap GroupNames \subseteq groups[i].members

=============================================================================
