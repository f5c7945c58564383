------------------------------ MODULE MCRender ------------------------------
(* Instances of Render: small lists of nodes, and what is asked of them.   *)
EXTENDS Render

InputWords == {"hk", "us", "home", "proxy", "auto", "",
               "DIRECT", "REJECT", "REJECT-DROP"}

Flags == {"flag"}

N(word, emojis, numbers, type, server, deprecated) ==
  [name |-> [type |-> "none", emojis |-> emojis, word |-> word,
             numbers |-> numbers],
   type |-> type, server |-> server, deprecated |-> deprecated]

Hk     == N("hk", <<>>, <<>>, "ss", "s1", FALSE)
HkToo  == N("hk", <<>>, <<>>, "ss", "s2", TRUE)
HkTwo  == N("hk", <<>>, <<2>>, "trojan", "s1", FALSE)
HkFlag == N("hk", <<"flag">>, <<>>, "ss", "s1", FALSE)
Us     == N("us", <<>>, <<>>, "tuic", "s1", FALSE)
NoWord == N("", <<"flag">>, <<>>, "ss", "s2", FALSE)

Of(ns, lengths) == UNION {[1 .. l -> ns] : l \in lengths}

RawNames == {n.name : n \in {Hk, HkTwo, HkFlag, Us, NoWord}}

\* The flag comes after the letters, and a name before its extensions.
NameOrder ==
  {<<a, b>> \in RawNames \X RawNames :
     \/ a.emojis = <<>> /\ b.emojis # <<>>
     \/ a.emojis = b.emojis /\ a.word = "hk" /\ b.word = "us"
     \/ a.emojis # <<>> /\ b.emojis # <<>> /\ a.word = "" /\ b.word # ""
     \/ a.emojis = <<>> /\ a.word = "hk" /\ b.word = "hk" /\ a.numbers = <<>>
          /\ b.numbers = <<2>>}

Same == [w \in InputWords |-> w]
UsAsHk == [Same EXCEPT !["us"] = "hk"]
NoEmoji == [w \in InputWords |-> "none"]
HkEmoji == [NoEmoji EXCEPT !["hk"] = "flag"]

Styles(types, bares) ==
  [type : types, bare : bares, rename : {Same, UsAsHk},
   emoji : {NoEmoji, HkEmoji}]

PlainStyle == [type |-> FALSE, bare |-> FALSE, rename |-> Same,
               emoji |-> NoEmoji]

Literal(word) == [kind |-> "literal", name |-> Plain(word)]
All == [kind |-> "all"]
Pattern(part) == [kind |-> "pattern", part |-> part]

\* A selector of everything else, a group of a pattern that may match
\* nothing, a group that names a builtin, and one with a dangling reference.
SomeGroups ==
  <<[name |-> Plain("proxy"),
     selectors |-> <<Literal("auto"), Literal("DIRECT"), All>>],
    [name |-> Plain("auto"), selectors |-> <<Pattern("hk")>>],
    [name |-> Plain("home"),
     selectors |-> <<Pattern("us"), Literal("us"), Literal("auto")>>]>>

Asked(targets, lists, excluded, exclude, include, flags, sorts, styles, onlys) ==
  [target : targets, nodes : lists, excluded : excluded, exclude : exclude,
   include : include, deprecated : flags, dedup : flags, sort : sorts,
   style : styles, list : onlys, groups : {SomeGroups},
   generator : {TRUE}, rulesets : {<<>>}, expand : {TRUE}, tailscale : {FALSE}]

\* Names that collide, and every target.
Naming ==
  Asked(Targets, Of({Hk, HkTwo, HkFlag, Us, NoWord}, {3}), {{}}, {{}}, {{}},
        {FALSE}, {FALSE}, Styles({FALSE}, BOOLEAN), {FALSE})

\* Four nodes that end up with one name, with and without their types.
Crowded ==
  Asked({"clash"}, Of({Hk, HkTwo, HkFlag}, {4}), {{}}, {{}}, {{}}, {FALSE},
        BOOLEAN, Styles(BOOLEAN, {TRUE}), BOOLEAN)

\* Every filter.
Filtering ==
  Asked({"surge", "clash"}, Of({Hk, HkToo, HkTwo, HkFlag, Us}, {3}),
        {{}, {"tuic", "trojan"}}, {{}, {"flag"}}, {{}, {"flag", "us"}},
        BOOLEAN, {TRUE}, {PlainStyle}, {FALSE})

L(type, value, fields) == [type |-> type, value |-> value, fields |-> fields]

SomeTypes == {"DOMAIN", "HOST-SUFFIX", "USER-AGENT", "GEOSITE", "DEST-PORT",
              "DIRECT-SUFFIX", "IP-CIDR", "AND", "FINAL", "MATCH"}

SomeValues == {"a", "ab", "b", "80", "80-90", "tailnet"}

MatchedBy ==
  [v \in SomeValues |->
     CASE v \in {"a", "80"} -> {"a"}
       [] v \in {"b", "80-90"} -> {"b"}
       [] v = "ab" -> {"a", "b"}
       [] v = "tailnet" -> {"tailnet"}]

\* l1: a typo and a type few targets know.  l2: a flag, a line that is not a
\* rule, and a compound rule.  l3: a port range and a catch-all.
SomeLists ==
  [u \in {"l1", "l2", "l3"} |->
     CASE u = "l1" -> <<L("DOMAIN", "a", 2), L("DIRECT-SUFFIX", "b", 2),
                        L("USER-AGENT", "b", 2)>>
       [] u = "l2" -> <<L("DOMAIN", "a", 1), L("HOST-SUFFIX", "ab", 3),
                        L("AND", "a", 4)>>
       [] u = "l3" -> <<L("DEST-PORT", "80-90", 2), L("MATCH", "a", 1)>>]

Inline(l, word) == [source |-> "inline", group |-> Plain(word), line |-> l]
Remote(url, word) == [source |-> "remote", group |-> Plain(word), url |-> url]

SomeRulesets ==
  {Remote("l1", "proxy"), Remote("l1", "auto"), Remote("l2", "auto"),
   Remote("l3", "home"), Inline(L("GEOSITE", "a", 2), "home"),
   Inline(L("AND", "ab", 4), "home"), Inline(L("DEST-PORT", "80", 2), "auto"),
   Inline(L("FINAL", "a", 1), "proxy"),
   [source |-> "neither", group |-> Plain("proxy")]}

\* Rulesets for every target.
Ruling ==
  [target : Targets, nodes : {<<Hk>>}, excluded : {{}}, exclude : {{}},
   include : {{}}, deprecated : {FALSE}, dedup : {FALSE}, sort : {FALSE},
   style : {PlainStyle}, list : {FALSE}, groups : {<<>>},
   generator : BOOLEAN, rulesets : Of(SomeRulesets, {3}), expand : BOOLEAN,
   tailscale : BOOLEAN]

AllInputs ==
  Naming \cup Crowded \cup Filtering
    \cup {i \in Ruling : i.target # "clash" => i.expand /\ i.generator}

SurgeInputs ==
  Asked({"surge"}, {<<Hk>>}, {{}}, {{}}, {{}}, {FALSE}, {FALSE}, {PlainStyle},
        {FALSE})

=============================================================================
