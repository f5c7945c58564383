-------------------------------- MODULE Rules -------------------------------
(***************************************************************************)
(* The lines of rulesets, and which of them each target can express.       *)
(*                                                                         *)
(* A line is TYPE,VALUE with an optional flag, or a lone FINAL or MATCH;   *)
(* fields is the number of its comma-separated fields, 4 standing for      *)
(* every larger one.  What a value matches is a set of traffic.            *)
(***************************************************************************)
EXTENDS Integers, Sequences

CONSTANTS
  RuleTypes,   \* the types that occur, unknown ones included
  Values,      \* the values that occur
  Numbers,     \* the values strconv.Atoi accepts
  Urls,        \* the URLs of the remote rulesets
  Lists,       \* what each URL serves
  Traffic,     \* the kinds of traffic that can be told apart
  Covers       \* what each value matches

Line == [type : RuleTypes, value : Values, fields : 1 .. 4]

ASSUME RulesAssumption ==
  /\ {"MATCH", "FINAL"} \subseteq RuleTypes
  /\ Numbers \subseteq Values
  /\ Lists \in [Urls -> Seq(Line)]
  /\ Covers \in [Values -> SUBSET Traffic]

\* normalizeRuleType.
Canonical(type) ==
  CASE type = "HOST" -> "DOMAIN"
    [] type \in {"HOST-SUFFIX", "HOST-WILDCARD"} -> "DOMAIN-SUFFIX"
    [] type = "HOST-KEYWORD" -> "DOMAIN-KEYWORD"
    [] type = "DEST-PORT" -> "DST-PORT"
    [] type = "IP6-CIDR" -> "IP-CIDR6"
    [] OTHER -> type

CanonicalTypes == {Canonical(type) : type \in RuleTypes}

IsMatch(line) == line.type \in {"MATCH", "FINAL"}

\* parseRemoteRuleset splits at every comma, parseInlineRule at the first.
RuleShaped(line, remote) ==
  \/ line.fields = 1 /\ IsMatch(line)
  \/ IF remote THEN line.fields \in {2, 3} ELSE line.fields >= 2

\* A line that is not rule-shaped is reported if it has but one field; one
\* with too many is not.
Reported(line) == line.fields = 1

-----------------------------------------------------------------------------
(* What the targets accept.                                                *)

ClashRuleTypes ==
  {"DOMAIN", "DOMAIN-SUFFIX", "DOMAIN-KEYWORD", "DOMAIN-REGEX", "GEOSITE",
   "IP-CIDR", "IP-CIDR6", "IP-SUFFIX", "IP-ASN", "GEOIP", "SRC-GEOIP",
   "SRC-IP-CIDR", "SRC-IP-SUFFIX", "SRC-IP-ASN", "DST-PORT", "SRC-PORT",
   "IN-PORT", "IN-TYPE", "IN-USER", "IN-NAME", "PROCESS-NAME",
   "PROCESS-PATH", "PROCESS-NAME-REGEX", "PROCESS-PATH-REGEX", "NETWORK",
   "DSCP", "UID", "RULE-SET", "AND", "OR", "NOT", "SUB-RULE"}

SurgeRuleTypes ==
  {"DOMAIN", "DOMAIN-SUFFIX", "DOMAIN-KEYWORD", "IP-CIDR", "IP-CIDR6",
   "IP-ASN", "GEOIP", "DST-PORT", "SRC-PORT", "IN-PORT", "SRC-IP-CIDR",
   "PROCESS-NAME", "USER-AGENT", "URL-REGEX", "RULE-SET", "AND", "OR", "NOT"}

QuanXRuleTypes ==
  {"DOMAIN", "DOMAIN-SUFFIX", "DOMAIN-KEYWORD", "IP-CIDR", "IP-CIDR6",
   "GEOIP", "USER-AGENT", "DST-PORT", "SRC-PORT"}

SingboxRuleTypes ==
  {"DOMAIN", "DOMAIN-SUFFIX", "DOMAIN-KEYWORD", "DOMAIN-REGEX", "GEOSITE",
   "GEOIP", "IP-CIDR", "IP-CIDR6", "SRC-IP-CIDR", "DST-PORT", "SRC-PORT",
   "IP-ASN", "PROCESS-NAME"}

\* singboxRouteRule parses the values of these.
SingboxNumeric == {"DST-PORT", "SRC-PORT", "IP-ASN"}

\* Whether the rule formatter of the target has a form for the line.
Expressible(target, line) ==
  LET type == Canonical(line.type)
  IN  \/ IsMatch(line)
      \/ target = "clash" /\ type \in ClashRuleTypes
      \/ target \in {"surge", "shadowrocket", "loon"} /\ type \in SurgeRuleTypes
      \/ target = "quanx" /\ type \in QuanXRuleTypes
      \/ /\ target = "singbox" /\ type \in SingboxRuleTypes
         /\ type \in SingboxNumeric => line.value \in Numbers

=============================================================================
