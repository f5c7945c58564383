------------------------------ MODULE MCChain ------------------------------
(***************************************************************************)
(* The nodes the checked chains begin with.  Of every type: the node that  *)
(* holds all its fields, the nodes that lack one of them, those that hold  *)
(* nothing but one, and those with another value in one.  Of every kind of *)
(* name, a node beside one with a plain name, in both orders, with several *)
(* nodes whose line ends in a bracket.                                     *)
(***************************************************************************)
EXTENDS Chain

\* The other values of a field, and the usual one.
Separated == {"list", "unverified", "overwrites", "bracket", "colon", "percent", "slash",
              "address"}
UsualOf(field) ==
    CASE field \in Flags -> "on"
      [] field = "network" -> "ws+host"
      [] field = "plugin" -> "obfs"
      [] OTHER -> "own"
OthersOf(field) ==
    CASE field = "network" -> {"tcp", "ws", "grpc", "h2"}
      [] field = "plugin" -> {"v2ray-plugin"}
      [] field = "alpn" -> {"list", "overwrites", "bracket"}
      [] field \in {"password", "auth-str", "username", "uuid", "private-key"} -> Separated
      [] field = "sni" -> {"bracket", "percent"}
      [] OTHER -> {}

\* What a Clash document calls the server name of a node of the type.
ServerName(type) == IF type \in {"vmess", "vless"} THEN "servername" ELSE "sni"
ClashFields(type) == FieldsOf(type) \ (({"servername", "sni"} \ {ServerName(type)}) \cup {"server"})
Full(type) == [field \in ClashFields(type) |-> UsualOf(field)]

\* Reality comes with TLS.
WithoutField(type, field) ==
    Restrict(Full(type), ClashFields(type) \
        (IF field = "tls" THEN {"tls", "reality-opts"} ELSE {field}))
OnlyField(type, field) ==
    Keep(Full(type), IF field = "reality-opts" THEN {"tls", field} ELSE {field})

Variants(type) ==
    {Full(type)} \cup
    UNION {{WithoutField(type, f), OnlyField(type, f)} : f \in ClashFields(type)} \cup
    UNION {{[Full(type) EXCEPT ![f] = v] : v \in OthersOf(f)} : f \in ClashFields(type)} \cup
    {Restrict([Full(type) EXCEPT ![f] = v], {f}) :
        f \in {"username", "password", "uuid"} \cap FieldsOf(type), v \in Splits}

SomeNode(id, name, type, has) == [id |-> id, name |-> name, type |-> type, has |-> has]
Alone == UNION {{<<SomeNode(1, "plain", type, Keep(has, FieldsOf(type)))>> : has \in Variants(type)}
                : type \in Types}
Named == UNION {{<<SomeNode(1, kind, type, Full(type)), SomeNode(2, "plain", "ss", Full("ss"))>>,
                 <<SomeNode(1, "plain", "ss", Full("ss")), SomeNode(2, kind, type, Full(type))>>}
                : kind \in NameKinds, type \in {"ss", "trojan", "vmess"}}
\* Nodes whose Surge line ends in a bracket at once, or when the flag that vmess
\* readers drop no longer follows it; and one whose line does not.
EndsSo(type) ==
    CASE type = "vmess" ->
            [uuid |-> "own", tls |-> "on", servername |-> "bracket", udp |-> "on"]
      [] type = "trojan" -> [password |-> "own", sni |-> "bracket", udp |-> "on"]
      [] type = "tuic"   -> [uuid |-> "own", password |-> "own", alpn |-> "bracket"]
      [] OTHER           -> [password |-> "bracket"]
Closing == {<<SomeNode(1, "plain", "trojan", Full("trojan")),
              SomeNode(2, "bracket", type, EndsSo(type)),
              SomeNode(3, "plain", "ss", Full("ss"))>>
            : type \in {"vmess", "trojan", "tuic", "hysteria2"}}
AllPools == Alone \cup Named \cup Closing
=============================================================================
