------------------------------ MODULE Dialects ------------------------------
(***************************************************************************)
(* What becomes of one proxy node when a generator writes it in a          *)
(* dialect - Surge, Shadowrocket, sing-box, share links - and the parser   *)
(* of that dialect reads the line back.                                    *)
(*                                                                         *)
(* A node is a type and the Clash fields it holds (proxy.Proxy.Clash), and *)
(* a line is a word for the type and the parameters it carries, which bear *)
(* the names of the fields they stand for: the keys each dialect spells    *)
(* them with, and the aliases its reader accepts, are left out.  Server    *)
(* and port, which every dialect carries, are left out too, but for a      *)
(* server that a reader finds in another value: the field "server" of a    *)
(* node, which no node of a Clash document has.  The values are those that *)
(* some dialect tells apart, each with one thing in it at most:            *)
(*   "own"         the node's own value: every dialect reads it as it is   *)
(*   "list"        its own, with a comma in it                             *)
(*   "unverified"  its own, with ",skip-cert-verify=true" in it            *)
(*   "overwrites"  its own, with ",password=" and more in it               *)
(*   "bracket"     its own, and it ends in a closing bracket               *)
(*   "colon"       its own, with a colon in it                             *)
(*   "percent"     its own, with the percent-encoding of a character in it *)
(*   "slash"       its own, with a character no userinfo of a URL can hold *)
(*   "address"     its own, and it begins with a host, a port and a slash  *)
(*   "first"       what is before the comma or the colon; "rest": what is  *)
(*                 behind it                                               *)
(*   "decoded"     what the percent-encoding stands for                    *)
(*   "host"        the host name of the node's transport                   *)
(* and the flags, transports, plugins and constants by their names ("h2",  *)
(* as "ws+host", is a transport with a host).                              *)
(***************************************************************************)
EXTENDS Functions, Sequences

Flags == {"udp", "tfo", "tls", "skip-cert-verify"}

\* The Clash fields of a node of each type.
FieldsOf(type) ==
    CASE type = "ss"        -> {"cipher", "password", "udp", "tfo", "plugin"}
      [] type = "ssr"       -> {"cipher", "password", "protocol", "protocol-param",
                                "obfs", "obfs-param", "udp"}
      [] type = "vmess"     -> {"uuid", "alterId", "cipher", "udp", "tfo", "network",
                                "tls", "servername", "sni", "skip-cert-verify",
                                "alpn", "client-fingerprint"}
      [] type = "vless"     -> {"uuid", "flow", "udp", "tfo", "network", "tls",
                                "servername", "sni", "skip-cert-verify", "alpn",
                                "client-fingerprint", "reality-opts"}
      [] type = "trojan"    -> {"password", "udp", "tfo", "network", "tls", "sni",
                                "skip-cert-verify", "alpn", "client-fingerprint"}
      [] type = "hysteria2" -> {"password", "obfs", "obfs-password", "tls", "sni",
                                "skip-cert-verify", "alpn", "server"}
      [] type = "hysteria"  -> {"auth-str", "up", "down", "obfs", "protocol", "tfo",
                                "tls", "sni", "skip-cert-verify", "alpn"}
      [] type = "tuic"      -> {"uuid", "password", "congestion-controller",
                                "udp-relay-mode", "tls", "sni", "skip-cert-verify",
                                "alpn"}
      [] type = "socks5"    -> {"username", "password", "udp", "tfo", "tls", "sni"}
      [] type = "http"      -> {"username", "password", "tfo", "tls", "sni",
                                "skip-cert-verify", "alpn"}
      [] type = "wireguard" -> {"private-key", "public-key", "pre-shared-key", "ip",
                                "ipv6", "mtu", "reserved", "udp", "server"}
      [] type = "anytls"    -> {"password", "udp", "sni", "skip-cert-verify", "alpn"}
      [] type = "snell"     -> {"psk", "obfs", "obfs-host"}

Types == {"ss", "ssr", "vmess", "vless", "trojan", "hysteria2", "hysteria", "tuic",
          "socks5", "http", "wireguard", "anytls", "snell"}

Values == {"own", "list", "unverified", "overwrites", "bracket", "colon", "percent",
           "slash", "address", "first", "rest", "decoded", "host", "on", "obfs",
           "v2ray-plugin", "tcp", "ws", "ws+host", "grpc", "h2", "auto", "zero",
           "chrome", "bbr", "native", "h3"}

\* Fields are set one by one: Only is one field, and a ++ b what a and b hold
\* between them, where a field that both hold is a's (:> and @@ of module TLC).
Nothing == [field \in {} |-> "none"]
Only(field, value) == [f \in {field} |-> value]
a ++ b == [f \in DOMAIN a \cup DOMAIN b |-> IF f \in DOMAIN a THEN a[f] ELSE b[f]]
Value(has, field) == IF field \in DOMAIN has THEN has[field] ELSE "none"
Keep(has, fields) == Restrict(has, fields \cap DOMAIN has)
Set(condition, field, value) == IF condition THEN Only(field, value) ELSE Nothing
When(condition, has) == IF condition THEN has ELSE Nothing

(***************************************************************************)
(* The parts the writers share.                                            *)
(***************************************************************************)
\* getSNI: servername, or else sni.
SNI(has) ==
    IF "servername" \in DOMAIN has THEN Only("sni", has["servername"])
    ELSE Keep(has, {"sni"})

\* Mutant of HasTLS: the flag is not looked at.
HasReality(has) == "reality-opts" \in DOMAIN has
HasTLS(has) == {"tls", "reality-opts"} \cap DOMAIN has # {}
TLSParts(has) ==
    When(HasTLS(has), Only("tls", "on") ++ SNI(has) ++ Keep(has, {"skip-cert-verify"}))
\* Mutant of WSParts: the transport is written if it has headers, and without them.
WSPartsOfHost(has) ==
    Set("network" \in DOMAIN has /\ has["network"] = "ws+host", "network", "ws")
WSParts(has) ==
    When("network" \in DOMAIN has /\ has["network"] \in {"ws", "ws+host"},
         Keep(has, {"network"}))
PluginParts(has, plugins) ==
    When("plugin" \in DOMAIN has /\ has["plugin"] \in plugins, Keep(has, {"plugin"}))

(***************************************************************************)
(* The Surge family.  Shadowrocket writes four types more than Surge; both *)
(* are read by one parser.                                                 *)
(***************************************************************************)
SurgeWords(dialect) ==
    {"ss", "vmess", "trojan", "hysteria2", "socks5", "http"} \cup
    IF dialect = "shadowrocket" THEN {"hysteria", "vless", "tuic", "wireguard"} ELSE {}

SurgeWritten(type, has) ==
    CASE type = "ss" ->
            Keep(has, {"cipher", "password", "udp", "tfo"}) ++ PluginParts(has, {"obfs"})
      [] type = "vmess" ->
            Keep(has, {"uuid", "udp", "tfo"}) ++ TLSParts(has) ++ WSParts(has) ++
            Set(Value(has, "alterId") \in {"none", "zero"}, "alterId", "zero")
      [] type = "trojan" ->
            Keep(has, {"password", "skip-cert-verify", "udp", "tfo"}) ++ SNI(has) ++ WSParts(has)
      [] type = "hysteria2" -> Keep(has, {"password", "skip-cert-verify", "server"}) ++ SNI(has)
      [] type = "hysteria" ->
            Keep(has, {"auth-str", "up", "down", "skip-cert-verify", "obfs", "alpn",
                       "protocol", "tfo"}) ++ SNI(has)
      [] type = "vless" ->
            Keep(has, {"uuid", "flow", "tfo"}) ++ TLSParts(has) ++ WSParts(has) ++
            When("reality-opts" \in DOMAIN has,
                 Keep(has, {"reality-opts", "client-fingerprint"}))
      [] type = "tuic" -> Keep(has, {"password", "alpn", "skip-cert-verify"}) ++ SNI(has)
      [] type = "wireguard" -> Keep(has, FieldsOf("wireguard") \ {"udp"})
      [] type = "socks5" -> Keep(has, {"username", "password", "udp", "tfo"})
      [] type = "http" ->
            Keep(has, {"username", "password", "tfo"}) ++
            When("tls" \in DOMAIN has, TLSParts(has))

\* The fields in the order in which a line has them.  Whether the last parameter
\* of a line, and so the line, ends in a closing bracket.
SurgeOrder(word) ==
    <<"cipher", "username", "uuid", "auth-str", "up", "down", "password", "alterId",
      "tls", "sni">> \o
    (IF word = "tuic" THEN <<"alpn", "skip-cert-verify">>
     ELSE <<"skip-cert-verify", "obfs", "alpn", "protocol", "reality-opts",
            "client-fingerprint", "flow", "network", "udp", "plugin", "tfo">>) \o
    <<"private-key", "public-key", "ip", "ipv6", "pre-shared-key", "mtu", "reserved">>
EndsInBracket(word, params) ==
    LET order   == SurgeOrder(word)
        written == {k \in DOMAIN order : order[k] \in DOMAIN params}
    IN  \E k \in written : params[order[k]] = "bracket" /\ \A l \in written : l <= k

\* The reader splits a line at its commas: of a value with a comma in it the
\* parameter keeps what is before the comma, and what is behind it is a piece of
\* its own.  One with an equals sign in it is a parameter like any other, and of
\* two parameters of one name the later counts: the username is written before
\* the password, and the password of TUIC under a name that takes precedence.
\* Any other piece is a positional argument, which only the reader of SOCKS lines
\* looks at.
Splits == {"list", "unverified", "overwrites"}
Unverified(params) == \E f \in DOMAIN params : params[f] = "unverified"
Overwritten(word, params) ==
    \E f \in (DOMAIN params) \ {"cipher"} :
        /\ params[f] = "overwrites"
        /\ "password" \in DOMAIN params => f # "username" /\ word # "tuic"
Cut(word, params) ==
    Set(Unverified(params), "skip-cert-verify", "on") ++
    Set(Overwritten(word, params), "password", "rest") ++
    [f \in DOMAIN params |-> IF params[f] \in Splits THEN "first" ELSE params[f]]
Positional(params) == \E f \in DOMAIN params : params[f] = "list"

SurgeReadable(word) == word \in SurgeWords("shadowrocket") \ {"wireguard"}

\* The protocols that may run over WebSocket.
SurgeReadOverWS(word, cut) ==
    LET given == DOMAIN cut
    IN  CASE word = "vmess" ->
                Only("cipher", "auto") ++ Keep(cut, {"uuid", "tfo", "network"}) ++
                When({"tls", "sni"} \cap given # {},
                     Only("tls", "on") ++ Keep(cut, {"sni", "skip-cert-verify"}))
          [] word = "vless" ->
                Keep(cut, {"uuid", "flow", "tfo", "sni", "skip-cert-verify", "network"}) ++
                Set({"tls", "sni", "reality-opts"} \cap given # {}, "tls", "on") ++
                When("reality-opts" \in given,
                     Keep(cut, {"reality-opts", "client-fingerprint"}))
          [] word = "trojan" ->
                Only("udp", "on") ++ Only("tls", "on") ++
                Keep(cut, {"password", "sni", "skip-cert-verify", "tfo", "network"})

SurgeRead(word, params) ==
    LET cut == Cut(word, params)
    IN  CASE word \in {"vmess", "vless", "trojan"} -> SurgeReadOverWS(word, cut)
          [] word = "ss" -> Keep(cut, {"cipher", "password", "udp", "tfo", "plugin"})
          [] word = "hysteria2" -> Keep(cut, {"password", "sni", "skip-cert-verify", "server"})
          [] word = "hysteria" ->
                Keep(cut, {"auth-str", "up", "down", "sni", "obfs", "alpn", "protocol",
                           "skip-cert-verify", "tfo"})
          [] word = "tuic" -> Keep(cut, {"password", "sni", "alpn", "skip-cert-verify"})
          [] word = "socks5" ->
                Keep(cut, {"username", "password"}) ++
                Set(Positional(params), "username", "rest")
          [] word = "http" ->
                Keep(cut, {"username", "password"}) ++
                When("tls" \in DOMAIN cut, Keep(cut, {"tls", "sni"}))

(***************************************************************************)
(* sing-box.                                                               *)
(***************************************************************************)
SingboxWords == Types \ {"ssr", "anytls", "snell"}

SingboxTLS(has, always) ==
    When(always \/ HasTLS(has),
         Only("tls", "on") ++ SNI(has) ++
         Keep(has, {"skip-cert-verify", "alpn", "client-fingerprint", "reality-opts"}))
SingboxTransport(has) ==
    When("network" \in DOMAIN has /\ has["network"] # "tcp", Keep(has, {"network"}))

SingboxWritten(type, has) ==
    CASE type = "ss" ->
            Keep(has, {"cipher", "password", "tfo"}) ++
            PluginParts(has, {"obfs", "v2ray-plugin"})
      [] type = "vmess" ->
            Keep(has, {"uuid", "alterId", "cipher", "tfo"}) ++ SingboxTransport(has) ++
            Only("alterId", "zero") ++ Only("cipher", "auto") ++ SingboxTLS(has, FALSE)
      [] type = "vless" ->
            Keep(has, {"uuid", "flow", "tfo"}) ++ SingboxTransport(has) ++
            SingboxTLS(has, FALSE)
      [] type = "trojan" ->
            Keep(has, {"password", "tfo"}) ++ SingboxTransport(has) ++ SingboxTLS(has, TRUE)
      [] type = "hysteria2" ->
            Keep(has, {"password", "server"}) ++ SingboxTLS(has, TRUE) ++
            When("obfs" \in DOMAIN has, Keep(has, {"obfs", "obfs-password"}))
      [] type = "tuic" ->
            Keep(has, {"uuid", "password", "congestion-controller"}) ++ SingboxTLS(has, TRUE)
      [] type = "hysteria" ->
            Keep(has, {"auth-str", "up", "down", "obfs"}) ++ SingboxTLS(has, TRUE)
      [] type = "socks5" -> Keep(has, {"username", "password", "tfo"})
      [] type = "http" -> Keep(has, {"username", "password"}) ++ SingboxTLS(has, FALSE)
      [] type = "wireguard" -> Keep(has, FieldsOf("wireguard") \ {"udp"})

\* The reader takes everything the writer puts into an outbound but the
\* tcp_fast_open of a SOCKS one.
\* Mutant of SingboxRead: udp is set for every type.
SingboxReadWithUDP(word, params) == params ++ Only("udp", "on")
SingboxRead(word, params) ==
    Keep(params, (DOMAIN params) \ (IF word = "socks5" THEN {"tfo"} ELSE {})) ++
    Set(word = "trojan", "udp", "on")

(***************************************************************************)
(* Share links.  A vmess or vless link carries the field servername, the   *)
(* others sni: the readers of Surge and sing-box documents know only sni.  *)
(***************************************************************************)
LinkWords == Types \ {"anytls", "snell"}

\* The transport of a link: tcp if the node names none.
LinkTransport(has) == Keep(has, {"network"}) ++ Only("network", "tcp")

LinkWritten(type, has) ==
    LET servername == When("servername" \in DOMAIN has, SNI(has))
        network    == LinkTransport(has)
    IN  CASE type = "ss" ->
                Keep(has, {"cipher", "password"}) ++ PluginParts(has, {"obfs", "v2ray-plugin"})
          [] type = "vmess" ->
                Keep(has, {"uuid", "alterId", "cipher", "tls"}) ++ servername ++ network ++
                Only("alterId", "zero") ++ Only("cipher", "auto")
          [] type = "vless" ->
                Keep(has, {"uuid", "flow", "client-fingerprint", "reality-opts"}) ++
                Set(HasTLS(has), "tls", "on") ++ servername ++ network
          [] type = "trojan" -> Keep(has, {"password", "sni", "skip-cert-verify"}) ++ network
          [] type = "hysteria2" ->
                Keep(has, {"password", "sni", "skip-cert-verify", "alpn", "server"}) ++
                When("obfs" \in DOMAIN has, Keep(has, {"obfs", "obfs-password"}))
          [] type = "tuic" -> Keep(has, FieldsOf("tuic") \ {"tls"})
          [] type = "socks5" -> Keep(has, {"username", "password"})
          [] type = "http" -> Keep(has, {"username", "password", "tls"})
          [] type = "wireguard" -> Keep(has, FieldsOf("wireguard") \ {"udp"})
          [] type = "hysteria" -> Keep(has, FieldsOf("hysteria") \ {"tls", "tfo"})
          [] type = "ssr" -> Keep(has, FieldsOf("ssr") \ {"udp"})

\* What a link has in its userinfo as it is, without escaping it.  A slash in it
\* ends the authority, so that host and port are not found, or in its beginning.
Unescaped(word) ==
    CASE word = "vless" -> {"uuid"}
      [] word \in {"trojan", "hysteria2"} -> {"password"}
      [] word = "tuic" -> {"uuid", "password"}
      [] word = "wireguard" -> {"private-key"}
      [] OTHER -> {}
Misleads(word, params) ==
    \E f \in Unescaped(word) \cap DOMAIN params : params[f] = "address"
\* What a reader insists on besides host and port.
Demanded(word) ==
    CASE word = "ss" -> {"cipher"}
      [] word \in {"vmess", "vless", "tuic"} -> {"uuid"}
      [] word = "trojan" -> {"password"}
      [] OTHER -> {}
LinkReadable(word, params) ==
    /\ word # "http"                                   \* no parser for http(s) links
    /\ Demanded(word) \subseteq DOMAIN params
    /\ \A f \in Unescaped(word) \cap DOMAIN params : params[f] \notin {"slash", "bracket"}
    /\ Misleads(word, params) => word \in {"hysteria2", "wireguard"}

\* The userinfo is decoded, and a reader takes what is before its first colon; the
\* reader of TUIC links, which have two fields in it, takes what is behind it too.
UserPart(word, params) ==
    [f \in DOMAIN params |->
        IF f \notin Unescaped(word) THEN params[f]
        ELSE IF params[f] = "percent" THEN "decoded"
        ELSE IF params[f] = "colon" /\ <<word, f>> # <<"tuic", "password">> THEN "first"
        ELSE params[f]]
User(word, params) ==
    IF Misleads(word, params)
    THEN Keep(params, (DOMAIN params) \ Unescaped(word)) ++ Only("server", "first")
    ELSE Set(word = "tuic" /\ Value(params, "uuid") = "colon", "password", "rest") ++
         UserPart(word, params)

ReadVMess(params) ==
    Keep(params, (DOMAIN params) \ {"sni"}) ++ Only("udp", "on") ++
    When("tls" \in DOMAIN params,
         IF "sni" \in DOMAIN params THEN Only("servername", params["sni"])
         ELSE Set(params["network"] \in {"ws+host", "h2"}, "servername", "host"))
ReadVLESS(params) ==
    Keep(User("vless", params), {"uuid", "flow", "network", "tls", "reality-opts"}) ++
    Only("udp", "on") ++
    When("tls" \in DOMAIN params,
         Keep(params, {"client-fingerprint"}) ++ Only("client-fingerprint", "chrome") ++
         Set("sni" \in DOMAIN params, "servername", Value(params, "sni")))
ReadTrojan(params) ==
    Keep(User("trojan", params), {"password", "sni", "skip-cert-verify"}) ++ Only("udp", "on") ++
    When(params["network"] \notin {"tcp", "h2"}, Keep(params, {"network"}))
ReadTUIC(params) ==
    User("tuic", params) ++ Only("congestion-controller", "bbr") ++
    Only("udp-relay-mode", "native") ++ Only("alpn", "h3")

LinkRead(word, params) ==
    CASE word = "vmess"     -> ReadVMess(params)
      [] word = "vless"     -> ReadVLESS(params)
      [] word = "trojan"    -> ReadTrojan(params)
      [] word = "tuic"      -> ReadTUIC(params)
      [] word = "hysteria2" -> User(word, params)
      [] word = "hysteria"  -> params
      [] word \in {"ss", "ssr", "socks5", "wireguard"} ->
            User(word, params) ++ Only("udp", "on")
=============================================================================
