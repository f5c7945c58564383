------------------------------- MODULE Chain -------------------------------
(***************************************************************************)
(* Conversions in a chain: what this program publishes in one format is    *)
(* itself a subscription, which another conversion - of another instance,  *)
(* or of the same one for another client - fetches, parses and publishes   *)
(* again in any format.  On its way a document may be base64-encoded by    *)
(* the host that serves it.                                                *)
(*                                                                         *)
(* The nodes are those a Clash document can hold: the first conversion of  *)
(* the chain has read one.                                                 *)
(***************************************************************************)
EXTENDS Documents

CONSTANTS
    Pools,      \* the node lists the chain may begin with
    MaxHops,    \* bound on the conversions of a chain
    MaxWraps    \* bound on how often a document is wrapped (one of links is when published)

\* The lists of nodes a Clash document can hold.  The names of servers, and what has
\* a vocabulary of its own, have nothing in them that separates.
Worded(type) == IF type = "ssr" THEN {"cipher", "protocol", "obfs"} ELSE {"cipher"}
ASSUME ChainAssumption ==
    /\ MaxHops \in Nat /\ MaxWraps \in Nat \ {0}
    /\ \A nodes \in Pools :
          /\ nodes \in Seq(Range(nodes))
          /\ \A n \in Range(nodes) :
                /\ IsNode(n)
                /\ "server" \notin DOMAIN n.has
                /\ \A f \in {"sni", "servername"} : Value(n.has, f) \notin Splits
                /\ \A f \in Worded(n.type) : Value(n.has, f) \in {"none", "own", "auto"}
          /\ \A i, j \in DOMAIN nodes : i < j => nodes[i].id < nodes[j].id

VARIABLES
    origin,     \* the nodes the chain began with
    pool,       \* the nodes the last conversion read
    doc,        \* the document on its way to the next one, or NoDoc
    from,       \* the nodes that document was made of
    route,      \* the dialects of the documents so far
    reported,   \* the nodes the last hop reported as skipped
    unread      \* the last document was reported as a whole

vars == <<origin, pool, doc, from, route, reported, unread>>

NoDoc == [form |-> "none"]

Init ==
    /\ origin \in Pools
    /\ pool = origin
    /\ doc = NoDoc
    /\ from = <<>>
    /\ route = <<>>
    /\ reported = {}
    /\ unread = FALSE

\* A conversion without nodes is an error and publishes nothing.
Publish(dialect, listOnly) ==
    /\ doc = NoDoc /\ pool # <<>> /\ Len(route) < MaxHops
    /\ doc' = Published(dialect, listOnly, pool)
    /\ from' = pool
    /\ route' = Append(route, dialect)
    /\ reported' = {n.id : n \in {m \in Range(pool) : ~HasForm(dialect, m)}}
    /\ unread' = FALSE
    /\ UNCHANGED <<origin, pool>>

Wrap ==
    /\ doc # NoDoc /\ doc.wraps < MaxWraps
    /\ doc' = [doc EXCEPT !.wraps = @ + 1]
    /\ UNCHANGED <<origin, pool, from, route, reported, unread>>

Subscribe ==
    /\ doc # NoDoc
    /\ LET parsed == Parse(doc)
       IN  /\ pool' = parsed.nodes
           /\ reported' = reported \cup parsed.skipped
           /\ unread' = parsed.unread
    /\ doc' = NoDoc
    /\ UNCHANGED <<origin, from, route>>

Next ==
    \/ \E dialect \in DialectNames, listOnly \in BOOLEAN : Publish(dialect, listOnly)
    \/ Wrap
    \/ Subscribe

Spec == Init /\ [][Next]_vars
----------------------------------------------------------------------------
Ids(nodes) == {n.id : n \in Range(nodes)}
Origin(n)  == CHOOSE o \in Range(origin) : o.id = n.id
HopsBy(dialects)  == {i \in DOMAIN route : route[i] \in dialects}

(***************************************************************************)
(* A reader gives a node only the fields its type has in a Clash document, *)
(* and nodes stay in their order, one of each.                             *)
(***************************************************************************)
TypeOK ==
    /\ \A n \in Range(pool) : IsNode(n)
    /\ \A i, j \in DOMAIN pool : i < j => pool[i].id < pool[j].id
    /\ doc # NoDoc => doc.wraps \in 0..MaxWraps
    /\ Len(route) <= MaxHops

(***************************************************************************)
(* No node disappears without a word, whichever format it passes through   *)
(* and however the document is wrapped: it is read back, or the writer or  *)
(* the reader reports it, or the document is reported as a whole.  Two     *)
(* things about Surge lines are the exception: a name may make a line a    *)
(* comment, or, with a bracket at its end, the header of a section, behind *)
(* which there are no nodes; the reader drops them without a word.  And    *)
(* nothing but nodes of this hop that are gone is reported.                *)
(***************************************************************************)
ClosesSection(dialect, n) == HasForm(dialect, n) /\ Closes(Written(dialect, n))
Unreported(n) ==
    /\ Last(route) \in {"surge", "shadowrocket"}
    /\ \/ n.name = "comment"
       \/ \E i, j \in DOMAIN from :
             i <= j /\ from[j] = n /\ ClosesSection(Last(route), from[i])
AllAccounted ==
    doc = NoDoc /\ route # <<>> =>
        /\ \A n \in Range(from) :
              \/ n.id \in Ids(pool) \cup reported
              \/ unread
              \/ Unreported(n)
        /\ reported \subseteq Ids(from) \ Ids(pool)

(***************************************************************************)
(* What a node proves itself with, what it connects to and how well it is  *)
(* protected survive any chain of formats, but for what the separators of  *)
(* a Surge line and the userinfo of a share link do to a value:            *)
(*  - a secret that had a value is that value, or the part of it before a  *)
(*    separator of the format, or decoded; it is another only if a value   *)
(*    of the node sets the password (a Surge line), or the uuid of a TUIC  *)
(*    node has a colon (a link); it is lost only with the server, to a     *)
(*    password or key that begins as an address (a link), besides the uuid *)
(*    of a TUIC node in a Shadowrocket line; the cipher of a VMess node    *)
(*    becomes auto;                                                        *)
(*  - the server is another only in that case;                             *)
(*  - certificate verification is never turned off, unless a value of the  *)
(*    node does it (a Surge line);                                         *)
(*  - a vmess, vless or http node keeps TLS, a vless node keeps Reality;   *)
(*  - a node that uses TLS keeps its server name, except that vmess and    *)
(*    vless links are made with another field than the one the readers of  *)
(*    Surge and sing-box documents fill: a share link loses the name of a  *)
(*    node that has it there.                                              *)
(***************************************************************************)
Secrets == {"cipher", "password", "uuid", "username", "auth-str", "private-key",
            "public-key", "pre-shared-key"}

HoldsA(n, value) == value \in Range(Origin(n).has)
Surged == HopsBy({"surge", "shadowrocket"}) # {}
Linked == HopsBy({"v2ray"}) # {}
Misled(n, field) ==
    /\ n.type \in {"hysteria2", "wireguard"} /\ field \in Unescaped(n.type)
    /\ Value(Origin(n).has, field) = "address" /\ Linked

SecretKept(n, field) ==
    LET was == Value(Origin(n).has, field)
        now == Value(n.has, field)
    IN  \/ now = was
        \/ now = "first" /\ was \in Splits /\ Surged
        \/ now = "first" /\ was = "colon" /\ field \in Unescaped(n.type) /\ Linked
        \/ now = "decoded" /\ was = "percent" /\ field \in Unescaped(n.type) /\ Linked
        \/ now = "rest" /\ field = "password" /\ HoldsA(n, "overwrites") /\ Surged
        \/ now = "rest" /\ field = "password" /\ n.type = "tuic" /\ Linked
              /\ Value(Origin(n).has, "uuid") = "colon"
        \/ now = "rest" /\ field = "username" /\ was = "none" /\ Surged
              /\ HoldsA(n, "list")
        \/ now = "none" /\ Misled(n, field)
        \/ now = "none" /\ field = "uuid" /\ n.type = "tuic" /\ HopsBy({"shadowrocket"}) # {}
        \/ now = "auto" /\ field = "cipher" /\ n.type = "vmess"

ServerKept(n) == "server" \in DOMAIN n.has => \E field \in Secrets : Misled(n, field)

ServerNameLost(n) ==
    /\ n.type \in {"vmess", "vless"}
    /\ \E j \in HopsBy({"v2ray"}) :
          \/ "servername" \notin DOMAIN Origin(n).has
          \/ \E i \in HopsBy({"surge", "shadowrocket", "singbox"}) : i < j

Protected(n) ==
    LET o == Origin(n)
        lasting(fields) == fields \cap DOMAIN o.has \subseteq DOMAIN n.has
    IN  /\ "skip-cert-verify" \in DOMAIN n.has =>
              "skip-cert-verify" \in DOMAIN o.has \/ (HoldsA(n, "unverified") /\ Surged)
        /\ n.type \in {"vmess", "vless", "http"} => lasting({"tls"})
        /\ n.type = "vless" => lasting({"reality-opts"})
        /\ (n.type \notin {"vmess", "vless", "http", "socks5"} \/ "tls" \in DOMAIN o.has) =>
              \/ SNI(o.has) = Nothing
              \/ SNI(n.has) = SNI(o.has)
              \/ n.type = "socks5"
              \/ ServerNameLost(n)

Faithful ==
    \A n \in Range(pool) :
        /\ n.type = Origin(n).type
        /\ \A field \in Secrets : SecretKept(n, field)
        /\ ServerKept(n)
        /\ Protected(n)

(***************************************************************************)
(* What a format cannot carry it loses at once: a second hop through the   *)
(* same format changes no node and loses none - if no node's line is taken *)
(* for the header of a section: the first hop may have taken the parameter *)
(* away that stood behind the bracket - and if none skips a verification   *)
(* that it has not: of a VLESS node without TLS, where a value set it, the *)
(* reader takes it and the writer does not.                                *)
(***************************************************************************)
Again ==
    /\ Len(route) >= 2 /\ Last(route) = route[Len(route) - 1]
    /\ doc # NoDoc /\ doc.wraps <= 1
    /\ Last(route) \in {"surge", "shadowrocket"} =>
          \A n \in Range(from) :
             /\ ~ClosesSection(Last(route), n)
             /\ n.type = "vless" /\ "skip-cert-verify" \in DOMAIN n.has => HasTLS(n.has)
Settles == [][Again /\ doc' = NoDoc => pool' = from]_vars
=============================================================================
