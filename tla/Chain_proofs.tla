---------------------------- MODULE Chain_proofs ----------------------------
(***************************************************************************)
(* Proofs about Chain, for every list of nodes a chain may begin with, any *)
(* number of hops in any order of formats, and any number of wrappings.    *)
(*                                                                         *)
(* The argument: a table per format says what each field of a node of each *)
(* type holds after a hop (SurgeTable, SingboxTable, LinkTable), and from  *)
(* the table what every hop keeps (Carried) and that a second hop changes  *)
(* nothing, unless it goes through Surge and the node skips a verification *)
(* that it has not (Secured).  A published document is read in the places  *)
(* of its node lines, up to one that closes [Proxy] (LinesFacts,           *)
(* ProxySection, BodyFacts, ParseFacts), so that a hop makes of a list of  *)
(* nodes another one, each node of which is the hop of one of the first    *)
(* (Takes).  The inductive invariant IInv says of a document on its way    *)
(* what it was made of, and of every node which one it once was (Traced).  *)
(***************************************************************************)
EXTENDS Chain, LeastNumbers, SequenceTheorems, TLAPS

-----------------------------------------------------------------------------
(***************************************************************************)
(* The fields of a node: what the operators of Dialects do to the value of *)
(* each.  Two sets of fields are the same if every field has the same      *)
(* value in them.                                                          *)
(***************************************************************************)
Fields(h) == h \in [DOMAIN h -> Values]

\* A field that is not there has no value of a field.
LEMMA NoneNoValue == "none" \notin Values
BY DEF Values

\* A field is there if it has a value.
LEMMA ValueFacts ==
  ASSUME NEW h, Fields(h)
  PROVE  \A f : /\ Value(h, f) \in Values \cup {"none"}
                /\ f \in DOMAIN h <=> Value(h, f) # "none"
BY NoneNoValue DEF Fields, Value

\* Fields with the same values are the same.
LEMMA SameFields ==
  ASSUME NEW a, NEW b, Fields(a), Fields(b), \A f : Value(a, f) = Value(b, f)
  PROVE  a = b
<1>1. \A f : f \in DOMAIN a <=> f \in DOMAIN b
  BY ValueFacts
<1>2. DOMAIN a = DOMAIN b
  BY <1>1
<1>3. \A f \in DOMAIN a : a[f] = b[f]
  BY <1>2 DEF Value
<1> QED BY <1>2, <1>3 DEF Fields

LEMMA NothingFields == Fields(Nothing) /\ \A f : Value(Nothing, f) = "none"
BY DEF Fields, Nothing, Value

LEMMA OnlyFields ==
  ASSUME NEW x, NEW v \in Values
  PROVE  /\ Fields(Only(x, v))
         /\ \A f : Value(Only(x, v), f) = IF f = x THEN v ELSE "none"
BY DEF Fields, Only, Value

LEMMA KeepFields ==
  ASSUME NEW h, Fields(h), NEW S
  PROVE  /\ Fields(Keep(h, S))
         /\ \A f : Value(Keep(h, S), f) = IF f \in S THEN Value(h, f) ELSE "none"
BY DEF Fields, Keep, Restrict, Value

LEMMA OverFields ==
  ASSUME NEW a, NEW b, Fields(a), Fields(b)
  PROVE  /\ Fields(a ++ b)
         /\ \A f : Value(a ++ b, f) = IF Value(a, f) # "none" THEN Value(a, f) ELSE Value(b, f)
BY NoneNoValue DEF Fields, Value, ++

LEMMA WhenFields ==
  ASSUME NEW c \in BOOLEAN, NEW h, c => Fields(h)
  PROVE  /\ Fields(When(c, h))
         /\ \A f : Value(When(c, h), f) = IF c THEN Value(h, f) ELSE "none"
BY NothingFields DEF When

LEMMA SetFields ==
  ASSUME NEW c \in BOOLEAN, NEW x, NEW v, c => v \in Values
  PROVE  /\ Fields(Set(c, x, v))
         /\ \A f : Value(Set(c, x, v), f) = IF c /\ f = x THEN v ELSE "none"
BY NothingFields, OnlyFields DEF Set

\* What is left of a value when the line it is in is split at its commas.
CutValue(v) == IF v \in Splits THEN "first" ELSE v

\* The value of a parameter when another may have set it.
CutOf(word, h, f) ==
    IF f = "skip-cert-verify" /\ Unverified(h) THEN "on"
    ELSE IF f = "password" /\ Overwritten(word, h) THEN "rest"
    ELSE CutValue(Value(h, f))

LEMMA CutFields ==
  ASSUME NEW h, Fields(h), NEW word
  PROVE  /\ Fields(Cut(word, h))
         /\ \A f : Value(Cut(word, h), f) = CutOf(word, h, f)
<1> DEFINE skip == Set(Unverified(h), "skip-cert-verify", "on")
           set  == Set(Overwritten(word, h), "password", "rest")
           rest == [f \in DOMAIN h |-> IF h[f] \in Splits THEN "first" ELSE h[f]]
<1>0. Unverified(h) \in BOOLEAN /\ Overwritten(word, h) \in BOOLEAN
      /\ {"on", "rest"} \subseteq Values
  BY DEF Unverified, Overwritten, Values
<1>1. /\ Fields(skip)
      /\ \A f : Value(skip, f) = IF Unverified(h) /\ f = "skip-cert-verify" THEN "on" ELSE "none"
  <2> HIDE DEF skip
  <2>1. CASE Unverified(h)
    BY <1>0, <2>1, OnlyFields DEF Set, skip
  <2>2. CASE ~Unverified(h)
    BY <2>2, NothingFields DEF Set, skip
  <2> QED BY <1>0, <2>1, <2>2
<1>2. /\ Fields(set)
      /\ \A f : Value(set, f) = IF Overwritten(word, h) /\ f = "password" THEN "rest" ELSE "none"
  <2> HIDE DEF set
  <2>1. CASE Overwritten(word, h)
    BY <1>0, <2>1, OnlyFields DEF Set, set
  <2>2. CASE ~Overwritten(word, h)
    BY <2>2, NothingFields DEF Set, set
  <2> QED BY <1>0, <2>1, <2>2
<1>3. Fields(rest) /\ \A f : Value(rest, f) = CutValue(Value(h, f))
  <2>1. "first" \in Values /\ "none" \notin Splits
    BY DEF Values, Splits
  <2> QED BY <2>1 DEF Fields, Value, CutValue
<1>4. Cut(word, h) = skip ++ set ++ rest
  BY DEF Cut
<1> HIDE DEF skip, set, rest
<1>5. /\ Fields(skip ++ set)
      /\ \A f : Value(skip ++ set, f) = IF Value(skip, f) # "none" THEN Value(skip, f)
                                         ELSE Value(set, f)
  BY <1>1, <1>2, OverFields
<1>6. /\ Fields((skip ++ set) ++ rest)
      /\ \A f : Value((skip ++ set) ++ rest, f) =
           IF Value(skip ++ set, f) # "none" THEN Value(skip ++ set, f) ELSE Value(rest, f)
  BY <1>3, <1>5, OverFields
<1> QED
  <2>1. \A f : Value((skip ++ set) ++ rest, f) = CutOf(word, h, f)
    BY <1>1, <1>2, <1>3, <1>5, <1>6 DEF CutOf
  <2> QED BY <1>4, <1>6, <2>1

\* What is not there gets a value all the same.
Default(v, given) == IF v = "none" THEN given ELSE v

\* What a reader of links makes of a value of the userinfo.
Misleading(word, h) == \E f \in Unescaped(word) : Value(h, f) = "address"
UserOf(word, h, f) ==
    IF Misleading(word, h)
    THEN IF f \in Unescaped(word) THEN "none"
         ELSE IF f = "server" THEN Default(Value(h, f), "first") ELSE Value(h, f)
    ELSE IF word = "tuic" /\ f = "password" /\ Value(h, "uuid") = "colon" THEN "rest"
    ELSE IF f \notin Unescaped(word) THEN Value(h, f)
    ELSE IF Value(h, f) = "percent" THEN "decoded"
    ELSE IF Value(h, f) = "colon" /\ ~(word = "tuic" /\ f = "password") THEN "first"
    ELSE Value(h, f)

LEMMA MisleadsFields ==
  ASSUME NEW h, Fields(h), NEW word
  PROVE  Misleads(word, h) <=> Misleading(word, h)
<1>1. "address" # "none"
  OBVIOUS
<1>2. \A f : f \in DOMAIN h /\ h[f] = "address" <=> Value(h, f) = "address"
  BY <1>1 DEF Value
<1> QED BY <1>2 DEF Misleads, Misleading

LEMMA UserFields ==
  ASSUME NEW h, Fields(h), NEW word
  PROVE  /\ Fields(User(word, h))
         /\ \A f : Value(User(word, h), f) = UserOf(word, h, f)
<1>0. {"first", "rest", "decoded"} \subseteq Values
  BY DEF Values
<1>1. CASE Misleading(word, h)
  <2> DEFINE kept == Keep(h, (DOMAIN h) \ Unescaped(word))
  <2>1. User(word, h) = kept ++ Only("server", "first")
    BY <1>1, MisleadsFields DEF User
  <2>2. /\ Fields(kept)
        /\ \A f : Value(kept, f) = IF f \in Unescaped(word) THEN "none" ELSE Value(h, f)
    BY KeepFields, ValueFacts
  <2>3. "server" \notin Unescaped(word)
    BY DEF Unescaped
  <2> HIDE DEF kept
  <2>4. /\ Fields(kept ++ Only("server", "first"))
        /\ \A f : Value(kept ++ Only("server", "first"), f) =
              IF Value(kept, f) # "none" THEN Value(kept, f) ELSE Value(Only("server", "first"), f)
    BY <1>0, <2>2, OnlyFields, OverFields
  <2>5. \A f : Value(Only("server", "first"), f) = IF f = "server" THEN "first" ELSE "none"
    BY <1>0, OnlyFields
  <2>6. \A f : UserOf(word, h, f) = IF f \in Unescaped(word) THEN "none"
                                    ELSE IF f = "server" THEN Default(Value(h, f), "first")
                                    ELSE Value(h, f)
    BY <1>1 DEF UserOf
  <2> QED BY <2>1, <2>2, <2>3, <2>4, <2>5, <2>6 DEF Default
<1>2. CASE ~Misleading(word, h)
  <2> DEFINE c == word = "tuic" /\ Value(h, "uuid") = "colon"
             set == Set(c, "password", "rest")
             part == UserPart(word, h)
  <2>1. User(word, h) = set ++ part
    BY <1>2, MisleadsFields DEF User
  <2>2. /\ Fields(set)
        /\ \A f : Value(set, f) = IF c /\ f = "password" THEN "rest" ELSE "none"
    <3>1. CASE c
      BY <1>0, <3>1, OnlyFields DEF Set
    <3>2. CASE ~c
      BY <3>2, NothingFields DEF Set
    <3> QED BY <3>1, <3>2
  <2>3. \A f : <<word, f>> # <<"tuic", "password">> <=> ~(word = "tuic" /\ f = "password")
    OBVIOUS
  <2>4. /\ Fields(part)
        /\ \A f : Value(part, f) =
              IF f \notin Unescaped(word) THEN Value(h, f)
              ELSE IF Value(h, f) = "percent" THEN "decoded"
              ELSE IF Value(h, f) = "colon" /\ ~(word = "tuic" /\ f = "password") THEN "first"
              ELSE Value(h, f)
    <3>1. DOMAIN part = DOMAIN h
      BY DEF UserPart
    <3>2. \A f \in DOMAIN h : part[f] = IF f \notin Unescaped(word) THEN h[f]
              ELSE IF h[f] = "percent" THEN "decoded"
              ELSE IF h[f] = "colon" /\ ~(word = "tuic" /\ f = "password") THEN "first"
              ELSE h[f]
      BY <2>3 DEF UserPart
    <3>3. part = [f \in DOMAIN part |-> part[f]]
      BY DEF UserPart
    <3> HIDE DEF part
    <3>4. Fields(part)
      BY <1>0, <3>1, <3>2, <3>3 DEF Fields
    <3> QED BY <3>1, <3>2, <3>4 DEF Value
  <2> HIDE DEF set, part
  <2>5. /\ Fields(set ++ part)
        /\ \A f : Value(set ++ part, f) = IF Value(set, f) # "none" THEN Value(set, f)
                                           ELSE Value(part, f)
    BY <2>2, <2>4, OverFields
  <2>6. \A f : Value(set ++ part, f) = UserOf(word, h, f)
    BY <1>2, <2>2, <2>4, <2>5 DEF UserOf
  <2> QED BY <2>1, <2>5, <2>6
<1> QED BY <1>1, <1>2

Name(h) == IF Value(h, "servername") # "none" THEN Value(h, "servername") ELSE Value(h, "sni")

\* The server name a format without servername gives a node.
LEMMA SNIFields ==
  ASSUME NEW h, Fields(h)
  PROVE  /\ Fields(SNI(h))
         /\ \A f : Value(SNI(h), f) = IF f = "sni" THEN Name(h) ELSE "none"
<1>1. CASE "servername" \in DOMAIN h
  <2>1. Value(h, "servername") = h["servername"] /\ h["servername"] \in Values
    BY <1>1 DEF Value, Fields
  <2> QED BY <1>1, <2>1, OnlyFields, NoneNoValue DEF SNI, Name
<1>2. CASE "servername" \notin DOMAIN h
  BY <1>2, KeepFields DEF SNI, Name, Value
<1> QED BY <1>1, <1>2

LEMMA TLSFields ==
  ASSUME NEW h, Fields(h)
  PROVE  /\ HasTLS(h) \in BOOLEAN
         /\ HasTLS(h) <=> Value(h, "tls") # "none" \/ Value(h, "reality-opts") # "none"
BY ValueFacts DEF HasTLS

(***************************************************************************)
(* Picked: which positions a loop takes.  What the loop computes for the   *)
(* length of a list is shown by the least length it would fail for.        *)
(***************************************************************************)
\* What the loop of Picked(S, n) keeps as it runs.
Loop(S, n, f) == f = [i \in 0..n |-> IF i = 0 THEN <<>>
                                     ELSE IF i \in S THEN Append(f[i-1], i)
                                     ELSE f[i-1]]

\* The loop has a course for every length.
LEMMA PickedExists ==
  ASSUME NEW S, NEW n \in Nat
  PROVE  \E f : Loop(S, n, f)
<1> DEFINE E(k) == \E f : Loop(S, k, f)
<1> DEFINE T == {k \in Nat : ~E(k)}
<1>1. SUFFICES ASSUME T # {} PROVE FALSE
  OBVIOUS
<1>2. PICK m \in T : \A k \in T : m <= k
  <2> HIDE DEF T
  <2> QED
    <3>1. T \subseteq Nat
      BY DEF T
    <3> QED BY <1>1, <3>1, LeastNat
<1>3. m \in Nat /\ ~E(m)
  OBVIOUS
<1>4. E(0)
  <2>1. [i \in 0..0 |-> <<>>] = [i \in 0..0 |-> IF i = 0 THEN <<>>
                                   ELSE IF i \in S THEN Append([j \in 0..0 |-> <<>>][i-1], i)
                                   ELSE [j \in 0..0 |-> <<>>][i-1]]
    OBVIOUS
  <2> QED BY <2>1 DEF Loop
<1>5. m # 0
  BY <1>3, <1>4
<1>6. E(m - 1)
  <2> HIDE DEF E
  <2> QED BY <1>2, <1>3, <1>5
<1>7. PICK g : Loop(S, m - 1, g)
  BY <1>6
<1>8. DEFINE h == [i \in 0..m |-> IF i < m THEN g[i]
                                  ELSE IF i \in S THEN Append(g[i-1], i) ELSE g[i-1]]
<1>9. \A i \in 0..m : h[i] = IF i = 0 THEN <<>> ELSE IF i \in S THEN Append(h[i-1], i) ELSE h[i-1]
  <2>1. ASSUME NEW i \in 0..m, i < m
        PROVE  h[i] = IF i = 0 THEN <<>> ELSE IF i \in S THEN Append(h[i-1], i) ELSE h[i-1]
    <3>1. h[i] = g[i] /\ i \in 0..(m-1)
      BY <2>1, <1>3
    <3>2. i # 0 => h[i-1] = g[i-1]
      BY <2>1, <1>3
    <3>3. g[i] = IF i = 0 THEN <<>> ELSE IF i \in S THEN Append(g[i-1], i) ELSE g[i-1]
      <4> HIDE DEF h
      <4> QED BY <3>1, <1>7 DEF Loop
    <3> HIDE DEF h
    <3> QED BY <3>1, <3>2, <3>3
  <2>2. h[m] = IF m \in S THEN Append(g[m-1], m) ELSE g[m-1]
    BY <1>3
  <2>3. h[m-1] = g[m-1]
    BY <1>3, <1>5
  <2> HIDE DEF h
  <2>4. h[m] = IF m = 0 THEN <<>> ELSE IF m \in S THEN Append(h[m-1], m) ELSE h[m-1]
    BY <2>2, <2>3, <1>5
  <2> QED BY <1>3, <2>1, <2>4
<1>10. h = [i \in 0..m |-> h[i]]
  OBVIOUS
<1>11. Loop(S, m, h)
  <2> HIDE DEF h
  <2> QED BY <1>9, <1>10 DEF Loop
<1>12. E(m)
  <2> HIDE DEF h
  <2> QED BY <1>11
<1> QED
  <2> HIDE DEF E
  <2> QED BY <1>3, <1>12

\* The positions a loop takes, in their order.
Increasing(s) == \A i, j \in DOMAIN s : i < j => s[i] < s[j]

\* A loop takes the positions it is to take, each once and in their order.
LEMMA PickedFacts ==
  ASSUME NEW S, NEW n \in Nat, S \subseteq 1..n
  PROVE  /\ Picked(S, n) \in Seq(1..n)
         /\ \A i \in S : \E k \in DOMAIN Picked(S, n) : Picked(S, n)[k] = i
         /\ \A k \in DOMAIN Picked(S, n) : Picked(S, n)[k] \in S
         /\ Increasing(Picked(S, n))
<1> DEFINE g == CHOOSE f : Loop(S, n, f)
<1>0. \E f : Loop(S, n, f)
  BY PickedExists
<1>1. Loop(S, n, g)
  BY <1>0, Zenon
<1>2. Picked(S, n) = g[n]
  BY DEF Picked, Loop
<1> HIDE DEF g
<1> DEFINE Good(m) == /\ g[m] \in Seq(1..n)
                      /\ \A i \in S : i <= m => \E k \in DOMAIN g[m] : g[m][k] = i
                      /\ \A k \in DOMAIN g[m] : g[m][k] \in S /\ g[m][k] <= m
                      /\ Increasing(g[m])
<1> DEFINE T == {m \in 0..n : ~Good(m)}
<1>3. T = {}
  <2> SUFFICES ASSUME T # {} PROVE FALSE
    OBVIOUS
  <2>2. PICK m \in T : \A k \in T : m <= k
    <3>1. T \subseteq Nat
      BY DEF T
    <3> HIDE DEF T
    <3> QED BY <3>1, LeastNat
  <2>3. m \in 0..n /\ ~Good(m)
    BY DEF T
  <2>4. CASE m = 0
    <3>1. g[m] = <<>>
      BY <2>4, <2>3, <1>1 DEF Loop
    <3> QED BY <3>1, <2>3, <2>4 DEF Increasing
  <2>5. CASE m # 0
    <3>1. m - 1 \in 0..n /\ m \in 1..n
      BY <2>3, <2>5
    <3>2. Good(m - 1)
      <4>1. m - 1 \notin T
        <5> HIDE DEF T
        <5> QED BY <2>2, <3>1
      <4> HIDE DEF Good
      <4> QED BY <4>1, <3>1 DEF T
    <3>3. g[m] = IF m \in S THEN Append(g[m-1], m) ELSE g[m-1]
      BY <1>1, <2>3, <2>5 DEF Loop
    <3>4. CASE m \notin S
      <4>1. g[m] = g[m-1]
        BY <3>3, <3>4
      <4>2. \A i \in S : i <= m => i <= m - 1
        BY <3>4, <3>1
      <4> QED BY <4>1, <4>2, <3>2, <2>3, <3>1
    <3>5. CASE m \in S
      <4> DEFINE p == g[m-1]
      <4>0. /\ p \in Seq(1..n)
            /\ \A i \in S : i <= m-1 => \E k \in DOMAIN p : p[k] = i
            /\ \A k \in DOMAIN p : p[k] \in S /\ p[k] <= m-1
            /\ Increasing(p)
        BY <3>2
      <4>1. g[m] = Append(p, m)
        BY <3>3, <3>5
      <4> HIDE DEF p
      <4>2. /\ Append(p, m) \in Seq(1..n)
            /\ Len(Append(p, m)) = Len(p) + 1
            /\ Append(p, m)[Len(p)+1] = m
            /\ \A k \in 1..Len(p) : Append(p, m)[k] = p[k]
            /\ DOMAIN p = 1..Len(p) /\ Len(p) \in Nat
            /\ DOMAIN Append(p, m) = 1..(Len(p) + 1)
        BY <4>0, <3>1
      <4>3. g[m] \in Seq(1..n)
        BY <4>1, <4>2
      <4>4. \A i \in S : i <= m => \E k \in DOMAIN g[m] : g[m][k] = i
        <5> TAKE i \in S
        <5> HAVE i <= m
        <5>1. CASE i = m
          BY <5>1, <4>1, <4>2
        <5>2. CASE i # m
          <6>1. i <= m - 1
            BY <5>2, <3>1
          <6>2. PICK k \in DOMAIN p : p[k] = i
            BY <6>1, <4>0
          <6> QED BY <6>2, <4>1, <4>2
        <5> QED BY <5>1, <5>2
      <4>5. \A k \in DOMAIN g[m] : g[m][k] \in S /\ g[m][k] <= m
        <5> TAKE k \in DOMAIN g[m]
        <5>1. CASE k = Len(p) + 1
          BY <5>1, <4>1, <4>2, <3>5, <3>1
        <5>2. CASE k # Len(p) + 1
          <6>1. k \in DOMAIN p /\ g[m][k] = p[k]
            BY <5>2, <4>1, <4>2
          <6>2. p[k] \in S /\ p[k] <= m-1 /\ p[k] \in 1..n
            BY <6>1, <4>0
          <6> QED BY <6>1, <6>2, <3>1
        <5> QED BY <5>1, <5>2
      <4>6. Increasing(g[m])
        <5> SUFFICES ASSUME NEW i \in DOMAIN g[m], NEW j \in DOMAIN g[m], i < j
                     PROVE  g[m][i] < g[m][j]
          BY DEF Increasing
        <5>1. i \in 1..Len(p) /\ g[m][i] = p[i] /\ p[i] <= m - 1 /\ p[i] \in 1..n
          BY <4>0, <4>1, <4>2
        <5>2. CASE j = Len(p) + 1
          BY <5>1, <5>2, <4>1, <4>2, <3>1
        <5>3. CASE j # Len(p) + 1
          <6>1. j \in DOMAIN p /\ g[m][j] = p[j]
            BY <5>3, <4>1, <4>2
          <6> QED BY <5>1, <6>1, <4>0, <4>2 DEF Increasing
        <5> QED BY <5>2, <5>3
      <4> QED BY <4>3, <4>4, <4>5, <4>6, <2>3
    <3> QED BY <3>4, <3>5
  <2> QED BY <2>4, <2>5
<1>4. Good(n)
  <2>1. n \in 0..n
    OBVIOUS
  <2> HIDE DEF Good
  <2> QED BY <2>1, <1>3 DEF T
<1> QED BY <1>2, <1>4


(***************************************************************************)
(* The parts that several writers and readers share.                       *)
(***************************************************************************)
UsesTLS(has) == Value(has, "tls") # "none" \/ Value(has, "reality-opts") # "none"

\* The values the writers and readers put in themselves.
LEMMA ConstantValues == {"on", "obfs", "auto", "zero", "tcp", "host", "first", "rest",
                         "chrome", "bbr", "native", "h3"} \subseteq Values
BY DEF Values

\* The ws parameters of a Surge line.
LEMMA WSPartsFields ==
  ASSUME NEW has, Fields(has)
  PROVE  /\ Fields(WSParts(has))
         /\ \A f : Value(WSParts(has), f) =
                     IF f = "network" /\ Value(has, f) \in {"ws", "ws+host"}
                     THEN Value(has, f) ELSE "none"
<1>1. CASE Value(has, "network") \in {"ws", "ws+host"}
  <2>1. WSParts(has) = Keep(has, {"network"})
    BY <1>1 DEF WSParts, Value, When
  <2> QED BY <1>1, <2>1, KeepFields
<1>2. CASE Value(has, "network") \notin {"ws", "ws+host"}
  <2>1. WSParts(has) = Nothing
    BY <1>2 DEF WSParts, Value, When
  <2> QED BY <1>2, <2>1, NothingFields
<1> QED BY <1>1, <1>2

\* The obfs parameters of a Surge line.
LEMMA PluginPartsFields ==
  ASSUME NEW has, Fields(has), NEW plugins, "none" \notin plugins
  PROVE  /\ Fields(PluginParts(has, plugins))
         /\ \A f : Value(PluginParts(has, plugins), f) =
                     IF f = "plugin" /\ Value(has, f) \in plugins
                     THEN Value(has, f) ELSE "none"
<1>1. CASE Value(has, "plugin") \in plugins
  <2>1. PluginParts(has, plugins) = Keep(has, {"plugin"})
    BY <1>1 DEF PluginParts, Value, When
  <2> QED BY <1>1, <2>1, KeepFields
<1>2. CASE Value(has, "plugin") \notin plugins
  <2>1. PluginParts(has, plugins) = Nothing
    BY <1>2 DEF PluginParts, Value, When
  <2> QED BY <1>2, <2>1, NothingFields
<1> QED BY <1>1, <1>2

\* The TLS parameters of a Surge line.
LEMMA TLSPartsFields ==
  ASSUME NEW has, Fields(has)
  PROVE  /\ Fields(TLSParts(has))
         /\ \A f : Value(TLSParts(has), f) =
                     IF ~UsesTLS(has) THEN "none"
                     ELSE CASE f = "tls" -> "on"
                            [] f = "sni" -> Name(has)
                            [] f = "skip-cert-verify" -> Value(has, f)
                            [] OTHER -> "none"
<1>1. HasTLS(has) <=> UsesTLS(has)
  BY TLSFields DEF UsesTLS
<1>2. CASE UsesTLS(has)
  <2>1. TLSParts(has) = Only("tls", "on") ++ SNI(has) ++ Keep(has, {"skip-cert-verify"})
    BY <1>1, <1>2 DEF TLSParts, When
  <2> QED BY <1>2, <2>1, ConstantValues, OnlyFields, SNIFields, KeepFields, OverFields
<1>3. CASE ~UsesTLS(has)
  <2>1. TLSParts(has) = Nothing
    BY <1>1, <1>3 DEF TLSParts, When
  <2> QED BY <1>3, <2>1, NothingFields
<1> QED BY <1>2, <1>3

\* The tls object of a sing-box outbound.
LEMMA SingboxTLSFields ==
  ASSUME NEW has, Fields(has), NEW always \in BOOLEAN
  PROVE  /\ Fields(SingboxTLS(has, always))
         /\ \A f : Value(SingboxTLS(has, always), f) =
                     IF ~always /\ ~UsesTLS(has) THEN "none"
                     ELSE CASE f = "tls" -> "on"
                            [] f = "sni" -> Name(has)
                            [] f \in {"skip-cert-verify", "alpn", "client-fingerprint",
                                      "reality-opts"} -> Value(has, f)
                            [] OTHER -> "none"
<1>1. HasTLS(has) <=> UsesTLS(has)
  BY TLSFields DEF UsesTLS
<1>2. CASE always \/ UsesTLS(has)
  <2>1. SingboxTLS(has, always) =
          Only("tls", "on") ++ SNI(has) ++
          Keep(has, {"skip-cert-verify", "alpn", "client-fingerprint", "reality-opts"})
    BY <1>1, <1>2 DEF SingboxTLS, When
  <2> QED BY <1>2, <2>1, ConstantValues, OnlyFields, SNIFields, KeepFields, OverFields
<1>3. CASE ~always /\ ~UsesTLS(has)
  <2>1. SingboxTLS(has, always) = Nothing
    BY <1>1, <1>3 DEF SingboxTLS, When
  <2> QED BY <1>3, <2>1, NothingFields
<1> QED BY <1>2, <1>3

\* The transport object of a sing-box outbound.
LEMMA SingboxTransportFields ==
  ASSUME NEW has, Fields(has)
  PROVE  /\ Fields(SingboxTransport(has))
         /\ \A f : Value(SingboxTransport(has), f) =
                     IF f = "network" /\ Value(has, f) # "tcp" THEN Value(has, f) ELSE "none"
<1>1. CASE Value(has, "network") \notin {"none", "tcp"}
  <2>1. SingboxTransport(has) = Keep(has, {"network"})
    BY <1>1 DEF SingboxTransport, Value, When
  <2> QED BY <1>1, <2>1, KeepFields
<1>2. CASE Value(has, "network") \in {"none", "tcp"}
  <2>1. SingboxTransport(has) = Nothing
    BY <1>2, ValueFacts DEF SingboxTransport, Value, When
  <2> QED BY <1>2, <2>1, NothingFields
<1> QED BY <1>1, <1>2

\* The transport parameters of a share link.
LEMMA LinkTransportFields ==
  ASSUME NEW has, Fields(has)
  PROVE  /\ Fields(LinkTransport(has))
         /\ \A f : Value(LinkTransport(has), f) =
                     IF f # "network" THEN "none"
                     ELSE IF Value(has, f) = "none" THEN "tcp" ELSE Value(has, f)
BY ConstantValues, KeepFields, OnlyFields, OverFields DEF LinkTransport

(***************************************************************************)
(* What a node of each type is after a line of the Surge family.           *)
(***************************************************************************)
\* The two parameters that the value of another one may set.
SkipValue(type, has) ==
    IF Unverified(SurgeWritten(type, has)) THEN "on"
    ELSE CutValue(Value(has, "skip-cert-verify"))
PasswordValue(type, has) ==
    IF Overwritten(type, SurgeWritten(type, has)) THEN "rest"
    ELSE CutValue(Value(has, "password"))

SurgeValue(type, has, f) ==
    CASE type = "ss" ->
            (CASE f \in {"cipher", "udp", "tfo"} -> CutValue(Value(has, f))
               [] f = "password" -> PasswordValue(type, has)
               [] f = "plugin" /\ Value(has, f) = "obfs" -> "obfs"
               [] OTHER -> "none")
      [] type = "vmess" ->
            (CASE f = "cipher" -> "auto"
               [] f \in {"uuid", "tfo"} -> CutValue(Value(has, f))
               [] f = "network" /\ Value(has, f) \in {"ws", "ws+host"} -> Value(has, f)
               [] f = "tls" /\ UsesTLS(has) -> "on"
               [] f = "sni" /\ UsesTLS(has) -> CutValue(Name(has))
               [] f = "skip-cert-verify" /\ UsesTLS(has) -> SkipValue(type, has)
               [] OTHER -> "none")
      [] type = "trojan" ->
            (CASE f \in {"udp", "tls"} -> "on"
               [] f = "sni" -> CutValue(Name(has))
               [] f = "password" -> PasswordValue(type, has)
               [] f = "skip-cert-verify" -> SkipValue(type, has)
               [] f = "tfo" -> CutValue(Value(has, f))
               [] f = "network" /\ Value(has, f) \in {"ws", "ws+host"} -> Value(has, f)
               [] OTHER -> "none")
      [] type = "hysteria2" ->
            (CASE f = "password" -> PasswordValue(type, has)
               [] f = "skip-cert-verify" -> SkipValue(type, has)
               [] f = "server" -> CutValue(Value(has, f))
               [] f = "sni" -> CutValue(Name(has))
               [] OTHER -> "none")
      [] type = "hysteria" ->
            (CASE f \in {"auth-str", "up", "down", "obfs", "alpn", "protocol", "tfo"} ->
                    CutValue(Value(has, f))
               [] f = "skip-cert-verify" -> SkipValue(type, has)
               [] f = "sni" -> CutValue(Name(has))
               [] OTHER -> "none")
      [] type = "tuic" ->
            (CASE f = "password" -> PasswordValue(type, has)
               [] f = "alpn" -> CutValue(Value(has, f))
               [] f = "skip-cert-verify" -> SkipValue(type, has)
               [] f = "sni" -> CutValue(Name(has))
               [] OTHER -> "none")
      [] type = "vless" ->
            (CASE f \in {"uuid", "flow", "tfo", "reality-opts"} -> CutValue(Value(has, f))
               [] f = "network" /\ Value(has, f) \in {"ws", "ws+host"} -> Value(has, f)
               [] f = "tls" /\ UsesTLS(has) -> "on"
               [] f = "sni" /\ UsesTLS(has) -> CutValue(Name(has))
               [] f = "skip-cert-verify" ->
                    IF UsesTLS(has) THEN SkipValue(type, has)
                    ELSE IF Unverified(SurgeWritten(type, has)) THEN "on" ELSE "none"
               [] f = "client-fingerprint" /\ Value(has, "reality-opts") # "none" ->
                    CutValue(Value(has, f))
               [] OTHER -> "none")
      [] type = "socks5" ->
            IF /\ f = "username" /\ Value(has, f) = "none"
               /\ "list" \in {Value(has, g) : g \in {"password", "udp", "tfo"}}
            THEN "rest"
            ELSE IF f = "username" THEN CutValue(Value(has, f))
            ELSE IF f = "password" THEN PasswordValue(type, has)
            ELSE "none"
      [] type = "http" ->
            (CASE f = "username" -> CutValue(Value(has, f))
               [] f = "password" -> PasswordValue(type, has)
               [] f = "tls" /\ Value(has, f) # "none" -> "on"
               [] f = "sni" /\ Value(has, "tls") # "none" -> CutValue(Name(has))
               [] OTHER -> "none")

\* SurgeRead after SurgeWritten is SurgeValue, type by type.
LEMMA SurgeSS ==
  ASSUME NEW has, Fields(has)
  PROVE  LET out == SurgeRead("ss", SurgeWritten("ss", has))
         IN  /\ Fields(out)
             /\ \A f : Value(out, f) = SurgeValue("ss", has, f)
<1>1. /\ Fields(PluginParts(has, {"obfs"}))
      /\ \A f : Value(PluginParts(has, {"obfs"}), f) =
                  IF f = "plugin" /\ Value(has, f) = "obfs" THEN Value(has, f) ELSE "none"
  BY PluginPartsFields
<1> DEFINE w == SurgeWritten("ss", has)
<1>2. w = Keep(has, {"cipher", "password", "udp", "tfo"}) ++ PluginParts(has, {"obfs"})
  BY DEF SurgeWritten
<1> HIDE DEF w
<1>3. /\ Fields(w)
      /\ \A f : Value(w, f) =
           CASE f \in {"cipher", "password", "udp", "tfo"} -> Value(has, f)
             [] f = "plugin" /\ Value(has, f) = "obfs" -> "obfs"
             [] OTHER -> "none"
  BY <1>1, <1>2, KeepFields, OverFields
<1>4. /\ Fields(SurgeRead("ss", w))
      /\ \A f : Value(SurgeRead("ss", w), f) =
           IF f \in {"cipher", "password", "udp", "tfo", "plugin"} THEN CutOf("ss", w, f)
           ELSE "none"
  BY <1>3, CutFields, KeepFields DEF SurgeRead
<1> QED BY <1>3, <1>4 DEF w, CutOf, CutValue, Splits, SurgeValue, PasswordValue

LEMMA SurgeVMess ==
  ASSUME NEW has, Fields(has)
  PROVE  LET out == SurgeRead("vmess", SurgeWritten("vmess", has))
         IN  /\ Fields(out)
             /\ \A f : Value(out, f) = SurgeValue("vmess", has, f)
<1> DEFINE w == SurgeWritten("vmess", has)
<1> DEFINE aead == Set(Value(has, "alterId") \in {"none", "zero"}, "alterId", "zero")
<1>0. /\ Fields(aead)
      /\ \A f : f # "alterId" => Value(aead, f) = "none"
  <2>1. CASE Value(has, "alterId") \in {"none", "zero"}
    BY <2>1, ConstantValues, OnlyFields DEF Set
  <2>2. CASE Value(has, "alterId") \notin {"none", "zero"}
    BY <2>2, NothingFields DEF Set
  <2> QED BY <2>1, <2>2
<1>1. w = Keep(has, {"uuid", "udp", "tfo"}) ++ TLSParts(has) ++ WSParts(has) ++ aead
  BY DEF SurgeWritten
<1>2. /\ Fields(w)
      /\ \A f : f # "alterId" => Value(w, f) =
           CASE f \in {"uuid", "udp", "tfo"} -> Value(has, f)
             [] f = "network" /\ Value(has, f) \in {"ws", "ws+host"} -> Value(has, f)
             [] f = "tls" /\ UsesTLS(has) -> "on"
             [] f = "sni" /\ UsesTLS(has) -> Name(has)
             [] f = "skip-cert-verify" /\ UsesTLS(has) -> Value(has, f)
             [] OTHER -> "none"
  <2> HIDE DEF w, aead
  <2> QED BY <1>0, <1>1, KeepFields, TLSPartsFields, WSPartsFields, OverFields
<1> HIDE DEF w
<1> DEFINE c == Cut("vmess", w)
<1>3. /\ Fields(c)
      /\ \A f : Value(c, f) = CutOf("vmess", w, f)
  BY <1>2, CutFields
<1> DEFINE tls == When({"tls", "sni"} \cap DOMAIN c # {},
                       Only("tls", "on") ++ Keep(c, {"sni", "skip-cert-verify"}))
<1>4. SurgeRead("vmess", w) =
        Only("cipher", "auto") ++ Keep(c, {"uuid", "tfo", "network"}) ++ tls
  BY DEF SurgeRead, SurgeReadOverWS
<1>5. /\ Fields(tls)
      /\ \A f : Value(tls, f) =
           IF ~UsesTLS(has) THEN "none"
           ELSE CASE f = "tls" -> "on"
                  [] f = "sni" -> CutValue(Name(has))
                  [] f = "skip-cert-verify" -> CutOf("vmess", w, f)
                  [] OTHER -> "none"
  <2>1. CASE UsesTLS(has)
    <3>1. "tls" \in DOMAIN c
      BY <1>2, <1>3, <2>1, ValueFacts DEF CutOf, CutValue, Splits
    <3>2. tls = Only("tls", "on") ++ Keep(c, {"sni", "skip-cert-verify"})
      BY <3>1 DEF When
    <3>3. Value(c, "sni") = CutValue(Name(has))
      BY <1>2, <1>3, <2>1 DEF CutOf
    <3> QED BY <2>1, <3>2, <3>3, <1>3, ConstantValues, OnlyFields, KeepFields, OverFields
  <2>2. CASE ~UsesTLS(has)
    <3>1. {"tls", "sni"} \cap DOMAIN c = {}
      BY <1>2, <1>3, <2>2, ValueFacts DEF CutOf, CutValue, Splits
    <3>2. tls = Nothing
      BY <3>1 DEF When
    <3> QED BY <2>2, <3>2, NothingFields
  <2> QED BY <2>1, <2>2
<1> HIDE DEF tls
<1> QED
  <2>1. /\ Fields(SurgeRead("vmess", w))
        /\ \A f : Value(SurgeRead("vmess", w), f) =
             CASE f = "cipher" -> "auto"
               [] f \in {"uuid", "tfo", "network"} -> CutOf("vmess", w, f)
               [] f \in {"tls", "sni", "skip-cert-verify"} -> Value(tls, f)
               [] OTHER -> "none"
    BY <1>3, <1>4, <1>5, ConstantValues, OnlyFields, KeepFields, OverFields
  <2> QED BY <2>1, <1>2, <1>5 DEF w, CutOf, CutValue, Splits, SurgeValue, SkipValue

LEMMA SurgeTrojan ==
  ASSUME NEW has, Fields(has)
  PROVE  LET out == SurgeRead("trojan", SurgeWritten("trojan", has))
         IN  /\ Fields(out)
             /\ \A f : Value(out, f) = SurgeValue("trojan", has, f)
<1> DEFINE w == SurgeWritten("trojan", has)
<1>1. w = Keep(has, {"password", "skip-cert-verify", "udp", "tfo"}) ++ SNI(has) ++ WSParts(has)
  BY DEF SurgeWritten
<1> HIDE DEF w
<1>2. /\ Fields(w)
      /\ \A f : Value(w, f) =
           CASE f \in {"password", "skip-cert-verify", "udp", "tfo"} -> Value(has, f)
             [] f = "sni" -> Name(has)
             [] f = "network" /\ Value(has, f) \in {"ws", "ws+host"} -> Value(has, f)
             [] OTHER -> "none"
  BY <1>1, KeepFields, SNIFields, WSPartsFields, OverFields
<1>3. /\ Fields(SurgeRead("trojan", w))
      /\ \A f : Value(SurgeRead("trojan", w), f) =
           CASE f \in {"udp", "tls"} -> "on"
             [] f \in {"password", "sni", "skip-cert-verify", "tfo", "network"} ->
                  CutOf("trojan", w, f)
             [] OTHER -> "none"
  BY <1>2, ConstantValues, CutFields, KeepFields, OnlyFields, OverFields
     DEF SurgeRead, SurgeReadOverWS
<1> QED BY <1>2, <1>3 DEF w, CutOf, CutValue, Splits, SurgeValue, PasswordValue, SkipValue

LEMMA SurgeHysteria2 ==
  ASSUME NEW has, Fields(has)
  PROVE  LET out == SurgeRead("hysteria2", SurgeWritten("hysteria2", has))
         IN  /\ Fields(out)
             /\ \A f : Value(out, f) = SurgeValue("hysteria2", has, f)
<1> DEFINE w == SurgeWritten("hysteria2", has)
<1>1. w = Keep(has, {"password", "skip-cert-verify", "server"}) ++ SNI(has)
  BY DEF SurgeWritten
<1> HIDE DEF w
<1>2. /\ Fields(w)
      /\ \A f : Value(w, f) =
           CASE f \in {"password", "skip-cert-verify", "server"} -> Value(has, f)
             [] f = "sni" -> Name(has)
             [] OTHER -> "none"
  BY <1>1, KeepFields, SNIFields, WSPartsFields, OverFields
<1>3. /\ Fields(SurgeRead("hysteria2", w))
      /\ \A f : Value(SurgeRead("hysteria2", w), f) =
           IF f \in {"password", "sni", "skip-cert-verify", "server"}
           THEN CutOf("hysteria2", w, f) ELSE "none"
  BY <1>2, CutFields, KeepFields DEF SurgeRead
<1> QED BY <1>2, <1>3 DEF w, CutOf, CutValue, Splits, SurgeValue, PasswordValue, SkipValue

LEMMA SurgeHysteria ==
  ASSUME NEW has, Fields(has)
  PROVE  LET out == SurgeRead("hysteria", SurgeWritten("hysteria", has))
         IN  /\ Fields(out)
             /\ \A f : Value(out, f) = SurgeValue("hysteria", has, f)
<1> DEFINE w == SurgeWritten("hysteria", has)
<1>1. w = Keep(has, {"auth-str", "up", "down", "skip-cert-verify", "obfs", "alpn",
                    "protocol", "tfo"}) ++ SNI(has)
  BY DEF SurgeWritten
<1> HIDE DEF w
<1>2. /\ Fields(w)
      /\ \A f : Value(w, f) =
           CASE f \in {"auth-str", "up", "down", "skip-cert-verify", "obfs", "alpn",
                      "protocol", "tfo"} -> Value(has, f)
             [] f = "sni" -> Name(has)
             [] OTHER -> "none"
  BY <1>1, KeepFields, SNIFields, WSPartsFields, OverFields
<1>3. /\ Fields(SurgeRead("hysteria", w))
      /\ \A f : Value(SurgeRead("hysteria", w), f) =
           IF f \in {"auth-str", "up", "down", "sni", "obfs", "alpn", "protocol",
                    "skip-cert-verify", "tfo"}
           THEN CutOf("hysteria", w, f) ELSE "none"
  BY <1>2, CutFields, KeepFields DEF SurgeRead
<1> QED BY <1>2, <1>3 DEF w, CutOf, CutValue, Splits, SurgeValue, PasswordValue, SkipValue

LEMMA SurgeTUIC ==
  ASSUME NEW has, Fields(has)
  PROVE  LET out == SurgeRead("tuic", SurgeWritten("tuic", has))
         IN  /\ Fields(out)
             /\ \A f : Value(out, f) = SurgeValue("tuic", has, f)
<1> DEFINE w == SurgeWritten("tuic", has)
<1>1. w = Keep(has, {"password", "alpn", "skip-cert-verify"}) ++ SNI(has)
  BY DEF SurgeWritten
<1> HIDE DEF w
<1>2. /\ Fields(w)
      /\ \A f : Value(w, f) =
           CASE f \in {"password", "alpn", "skip-cert-verify"} -> Value(has, f)
             [] f = "sni" -> Name(has)
             [] OTHER -> "none"
  BY <1>1, KeepFields, SNIFields, WSPartsFields, OverFields
<1>3. /\ Fields(SurgeRead("tuic", w))
      /\ \A f : Value(SurgeRead("tuic", w), f) =
           IF f \in {"password", "sni", "alpn", "skip-cert-verify"}
           THEN CutOf("tuic", w, f) ELSE "none"
  BY <1>2, CutFields, KeepFields DEF SurgeRead
<1> QED BY <1>2, <1>3 DEF w, CutOf, CutValue, Splits, SurgeValue, PasswordValue, SkipValue

LEMMA SurgeVLESS ==
  ASSUME NEW has, Fields(has)
  PROVE  LET out == SurgeRead("vless", SurgeWritten("vless", has))
         IN  /\ Fields(out)
             /\ \A f : Value(out, f) = SurgeValue("vless", has, f)
<1> DEFINE reality == When("reality-opts" \in DOMAIN has,
                           Keep(has, {"reality-opts", "client-fingerprint"}))
           w == SurgeWritten("vless", has)
<1>1. w = Keep(has, {"uuid", "flow", "tfo"}) ++ TLSParts(has) ++ WSParts(has) ++ reality
  BY DEF SurgeWritten
<1>2. /\ Fields(reality)
      /\ \A f : Value(reality, f) =
           IF Value(has, "reality-opts") # "none" /\ f \in {"reality-opts", "client-fingerprint"}
           THEN Value(has, f) ELSE "none"
  <2>1. CASE "reality-opts" \in DOMAIN has
    BY <2>1, ValueFacts, KeepFields DEF When
  <2>2. CASE "reality-opts" \notin DOMAIN has
    BY <2>2, ValueFacts, NothingFields DEF When
  <2> QED BY <2>1, <2>2
<1> HIDE DEF reality
<1>3. /\ Fields(w)
      /\ \A f : Value(w, f) =
           CASE f \in {"uuid", "flow", "tfo"} -> Value(has, f)
             [] f = "network" /\ Value(has, f) \in {"ws", "ws+host"} -> Value(has, f)
             [] f = "tls" /\ UsesTLS(has) -> "on"
             [] f = "sni" /\ UsesTLS(has) -> Name(has)
             [] f = "skip-cert-verify" /\ UsesTLS(has) -> Value(has, f)
             [] f \in {"reality-opts", "client-fingerprint"} -> Value(reality, f)
             [] OTHER -> "none"
  <2> HIDE DEF w
  <2> QED BY <1>1, <1>2, KeepFields, TLSPartsFields, WSPartsFields, OverFields
<1> HIDE DEF w
<1> DEFINE c == Cut("vless", w)
<1>4. /\ Fields(c)
      /\ \A f : Value(c, f) = CutOf("vless", w, f)
  BY <1>3, CutFields
<1> DEFINE tls  == Set({"tls", "sni", "reality-opts"} \cap DOMAIN c # {}, "tls", "on")
           read == When("reality-opts" \in DOMAIN c,
                        Keep(c, {"reality-opts", "client-fingerprint"}))
<1>5. SurgeRead("vless", w) =
        Keep(c, {"uuid", "flow", "tfo", "sni", "skip-cert-verify", "network"}) ++ tls ++ read
  BY DEF SurgeRead, SurgeReadOverWS
<1> HIDE DEF c
<1>6. /\ "tls" \in DOMAIN c <=> UsesTLS(has)
      /\ "sni" \in DOMAIN c => UsesTLS(has)
      /\ "reality-opts" \in DOMAIN c <=> Value(has, "reality-opts") # "none"
  BY <1>2, <1>3, <1>4, ValueFacts DEF CutOf, CutValue, Splits
<1>7. {"tls", "sni", "reality-opts"} \cap DOMAIN c # {} <=> UsesTLS(has)
  BY <1>6 DEF UsesTLS
<1>8. /\ Fields(tls)
      /\ \A f : Value(tls, f) = IF UsesTLS(has) /\ f = "tls" THEN "on" ELSE "none"
  <2>1. CASE UsesTLS(has)
    BY <1>7, <2>1, ConstantValues, OnlyFields DEF Set
  <2>2. CASE ~UsesTLS(has)
    BY <1>7, <2>2, NothingFields DEF Set
  <2> QED BY <2>1, <2>2
<1>9. /\ Fields(read)
      /\ \A f : Value(read, f) =
           IF Value(has, "reality-opts") # "none" /\ f \in {"reality-opts", "client-fingerprint"}
           THEN CutValue(Value(has, f)) ELSE "none"
  <2>1. CASE Value(has, "reality-opts") # "none"
    <3>1. read = Keep(c, {"reality-opts", "client-fingerprint"})
      BY <1>6, <2>1 DEF When
    <3> QED BY <2>1, <3>1, <1>2, <1>3, <1>4, KeepFields DEF CutOf
  <2>2. CASE Value(has, "reality-opts") = "none"
    <3>1. read = Nothing
      BY <1>6, <2>2 DEF When
    <3> QED BY <2>2, <3>1, NothingFields
  <2> QED BY <2>1, <2>2
<1> HIDE DEF tls, read
<1>10. /\ Fields(SurgeRead("vless", w))
       /\ \A f : Value(SurgeRead("vless", w), f) =
            CASE f \in {"uuid", "flow", "tfo", "sni", "skip-cert-verify", "network"} ->
                   CutOf("vless", w, f)
              [] f = "tls" -> Value(tls, f)
              [] f \in {"reality-opts", "client-fingerprint"} -> Value(read, f)
              [] OTHER -> "none"
  BY <1>4, <1>5, <1>8, <1>9, KeepFields, OverFields
<1> QED BY <1>3, <1>8, <1>9, <1>10 DEF w, CutOf, CutValue, Splits, SurgeValue, SkipValue

LEMMA SurgeSOCKS5 ==
  ASSUME NEW has, Fields(has)
  PROVE  LET out == SurgeRead("socks5", SurgeWritten("socks5", has))
         IN  /\ Fields(out)
             /\ \A f : Value(out, f) = SurgeValue("socks5", has, f)
<1> DEFINE w == SurgeWritten("socks5", has)
<1>1. w = Keep(has, {"username", "password", "udp", "tfo"})
  BY DEF SurgeWritten
<1>2. /\ Fields(w)
      /\ \A f : Value(w, f) =
           IF f \in {"username", "password", "udp", "tfo"} THEN Value(has, f) ELSE "none"
  <2> HIDE DEF w
  <2> QED BY <1>1, KeepFields
<1> HIDE DEF w
<1> DEFINE c == Cut("socks5", w)
<1>3. /\ Fields(c)
      /\ \A f : Value(c, f) = CutOf("socks5", w, f)
  BY <1>2, CutFields
<1>4. Positional(w) <=> "list" \in {Value(has, g) : g \in {"username", "password", "udp", "tfo"}}
  <2>1. Positional(w) <=> \E f : Value(w, f) = "list"
    BY <1>2, ValueFacts DEF Positional, Value
  <2> QED BY <2>1, <1>2
<1> DEFINE user == Set(Positional(w), "username", "rest")
<1>5. SurgeRead("socks5", w) = Keep(c, {"username", "password"}) ++ user
  BY DEF SurgeRead
<1>6. /\ Fields(user)
      /\ \A f : Value(user, f) = IF f = "username" /\ Positional(w) THEN "rest" ELSE "none"
  <2>1. CASE Positional(w)
    BY <2>1, ConstantValues, OnlyFields DEF Set
  <2>2. CASE ~Positional(w)
    BY <2>2, NothingFields DEF Set
  <2> QED BY <2>1, <2>2
<1> HIDE DEF user
<1>7. /\ Fields(SurgeRead("socks5", w))
      /\ \A f : Value(SurgeRead("socks5", w), f) =
           IF f = "username" /\ Value(w, f) = "none" THEN Value(user, f)
           ELSE IF f \in {"username", "password"} THEN CutOf("socks5", w, f)
           ELSE "none"
  <2>1. Fields(user) /\ \A f : f # "username" => Value(user, f) = "none"
    BY <1>6
  <2>3. /\ Fields(Keep(c, {"username", "password"}))
        /\ \A f : Value(Keep(c, {"username", "password"}), f) =
             IF f \in {"username", "password"} THEN CutOf("socks5", w, f) ELSE "none"
    BY <1>3, KeepFields
  <2>4. CutOf("socks5", w, "username") = "none" <=> Value(w, "username") = "none"
    BY DEF CutOf, CutValue, Splits
  <2> QED BY <1>5, <2>1, <2>3, <2>4, OverFields
<1> QED BY <1>2, <1>4, <1>6, <1>7 DEF w, CutOf, CutValue, Splits, SurgeValue, PasswordValue

LEMMA SurgeHTTP ==
  ASSUME NEW has, Fields(has)
  PROVE  LET out == SurgeRead("http", SurgeWritten("http", has))
         IN  /\ Fields(out)
             /\ \A f : Value(out, f) = SurgeValue("http", has, f)
<1> DEFINE parts == When("tls" \in DOMAIN has, TLSParts(has))
           w == SurgeWritten("http", has)
<1>1. w = Keep(has, {"username", "password", "tfo"}) ++ parts
  BY DEF SurgeWritten
<1>2. /\ Fields(parts)
      /\ \A f : Value(parts, f) =
           IF Value(has, "tls") = "none" THEN "none" ELSE Value(TLSParts(has), f)
  <2>1. CASE "tls" \in DOMAIN has
    BY <2>1, ValueFacts, TLSPartsFields DEF When
  <2>2. CASE "tls" \notin DOMAIN has
    BY <2>2, ValueFacts, NothingFields DEF When
  <2> QED BY <2>1, <2>2
<1> HIDE DEF parts
<1>3. /\ Fields(w)
      /\ \A f : Value(w, f) =
           IF f \in {"username", "password", "tfo"} THEN Value(has, f) ELSE Value(parts, f)
  <2> HIDE DEF w
  <2> QED BY <1>1, <1>2, KeepFields, TLSPartsFields, OverFields
<1> HIDE DEF w
<1> DEFINE c == Cut("http", w)
<1>4. /\ Fields(c)
      /\ \A f : Value(c, f) = CutOf("http", w, f)
  BY <1>3, CutFields
<1> DEFINE read == When("tls" \in DOMAIN c, Keep(c, {"tls", "sni"}))
<1>5. SurgeRead("http", w) = Keep(c, {"username", "password"}) ++ read
  BY DEF SurgeRead
<1>6. Value(w, "tls") = IF Value(has, "tls") = "none" THEN "none" ELSE "on"
  BY <1>2, <1>3, TLSPartsFields DEF UsesTLS
<1>7. /\ Fields(read)
      /\ \A f : Value(read, f) =
           IF Value(has, "tls") # "none" /\ f \in {"tls", "sni"}
           THEN CutValue(Value(w, f)) ELSE "none"
  <2>1. "tls" \in DOMAIN c <=> Value(has, "tls") # "none"
    BY <1>4, <1>6, ValueFacts DEF CutOf, CutValue, Splits
  <2>2. CASE Value(has, "tls") # "none"
    <3>1. read = Keep(c, {"tls", "sni"})
      BY <2>1, <2>2 DEF When
    <3> QED BY <2>2, <3>1, <1>4, KeepFields DEF CutOf
  <2>3. CASE Value(has, "tls") = "none"
    <3>1. read = Nothing
      BY <2>1, <2>3 DEF When
    <3> QED BY <2>3, <3>1, NothingFields
  <2> QED BY <2>2, <2>3
<1> HIDE DEF read
<1>8. /\ Fields(SurgeRead("http", w))
      /\ \A f : Value(SurgeRead("http", w), f) =
           CASE f \in {"username", "password"} -> CutOf("http", w, f)
             [] OTHER -> Value(read, f)
  BY <1>4, <1>5, <1>7, KeepFields, OverFields DEF CutOf, CutValue
<1>9. Value(has, "tls") # "none" => Value(w, "sni") = Name(has)
  BY <1>2, <1>3, TLSPartsFields DEF UsesTLS
<1> QED BY <1>3, <1>6, <1>7, <1>8, <1>9 DEF w, CutOf, CutValue, Splits, SurgeValue, PasswordValue

(***************************************************************************)
(* A value that splits a line is in a line only if the node has it.        *)
(***************************************************************************)
Holds(has, v) == \E f : Value(has, f) = v
Drawn(h, has) == Fields(h) /\ \A f : Value(h, f) \in Splits => Holds(has, Value(h, f))

LEMMA DrawnKeep ==
  ASSUME NEW has, Fields(has), NEW S
  PROVE  Drawn(Keep(has, S), has)
<1>1. "none" \notin Splits
  BY DEF Splits
<1> QED BY <1>1, KeepFields DEF Drawn, Holds

LEMMA DrawnOnly ==
  ASSUME NEW has, NEW x, NEW v \in Values \ Splits
  PROVE  Drawn(Only(x, v), has)
<1>1. "none" \notin Splits
  BY DEF Splits
<1> QED BY <1>1, OnlyFields DEF Drawn

LEMMA DrawnNothing == ASSUME NEW has PROVE Drawn(Nothing, has)
<1>1. "none" \notin Splits
  BY DEF Splits
<1> QED BY <1>1, NothingFields DEF Drawn

LEMMA DrawnOver ==
  ASSUME NEW has, NEW a, NEW b, Drawn(a, has), Drawn(b, has)
  PROVE  Drawn(a ++ b, has)
BY OverFields DEF Drawn

\* The parts of a Surge line.
LEMMA DrawnParts ==
  ASSUME NEW has, Fields(has)
  PROVE  /\ Drawn(SNI(has), has)
         /\ Drawn(TLSParts(has), has)
         /\ Drawn(WSParts(has), has)
         /\ Drawn(PluginParts(has, {"obfs"}), has)
<1>0. "none" \notin Splits /\ "on" \notin Splits /\ "none" \notin {"obfs"}
  BY DEF Splits
<1>1. Drawn(SNI(has), has)
  BY <1>0, SNIFields DEF Drawn, Holds, Name
<1>2. Drawn(TLSParts(has), has)
  BY <1>0, TLSPartsFields DEF Drawn, Holds, Name
<1>3. Drawn(WSParts(has), has)
  BY <1>0, WSPartsFields DEF Drawn, Holds
<1>4. Drawn(PluginParts(has, {"obfs"}), has)
  BY <1>0, PluginPartsFields DEF Drawn, Holds
<1> QED BY <1>1, <1>2, <1>3, <1>4

SurgeTypes == SurgeWords("shadowrocket") \ {"wireguard"}

\* A whole line.
LEMMA DrawnWritten ==
  ASSUME NEW type \in SurgeTypes, NEW has, Fields(has)
  PROVE  Drawn(SurgeWritten(type, has), has)
<1>t. type \in {"ss", "vmess", "trojan", "hysteria2", "socks5", "http", "hysteria", "vless",
                "tuic"}
  BY DEF SurgeTypes, SurgeWords
<1>k. \A S : Drawn(Keep(has, S), has)
  BY DrawnKeep
<1>o. \A a, b : Drawn(a, has) /\ Drawn(b, has) => Drawn(a ++ b, has)
  BY DrawnOver
<1>z. Drawn(Set(Value(has, "alterId") \in {"none", "zero"}, "alterId", "zero"), has)
  <2>1. "zero" \in Values \ Splits
    BY DEF Values, Splits
  <2>2. Set(Value(has, "alterId") \in {"none", "zero"}, "alterId", "zero") \in
          {Only("alterId", "zero"), Nothing}
    BY DEF Set
  <2> QED BY <2>1, <2>2, DrawnOnly, DrawnNothing
<1> HIDE DEF Drawn
<1>1. CASE type = "ss"
  <2>1. SurgeWritten(type, has) =
          Keep(has, {"cipher", "password", "udp", "tfo"}) ++ PluginParts(has, {"obfs"})
    BY <1>1 DEF SurgeWritten
  <2> QED BY <2>1, <1>k, <1>o, DrawnParts
<1>2. CASE type = "vmess"
  <2>1. SurgeWritten(type, has) =
          ((Keep(has, {"uuid", "udp", "tfo"}) ++ TLSParts(has)) ++ WSParts(has)) ++
          Set(Value(has, "alterId") \in {"none", "zero"}, "alterId", "zero")
    BY <1>2 DEF SurgeWritten
  <2>2. Drawn(Keep(has, {"uuid", "udp", "tfo"}) ++ TLSParts(has), has)
    BY <1>k, <1>o, DrawnParts
  <2>3. Drawn((Keep(has, {"uuid", "udp", "tfo"}) ++ TLSParts(has)) ++ WSParts(has), has)
    BY <2>2, <1>o, DrawnParts
  <2> QED BY <2>1, <2>3, <1>o, <1>z
<1>3. CASE type = "trojan"
  <2>1. SurgeWritten(type, has) =
          (Keep(has, {"password", "skip-cert-verify", "udp", "tfo"}) ++ SNI(has)) ++ WSParts(has)
    BY <1>3 DEF SurgeWritten
  <2>2. Drawn(Keep(has, {"password", "skip-cert-verify", "udp", "tfo"}) ++ SNI(has), has)
    BY <1>k, <1>o, DrawnParts
  <2> QED BY <2>1, <2>2, <1>o, DrawnParts
<1>4. CASE type \in {"hysteria2", "hysteria", "tuic"}
  <2>1. PICK S : SurgeWritten(type, has) = Keep(has, S) ++ SNI(has)
    BY <1>4 DEF SurgeWritten
  <2> QED BY <2>1, <1>k, <1>o, DrawnParts
<1>5. CASE type = "vless"
  <2> DEFINE reality == When("reality-opts" \in DOMAIN has,
                             Keep(has, {"reality-opts", "client-fingerprint"}))
  <2>1. SurgeWritten(type, has) =
          ((Keep(has, {"uuid", "flow", "tfo"}) ++ TLSParts(has)) ++ WSParts(has)) ++ reality
    BY <1>5 DEF SurgeWritten
  <2>2. Drawn(Keep(has, {"uuid", "flow", "tfo"}) ++ TLSParts(has), has)
    BY <1>k, <1>o, DrawnParts
  <2>3. Drawn((Keep(has, {"uuid", "flow", "tfo"}) ++ TLSParts(has)) ++ WSParts(has), has)
    BY <2>2, <1>o, DrawnParts
  <2>4. Drawn(reality, has)
    <3>1. reality \in {Keep(has, {"reality-opts", "client-fingerprint"}), Nothing}
      BY DEF When
    <3> QED BY <3>1, <1>k, DrawnNothing
  <2> QED BY <2>1, <2>3, <2>4, <1>o
<1>6. CASE type = "socks5"
  <2>1. SurgeWritten(type, has) = Keep(has, {"username", "password", "udp", "tfo"})
    BY <1>6 DEF SurgeWritten
  <2> QED BY <2>1, <1>k
<1>7. CASE type = "http"
  <2> DEFINE parts == When("tls" \in DOMAIN has, TLSParts(has))
  <2>1. SurgeWritten(type, has) = Keep(has, {"username", "password", "tfo"}) ++ parts
    BY <1>7 DEF SurgeWritten
  <2>2. Drawn(parts, has)
    <3>1. parts \in {TLSParts(has), Nothing}
      BY DEF When
    <3> QED BY <3>1, DrawnParts, DrawnNothing
  <2> QED BY <2>1, <2>2, <1>k, <1>o
<1> QED BY <1>t, <1>1, <1>2, <1>3, <1>4, <1>5, <1>6, <1>7

\* What a value of a line sets, it sets because the node has it.
LEMMA SetByValues ==
  ASSUME NEW type \in SurgeTypes, NEW has, Fields(has)
  PROVE  /\ Unverified(SurgeWritten(type, has)) => Holds(has, "unverified")
         /\ Overwritten(type, SurgeWritten(type, has)) => Holds(has, "overwrites")
<1> DEFINE w == SurgeWritten(type, has)
<1>1. Drawn(w, has)
  BY DrawnWritten
<1> HIDE DEF w
<1>2. \A v \in Splits : (\E f \in DOMAIN w : w[f] = v) => Holds(has, v)
  BY <1>1 DEF Drawn, Value
<1>3. "unverified" \in Splits /\ "overwrites" \in Splits
  BY DEF Splits
<1> QED BY <1>2, <1>3 DEF Unverified, Overwritten, w

(***************************************************************************)
(* What every hop keeps of a node.                                         *)
(***************************************************************************)
\* The fields of a node: those of its type, no server name with a comma in it, and
\* no other server but one that was found in another value.
NodeFields(type, has) ==
    /\ Fields(has)
    /\ \A f : Value(has, f) # "none" => f \in FieldsOf(type)
    /\ Value(has, "sni") \notin Splits /\ Value(has, "servername") \notin Splits
    /\ Value(has, "server") \in {"none", "first"}

IsIni(dialect) == dialect \in {"surge", "shadowrocket"}
Mislead == {"hysteria2", "wireguard"}

\* What a hop may make of the value of a secret.
KeptValue(dialect, type, has, field, was, now) ==
    \/ now = was
    \/ now = "first" /\ was \in Splits /\ IsIni(dialect)
    \/ now = "first" /\ was = "colon" /\ field \in Unescaped(type) /\ dialect = "v2ray"
    \/ now = "decoded" /\ was = "percent" /\ field \in Unescaped(type) /\ dialect = "v2ray"
    \/ now = "rest" /\ field = "password" /\ Holds(has, "overwrites") /\ IsIni(dialect)
    \/ now = "rest" /\ field = "password" /\ type = "tuic" /\ dialect = "v2ray"
         /\ Value(has, "uuid") = "colon"
    \/ now = "rest" /\ field = "username" /\ was = "none" /\ Holds(has, "list")
         /\ IsIni(dialect)
    \/ now = "none" /\ was = "address" /\ field \in Unescaped(type) /\ type \in Mislead
         /\ dialect = "v2ray"
    \/ now = "none" /\ field = "uuid" /\ type = "tuic" /\ dialect = "shadowrocket"
    \/ now = "auto" /\ field = "cipher" /\ type = "vmess"

KeptSecrets(dialect, type, has, out) ==
    \A f \in Secrets : KeptValue(dialect, type, has, f, Value(has, f), Value(out, f))

\* Where a hop finds another server.
KeptServer(dialect, type, has, out) ==
    Value(out, "server") # "none" =>
      \/ Value(has, "server") # "none"
      \/ /\ dialect = "v2ray" /\ type \in Mislead
         /\ \E f \in Unescaped(type) : Value(has, f) = "address"

\* A hop turns verification off only for a value that does it, and never TLS or Reality.
KeptGuard(dialect, type, has, out) ==
    /\ Value(out, "skip-cert-verify") # "none" =>
         \/ Value(has, "skip-cert-verify") # "none"
         \/ Holds(has, "unverified") /\ IsIni(dialect)
    /\ type \in {"vmess", "vless", "http"} /\ Value(has, "tls") # "none" =>
         Value(out, "tls") # "none"
    /\ type = "vless" /\ Value(has, "reality-opts") # "none" =>
         Value(out, "reality-opts") # "none"

\* A node that uses TLS, and is not of a type that TLS is optional for and not kept.
NameMatters(type, has) ==
    type # "socks5" /\ (type \in {"vmess", "vless", "http"} => Value(has, "tls") # "none")

\* What a hop keeps of the server name of a node whose name matters: with Surge and
\* sing-box it may change the field it is in, and a link drops it if it is in the other.
KeptName(dialect, type, has, out) ==
  NameMatters(type, has) =>
    \/ Name(has) = "none"
    \/ /\ Name(out) = Name(has)
       /\ Value(has, "servername") # "none" /\ Value(out, "servername") = "none" =>
            dialect \in {"surge", "shadowrocket", "singbox"}
    \/ /\ type \in {"vmess", "vless"} /\ dialect = "v2ray"
       /\ Value(has, "servername") = "none"

Carried(dialect, type, has, out) ==
    /\ NodeFields(type, out)
    /\ Drawn(out, has)
    /\ KeptSecrets(dialect, type, has, out)
    /\ KeptServer(dialect, type, has, out)
    /\ KeptGuard(dialect, type, has, out)
    /\ KeptName(dialect, type, has, out)

\* No VLESS node without TLS skips the verification of certificates.
Secured(type, has) ==
    type = "vless" /\ Value(has, "skip-cert-verify") # "none" => UsesTLS(has)

\* All types at once.
LEMMA SurgeTable ==
  ASSUME NEW type \in SurgeTypes, NEW has, Fields(has)
  PROVE  LET out == SurgeRead(type, SurgeWritten(type, has))
         IN  /\ Fields(out)
             /\ \A f : Value(out, f) = SurgeValue(type, has, f)
<1>1. type \in {"ss", "vmess", "trojan", "hysteria2", "socks5", "http", "hysteria", "vless",
                "tuic"}
  BY DEF SurgeTypes, SurgeWords
<1> QED
  BY <1>1, SurgeSS, SurgeVMess, SurgeTrojan, SurgeHysteria2, SurgeSOCKS5, SurgeHTTP,
     SurgeHysteria, SurgeVLESS, SurgeTUIC

\* What a hop through the Surge family keeps, and that a second changes nothing.
LEMMA SurgeCarried ==
  ASSUME NEW dialect \in {"surge", "shadowrocket"}, NEW type \in SurgeTypes,
         type \in SurgeWords(dialect), NEW has, NodeFields(type, has)
  PROVE  LET out == SurgeRead(type, SurgeWritten(type, has))
         IN  /\ Carried(dialect, type, has, out)
             /\ Secured(type, out) => SurgeRead(type, SurgeWritten(type, out)) = out
<1> DEFINE out == SurgeRead(type, SurgeWritten(type, has))
           again == SurgeRead(type, SurgeWritten(type, out))
<1>0. Fields(has)
  BY DEF NodeFields
<1>1. Fields(out) /\ \A f : Value(out, f) = SurgeValue(type, has, f)
  BY <1>0, SurgeTable
<1>2. Fields(again) /\ \A f : Value(again, f) = SurgeValue(type, out, f)
  BY <1>1, SurgeTable
<1>h. /\ Unverified(SurgeWritten(type, has)) => Holds(has, "unverified")
      /\ Overwritten(type, SurgeWritten(type, has)) => Holds(has, "overwrites")
      /\ Unverified(SurgeWritten(type, out)) => Holds(out, "unverified")
      /\ Overwritten(type, SurgeWritten(type, out)) => Holds(out, "overwrites")
  BY <1>0, <1>1, SetByValues
<1> HIDE DEF out, again
<1>t. /\ type \in {"ss", "vmess", "trojan", "hysteria2", "socks5", "http", "hysteria",
                   "vless", "tuic"}
      /\ type = "tuic" => dialect = "shadowrocket"
      /\ IsIni(dialect)
  BY DEF SurgeTypes, SurgeWords, IsIni
<1>p. /\ SkipValue(type, has) = IF Unverified(SurgeWritten(type, has)) THEN "on"
                                ELSE CutValue(Value(has, "skip-cert-verify"))
      /\ PasswordValue(type, has) = IF Overwritten(type, SurgeWritten(type, has)) THEN "rest"
                                    ELSE CutValue(Value(has, "password"))
  BY DEF SkipValue, PasswordValue
<1>s. \A f : Value(out, f) \notin Splits
  <2>1. \A v : CutValue(v) \notin Splits
    BY DEF CutValue, Splits
  <2>2. \A v \in {"on", "rest", "none", "auto", "obfs", "ws", "ws+host"} : v \notin Splits
    BY DEF Splits
  <2>3. SkipValue(type, has) \notin Splits /\ PasswordValue(type, has) \notin Splits
    BY <1>p, <2>1, <2>2
  <2> QED BY <1>1, <1>t, <2>1, <2>2, <2>3 DEF SurgeValue
<1>u. /\ ~Unverified(SurgeWritten(type, out))
      /\ ~Overwritten(type, SurgeWritten(type, out))
  BY <1>h, <1>s DEF Holds, Splits
<1>3. NodeFields(type, out)
  <2>1. \A f : Value(out, f) # "none" => f \in FieldsOf(type)
    BY <1>1, <1>t DEF NodeFields, FieldsOf, SurgeValue, CutValue
  <2>2. Value(out, "server") \in {"none", "first"}
    BY <1>1, <1>t DEF NodeFields, SurgeValue, CutValue
  <2> QED BY <1>1, <1>s, <2>1, <2>2 DEF NodeFields
<1>d. Drawn(out, has)
  BY <1>1, <1>s DEF Drawn
<1>4. KeptSecrets(dialect, type, has, out)
  <2> SUFFICES ASSUME NEW f \in Secrets
               PROVE  KeptValue(dialect, type, has, f, Value(has, f), Value(out, f))
    BY DEF KeptSecrets
  <2>0. /\ Value(out, f) = SurgeValue(type, has, f)
        /\ Value(has, f) # "none" => f \in FieldsOf(type)
    BY <1>1 DEF NodeFields
  <2>1. CASE f = "password"
    <3>1. Value(out, f) \in {PasswordValue(type, has), Value(has, f)}
      BY <1>t, <2>0, <2>1 DEF SurgeValue, FieldsOf
    <3> QED BY <1>h, <1>p, <1>t, <2>1, <3>1 DEF KeptValue, CutValue
  <2>2. CASE f # "password"
    <3>1. \/ Value(out, f) \in {CutValue(Value(has, f)), Value(has, f)}
          \/ f = "cipher" /\ type = "vmess" /\ Value(out, f) = "auto"
          \/ f = "uuid" /\ type = "tuic" /\ Value(out, f) = "none"
          \/ /\ f = "username" /\ Value(has, f) = "none" /\ Value(out, f) = "rest"
             /\ "list" \in {Value(has, g) : g \in {"password", "udp", "tfo"}}
      BY <1>t, <2>0, <2>2 DEF SurgeValue, FieldsOf, Secrets
    <3> QED BY <1>t, <3>1 DEF KeptValue, CutValue, Holds
  <2> QED BY <2>1, <2>2
<1>v. KeptServer(dialect, type, has, out)
  <2>1. Value(out, "server") \in {"none", CutValue(Value(has, "server"))}
    BY <1>1, <1>t DEF SurgeValue
  <2> QED BY <2>1 DEF KeptServer, CutValue, Splits
<1>5. KeptGuard(dialect, type, has, out)
  <2>1. Value(out, "skip-cert-verify") # "none" =>
          \/ Value(has, "skip-cert-verify") # "none"
          \/ Unverified(SurgeWritten(type, has))
    <3>1. Value(out, "skip-cert-verify") # "none" =>
            \/ SkipValue(type, has) # "none"
            \/ Unverified(SurgeWritten(type, has))
      BY <1>1, <1>t DEF SurgeValue
    <3> QED BY <1>p, <3>1 DEF CutValue, Splits
  <2>2. /\ type \in {"vmess", "vless", "http"} /\ Value(has, "tls") # "none" =>
             Value(out, "tls") # "none"
        /\ type = "vless" /\ Value(has, "reality-opts") # "none" =>
             Value(out, "reality-opts") # "none"
    BY <1>1, <1>t DEF SurgeValue, CutValue, UsesTLS
  <2> QED BY <1>h, <1>t, <2>1, <2>2 DEF KeptGuard
<1>6. KeptName(dialect, type, has, out)
  BY <1>1, <1>t DEF KeptName, NameMatters, NodeFields, FieldsOf, Name, SurgeValue, CutValue, UsesTLS
<1>7. ASSUME Secured(type, out) PROVE again = out
  <2>1. /\ SkipValue(type, out) = CutValue(Value(out, "skip-cert-verify"))
        /\ PasswordValue(type, out) = CutValue(Value(out, "password"))
    BY <1>u DEF SkipValue, PasswordValue
  <2>2. \A f : CutValue(Value(out, f)) = Value(out, f)
    BY <1>s DEF CutValue
  <2>3. Name(out) = Value(out, "sni")
    <3>1. Value(out, "servername") = "none"
      BY <1>1, <1>t DEF SurgeValue
    <3> QED BY <3>1 DEF Name
  <2>4. type \in {"vmess", "vless"} => (UsesTLS(out) <=> UsesTLS(has))
    BY <1>1, <2>2 DEF SurgeValue, UsesTLS, CutValue
  <2>5. \A f : Value(again, f) = Value(out, f)
    <3> TAKE f
    <3>1. Value(again, f) = SurgeValue(type, out, f)
      BY <1>2
    <3>2. Value(out, f) = SurgeValue(type, has, f)
      BY <1>1
    <3>0. CutValue(Value(out, f)) = Value(out, f)
      BY <2>2
    <3>3. CASE type = "vless"
      <4>1. /\ Value(out, "reality-opts") = CutValue(Value(has, "reality-opts"))
            /\ Value(has, "reality-opts") = "none" <=> Value(out, "reality-opts") = "none"
        BY <1>1, <3>3 DEF SurgeValue, CutValue, Splits
      <4>2. Value(out, "skip-cert-verify") # "none" => UsesTLS(out)
        BY <1>7, <3>3 DEF Secured
      <4> HIDE DEF UsesTLS
      <4>3. CASE f = "skip-cert-verify"
        <5>1. Value(again, f) = IF UsesTLS(out) THEN Value(out, f) ELSE "none"
          BY <1>u, <2>1, <3>0, <3>1, <3>3, <4>3 DEF SurgeValue
        <5> QED BY <4>2, <4>3, <5>1
      <4>4. CASE f \in {"network", "tls", "sni"}
        BY <2>3, <2>4, <3>0, <3>1, <3>2, <3>3, <4>4 DEF SurgeValue
      <4>5. CASE f \in {"uuid", "flow", "tfo", "reality-opts"}
        BY <3>0, <3>1, <3>3, <4>5 DEF SurgeValue
      <4>6. CASE f = "client-fingerprint"
        BY <3>0, <3>1, <3>2, <3>3, <4>1, <4>6 DEF SurgeValue
      <4>7. CASE f \notin {"skip-cert-verify", "network", "tls", "sni", "uuid", "flow", "tfo",
                            "reality-opts", "client-fingerprint"}
        BY <3>1, <3>2, <3>3, <4>7 DEF SurgeValue
      <4> QED BY <4>3, <4>4, <4>5, <4>6, <4>7
    <3>4. CASE type = "vmess"
      <4> HIDE DEF UsesTLS
      <4> QED BY <2>1, <2>3, <2>4, <3>0, <3>1, <3>2, <3>4 DEF SurgeValue
    <3>5. CASE type = "socks5"
      <4>1. \A g \in {"password", "udp", "tfo"} : Value(out, g) # "list"
        BY <1>s DEF Splits
      <4> QED BY <2>1, <3>0, <3>1, <3>2, <3>5, <4>1 DEF SurgeValue
    <3>6. CASE type = "http"
      <4>1. /\ Value(has, "tls") = "none" <=> Value(out, "tls") = "none"
            /\ Value(out, "tls") \in {"on", "none"}
        BY <1>1, <3>6 DEF SurgeValue
      <4> QED BY <2>1, <2>3, <3>0, <3>1, <3>2, <3>6, <4>1 DEF SurgeValue
    <3>7. CASE type \in {"ss", "trojan"}
      BY <2>1, <2>3, <3>0, <3>1, <3>2, <3>7 DEF SurgeValue
    <3>8. CASE type \in {"hysteria2", "hysteria", "tuic"}
      BY <2>1, <2>3, <3>0, <3>1, <3>2, <3>8 DEF SurgeValue
    <3> QED BY <1>t, <3>3, <3>4, <3>5, <3>6, <3>7, <3>8
  <2> QED BY <1>1, <1>2, <2>5, SameFields
<1> QED BY <1>3, <1>d, <1>4, <1>v, <1>5, <1>6, <1>7 DEF Carried, out, again

(***************************************************************************)
(* What a node of each type is after a sing-box outbound.                  *)
(***************************************************************************)
TLSValue(has, f) ==
    CASE f = "tls" -> "on"
      [] f = "sni" -> Name(has)
      [] f \in {"skip-cert-verify", "alpn", "client-fingerprint", "reality-opts"} ->
           Value(has, f)
      [] OTHER -> "none"
\* The transport of an outbound: tcp is none.
TransportValue(has) == IF Value(has, "network") = "tcp" THEN "none" ELSE Value(has, "network")

\* The parameters of the outbound.
OutboundValue(type, has, f) ==
    CASE type = "ss" ->
            (CASE f \in {"cipher", "password", "tfo"} -> Value(has, f)
               [] f = "plugin" /\ Value(has, f) \in {"obfs", "v2ray-plugin"} -> Value(has, f)
               [] OTHER -> "none")
      [] type = "vmess" ->
            (CASE f \in {"uuid", "tfo"} -> Value(has, f)
               [] f = "alterId" -> Default(Value(has, f), "zero")
               [] f = "cipher" -> Default(Value(has, f), "auto")
               [] f = "network" -> TransportValue(has)
               [] OTHER -> IF UsesTLS(has) THEN TLSValue(has, f) ELSE "none")
      [] type = "vless" ->
            (CASE f \in {"uuid", "flow", "tfo"} -> Value(has, f)
               [] f = "network" -> TransportValue(has)
               [] OTHER -> IF UsesTLS(has) THEN TLSValue(has, f) ELSE "none")
      [] type = "trojan" ->
            (CASE f \in {"password", "tfo"} -> Value(has, f)
               [] f = "network" -> TransportValue(has)
               [] OTHER -> TLSValue(has, f))
      [] type = "hysteria2" ->
            (CASE f \in {"password", "obfs", "server"} -> Value(has, f)
               [] f = "obfs-password" ->
                    IF Value(has, "obfs") = "none" THEN "none" ELSE Value(has, f)
               [] OTHER -> TLSValue(has, f))
      [] type = "tuic" ->
            (CASE f \in {"uuid", "password", "congestion-controller"} -> Value(has, f)
               [] OTHER -> TLSValue(has, f))
      [] type = "hysteria" ->
            (CASE f \in {"auth-str", "up", "down", "obfs"} -> Value(has, f)
               [] OTHER -> TLSValue(has, f))
      [] type = "socks5" ->
            IF f \in {"username", "password", "tfo"} THEN Value(has, f) ELSE "none"
      [] type = "http" ->
            (CASE f \in {"username", "password"} -> Value(has, f)
               [] OTHER -> IF UsesTLS(has) THEN TLSValue(has, f) ELSE "none")
      [] type = "wireguard" ->
            IF f \in FieldsOf("wireguard") \ {"udp"} THEN Value(has, f) ELSE "none"

\* SingboxWritten gives these parameters.
LEMMA SingboxWrittenTable ==
  ASSUME NEW type \in SingboxWords, NEW has, Fields(has)
  PROVE  LET w == SingboxWritten(type, has)
         IN  /\ Fields(w)
             /\ \A f : Value(w, f) = OutboundValue(type, has, f)
<1> DEFINE w == SingboxWritten(type, has)
<1>1. type \in {"ss", "vmess", "vless", "trojan", "hysteria2", "tuic", "hysteria", "socks5",
                "http", "wireguard"}
  BY DEF SingboxWords, Types
<1> DEFINE secured == SingboxTLS(has, TRUE)
           maybe   == SingboxTLS(has, FALSE)
<1>2. /\ Fields(secured) /\ \A f : Value(secured, f) = TLSValue(has, f)
      /\ Fields(maybe)
      /\ \A f : Value(maybe, f) = IF UsesTLS(has) THEN TLSValue(has, f) ELSE "none"
  <2>1. TRUE \in BOOLEAN /\ FALSE \in BOOLEAN
    OBVIOUS
  <2>2. \A always \in BOOLEAN :
          /\ Fields(SingboxTLS(has, always))
          /\ \A f : Value(SingboxTLS(has, always), f) =
               IF ~always /\ ~UsesTLS(has) THEN "none" ELSE TLSValue(has, f)
    BY SingboxTLSFields DEF TLSValue
  <2>3. \A f : Value(SingboxTLS(has, FALSE), f) =
          IF ~FALSE /\ ~UsesTLS(has) THEN "none" ELSE TLSValue(has, f)
    BY <2>1, <2>2
  <2>4. \A f : Value(SingboxTLS(has, TRUE), f) =
          IF ~TRUE /\ ~UsesTLS(has) THEN "none" ELSE TLSValue(has, f)
    BY <2>1, <2>2
  <2> QED BY <2>1, <2>2, <2>3, <2>4
<1> HIDE DEF secured, maybe
<1>3. /\ Fields(SingboxTransport(has))
      /\ \A f : Value(SingboxTransport(has), f) =
           IF f = "network" THEN TransportValue(has) ELSE "none"
  BY SingboxTransportFields DEF TransportValue
<1>4. CASE type = "ss"
  <2>1. "none" \notin {"obfs", "v2ray-plugin"}
    OBVIOUS
  <2>2. /\ Fields(PluginParts(has, {"obfs", "v2ray-plugin"}))
        /\ \A f : Value(PluginParts(has, {"obfs", "v2ray-plugin"}), f) =
             IF f = "plugin" /\ Value(has, f) \in {"obfs", "v2ray-plugin"}
             THEN Value(has, f) ELSE "none"
    BY <2>1, PluginPartsFields
  <2>3. w = Keep(has, {"cipher", "password", "tfo"}) ++ PluginParts(has, {"obfs", "v2ray-plugin"})
    BY <1>4 DEF SingboxWritten
  <2> HIDE DEF w
  <2>4. /\ Fields(w)
        /\ \A f : Value(w, f) = OutboundValue("ss", has, f)
    BY <2>2, <2>3, KeepFields, OverFields DEF OutboundValue
  <2> QED BY <1>4, <2>4 DEF w
<1>5. CASE type = "vmess"
  <2>1. w = Keep(has, {"uuid", "alterId", "cipher", "tfo"}) ++ SingboxTransport(has) ++
            Only("alterId", "zero") ++ Only("cipher", "auto") ++ maybe
    BY <1>5 DEF SingboxWritten, secured, maybe
  <2> HIDE DEF w
  <2>2. /\ Fields(w)
        /\ \A f : Value(w, f) = OutboundValue("vmess", has, f)
    BY <1>2, <1>3, <2>1, ConstantValues, KeepFields, OnlyFields, OverFields
       DEF OutboundValue, TLSValue, Default
  <2> QED BY <1>5, <2>2 DEF w
<1>6. CASE type = "vless"
  <2>1. w = Keep(has, {"uuid", "flow", "tfo"}) ++ SingboxTransport(has) ++
            maybe
    BY <1>6 DEF SingboxWritten, secured, maybe
  <2> HIDE DEF w
  <2>2. /\ Fields(w)
        /\ \A f : Value(w, f) = OutboundValue("vless", has, f)
    BY <1>2, <1>3, <2>1, KeepFields, OverFields DEF OutboundValue, TLSValue
  <2> QED BY <1>6, <2>2 DEF w
<1>7. CASE type = "trojan"
  <2>1. w = Keep(has, {"password", "tfo"}) ++ SingboxTransport(has) ++ secured
    BY <1>7 DEF SingboxWritten, secured, maybe
  <2> HIDE DEF w
  <2>2. /\ Fields(w)
        /\ \A f : Value(w, f) = OutboundValue("trojan", has, f)
    BY <1>2, <1>3, <2>1, KeepFields, OverFields DEF OutboundValue, TLSValue
  <2> QED BY <1>7, <2>2 DEF w
<1>8. CASE type = "hysteria2"
  <2> DEFINE obfs == When("obfs" \in DOMAIN has, Keep(has, {"obfs", "obfs-password"}))
  <2>1. w = Keep(has, {"password", "server"}) ++ secured ++ obfs
    BY <1>8 DEF SingboxWritten, secured, maybe
  <2>2. /\ Fields(obfs)
        /\ \A f : Value(obfs, f) =
             IF Value(has, "obfs") # "none" /\ f \in {"obfs", "obfs-password"}
             THEN Value(has, f) ELSE "none"
    <3>1. CASE "obfs" \in DOMAIN has
      BY <3>1, ValueFacts, KeepFields DEF When
    <3>2. CASE "obfs" \notin DOMAIN has
      BY <3>2, ValueFacts, NothingFields DEF When
    <3> QED BY <3>1, <3>2
  <2> HIDE DEF w, obfs
  <2>3. /\ Fields(w)
        /\ \A f : Value(w, f) = OutboundValue("hysteria2", has, f)
    BY <1>2, <2>1, <2>2, KeepFields, OverFields DEF OutboundValue, TLSValue
  <2> QED BY <1>8, <2>3 DEF w
<1>9. CASE type = "tuic"
  <2>1. w = Keep(has, {"uuid", "password", "congestion-controller"}) ++ secured
    BY <1>9 DEF SingboxWritten, secured, maybe
  <2> HIDE DEF w
  <2>2. /\ Fields(w)
        /\ \A f : Value(w, f) = OutboundValue("tuic", has, f)
    BY <1>2, <2>1, KeepFields, OverFields DEF OutboundValue, TLSValue
  <2> QED BY <1>9, <2>2 DEF w
<1>10. CASE type = "hysteria"
  <2>1. w = Keep(has, {"auth-str", "up", "down", "obfs"}) ++ secured
    BY <1>10 DEF SingboxWritten, secured, maybe
  <2> HIDE DEF w
  <2>2. /\ Fields(w)
        /\ \A f : Value(w, f) = OutboundValue("hysteria", has, f)
    BY <1>2, <2>1, KeepFields, OverFields DEF OutboundValue, TLSValue
  <2> QED BY <1>10, <2>2 DEF w
<1>11. CASE type = "socks5"
  <2>1. w = Keep(has, {"username", "password", "tfo"})
    BY <1>11 DEF SingboxWritten, secured, maybe
  <2> HIDE DEF w
  <2> QED BY <1>11, <2>1, KeepFields DEF OutboundValue, w
<1>12. CASE type = "http"
  <2>1. w = Keep(has, {"username", "password"}) ++ maybe
    BY <1>12 DEF SingboxWritten, secured, maybe
  <2> HIDE DEF w
  <2>2. /\ Fields(w)
        /\ \A f : Value(w, f) = OutboundValue("http", has, f)
    BY <1>2, <2>1, KeepFields, OverFields DEF OutboundValue, TLSValue
  <2> QED BY <1>12, <2>2 DEF w
<1>13. CASE type = "wireguard"
  <2>1. w = Keep(has, FieldsOf("wireguard") \ {"udp"})
    BY <1>13 DEF SingboxWritten, secured, maybe
  <2> HIDE DEF w
  <2> QED BY <1>13, <2>1, KeepFields DEF OutboundValue, w
<1> QED
  BY <1>1, <1>4, <1>5, <1>6, <1>7, <1>8, <1>9, <1>10, <1>11, <1>12, <1>13

\* The node that is read of them.
SingboxValue(type, has, f) ==
    IF type = "socks5" /\ f = "tfo" THEN "none"
    ELSE IF type = "trojan" /\ f = "udp" THEN "on"
    ELSE OutboundValue(type, has, f)

\* SingboxRead after SingboxWritten is SingboxValue.
LEMMA SingboxTable ==
  ASSUME NEW type \in SingboxWords, NEW has, Fields(has)
  PROVE  LET out == SingboxRead(type, SingboxWritten(type, has))
         IN  /\ Fields(out)
             /\ \A f : Value(out, f) = SingboxValue(type, has, f)
<1> DEFINE w == SingboxWritten(type, has)
           kept == Keep(w, (DOMAIN w) \ (IF type = "socks5" THEN {"tfo"} ELSE {}))
           udp == Set(type = "trojan", "udp", "on")
<1>1. /\ Fields(w)
      /\ \A f : Value(w, f) = OutboundValue(type, has, f)
  BY SingboxWrittenTable
<1>2. SingboxRead(type, w) = kept ++ udp
  BY DEF SingboxRead
<1> HIDE DEF w
<1>3. /\ Fields(kept)
      /\ \A f : Value(kept, f) = IF type = "socks5" /\ f = "tfo" THEN "none" ELSE Value(w, f)
  <2>1. CASE type = "socks5"
    <3>1. kept = Keep(w, (DOMAIN w) \ {"tfo"})
      BY <2>1
    <3> HIDE DEF kept
    <3> QED BY <1>1, <2>1, <3>1, KeepFields, ValueFacts
  <2>2. CASE type # "socks5"
    <3>1. kept = Keep(w, DOMAIN w)
      BY <2>2
    <3> HIDE DEF kept
    <3> QED BY <1>1, <2>2, <3>1, KeepFields, ValueFacts
  <2> QED BY <2>1, <2>2
<1>4. /\ Fields(udp)
      /\ \A f : Value(udp, f) = IF type = "trojan" /\ f = "udp" THEN "on" ELSE "none"
  <2>1. CASE type = "trojan"
    BY <2>1, ConstantValues, OnlyFields DEF Set
  <2>2. CASE type # "trojan"
    BY <2>2, NothingFields DEF Set
  <2> QED BY <2>1, <2>2
<1> HIDE DEF kept, udp
<1>5. OutboundValue("trojan", has, "udp") = "none"
  BY DEF OutboundValue, TLSValue
<1> QED BY <1>1, <1>2, <1>3, <1>4, <1>5, OverFields DEF SingboxValue, w

\* What a hop through sing-box keeps, and that a second changes nothing.
LEMMA SingboxCarried ==
  ASSUME NEW type \in SingboxWords, NEW has, NodeFields(type, has)
  PROVE  LET out == SingboxRead(type, SingboxWritten(type, has))
         IN  /\ Carried("singbox", type, has, out)
             /\ SingboxRead(type, SingboxWritten(type, out)) = out
<1> DEFINE out == SingboxRead(type, SingboxWritten(type, has))
           again == SingboxRead(type, SingboxWritten(type, out))
<1>0. Fields(has)
  BY DEF NodeFields
<1>1. Fields(out) /\ \A f : Value(out, f) = SingboxValue(type, has, f)
  BY <1>0, SingboxTable
<1>2. Fields(again) /\ \A f : Value(again, f) = SingboxValue(type, out, f)
  BY <1>1, SingboxTable
<1> HIDE DEF out, again
<1>t. type \in {"ss", "vmess", "vless", "trojan", "hysteria2", "tuic", "hysteria", "socks5",
                "http", "wireguard"}
  BY DEF SingboxWords, Types
<1>4. \A f : Value(out, f) = Value(has, f) \/ Value(out, f) \notin Splits
  <2> TAKE f
  <2>1. Value(out, f) \in {Value(has, f), Name(has), "none", "on", "zero", "auto"}
    BY <1>1, <1>t DEF SingboxValue, OutboundValue, TLSValue, TransportValue, Default
  <2>2. Name(has) \notin Splits
    BY DEF Name, NodeFields
  <2> QED BY <2>1, <2>2 DEF Splits
<1>3. NodeFields(type, out)
  <2>1. \A f : Value(out, f) # "none" => f \in FieldsOf(type)
    <3> TAKE f
    <3>1. Value(has, f) # "none" => f \in FieldsOf(type)
      BY DEF NodeFields
    <3> QED BY <1>1, <1>t, <3>1
          DEF FieldsOf, SingboxValue, OutboundValue, TLSValue, TransportValue, Default
  <2>2. /\ Value(out, "sni") \in {Name(has), "none"} /\ Value(out, "servername") = "none"
        /\ Value(out, "server") \in {Value(has, "server"), "none"}
    BY <1>1, <1>t DEF NodeFields, FieldsOf, SingboxValue, OutboundValue, TLSValue
  <2>3. Name(has) \notin Splits /\ "none" \notin Splits
    BY DEF Name, NodeFields, Splits
  <2> QED BY <1>1, <2>1, <2>2, <2>3 DEF NodeFields
<1>d. Drawn(out, has)
  BY <1>1, <1>4 DEF Drawn, Holds
<1>k. KeptSecrets("singbox", type, has, out)
  <2>1. \A f \in Secrets : \/ Value(out, f) = Value(has, f)
                          \/ (f = "cipher" /\ type = "vmess" /\ Value(out, f) = "auto")
    BY <1>1, <1>t DEF NodeFields, FieldsOf, Secrets, SingboxValue, OutboundValue, TLSValue, Default
  <2> QED BY <2>1 DEF KeptSecrets, KeptValue
<1>v. KeptServer("singbox", type, has, out)
  <2>1. Value(out, "server") \in {Value(has, "server"), "none"}
    BY <1>1, <1>t DEF SingboxValue, OutboundValue, TLSValue
  <2> QED BY <2>1 DEF KeptServer
<1>5. KeptGuard("singbox", type, has, out)
  BY <1>1, <1>t DEF KeptGuard, SingboxValue, OutboundValue, TLSValue, UsesTLS
<1>6. KeptName("singbox", type, has, out)
  BY <1>1, <1>t DEF KeptName, NameMatters, NodeFields, FieldsOf, Name, SingboxValue,
                       OutboundValue, TLSValue,
                    UsesTLS
<1>7. again = out
  <2>1. \A f : Value(again, f) = Value(out, f)
    BY <1>1, <1>2, <1>t
       DEF SingboxValue, OutboundValue, TLSValue, TransportValue, Default, UsesTLS, Name
  <2> QED BY <1>1, <1>2, <2>1, SameFields
<1> QED BY <1>3, <1>d, <1>k, <1>v, <1>5, <1>6, <1>7 DEF Carried, out, again

(***************************************************************************)
(* What a node of each type is after a share link.                         *)
(***************************************************************************)
\* The parameters of the link.
LinkedValue(type, has, f) ==
    CASE type = "ss" ->
            (CASE f \in {"cipher", "password"} -> Value(has, f)
               [] f = "plugin" /\ Value(has, f) \in {"obfs", "v2ray-plugin"} -> Value(has, f)
               [] OTHER -> "none")
      [] type = "ssr" -> IF f \in FieldsOf("ssr") \ {"udp"} THEN Value(has, f) ELSE "none"
      [] type = "vmess" ->
            (CASE f \in {"uuid", "tls"} -> Value(has, f)
               [] f = "alterId" -> Default(Value(has, f), "zero")
               [] f = "cipher" -> Default(Value(has, f), "auto")
               [] f = "sni" -> Value(has, "servername")
               [] f = "network" -> Default(Value(has, f), "tcp")
               [] OTHER -> "none")
      [] type = "vless" ->
            (CASE f \in {"uuid", "flow", "client-fingerprint", "reality-opts"} -> Value(has, f)
               [] f = "tls" /\ UsesTLS(has) -> "on"
               [] f = "sni" -> Value(has, "servername")
               [] f = "network" -> Default(Value(has, f), "tcp")
               [] OTHER -> "none")
      [] type = "trojan" ->
            (CASE f \in {"password", "sni", "skip-cert-verify"} -> Value(has, f)
               [] f = "network" -> Default(Value(has, f), "tcp")
               [] OTHER -> "none")
      [] type = "hysteria2" ->
            (CASE f \in {"password", "sni", "skip-cert-verify", "alpn", "obfs", "server"} ->
                    Value(has, f)
               [] f = "obfs-password" /\ Value(has, "obfs") # "none" -> Value(has, f)
               [] OTHER -> "none")
      [] type = "tuic" -> IF f \in FieldsOf("tuic") \ {"tls"} THEN Value(has, f) ELSE "none"
      [] type = "socks5" -> IF f \in {"username", "password"} THEN Value(has, f) ELSE "none"
      [] type = "http" ->
            IF f \in {"username", "password", "tls"} THEN Value(has, f) ELSE "none"
      [] type = "wireguard" ->
            IF f \in FieldsOf("wireguard") \ {"udp"} THEN Value(has, f) ELSE "none"
      [] type = "hysteria" ->
            IF f \in FieldsOf("hysteria") \ {"tls", "tfo"} THEN Value(has, f) ELSE "none"

\* LinkWritten gives these parameters.
LEMMA LinkWrittenTable ==
  ASSUME NEW type \in LinkWords, NEW has, Fields(has)
  PROVE  LET w == LinkWritten(type, has)
         IN  /\ Fields(w)
             /\ \A f : Value(w, f) = LinkedValue(type, has, f)
<1> DEFINE w == LinkWritten(type, has)
           servername == When("servername" \in DOMAIN has, SNI(has))
           network == LinkTransport(has)
<1>1. type \in {"ss", "ssr", "vmess", "vless", "trojan", "hysteria2", "tuic", "socks5", "http",
                "wireguard", "hysteria"}
  BY DEF LinkWords, Types
<1>2. /\ Fields(servername)
      /\ \A f : Value(servername, f) = IF f = "sni" THEN Value(has, "servername") ELSE "none"
  <2>1. CASE "servername" \in DOMAIN has
    BY <2>1, ValueFacts, SNIFields DEF When, Name
  <2>2. CASE "servername" \notin DOMAIN has
    BY <2>2, ValueFacts, NothingFields DEF When
  <2> QED BY <2>1, <2>2
<1>3. /\ Fields(network)
      /\ \A f : Value(network, f) =
           IF f = "network" THEN Default(Value(has, f), "tcp") ELSE "none"
  BY LinkTransportFields DEF Default
<1>4. CASE type = "ss"
  <2>1. "none" \notin {"obfs", "v2ray-plugin"}
    OBVIOUS
  <2>2. /\ Fields(PluginParts(has, {"obfs", "v2ray-plugin"}))
        /\ \A f : Value(PluginParts(has, {"obfs", "v2ray-plugin"}), f) =
             IF f = "plugin" /\ Value(has, f) \in {"obfs", "v2ray-plugin"}
             THEN Value(has, f) ELSE "none"
    BY <2>1, PluginPartsFields
  <2>3. w = Keep(has, {"cipher", "password"}) ++ PluginParts(has, {"obfs", "v2ray-plugin"})
    BY <1>4 DEF LinkWritten
  <2> HIDE DEF w
  <2>4. /\ Fields(w)
        /\ \A f : Value(w, f) = LinkedValue("ss", has, f)
    BY <2>2, <2>3, KeepFields, OverFields DEF LinkedValue
  <2> QED BY <1>4, <2>4 DEF w
<1>5. CASE type = "vmess"
  <2>1. w = Keep(has, {"uuid", "alterId", "cipher", "tls"}) ++ servername ++ network ++
            Only("alterId", "zero") ++ Only("cipher", "auto")
    BY <1>5 DEF LinkWritten
  <2> HIDE DEF w, servername, network
  <2>2. /\ Fields(w)
        /\ \A f : Value(w, f) = LinkedValue("vmess", has, f)
    BY <1>2, <1>3, <2>1, ConstantValues, KeepFields, OnlyFields, OverFields
       DEF LinkedValue, Default
  <2> QED BY <1>5, <2>2 DEF w
<1>6. CASE type = "vless"
  <2> DEFINE tls == Set(HasTLS(has), "tls", "on")
  <2>1. w = Keep(has, {"uuid", "flow", "client-fingerprint", "reality-opts"}) ++ tls ++
            servername ++ network
    BY <1>6 DEF LinkWritten
  <2>2. /\ Fields(tls)
        /\ \A f : Value(tls, f) = IF f = "tls" /\ UsesTLS(has) THEN "on" ELSE "none"
    <3>1. HasTLS(has) <=> UsesTLS(has)
      BY TLSFields DEF UsesTLS
    <3>2. CASE UsesTLS(has)
      BY <3>1, <3>2, ConstantValues, OnlyFields DEF Set
    <3>3. CASE ~UsesTLS(has)
      BY <3>1, <3>3, NothingFields DEF Set
    <3> QED BY <3>2, <3>3
  <2> HIDE DEF w, servername, network, tls
  <2>3. /\ Fields(w)
        /\ \A f : Value(w, f) = LinkedValue("vless", has, f)
    BY <1>2, <1>3, <2>1, <2>2, KeepFields, OverFields DEF LinkedValue
  <2> QED BY <1>6, <2>3 DEF w
<1>7. CASE type = "trojan"
  <2>1. w = Keep(has, {"password", "sni", "skip-cert-verify"}) ++ network
    BY <1>7 DEF LinkWritten
  <2> HIDE DEF w, network
  <2>2. /\ Fields(w)
        /\ \A f : Value(w, f) = LinkedValue("trojan", has, f)
    BY <1>3, <2>1, KeepFields, OverFields DEF LinkedValue
  <2> QED BY <1>7, <2>2 DEF w
<1>8. CASE type = "hysteria2"
  <2> DEFINE obfs == When("obfs" \in DOMAIN has, Keep(has, {"obfs", "obfs-password"}))
  <2>1. w = Keep(has, {"password", "sni", "skip-cert-verify", "alpn", "server"}) ++ obfs
    BY <1>8 DEF LinkWritten
  <2>2. /\ Fields(obfs)
        /\ \A f : Value(obfs, f) =
             IF Value(has, "obfs") # "none" /\ f \in {"obfs", "obfs-password"}
             THEN Value(has, f) ELSE "none"
    <3>1. CASE "obfs" \in DOMAIN has
      BY <3>1, ValueFacts, KeepFields DEF When
    <3>2. CASE "obfs" \notin DOMAIN has
      BY <3>2, ValueFacts, NothingFields DEF When
    <3> QED BY <3>1, <3>2
  <2> HIDE DEF w, obfs
  <2>3. /\ Fields(w)
        /\ \A f : Value(w, f) = LinkedValue("hysteria2", has, f)
    BY <2>1, <2>2, KeepFields, OverFields DEF LinkedValue
  <2> QED BY <1>8, <2>3 DEF w
<1>9. CASE type \in {"ssr", "tuic", "socks5", "http", "wireguard", "hysteria"}
  <2>1. w = Keep(has, CASE type = "ssr" -> FieldsOf("ssr") \ {"udp"}
                        [] type = "tuic" -> FieldsOf("tuic") \ {"tls"}
                        [] type = "socks5" -> {"username", "password"}
                        [] type = "http" -> {"username", "password", "tls"}
                        [] type = "wireguard" -> FieldsOf("wireguard") \ {"udp"}
                        [] type = "hysteria" -> FieldsOf("hysteria") \ {"tls", "tfo"})
    BY <1>9 DEF LinkWritten
  <2> HIDE DEF w
  <2> QED BY <1>9, <2>1, KeepFields DEF LinkedValue, w
<1> QED BY <1>1, <1>4, <1>5, <1>6, <1>7, <1>8, <1>9

\* What is said where, of the types whose links have a userinfo that is not escaped.
UserTypes == {"vless", "trojan", "hysteria2", "tuic", "wireguard"}
UserValue(type, has, f) ==
    IF f \in Unescaped(type) \/ (f = "server" /\ type \in Mislead) THEN UserOf(type, has, f)
    ELSE LinkedValue(type, has, f)

\* The node that is read of them.
LinkValue(type, has, f) ==
    CASE type \in {"ss", "ssr", "socks5"} ->
            IF f = "udp" THEN "on" ELSE LinkedValue(type, has, f)
      [] type = "wireguard" -> IF f = "udp" THEN "on" ELSE UserValue(type, has, f)
      [] type = "vmess" ->
            (CASE f = "udp" -> "on"
               [] f = "sni" -> "none"
               [] f = "servername" ->
                    IF Value(has, "tls") = "none" THEN "none"
                    ELSE Default(Value(has, f),
                                 IF Value(has, "network") \in {"ws+host", "h2"} THEN "host"
                                 ELSE "none")
               [] OTHER -> LinkedValue("vmess", has, f))
      [] type = "vless" ->
            (CASE f = "udp" -> "on"
               [] f = "uuid" -> UserOf(type, has, f)
               [] f \in {"flow", "network", "tls", "reality-opts"} ->
                    LinkedValue("vless", has, f)
               [] f = "client-fingerprint" /\ UsesTLS(has) -> Default(Value(has, f), "chrome")
               [] f = "servername" /\ UsesTLS(has) -> Value(has, f)
               [] OTHER -> "none")
      [] type = "trojan" ->
            (CASE f = "udp" -> "on"
               [] f = "password" -> UserOf(type, has, f)
               [] f \in {"sni", "skip-cert-verify"} -> Value(has, f)
               [] f = "network" -> IF Value(has, f) \in {"tcp", "h2"} THEN "none" ELSE Value(has, f)
               [] OTHER -> "none")
      [] type = "tuic" ->
            (CASE f = "congestion-controller" -> Default(Value(has, f), "bbr")
               [] f = "udp-relay-mode" -> Default(Value(has, f), "native")
               [] f = "alpn" -> Default(Value(has, f), "h3")
               [] OTHER -> UserValue("tuic", has, f))
      [] type = "hysteria2" -> UserValue("hysteria2", has, f)
      [] type = "hysteria" -> LinkedValue("hysteria", has, f)

\* The userinfo of a link is that of the node.
LEMMA UserTable ==
  ASSUME NEW type \in UserTypes, NEW has, Fields(has), Misleading(type, has) => type \in Mislead
  PROVE  LET u == User(type, LinkWritten(type, has))
         IN  /\ Fields(u)
             /\ \A f : Value(u, f) = UserValue(type, has, f)
<1> DEFINE w == LinkWritten(type, has)
<1>t. type \in LinkWords /\ UserTypes \subseteq LinkWords
  BY DEF UserTypes, LinkWords, Types
<1>1. /\ Fields(w)
      /\ \A f : Value(w, f) = LinkedValue(type, has, f)
  BY <1>t, LinkWrittenTable
<1>2. /\ Fields(User(type, w))
      /\ \A f : Value(User(type, w), f) = UserOf(type, w, f)
  BY <1>1, UserFields
<1> HIDE DEF w
<1>3. \A f \in Unescaped(type) : Value(w, f) = Value(has, f)
  BY <1>1 DEF UserTypes, Unescaped, LinkedValue, FieldsOf
<1>4. Misleading(type, w) <=> Misleading(type, has)
  BY <1>3 DEF Misleading
<1>5. type = "tuic" => Value(w, "uuid") = Value(has, "uuid")
  BY <1>3 DEF Unescaped
<1>6. type \in Mislead => Value(w, "server") = Value(has, "server")
  BY <1>1 DEF Mislead, LinkedValue, FieldsOf
<1>7. "server" \notin Unescaped(type)
  BY DEF Unescaped
<1>8. "password" \in Unescaped("tuic")
  BY DEF Unescaped
<1>9. \A f : UserOf(type, w, f) = UserValue(type, has, f)
  <2> TAKE f
  <2>1. CASE f \in Unescaped(type)
    <3>1. UserOf(type, w, f) = UserOf(type, has, f)
      BY <1>3, <1>4, <1>5, <1>7, <2>1 DEF UserOf
    <3> QED BY <2>1, <3>1 DEF UserValue
  <2>2. CASE f = "server" /\ type \in Mislead
    <3>1. UserOf(type, w, f) = UserOf(type, has, f)
      BY <1>4, <1>6, <1>7, <2>2 DEF UserOf
    <3> QED BY <2>2, <3>1 DEF UserValue
  <2>3. CASE f \notin Unescaped(type) /\ ~(f = "server" /\ type \in Mislead)
    <3>1. UserOf(type, w, f) = Value(w, f)
      BY <1>4, <1>8, <2>3 DEF UserOf
    <3> QED BY <1>1, <2>3, <3>1 DEF UserValue
  <2> QED BY <2>1, <2>2, <2>3
<1> QED BY <1>2, <1>9 DEF w

\* LinkRead after LinkWritten is LinkValue.
LEMMA LinkTable ==
  ASSUME NEW type \in LinkWords \ {"http"}, NEW has, Fields(has),
         Misleading(type, has) => type \in Mislead
  PROVE  LET out == LinkRead(type, LinkWritten(type, has))
         IN  /\ Fields(out)
             /\ \A f : Value(out, f) = LinkValue(type, has, f)
<1> DEFINE w == LinkWritten(type, has)
           u == User(type, w)
           out == LinkRead(type, w)
<1>1. type \in {"ss", "ssr", "vmess", "vless", "trojan", "hysteria2", "tuic", "socks5",
                "wireguard", "hysteria"}
  BY DEF LinkWords, Types
<1>2. /\ Fields(w)
      /\ \A f : Value(w, f) = LinkedValue(type, has, f)
  BY LinkWrittenTable
<1>3. type \in UserTypes =>
        /\ Fields(u)
        /\ \A f : Value(u, f) = UserValue(type, has, f)
  BY UserTable
<1> HIDE DEF w
<1>w. type \in {"ss", "ssr", "socks5"} =>
        /\ Fields(u)
        /\ \A f : Value(u, f) = LinkedValue(type, has, f)
  <2> SUFFICES ASSUME type \in {"ss", "ssr", "socks5"}
               PROVE  /\ Fields(u)
                      /\ \A f : Value(u, f) = LinkedValue(type, has, f)
    OBVIOUS
  <2>1. /\ Fields(u)
        /\ \A f : Value(u, f) = UserOf(type, w, f)
    BY <1>2, UserFields
  <2>2. Unescaped(type) = {}
    BY DEF Unescaped
  <2>3. \A f : UserOf(type, w, f) = Value(w, f)
    BY <2>2 DEF UserOf, Misleading
  <2> QED BY <1>2, <2>1, <2>3
<1> HIDE DEF u
<1>4. CASE type \in {"ss", "ssr", "socks5", "wireguard"}
  <2>1. out = u ++ Only("udp", "on")
    BY <1>4 DEF LinkRead, u
  <2>0. UserValue("wireguard", has, "udp") = "none"
    BY DEF UserValue, Unescaped, LinkedValue
  <2>2. Fields(u) /\ Value(u, "udp") = "none"
    <3>1. type # "wireguard" => LinkedValue(type, has, "udp") = "none"
      BY <1>4 DEF LinkedValue
    <3> QED BY <1>3, <1>4, <1>w, <2>0, <3>1 DEF UserTypes
  <2> HIDE DEF out
  <2>3. /\ Fields(out)
        /\ \A f : Value(out, f) = IF f = "udp" THEN "on" ELSE Value(u, f)
    BY <2>1, <2>2, ConstantValues, OnlyFields, OverFields
  <2>4. \A f : LinkValue(type, has, f) = IF f = "udp" THEN "on" ELSE Value(u, f)
    BY <1>3, <1>4, <1>w DEF LinkValue, UserTypes
  <2> QED BY <2>3, <2>4 DEF out, w
<1>5. CASE type = "vmess"
  <2> DEFINE given == IF "sni" \in DOMAIN w THEN Only("servername", w["sni"])
                      ELSE Set(w["network"] \in {"ws+host", "h2"}, "servername", "host")
             named == When("tls" \in DOMAIN w, given)
  <2>1. out = Keep(w, (DOMAIN w) \ {"sni"}) ++ Only("udp", "on") ++ named
    BY <1>5 DEF LinkRead, ReadVMess
  <2>2. /\ Value(w, "tls") = Value(has, "tls") /\ Value(w, "sni") = Value(has, "servername")
        /\ Value(w, "network") = Default(Value(has, "network"), "tcp")
    BY <1>2, <1>5 DEF LinkedValue
  <2>3. /\ Fields(given)
        /\ \A f : Value(given, f) =
             IF f # "servername" THEN "none"
             ELSE Default(Value(has, f),
                          IF Value(has, "network") \in {"ws+host", "h2"} THEN "host"
                          ELSE "none")
    <3>1. CASE "sni" \in DOMAIN w
      <4>1. w["sni"] \in Values /\ w["sni"] = Value(has, "servername")
        BY <1>2, <2>2, <3>1 DEF Fields, Value
      <4>2. given = Only("servername", w["sni"])
        BY <3>1
      <4> HIDE DEF given
      <4> QED BY <4>1, <4>2, OnlyFields, NoneNoValue DEF Default
    <3>2. CASE "sni" \notin DOMAIN w
      <4>1. Value(has, "servername") = "none"
        BY <1>2, <2>2, <3>2, ValueFacts
      <4>2. w["network"] = Default(Value(has, "network"), "tcp")
        BY <1>2, <2>2, ValueFacts DEF Value, Default
      <4>3. given = IF w["network"] \in {"ws+host", "h2"} THEN Only("servername", "host")
                    ELSE Nothing
        BY <3>2 DEF Set
      <4> HIDE DEF given
      <4>4. CASE Value(has, "network") \in {"ws+host", "h2"}
        <5>1. given = Only("servername", "host")
          BY <4>2, <4>3, <4>4 DEF Default
        <5> QED BY <4>1, <4>4, <5>1, ConstantValues, OnlyFields DEF Default
      <4>5. CASE Value(has, "network") \notin {"ws+host", "h2"}
        <5>1. given = Nothing
          BY <4>2, <4>3, <4>5 DEF Default
        <5> QED BY <4>1, <4>5, <5>1, NothingFields DEF Default
      <4> QED BY <4>4, <4>5
    <3> QED BY <3>1, <3>2
  <2> HIDE DEF given
  <2>4. /\ Fields(named)
        /\ \A f : Value(named, f) = IF Value(has, "tls") = "none" THEN "none" ELSE Value(given, f)
    <3>1. "tls" \in DOMAIN w <=> Value(has, "tls") # "none"
      BY <1>2, <2>2, ValueFacts
    <3>2. CASE "tls" \in DOMAIN w
      BY <2>3, <3>1, <3>2 DEF When
    <3>3. CASE "tls" \notin DOMAIN w
      BY <3>1, <3>3, NothingFields DEF When
    <3> QED BY <3>2, <3>3
  <2>5. /\ Fields(Keep(w, (DOMAIN w) \ {"sni"}))
        /\ \A f : Value(Keep(w, (DOMAIN w) \ {"sni"}), f) =
             IF f = "sni" THEN "none" ELSE Value(w, f)
    BY <1>2, KeepFields, ValueFacts
  <2> HIDE DEF out, named
  <2>6. /\ Fields(out)
        /\ \A f : Value(out, f) = LinkValue("vmess", has, f)
    BY <1>2, <1>5, <2>1, <2>3, <2>4, <2>5, ConstantValues, OnlyFields, OverFields
       DEF LinkValue, LinkedValue
  <2> QED BY <1>5, <2>6 DEF out, w
<1>6. CASE type = "vless"
  <2> DEFINE name == Set("sni" \in DOMAIN w, "servername", Value(w, "sni"))
             tls == Keep(w, {"client-fingerprint"}) ++ Only("client-fingerprint", "chrome") ++ name
             secured == When("tls" \in DOMAIN w, tls)
  <2>1. out = Keep(u, {"uuid", "flow", "network", "tls", "reality-opts"}) ++
              Only("udp", "on") ++ secured
    BY <1>6 DEF LinkRead, ReadVLESS, u
  <2>0. /\ Fields(u)
        /\ Value(u, "uuid") = UserOf("vless", has, "uuid")
        /\ \A f \in {"flow", "network", "tls", "reality-opts"} :
              Value(u, f) = LinkedValue("vless", has, f)
    BY <1>3, <1>6 DEF UserTypes, UserValue, Unescaped, Mislead
  <2>2. /\ Value(w, "sni") = Value(has, "servername")
        /\ Value(w, "client-fingerprint") = Value(has, "client-fingerprint")
        /\ Value(w, "tls") # "none" <=> UsesTLS(has)
    BY <1>2, <1>6 DEF LinkedValue
  <2>3. /\ Fields(name)
        /\ \A f : Value(name, f) = IF f = "servername" THEN Value(has, f) ELSE "none"
    <3>1. CASE "sni" \in DOMAIN w
      <4>1. Value(w, "sni") \in Values
        BY <1>2, <3>1, ValueFacts
      <4> QED BY <2>2, <3>1, <4>1, OnlyFields DEF Set
    <3>2. CASE "sni" \notin DOMAIN w
      BY <1>2, <2>2, <3>2, ValueFacts, NothingFields DEF Set
    <3> QED BY <3>1, <3>2
  <2> HIDE DEF name
  <2>4. /\ Fields(tls)
        /\ \A f : Value(tls, f) =
             CASE f = "client-fingerprint" -> Default(Value(has, f), "chrome")
               [] f = "servername" -> Value(has, f)
               [] OTHER -> "none"
    BY <1>2, <2>2, <2>3, ConstantValues, KeepFields, OnlyFields, OverFields DEF Default
  <2> HIDE DEF tls
  <2>5. /\ Fields(secured)
        /\ \A f : Value(secured, f) = IF UsesTLS(has) THEN Value(tls, f) ELSE "none"
    <3>1. "tls" \in DOMAIN w <=> UsesTLS(has)
      BY <1>2, <2>2, ValueFacts
    <3>2. CASE "tls" \in DOMAIN w
      BY <2>4, <3>1, <3>2 DEF When
    <3>3. CASE "tls" \notin DOMAIN w
      BY <3>1, <3>3, NothingFields DEF When
    <3> QED BY <3>2, <3>3
  <2> HIDE DEF out, secured
  <2>6. /\ Fields(out)
        /\ \A f : Value(out, f) = LinkValue("vless", has, f)
    BY <2>0, <2>1, <2>4, <2>5, ConstantValues, KeepFields, OnlyFields, OverFields
       DEF LinkValue
  <2> QED BY <1>6, <2>6 DEF out, w
<1>7. CASE type = "trojan"
  <2> DEFINE network == When(w["network"] \notin {"tcp", "h2"}, Keep(w, {"network"}))
  <2>1. out = Keep(u, {"password", "sni", "skip-cert-verify"}) ++ Only("udp", "on") ++ network
    BY <1>7 DEF LinkRead, ReadTrojan, u
  <2>2. w["network"] = Default(Value(has, "network"), "tcp") /\ w["network"] = Value(w, "network")
    BY <1>2, <1>7, ValueFacts DEF LinkedValue, Value, Default
  <2>3. /\ Fields(network)
        /\ \A f : Value(network, f) =
             IF f = "network" /\ Value(has, f) \notin {"tcp", "h2"} THEN Value(has, f) ELSE "none"
    <3>1. CASE w["network"] \in {"tcp", "h2"}
      <4>1. network = Nothing
        BY <3>1 DEF When
      <4> QED BY <2>2, <3>1, <4>1, NothingFields DEF Default
    <3>2. CASE w["network"] \notin {"tcp", "h2"}
      <4>1. network = Keep(w, {"network"})
        BY <3>2 DEF When
      <4> HIDE DEF network
      <4> QED BY <1>2, <2>2, <3>2, <4>1, KeepFields DEF Default
    <3> QED BY <3>1, <3>2
  <2> HIDE DEF out, network
  <2>4. /\ Fields(u)
        /\ Value(u, "password") = UserOf("trojan", has, "password")
        /\ \A f \in {"sni", "skip-cert-verify"} : Value(u, f) = Value(has, f)
    BY <1>3, <1>7 DEF UserTypes, UserValue, Unescaped, Mislead, LinkedValue
  <2>5. /\ Fields(out)
        /\ \A f : Value(out, f) = LinkValue("trojan", has, f)
    BY <2>1, <2>3, <2>4, ConstantValues, KeepFields, OnlyFields, OverFields DEF LinkValue
  <2> QED BY <1>7, <2>5 DEF out, w
<1>8. CASE type = "tuic"
  <2>1. out = ((u ++ Only("congestion-controller", "bbr")) ++
              Only("udp-relay-mode", "native")) ++ Only("alpn", "h3")
    BY <1>8 DEF LinkRead, ReadTUIC, u
  <2>2. /\ Fields(u)
        /\ \A f : Value(u, f) = UserValue("tuic", has, f)
    BY <1>3, <1>8 DEF UserTypes
  <2>3. \A f \in {"congestion-controller", "udp-relay-mode", "alpn"} : Value(u, f) = Value(has, f)
    BY <2>2 DEF UserValue, Unescaped, Mislead, LinkedValue, FieldsOf
  <2> HIDE DEF out
  <2>4. /\ Fields(out)
        /\ \A f : Value(out, f) = LinkValue("tuic", has, f)
    BY <2>1, <2>2, <2>3, ConstantValues, OnlyFields, OverFields DEF LinkValue, Default
  <2> QED BY <1>8, <2>4 DEF out, w
<1>9. CASE type = "hysteria2"
  <2>1. out = u
    BY <1>9 DEF LinkRead, u
  <2> QED BY <1>3, <1>9, <2>1 DEF UserTypes, LinkValue, w
<1>10. CASE type = "hysteria"
  <2>1. out = w
    BY <1>10 DEF LinkRead
  <2> QED BY <1>2, <1>10, <2>1 DEF LinkValue, w
<1> QED BY <1>1, <1>4, <1>5, <1>6, <1>7, <1>8, <1>9, <1>10

\* What a hop through share links keeps, and that a second changes nothing.
LEMMA LinkCarried ==
  ASSUME NEW type \in LinkWords \ {"http"}, NEW has, NodeFields(type, has),
         LinkReadable(type, LinkWritten(type, has))
  PROVE  LET out == LinkRead(type, LinkWritten(type, has))
         IN  /\ Carried("v2ray", type, has, out)
             /\ LinkReadable(type, LinkWritten(type, out))
             /\ LinkRead(type, LinkWritten(type, out)) = out
<1> DEFINE w == LinkWritten(type, has)
           out == LinkRead(type, w)
           v == LinkWritten(type, out)
           again == LinkRead(type, v)
<1>0. Fields(has)
  BY DEF NodeFields
<1>t. type \in {"ss", "ssr", "vmess", "vless", "trojan", "hysteria2", "tuic", "socks5",
                "wireguard", "hysteria"}
  BY DEF LinkWords, Types
<1>w. Fields(w) /\ \A f : Value(w, f) = LinkedValue(type, has, f)
  BY <1>0, LinkWrittenTable
<1>q. LinkReadable(type, w)
  OBVIOUS
<1> HIDE DEF w
<1>f. \A f \in Unescaped(type) : f \in UNION {Unescaped(word) : word \in UserTypes}
  BY <1>t DEF Unescaped, UserTypes
<1>g. \A f \in Unescaped(type) : Value(w, f) = Value(has, f)
  BY <1>t, <1>w DEF Unescaped, LinkedValue, FieldsOf
<1>m. Misleading(type, has) => type \in Mislead
  <2>1. Misleading(type, w) <=> Misleading(type, has)
    BY <1>g DEF Misleading
  <2> QED BY <1>q, <1>w, <2>1, MisleadsFields DEF LinkReadable, Mislead
<1>1. Fields(out) /\ \A f : Value(out, f) = LinkValue(type, has, f)
  BY <1>0, <1>m, LinkTable DEF w
<1>v. Fields(v) /\ \A f : Value(v, f) = LinkedValue(type, out, f)
  BY <1>1, LinkWrittenTable
<1> HIDE DEF out
<1>u. \A f \in Unescaped(type) : Value(out, f) = UserOf(type, has, f)
  BY <1>1, <1>t DEF Unescaped, LinkValue, UserValue
<1>n. \A f \in Unescaped(type) :
        /\ Value(has, f) \notin {"slash", "bracket"}
        /\ Value(out, f) \notin {"slash", "bracket", "address", "percent"}
        /\ Value(out, f) = "colon" => type = "tuic" /\ f = "password"
  <2> TAKE f \in Unescaped(type)
  <2>1. Value(has, f) \notin {"slash", "bracket"}
    BY <1>g, <1>q DEF LinkReadable, Value
  <2>2. ~Misleading(type, has) => Value(has, f) # "address"
    BY DEF Misleading
  <2>3. Value(out, f) = UserOf(type, has, f)
    BY <1>u
  <2>4. CASE Misleading(type, has)
    <3>1. UserOf(type, has, f) = "none"
      BY <2>4 DEF UserOf
    <3> QED BY <2>1, <2>3, <3>1
  <2>5. CASE ~Misleading(type, has)
    <3>1. UserOf(type, has, f) =
            IF type = "tuic" /\ f = "password" /\ Value(has, "uuid") = "colon" THEN "rest"
            ELSE IF Value(has, f) = "percent" THEN "decoded"
            ELSE IF Value(has, f) = "colon" /\ ~(type = "tuic" /\ f = "password") THEN "first"
            ELSE Value(has, f)
      BY <2>5 DEF UserOf
    <3> QED BY <2>1, <2>2, <2>3, <2>5, <3>1
  <2> QED BY <2>4, <2>5
<1>o. ~Misleading(type, out)
  <2>1. ASSUME NEW f \in Unescaped(type), Value(out, f) = "address" PROVE FALSE
    BY <1>n, <2>1
  <2> QED BY <2>1 DEF Misleading
<1>2. Fields(again) /\ \A f : Value(again, f) = LinkValue(type, out, f)
  BY <1>1, <1>o, LinkTable
<1> HIDE DEF v, again
<1>s. \A f \in Unescaped(type) :
        \/ Value(out, f) = Value(has, f)
        \/ Value(out, f) = "first" /\ Value(has, f) = "colon"
        \/ Value(out, f) = "decoded" /\ Value(has, f) = "percent"
        \/ Value(out, f) = "rest" /\ type = "tuic" /\ f = "password" /\ Value(has, "uuid") = "colon"
        \/ Value(out, f) = "none" /\ Misleading(type, has) /\ type \in Mislead
  BY <1>m, <1>u DEF UserOf
<1>e. \A f : f \notin Unescaped(type) =>
        \/ Value(out, f) = Value(has, f)
        \/ Value(out, f) \in {"none", "on", "zero", "auto", "tcp", "chrome", "bbr", "native", "h3",
                              "host"}
        \/ Value(out, f) = "first" /\ f = "server" /\ Misleading(type, has) /\ type \in Mislead
  <2> SUFFICES ASSUME NEW f, f \notin Unescaped(type)
               PROVE  \/ Value(out, f) = Value(has, f)
                      \/ Value(out, f) \in {"none", "on", "zero", "auto", "tcp", "chrome", "bbr",
                                            "native", "h3", "host"}
                      \/ /\ Value(out, f) = "first" /\ f = "server"
                         /\ Misleading(type, has) /\ type \in Mislead
    OBVIOUS
  <2>1. CASE type \in UserTypes
    <3>1. \/ UserValue(type, has, f) = LinkedValue(type, has, f)
          \/ /\ f = "server" /\ type \in Mislead
             /\ UserValue(type, has, f) = UserOf(type, has, f)
      BY DEF UserValue
    <3>2. f = "server" /\ type \in Mislead =>
            \/ UserOf(type, has, f) = Value(has, f)
            \/ UserOf(type, has, f) = "first" /\ Misleading(type, has)
      BY DEF UserOf, Default, Mislead
    <3>3. LinkedValue(type, has, f) \in {Value(has, f), "none", "on", "tcp",
                                         Value(has, "servername")}
      BY <2>1 DEF UserTypes, LinkedValue, Default
    <3> HIDE DEF UserTypes
    <3>4. type = "vless" => f # "uuid"
      BY DEF Unescaped
    <3>5. type = "trojan" => f # "password"
      BY DEF Unescaped
    <3>6. \/ Value(out, f) \in {Value(has, f), "none", "on", "chrome", "bbr", "native", "h3", "tcp"}
          \/ Value(out, f) = UserValue(type, has, f) /\ type \in {"wireguard", "tuic", "hysteria2"}
      BY <1>1, <2>1, <3>4, <3>5 DEF LinkValue, LinkedValue, Default, UserTypes
    <3>7. type \in {"wireguard", "tuic", "hysteria2"} =>
            LinkedValue(type, has, f) \in {Value(has, f), "none"}
      BY DEF LinkedValue
    <3> QED BY <3>1, <3>2, <3>6, <3>7
  <2>2. CASE type \in {"ss", "ssr", "socks5", "hysteria"}
    <3>1. Value(out, f) \in {"on", LinkedValue(type, has, f)}
      BY <1>1, <2>2 DEF LinkValue
    <3>2. LinkedValue(type, has, f) \in {Value(has, f), "none"}
      BY <2>2 DEF LinkedValue
    <3> QED BY <3>1, <3>2
  <2>3. CASE type = "vmess"
    BY <1>1, <2>3 DEF LinkValue, LinkedValue, Default
  <2> QED BY <1>t, <2>1, <2>2, <2>3 DEF UserTypes
<1>3. NodeFields(type, out)
  <2>1. \A f : Value(out, f) # "none" => f \in FieldsOf(type)
    <3> TAKE f
    <3>1. Value(has, f) # "none" => f \in FieldsOf(type)
      BY DEF NodeFields
    <3>2. CASE type \in UserTypes
      <4>1. f \in Unescaped(type) \/ (f = "server" /\ type \in Mislead) => f \in FieldsOf(type)
        BY <1>t DEF Unescaped, Mislead, FieldsOf
      <4>2. Value(out, f) = LinkValue(type, has, f)
        BY <1>1
      <4>3. type \in UserTypes /\ type \notin {"vless", "trojan"}
             /\ UserValue(type, has, f) # "none" =>
              f \in FieldsOf(type)
        BY <3>1, <4>1 DEF UserValue, LinkedValue, UserTypes
      <4> QED BY <1>t, <3>1, <3>2, <4>1, <4>2, <4>3
            DEF UserTypes, FieldsOf, LinkValue, LinkedValue, Default
    <3>3. CASE type \notin UserTypes
      BY <1>1, <1>t, <3>1, <3>3 DEF UserTypes, FieldsOf, LinkValue, LinkedValue, Default
    <3> QED BY <3>2, <3>3
  <2>2. /\ "sni" \notin Unescaped(type) /\ "servername" \notin Unescaped(type)
        /\ "server" \notin Unescaped(type)
    BY DEF Unescaped
  <2>3. /\ Value(has, "sni") \notin Splits /\ Value(has, "servername") \notin Splits
        /\ Value(has, "server") \in {"none", "first"}
    BY DEF NodeFields
  <2>4. \A c \in {"none", "on", "zero", "auto", "tcp", "chrome", "bbr", "native", "h3", "host"} :
           c \notin Splits
    BY DEF Splits
  <2>5. Value(out, "sni") \notin Splits /\ Value(out, "servername") \notin Splits
    BY <1>e, <2>2, <2>3, <2>4
  <2>6. Value(out, "server") \in {"none", "first"}
    <3>1. Value(out, "server") \in {Value(has, "server"), "none", "first"}
      BY <1>1, <1>t, <2>2 DEF LinkValue, LinkedValue, UserValue, UserOf, Default, FieldsOf
    <3> QED BY <2>3, <3>1
  <2> QED BY <1>1, <2>1, <2>5, <2>6 DEF NodeFields
<1>d. Drawn(out, has)
  <2> SUFFICES ASSUME NEW f, Value(out, f) \in Splits PROVE Holds(has, Value(out, f))
    BY <1>1 DEF Drawn
  <2>1. Value(out, f) \notin {"none", "on", "zero", "auto", "tcp", "chrome", "bbr", "native", "h3",
                              "host", "first", "decoded", "rest"}
    BY DEF Splits
  <2>2. Value(out, f) = Value(has, f)
    BY <1>e, <1>s, <2>1
  <2> QED BY <2>2 DEF Holds
<1>4. KeptSecrets("v2ray", type, has, out)
  <2> SUFFICES ASSUME NEW f \in Secrets
               PROVE  KeptValue("v2ray", type, has, f, Value(has, f), Value(out, f))
    BY DEF KeptSecrets
  <2>1. CASE f \in Unescaped(type)
    <3>1. Misleading(type, has) /\ type \in Mislead => Value(has, f) = "address"
      BY <2>1 DEF Misleading, Mislead, Unescaped
    <3>2. \/ Value(out, f) = Value(has, f)
          \/ Value(out, f) = "first" /\ Value(has, f) = "colon"
          \/ Value(out, f) = "decoded" /\ Value(has, f) = "percent"
          \/ /\ Value(out, f) = "rest" /\ type = "tuic" /\ f = "password"
             /\ Value(has, "uuid") = "colon"
          \/ Value(out, f) = "none" /\ Misleading(type, has) /\ type \in Mislead
      BY <1>s, <2>1
    <3> QED BY <2>1, <3>1, <3>2 DEF KeptValue
  <2>2. CASE f \notin Unescaped(type)
    <3>1. Value(out, f) = Value(has, f)
            \/ (f = "cipher" /\ type = "vmess" /\ Value(out, f) = "auto")
      BY <1>1, <1>t, <2>2
         DEF NodeFields, Secrets, Unescaped, LinkValue, LinkedValue, UserValue, Default, FieldsOf
    <3> QED BY <3>1 DEF KeptValue
  <2> QED BY <2>1, <2>2
<1>5. KeptServer("v2ray", type, has, out)
  <2>1. "server" \notin Unescaped(type)
    BY DEF Unescaped
  <2>2. \/ Value(out, "server") \in {Value(has, "server"), "none"}
        \/ Misleading(type, has) /\ type \in Mislead
    <3>1. Value(out, "server") \in {Value(has, "server"), "none"} \cup
            (IF type \in Mislead THEN {UserOf(type, has, "server")} ELSE {})
      BY <1>1, <1>t, <2>1 DEF LinkValue, LinkedValue, UserValue, Default, FieldsOf
    <3>2. UserOf(type, has, "server") # Value(has, "server") => Misleading(type, has)
      BY <2>1 DEF UserOf
    <3> QED BY <3>1, <3>2
  <2> QED BY <2>2 DEF KeptServer, Misleading
<1>6. KeptGuard("v2ray", type, has, out)
  <2>0. "skip-cert-verify" \notin Unescaped(type) /\ "tls" \notin Unescaped(type)
    BY DEF Unescaped
  <2>1. Value(out, "skip-cert-verify") # "none" => Value(has, "skip-cert-verify") # "none"
    BY <1>1, <1>t, <2>0 DEF LinkValue, LinkedValue, UserValue, FieldsOf
  <2>2. type \in {"vmess", "vless"} /\ Value(has, "tls") # "none" => Value(out, "tls") # "none"
    BY <1>1 DEF LinkValue, LinkedValue, UsesTLS
  <2>3. type = "vless" /\ Value(has, "reality-opts") # "none" => Value(out, "reality-opts") # "none"
    BY <1>1 DEF LinkValue, LinkedValue
  <2> QED BY <1>t, <2>1, <2>2, <2>3 DEF KeptGuard
<1>7. KeptName("v2ray", type, has, out)
  <2>1. ASSUME type \notin {"vmess", "vless"}
        PROVE  Value(has, "servername") = "none" /\ Value(out, "servername") = "none"
    <3>1. "servername" \notin FieldsOf(type)
      BY <1>t, <2>1 DEF FieldsOf
    <3> QED BY <1>3, <3>1 DEF NodeFields
  <2>2. CASE type \in {"vmess", "vless"}
    BY <1>1, <2>2 DEF KeptName, NameMatters, Name, LinkValue, LinkedValue, Default, UsesTLS
  <2>3. CASE type \notin {"vmess", "vless"}
    <3>0. "sni" \notin Unescaped(type)
      BY DEF Unescaped
    <3>1. NameMatters(type, has) =>
            Value(has, "sni") = "none" \/ Value(out, "sni") = Value(has, "sni")
      BY <1>1, <1>t, <2>3, <3>0
         DEF NameMatters, LinkValue, LinkedValue, UserValue, NodeFields, FieldsOf
    <3> QED BY <2>1, <2>3, <3>1 DEF KeptName, Name
  <2> QED BY <2>2, <2>3
<1>8. again = out
  <2>1. \A f \in Unescaped(type) : UserOf(type, out, f) = Value(out, f)
    <3> TAKE f \in Unescaped(type)
    <3>1. /\ Value(out, f) # "percent"
          /\ Value(out, f) = "colon" => type = "tuic" /\ f = "password"
      BY <1>n
    <3>2. type = "tuic" => Value(out, "uuid") # "colon"
      <4>1. "uuid" \in Unescaped("tuic")
        BY DEF Unescaped
      <4> QED BY <1>n, <4>1
    <3> QED BY <1>o, <3>1, <3>2 DEF UserOf
  <2>2. UserOf(type, out, "server") = Value(out, "server")
    BY <1>o DEF UserOf, Unescaped
  <2>3. \A f : UserValue(type, out, f) = IF f \in Unescaped(type) THEN Value(out, f)
                                         ELSE IF f = "server" /\ type \in Mislead THEN Value(out, f)
                                         ELSE LinkedValue(type, out, f)
    BY <2>1, <2>2 DEF UserValue
  <2>4. \A f : Value(again, f) = Value(out, f)
    BY <1>1, <1>2, <1>t, <2>1, <2>3
       DEF LinkValue, LinkedValue, UserValue, Default, UsesTLS, FieldsOf, Unescaped, Mislead
  <2> QED BY <1>1, <1>2, <2>4, SameFields
<1>9. LinkReadable(type, v)
  <2>1. \A f \in Demanded(type) : Value(w, f) # "none"
    BY <1>q, <1>w, ValueFacts DEF LinkReadable
  <2>2. \A f \in Demanded(type) : Value(v, f) # "none"
    BY <1>v, <1>w, <1>1, <1>t, <2>1, <1>s, <1>m
       DEF Demanded, Mislead, Unescaped, LinkValue, LinkedValue, Default, FieldsOf
  <2>3. \A f \in Unescaped(type) : Value(v, f) = Value(out, f)
    BY <1>t, <1>v DEF Unescaped, LinkedValue, FieldsOf
  <2>4. ~Misleads(type, v)
    BY <1>o, <1>v, <2>3, MisleadsFields DEF Misleading
  <2>5. type # "http"
    OBVIOUS
  <2>6. \A f \in Unescaped(type) \cap DOMAIN v : v[f] \notin {"slash", "bracket"}
    <3> TAKE f \in Unescaped(type) \cap DOMAIN v
    <3>1. v[f] = Value(out, f)
      BY <2>3 DEF Value
    <3> QED BY <1>n, <3>1
  <2>7. Demanded(type) \subseteq DOMAIN v
    BY <1>v, <2>2, ValueFacts
  <2> QED BY <2>4, <2>5, <2>6, <2>7 DEF LinkReadable
<1> QED BY <1>3, <1>d, <1>4, <1>5, <1>6, <1>7, <1>8, <1>9 DEF Carried, out, again, v, w

(***************************************************************************)
(* The lines of a published document.                                      *)
(***************************************************************************)
\* The positions of the nodes that have a form.
Emitted(dialect, nodes) == Picked({i \in DOMAIN nodes : HasForm(dialect, nodes[i])}, Len(nodes))

\* The lines before and after the nodes.
Before(dialect, listOnly) ==
    IF ~IsIni(dialect) THEN <<>>
    ELSE IF listOnly THEN <<Section("proxy")>>
    ELSE <<Section("general"), Other, Section("proxy")>>
After(dialect, listOnly) ==
    IF listOnly \/ dialect \in {"clash", "v2ray"} THEN <<>>
    ELSE IF dialect = "singbox" THEN <<Other>>
    ELSE <<Section("proxy group"), Other, Section("rule")>>

\* Each dialect's form.
LEMMA Forms ==
  ASSUME NEW dialect \in DialectNames
  PROVE  /\ FormOf(dialect) = "ini" <=> IsIni(dialect)
         /\ FormOf(dialect) = "yaml" <=> dialect = "clash"
         /\ FormOf(dialect) = "json" <=> dialect = "singbox"
         /\ FormOf(dialect) = "links" <=> dialect = "v2ray"
BY DEF DialectNames, FormOf, IsIni

\* The nodes that have a form are written, each once and in their order.
LEMMA EmittedFacts ==
  ASSUME NEW dialect, NEW S, NEW nodes \in Seq(S)
  PROVE  LET e == Emitted(dialect, nodes)
         IN  /\ e \in Seq(DOMAIN nodes)
             /\ Increasing(e)
             /\ \A k \in DOMAIN e : HasForm(dialect, nodes[e[k]])
             /\ \A i \in DOMAIN nodes : HasForm(dialect, nodes[i]) => \E k \in DOMAIN e : e[k] = i
<1>1. Len(nodes) \in Nat /\ DOMAIN nodes = 1..Len(nodes)
  OBVIOUS
<1> DEFINE P == {i \in DOMAIN nodes : HasForm(dialect, nodes[i])}
<1>2. P \subseteq 1..Len(nodes)
  BY <1>1
<1>3. \A i \in DOMAIN nodes : i \in P <=> HasForm(dialect, nodes[i])
  OBVIOUS
<1>4. Emitted(dialect, nodes) = Picked(P, Len(nodes))
  BY DEF Emitted
<1> HIDE DEF P
<1>5. /\ Picked(P, Len(nodes)) \in Seq(1..Len(nodes))
      /\ \A i \in P : \E k \in DOMAIN Picked(P, Len(nodes)) : Picked(P, Len(nodes))[k] = i
      /\ \A k \in DOMAIN Picked(P, Len(nodes)) : Picked(P, Len(nodes))[k] \in P
      /\ Increasing(Picked(P, Len(nodes)))
  BY <1>1, <1>2, PickedFacts
<1> QED BY <1>1, <1>2, <1>3, <1>4, <1>5

\* A published document, by its parts.
LEMMA PublishedParts ==
  ASSUME NEW dialect \in DialectNames, NEW listOnly \in BOOLEAN, NEW S, NEW nodes \in Seq(S)
  PROVE  LET e == Emitted(dialect, nodes)
             lines == [k \in DOMAIN e |-> Written(dialect, nodes[e[k]])]
         IN  Published(dialect, listOnly, nodes) =
               [form  |-> FormOf(dialect),
                wraps |-> IF dialect = "v2ray" THEN 1 ELSE 0,
                lines |-> Before(dialect, listOnly) \o lines \o After(dialect, listOnly)]
BY Forms DEF Published, Emitted, Before, After

\* Which line of a published document stands for which node.
LEMMA LinesFacts ==
  ASSUME NEW dialect \in DialectNames, NEW listOnly \in BOOLEAN, NEW S, NEW nodes \in Seq(S)
  PROVE  LET e == Emitted(dialect, nodes)
             L == Published(dialect, listOnly, nodes).lines
             b == Len(Before(dialect, listOnly))
             a == Len(After(dialect, listOnly))
         IN  /\ b \in Nat /\ a \in Nat /\ Len(e) \in Nat /\ DOMAIN e = 1..Len(e)
             /\ Len(L) = b + Len(e) + a /\ DOMAIN L = 1..Len(L)
             /\ \A i \in 1..b : L[i] = Before(dialect, listOnly)[i]
             /\ \A k \in 1..Len(e) : L[b + k] = Written(dialect, nodes[e[k]])
             /\ \A i \in 1..a : L[b + Len(e) + i] = After(dialect, listOnly)[i]
<1> DEFINE e == Emitted(dialect, nodes)
           lines == [k \in DOMAIN e |-> Written(dialect, nodes[e[k]])]
           B == Before(dialect, listOnly)
           A == After(dialect, listOnly)
           Sections == {Section("general"), Section("proxy"), Section("proxy group"),
                        Section("rule"), Other}
           T == Sections \cup {Written(dialect, nodes[i]) : i \in DOMAIN nodes}
<1>1. e \in Seq(DOMAIN nodes)
  BY EmittedFacts
<1>2. B \in Seq(Sections) /\ A \in Seq(Sections)
  <2>1. /\ Section("general") \in Sections /\ Section("proxy") \in Sections
        /\ Section("proxy group") \in Sections /\ Section("rule") \in Sections
        /\ Other \in Sections
    OBVIOUS
  <2> HIDE DEF Sections
  <2>2. /\ <<>> \in Seq(Sections)
        /\ \A x \in Sections : <<x>> \in Seq(Sections)
        /\ \A x, y, z \in Sections : <<x, y, z>> \in Seq(Sections)
    OBVIOUS
  <2> QED BY <2>1, <2>2 DEF Before, After
<1>3. lines \in Seq(T) /\ Len(lines) = Len(e) /\ DOMAIN e = 1..Len(e) /\ Len(e) \in Nat
  <2> HIDE DEF e
  <2>1. DOMAIN e = 1..Len(e) /\ Len(e) \in Nat /\ \A k \in DOMAIN e : e[k] \in DOMAIN nodes
    BY <1>1
  <2>2. lines \in [1..Len(e) -> T]
    BY <2>1
  <2>3. DOMAIN lines = 1..Len(e)
    BY <2>1
  <2> HIDE DEF lines, T
  <2>4. lines \in Seq(T)
    BY <2>1, <2>2, SeqDef
  <2> QED BY <2>1, <2>3, <2>4
<1>4. B \in Seq(T) /\ A \in Seq(T)
  <2> HIDE DEF A, B, Sections
  <2> QED BY <1>2
<1>5. \A k \in DOMAIN e : lines[k] = Written(dialect, nodes[e[k]])
  OBVIOUS
<1>6. Published(dialect, listOnly, nodes).lines = B \o lines \o A
  <2>1. Published(dialect, listOnly, nodes) =
          [form  |-> FormOf(dialect),
           wraps |-> IF dialect = "v2ray" THEN 1 ELSE 0,
           lines |-> B \o lines \o A]
    BY PublishedParts
  <2> HIDE DEF A, B, lines
  <2> QED BY <2>1
<1> HIDE DEF e, lines, A, B, T, Sections
<1> DEFINE X == B \o lines
<1>7. /\ Len(X) = Len(B) + Len(e) /\ X \in Seq(T)
      /\ \A i \in 1..Len(B) : X[i] = B[i]
      /\ \A k \in 1..Len(e) : X[Len(B) + k] = lines[k]
  BY <1>3, <1>4
<1> HIDE DEF X
<1> DEFINE L == X \o A
<1>8. /\ Len(L) = Len(X) + Len(A) /\ L \in Seq(T) /\ DOMAIN L = 1..Len(L)
      /\ \A i \in 1..Len(X) : L[i] = X[i]
      /\ \A i \in 1..Len(A) : L[Len(X) + i] = A[i]
  <2>1. X \in Seq(T) /\ A \in Seq(T)
    BY <1>4, <1>7
  <2> QED BY <2>1
<1> HIDE DEF L
<1>9. Len(B) \in Nat /\ Len(A) \in Nat
  BY <1>4
<1>10. /\ Len(L) = Len(B) + Len(e) + Len(A) /\ DOMAIN L = 1..Len(L)
       /\ \A i \in 1..Len(B) : L[i] = B[i]
       /\ \A k \in 1..Len(e) : L[Len(B) + k] = lines[k]
       /\ \A i \in 1..Len(A) : L[Len(B) + Len(e) + i] = A[i]
  BY <1>3, <1>7, <1>8, <1>9
<1> QED BY <1>3, <1>5, <1>6, <1>9, <1>10 DEF e, A, B, L, X

\* The document, wrapped some number of times.
Wrapped(dialect, listOnly, nodes, wraps) ==
    [form |-> FormOf(dialect), wraps |-> wraps,
     lines |-> Published(dialect, listOnly, nodes).lines]

\* The lines that stand for nodes are those between the two parts.
LEMMA NodeLines ==
  ASSUME NEW dialect \in DialectNames, NEW listOnly \in BOOLEAN, NEW S, NEW nodes \in Seq(S)
  PROVE  LET m == Len(Emitted(dialect, nodes))
             L == Published(dialect, listOnly, nodes).lines
             b == Len(Before(dialect, listOnly))
         IN  \A i \in DOMAIN L : L[i].what = "node" <=> i \in (b + 1)..(b + m)
<1> DEFINE e == Emitted(dialect, nodes)
           m == Len(e)
           L == Published(dialect, listOnly, nodes).lines
           B == Before(dialect, listOnly)
           A == After(dialect, listOnly)
<1>1. /\ Len(B) \in Nat /\ Len(A) \in Nat /\ m \in Nat
      /\ Len(L) = Len(B) + m + Len(A) /\ DOMAIN L = 1..Len(L)
      /\ \A i \in 1..Len(B) : L[i] = B[i]
      /\ \A k \in 1..m : L[Len(B) + k] = Written(dialect, nodes[e[k]])
      /\ \A i \in 1..Len(A) : L[Len(B) + m + i] = A[i]
  BY LinesFacts
<1>2. /\ \A i \in 1..Len(B) : B[i].what # "node"
      /\ \A i \in 1..Len(A) : A[i].what # "node"
  <2>1. /\ Section("general").what # "node" /\ Section("proxy").what # "node"
        /\ Section("proxy group").what # "node" /\ Section("rule").what # "node"
        /\ Other.what # "node"
    BY DEF Section, Other
  <2>2. \A x, y, z : x.what # "node" /\ y.what # "node" /\ z.what # "node" =>
          \A s \in {<<>>, <<x>>, <<x, y, z>>} : \A i \in 1..Len(s) : s[i].what # "node"
    <3> TAKE x, y, z
    <3> HAVE x.what # "node" /\ y.what # "node" /\ z.what # "node"
    <3>1. \A i \in 1..Len(<<>>) : <<>>[i].what # "node"
      OBVIOUS
    <3>2. \A i \in 1..Len(<<x>>) : <<x>>[i].what # "node"
      OBVIOUS
    <3>3. \A i \in 1..Len(<<x, y, z>>) : <<x, y, z>>[i].what # "node"
      OBVIOUS
    <3> QED BY <3>1, <3>2, <3>3
  <2>3. B \in {<<>>, <<Section("proxy")>>, <<Section("general"), Other, Section("proxy")>>}
    BY DEF Before
  <2>4. A \in {<<>>, <<Other>>, <<Section("proxy group"), Other, Section("rule")>>}
    BY DEF After
  <2> HIDE DEF A, B
  <2> DEFINE one == Section("proxy")
             two == Section("general")
             three == Section("proxy group")
             four == Section("rule")
  <2> HIDE DEF one, two, three, four
  <2>5. \A i \in 1..Len(B) : B[i].what # "node"
    <3>1. \A s \in {<<>>, <<one>>, <<one, Other, one>>} : \A i \in 1..Len(s) : s[i].what # "node"
      BY <2>1, <2>2 DEF one
    <3>2. \A s \in {<<>>, <<two>>, <<two, Other, one>>} : \A i \in 1..Len(s) : s[i].what # "node"
      BY <2>1, <2>2 DEF one, two
    <3> QED BY <2>3, <3>1, <3>2 DEF one, two
  <2>6. \A i \in 1..Len(A) : A[i].what # "node"
    <3>1. \A s \in {<<>>, <<Other>>, <<Other, Other, Other>>} :
            \A i \in 1..Len(s) : s[i].what # "node"
      BY <2>1, <2>2
    <3>2. \A s \in {<<>>, <<three>>, <<three, Other, four>>} :
            \A i \in 1..Len(s) : s[i].what # "node"
      BY <2>1, <2>2 DEF three, four
    <3> QED BY <2>4, <3>1, <3>2 DEF three, four
  <2> QED BY <2>5, <2>6
<1>3. \A n : Written(dialect, n).what = "node"
  BY DEF Written, NodeLine
<1> HIDE DEF e, m, L, A, B
<1>4. ASSUME NEW i \in DOMAIN L
      PROVE  L[i].what = "node" <=> i \in (Len(B) + 1)..(Len(B) + m)
  <2>1. CASE i \in 1..Len(B)
    BY <1>1, <1>2, <2>1
  <2>2. CASE i \in (Len(B) + 1)..(Len(B) + m)
    <3>1. i - Len(B) \in 1..m /\ i = Len(B) + (i - Len(B))
      BY <1>1, <2>2
    <3> QED BY <1>1, <1>3, <2>2, <3>1
  <2>3. CASE i > Len(B) + m
    <3>1. i - (Len(B) + m) \in 1..Len(A) /\ i = Len(B) + m + (i - (Len(B) + m))
      BY <1>1, <2>3
    <3>2. L[i] = A[i - (Len(B) + m)]
      BY <1>1, <3>1
    <3> QED BY <1>1, <1>2, <2>3, <3>1, <3>2
  <2> QED BY <1>1, <2>1, <2>2, <2>3
<1> QED BY <1>4 DEF e, m, L, B

\* The reader of Surge documents is in [Proxy] at the lines of the nodes until one
\* closes it, and at no other line but headers: no group or rule is taken for a node.
LEMMA ProxySection ==
  ASSUME NEW dialect \in DialectNames, NEW listOnly \in BOOLEAN, NEW S, NEW nodes \in Seq(S),
         NEW wraps, IsIni(dialect)
  PROVE  LET m == Len(Emitted(dialect, nodes))
             D == Wrapped(dialect, listOnly, nodes, wraps)
             b == Len(Before(dialect, listOnly))
         IN  /\ b \in DOMAIN D.lines /\ D.lines[b] = Section("proxy")
             /\ \A i \in DOMAIN D.lines :
                  ~IsHeader(D.lines[i]) /\ InProxySection(D, i) <=>
                    /\ i \in (b + 1)..(b + m)
                    /\ \A j \in (b + 1)..i : ~Closes(D.lines[j])
<1> DEFINE e == Emitted(dialect, nodes)
           m == Len(e)
           D == Wrapped(dialect, listOnly, nodes, wraps)
           L == Published(dialect, listOnly, nodes).lines
           B == Before(dialect, listOnly)
           A == After(dialect, listOnly)
           b == Len(B)
           proxy   == Section("proxy")
           general == Section("general")
           group   == Section("proxy group")
           rule    == Section("rule")
<1>0. D.lines = L
  BY DEF Wrapped
<1>1. /\ b \in Nat /\ Len(A) \in Nat /\ m \in Nat
      /\ Len(L) = b + m + Len(A) /\ DOMAIN L = 1..Len(L)
      /\ \A i \in 1..b : L[i] = B[i]
      /\ \A i \in 1..Len(A) : L[b + m + i] = A[i]
  BY LinesFacts
<1>2. \A i \in DOMAIN L : L[i].what = "node" <=> i \in (b + 1)..(b + m)
  BY NodeLines
<1>3. \/ b = 1 /\ B[1] = proxy /\ Len(A) = 0
      \/ /\ b = 3 /\ B[1] = general /\ B[2] = Other /\ B[3] = proxy
         /\ Len(A) = 3 /\ A[1] = group /\ A[2] = Other /\ A[3] = rule
  <2>1. CASE listOnly
    <3>1. B = <<proxy>> /\ A = <<>>
      BY <2>1 DEF Before, After
    <3> HIDE DEF A, B
    <3> QED BY <3>1
  <2>2. CASE ~listOnly
    <3>1. /\ B = <<general, Other, proxy>>
          /\ A = <<group, Other, rule>>
      BY <2>2 DEF Before, After, IsIni
    <3> HIDE DEF A, B
    <3> QED BY <3>1
  <2> QED BY <2>1, <2>2
<1>5. /\ proxy.what = "section" /\ general.what = "section" /\ group.what = "section"
      /\ rule.what = "section" /\ Other.what = "other"
      /\ general # proxy /\ group # proxy /\ Other # proxy
  <2>1. /\ proxy.what = "section" /\ general.what = "section" /\ group.what = "section"
        /\ rule.what = "section" /\ Other.what = "other"
    BY DEF Section, Other
  <2>2. /\ proxy.word = "proxy" /\ general.word = "general" /\ group.word = "proxy group"
    BY DEF Section
  <2> HIDE DEF proxy, general, group, rule
  <2> QED BY <2>1, <2>2
<1>h. \A i \in DOMAIN L : IsHeader(L[i]) <=> L[i].what = "section" \/ Closes(L[i])
  BY DEF IsHeader
<1>c. \A i \in DOMAIN L : Closes(L[i]) => i \in (b + 1)..(b + m)
  BY <1>2 DEF Closes
<1> DEFINE H(i) == {j \in 1..i : IsHeader(L[j])}
<1>i. \A i : InProxySection(D, i) <=>
        \/ \A j \in DOMAIN L : ~IsHeader(L[j])
        \/ \E j \in H(i) : L[j] = proxy /\ \A k \in H(i) : k <= j
  BY <1>0 DEF InProxySection
<1> HIDE DEF e, m, D, L, A, B, b, proxy, general, group, rule
<1>4. L[b] = proxy /\ b \in DOMAIN L /\ b \in 1..Len(L)
  BY <1>1, <1>3
<1>6. \A i : InProxySection(D, i) <=> \E j \in H(i) : L[j] = proxy /\ \A k \in H(i) : k <= j
  <2>1. IsHeader(L[b])
    BY <1>4, <1>5, <1>h
  <2> HIDE DEF H
  <2> QED BY <1>4, <1>i, <2>1
<1>7. ASSUME NEW i \in DOMAIN L
      PROVE  ~IsHeader(L[i]) /\ InProxySection(D, i) <=>
               i \in (b + 1)..(b + m) /\ \A j \in (b + 1)..i : ~Closes(L[j])
  <2>1. CASE i \in (b + 1)..(b + m)
    <3>1. L[i].what = "node" /\ L[i].what # "section"
      BY <1>2, <2>1
    <3>2. b \in H(i)
      <4>1. IsHeader(L[b])
        BY <1>4, <1>5, <1>h
      <4>2. b \in 1..i
        BY <1>1, <1>4, <2>1
      <4> QED BY <4>1, <4>2
    <3>3. ASSUME \A j \in (b + 1)..i : ~Closes(L[j])
          PROVE  ~IsHeader(L[i]) /\ InProxySection(D, i)
      <4>1. i \in (b + 1)..i
        BY <1>1, <2>1
      <4>2. ~IsHeader(L[i])
        BY <1>h, <3>1, <3>3, <4>1
      <4>3. ASSUME NEW k \in H(i) PROVE k <= b
        <5>1. k \in 1..i /\ IsHeader(L[k]) /\ k \in DOMAIN L
          BY <1>1
        <5>2. ASSUME ~(k <= b) PROVE FALSE
          <6>1. k \in (b + 1)..i /\ k \in (b + 1)..(b + m)
            BY <1>1, <2>1, <5>1, <5>2
          <6>2. ~Closes(L[k]) /\ L[k].what = "node"
            BY <1>2, <3>3, <5>1, <6>1
          <6> QED BY <1>h, <5>1, <6>2
        <5> QED BY <5>2
      <4> QED BY <1>4, <1>6, <3>2, <4>2, <4>3
    <3>4. ASSUME InProxySection(D, i), NEW l \in (b + 1)..i, Closes(L[l])
          PROVE  FALSE
      <4>1. PICK j \in H(i) : L[j] = proxy /\ \A k \in H(i) : k <= j
        BY <1>6, <3>4
      <4>2. j \in 1..i /\ j \in DOMAIN L /\ L[j].what = "section"
        BY <1>1, <1>5, <4>1
      <4>3. j \notin (b + 1)..(b + m)
        BY <1>2, <4>2
      <4>4. l \in DOMAIN L /\ l \in 1..i
        BY <1>1
      <4>5. l \in H(i)
        BY <1>h, <3>4, <4>4
      <4> QED BY <1>1, <2>1, <4>1, <4>2, <4>3, <4>5
    <3> QED BY <2>1, <3>3, <3>4
  <2>2. CASE i \in 1..b
    <3>1. ~IsHeader(L[i]) => i = 2 /\ b = 3
      <4>1. CASE b = 1
        <5>1. i = 1 /\ L[i] = proxy
          BY <1>4, <2>2, <4>1
        <5> QED BY <1>5, <1>h, <5>1
      <4>2. CASE b = 3
        <5>1. L[1] = general /\ L[3] = proxy
          BY <1>1, <1>3, <4>2
        <5>2. i = 1 \/ i = 2 \/ i = 3
          BY <2>2, <4>2
        <5> QED BY <1>5, <1>h, <4>2, <5>1, <5>2
      <4> QED BY <1>3, <4>1, <4>2
    <3>2. i = 2 /\ b = 3 => ~InProxySection(D, i)
      <4> SUFFICES ASSUME i = 2, b = 3, NEW j \in H(i), L[j] = proxy PROVE FALSE
        BY <1>6
      <4>1. L[1] = general /\ L[2] = Other
        BY <1>1, <1>3
      <4>2. j = 1 \/ j = 2
        OBVIOUS
      <4> QED BY <4>1, <4>2, <1>5
    <3> QED BY <1>1, <2>2, <3>1, <3>2
  <2>3. CASE i > b + m
    <3>1. /\ Len(A) = 3 /\ i \in (b + m + 1)..(b + m + 3)
          /\ L[b + m + 1] = group /\ L[b + m + 2] = Other
          /\ L[b + m + 3] = rule
      BY <1>1, <1>3, <2>3
    <3>2. ~IsHeader(L[i]) => i = b + m + 2
      <4>1. L[b + m + 1].what = "section" /\ L[b + m + 3].what = "section"
        BY <1>5, <3>1
      <4>2. i = b + m + 1 \/ i = b + m + 2 \/ i = b + m + 3
        BY <1>1, <3>1
      <4> QED BY <1>h, <4>1, <4>2
    <3>3. i = b + m + 2 => ~InProxySection(D, i)
      <4> SUFFICES ASSUME i = b + m + 2, NEW j \in H(i), L[j] = proxy,
                          \A k \in H(i) : k <= j
                   PROVE  FALSE
        BY <1>6
      <4>1. j \in 1..i
        OBVIOUS
      <4>2. b + m + 1 \in H(i)
        <5>1. b + m + 1 \in DOMAIN L /\ b + m + 1 \in 1..i
          BY <1>1, <3>1
        <5>2. IsHeader(L[b + m + 1])
          BY <1>5, <1>h, <3>1, <5>1
        <5> QED BY <5>1, <5>2
      <4>3. j = b + m + 1 \/ j = b + m + 2
        BY <1>1, <4>1, <4>2
      <4> QED BY <3>1, <4>3, <1>5
    <3> QED BY <1>1, <2>3, <3>2, <3>3
  <2> QED BY <1>1, <2>1, <2>2, <2>3
<1> QED BY <1>0, <1>4, <1>7 DEF e, m, D, L, B, b, proxy

(***************************************************************************)
(* What parsing makes of a published document.                             *)
(***************************************************************************)
\* The fields, the name and all of a node after a hop.
Through(dialect, type, has) ==
    CASE dialect = "clash" -> has
      [] dialect = "singbox" -> SingboxRead(type, SingboxWritten(type, has))
      [] dialect = "v2ray" -> LinkRead(type, LinkWritten(type, has))
      [] OTHER -> SurgeRead(type, SurgeWritten(type, has))

NameAfter(dialect, n) ==
    IF dialect = "v2ray" /\ n.name = "plus" /\ n.type \notin {"ss", "ssr", "vmess"}
    THEN "space" ELSE n.name

Hop(dialect, n) == [id |-> n.id, name |-> NameAfter(dialect, n), type |-> n.type,
                    has |-> Through(dialect, n.type, n.has)]

\* The Surge line of the node is a comment.
IniComment(dialect, n) == IsIni(dialect) /\ n.name = "comment"
\* The line of a node takes the node with it, or one before it has closed [Proxy].
Shut(dialect, nodes, i) ==
    IsIni(dialect) /\ \E j \in DOMAIN nodes : j <= i /\ ClosesSection(dialect, nodes[j])
Hidden(dialect, nodes, i) == IniComment(dialect, nodes[i]) \/ Shut(dialect, nodes, i)
\* The node comes through the hop, if its line is in [Proxy].
Taken(dialect, n) ==
    /\ HasForm(dialect, n)
    /\ IsIni(dialect) => SurgeReadable(n.type) /\ n.name \notin {"equals", "comment"}
    /\ dialect = "v2ray" => LinkReadable(n.type, LinkWritten(n.type, n.has))

\* It comes through, in this list.
Comes(dialect, nodes, i) == Taken(dialect, nodes[i]) /\ ~Shut(dialect, nodes, i)

\* What is read of the line of a node is the hop of the node.
LEMMA LineRead ==
  ASSUME NEW dialect \in DialectNames, NEW n, HasForm(dialect, n),
         NEW D, D.form = FormOf(dialect), NEW i, D.lines[i] = Written(dialect, n)
  PROVE  /\ IsComment(D.lines[i]) <=> n.name = "comment"
         /\ D.lines[i].what = "node" /\ D.lines[i].id = n.id
         /\ Readable(D, i) /\ ~IniComment(dialect, n) <=> Taken(dialect, n)
         /\ Taken(dialect, n) => Read(D, i) = Hop(dialect, n)
<1> DEFINE line == D.lines[i]
<1>1. /\ line.what = "node" /\ line.id = n.id /\ line.name = n.name /\ line.word = n.type
      /\ dialect = "clash" => line.params = n.has
      /\ dialect = "singbox" => line.params = SingboxWritten(n.type, n.has)
      /\ dialect = "v2ray" => line.params = LinkWritten(n.type, n.has)
      /\ IsIni(dialect) => line.params = SurgeWritten(n.type, n.has)
  BY DEF Written, NodeLine, IsIni
<1> HIDE DEF line
<1>2. D.lines[i] = line
  BY DEF line
<1>3. IsComment(line) <=> n.name = "comment"
  BY <1>1 DEF IsComment
<1>4. CASE dialect = "clash"
  <2>1. FormOf(dialect) = "yaml"
    BY <1>4 DEF FormOf
  <2>2. Readable(D, i) /\ ~IniComment(dialect, n) /\ Taken(dialect, n)
    BY <1>1, <1>2, <1>4, <2>1 DEF Readable, IniComment, Taken, IsIni
  <2>3. Read(D, i) = Hop(dialect, n)
    BY <1>1, <1>2, <1>4, <2>1 DEF Read, Node, Hop, NameAfter, Through
  <2> QED BY <1>1, <1>2, <1>3, <2>2, <2>3
<1>5. CASE dialect = "singbox"
  <2>1. FormOf(dialect) = "json" /\ n.type \in SingboxWords
    BY <1>5 DEF FormOf, HasForm
  <2>2. Readable(D, i) /\ ~IniComment(dialect, n) /\ Taken(dialect, n)
    BY <1>1, <1>2, <1>5, <2>1 DEF Readable, IniComment, Taken, IsIni
  <2>3. Read(D, i) = Hop(dialect, n)
    BY <1>1, <1>2, <1>5, <2>1 DEF Read, Node, Hop, NameAfter, Through
  <2> QED BY <1>1, <1>2, <1>3, <2>2, <2>3
<1>6. CASE dialect = "v2ray"
  <2>1. FormOf(dialect) = "links"
    BY <1>6 DEF FormOf
  <2>2. Readable(D, i) <=> LinkReadable(line.word, line.params)
    BY <1>1, <1>2, <2>1 DEF Readable
  <2>3. ~IniComment(dialect, n) /\ (Taken(dialect, n) <=> LinkReadable(line.word, line.params))
    BY <1>1, <1>6 DEF IniComment, Taken, IsIni
  <2>4. Read(D, i) = Hop(dialect, n)
    BY <1>1, <1>2, <1>6, <2>1 DEF Read, Node, Hop, NameAfter, LinkName, Through
  <2> QED BY <1>1, <1>2, <1>3, <2>2, <2>3, <2>4
<1>7. CASE IsIni(dialect)
  <2>1. FormOf(dialect) = "ini" /\ dialect \notin {"clash", "singbox", "v2ray"}
    BY <1>7 DEF FormOf, IsIni
  <2>2. Readable(D, i) <=> SurgeReadable(n.type) /\ n.name # "equals"
    BY <1>1, <1>2, <2>1 DEF Readable
  <2>3. Readable(D, i) /\ ~IniComment(dialect, n) <=> Taken(dialect, n)
    BY <1>7, <2>1, <2>2 DEF IniComment, Taken
  <2>4. Read(D, i) = Hop(dialect, n)
    BY <1>1, <1>2, <1>7, <2>1 DEF Read, Node, Hop, NameAfter, Through
  <2> QED BY <1>1, <1>2, <1>3, <2>3, <2>4
<1> QED BY <1>4, <1>5, <1>6, <1>7 DEF DialectNames, IsIni

\* q gives for each node that was read the one it was made of.
Takes(dialect, nodes, read, q) ==
    /\ \E len \in Nat : /\ DOMAIN q = 1..len
                        /\ read = [k \in 1..len |-> Hop(dialect, nodes[q[k]])]
    /\ \A k \in DOMAIN q : q[k] \in DOMAIN nodes /\ Comes(dialect, nodes, q[k])
    /\ Increasing(q)
    /\ \A i \in DOMAIN nodes : Comes(dialect, nodes, i) => \E k \in DOMAIN q : q[k] = i

\* The lines a parser looks at are those of nodes, but for comments and what is behind
\* the line that closes [Proxy].
LEMMA LookedAtFacts ==
  ASSUME NEW dialect \in DialectNames, NEW listOnly \in BOOLEAN, NEW S, NEW nodes \in Seq(S),
         NEW wraps
  PROVE  LET e == Emitted(dialect, nodes)
             m == Len(e)
             D == Wrapped(dialect, listOnly, nodes, wraps)
             b == Len(Before(dialect, listOnly))
         IN  \A i : i \in LookedAt(D) <=>
               i \in (b + 1)..(b + m) /\ ~Hidden(dialect, nodes, e[i - b])
<1> DEFINE e == Emitted(dialect, nodes)
           m == Len(e)
           D == Wrapped(dialect, listOnly, nodes, wraps)
           L == Published(dialect, listOnly, nodes).lines
           b == Len(Before(dialect, listOnly))
           a == Len(After(dialect, listOnly))
<1>0. D.lines = L /\ D.form = FormOf(dialect)
  BY DEF Wrapped
<1>1. /\ b \in Nat /\ a \in Nat /\ m \in Nat /\ DOMAIN e = 1..m
      /\ Len(L) = b + m + a /\ DOMAIN L = 1..Len(L)
      /\ \A k \in 1..m : L[b + k] = Written(dialect, nodes[e[k]])
  BY LinesFacts
<1>2. \A i \in DOMAIN L : L[i].what = "node" <=> i \in (b + 1)..(b + m)
  BY NodeLines
<1>3. /\ \A k \in DOMAIN e : HasForm(dialect, nodes[e[k]])
      /\ Increasing(e) /\ e \in Seq(DOMAIN nodes)
      /\ \A i \in DOMAIN nodes : HasForm(dialect, nodes[i]) => \E k \in DOMAIN e : e[k] = i
  BY EmittedFacts
<1>4. IsIni(dialect) =>
        \A i \in DOMAIN L : ~IsHeader(L[i]) /\ InProxySection(D, i) <=>
          i \in (b + 1)..(b + m) /\ \A j \in (b + 1)..i : ~Closes(L[j])
  BY <1>0, ProxySection
<1>n. DOMAIN nodes \subseteq Nat /\ \A k \in DOMAIN e : e[k] \in DOMAIN nodes
  <2>1. DOMAIN nodes \subseteq Nat
    OBVIOUS
  <2> HIDE DEF e
  <2> QED BY <1>3, <2>1
<1> HIDE DEF e, m, D, L, b, a
<1>5. ASSUME NEW i \in (b + 1)..(b + m)
      PROVE  /\ i \in DOMAIN L /\ (IsComment(L[i]) <=> nodes[e[i - b]].name = "comment")
             /\ i - b \in 1..m /\ L[i] = Written(dialect, nodes[e[i - b]])
  <2>1. i - b \in 1..m /\ i = b + (i - b) /\ i \in DOMAIN L
    BY <1>1
  <2>2. L[i] = Written(dialect, nodes[e[i - b]]) /\ HasForm(dialect, nodes[e[i - b]])
    BY <1>1, <1>3, <2>1
  <2>3. IsComment(D.lines[i]) <=> nodes[e[i - b]].name = "comment"
    BY <1>0, <2>2, LineRead
  <2> QED BY <1>0, <2>1, <2>2, <2>3
<1>6. CASE IsIni(dialect)
  <2>1. \A i : i \in LookedAt(D) <=>
          i \in DOMAIN L /\ ~IsHeader(L[i]) /\ InProxySection(D, i) /\ ~IsComment(L[i])
    BY <1>0, <1>6, Forms DEF LookedAt, DefinesNode
  <2>2. ASSUME NEW i \in (b + 1)..(b + m)
        PROVE  (\E j \in (b + 1)..i : Closes(L[j])) <=> Shut(dialect, nodes, e[i - b])
    <3>1. ASSUME NEW j \in (b + 1)..i, Closes(L[j])
          PROVE  Shut(dialect, nodes, e[i - b])
      <4>1. j \in (b + 1)..(b + m)
        BY <1>1
      <4>2. j - b \in 1..m /\ L[j] = Written(dialect, nodes[e[j - b]]) /\ i - b \in 1..m
        BY <1>5, <4>1
      <4>3. e[j - b] <= e[i - b]
        <5>1. CASE j = i
          BY <1>1, <1>n, <4>2, <5>1
        <5>2. CASE j < i
          <6>1. j - b < i - b
            BY <1>1, <5>2
          <6>2. e[j - b] < e[i - b]
            BY <1>1, <1>3, <4>2, <6>1 DEF Increasing
          <6>3. e[j - b] \in Nat /\ e[i - b] \in Nat
            BY <1>1, <1>n, <4>2
          <6> QED BY <6>2, <6>3
        <5> QED BY <1>1, <5>1, <5>2
      <4>4. e[j - b] \in DOMAIN nodes /\ HasForm(dialect, nodes[e[j - b]])
        BY <1>1, <1>3, <1>n, <4>2
      <4>5. ClosesSection(dialect, nodes[e[j - b]])
        BY <3>1, <4>2, <4>4 DEF ClosesSection
      <4> QED BY <1>6, <4>3, <4>4, <4>5 DEF Shut
    <3>2. ASSUME Shut(dialect, nodes, e[i - b])
          PROVE  \E j \in (b + 1)..i : Closes(L[j])
      <4>1. PICK l \in DOMAIN nodes : l <= e[i - b] /\ ClosesSection(dialect, nodes[l])
        BY <3>2 DEF Shut
      <4>2. PICK k \in DOMAIN e : e[k] = l
        BY <1>3, <4>1 DEF ClosesSection
      <4>3. i - b \in DOMAIN e /\ k \in 1..m
        BY <1>1, <1>5, <4>2
      <4>4. k <= i - b
        <5>1. ASSUME i - b < k PROVE FALSE
          <6>1. e[i - b] < e[k]
            BY <1>3, <4>2, <4>3, <5>1 DEF Increasing
          <6>2. e[i - b] \in Nat /\ e[k] \in Nat
            BY <1>n, <4>2, <4>3
          <6> QED BY <4>1, <4>2, <6>1, <6>2
        <5> QED BY <1>1, <4>3, <5>1
      <4>5. b + k \in (b + 1)..i
        BY <1>1, <4>3, <4>4
      <4>6. L[b + k] = Written(dialect, nodes[l])
        BY <1>1, <4>2, <4>3
      <4> QED BY <4>1, <4>5, <4>6 DEF ClosesSection
    <3> QED BY <3>1, <3>2
  <2>3. \A i \in (b + 1)..(b + m) : Hidden(dialect, nodes, e[i - b]) <=>
          nodes[e[i - b]].name = "comment" \/ \E j \in (b + 1)..i : Closes(L[j])
    BY <1>6, <2>2 DEF Hidden, IniComment
  <2>4. \A i : i \in LookedAt(D) <=>
          i \in (b + 1)..(b + m) /\ ~(\E j \in (b + 1)..i : Closes(L[j])) /\ ~IsComment(L[i])
    BY <1>4, <1>5, <1>6, <2>1
  <2> QED BY <1>5, <2>3, <2>4 DEF e, m, D, b
<1>7. CASE ~IsIni(dialect)
  <2>1. \A i : i \in LookedAt(D) <=> i \in DOMAIN L /\ L[i].what = "node"
    BY <1>0, <1>7, Forms DEF LookedAt
  <2> QED BY <1>2, <1>5, <1>7, <2>1 DEF Hidden, IniComment, Shut, e, m, D, b
<1> QED BY <1>6, <1>7

\* What Parse says of a document it does not read.
Refused == [nodes |-> <<>>, skipped |-> {}, unread |-> TRUE]

\* What Parse makes of the body when it reads it.
NodesRead(body) ==
    LET at == Picked({i \in LookedAt(body) : Readable(body, i)}, Len(body.lines))
    IN  [k \in DOMAIN at |-> Read(body, at[k])]
\* The nodes it reports.
IdsSkipped(body) ==
    {body.lines[i].id : i \in LookedAt(body) \ {j \in LookedAt(body) : Readable(body, j)}}

\* The nodes that have a form and cannot be read back, but for those that are hidden.
LeftOut(dialect, nodes) ==
    {i \in DOMAIN nodes : /\ HasForm(dialect, nodes[i])
                          /\ ~Taken(dialect, nodes[i])
                          /\ ~Hidden(dialect, nodes, i)}

\* What is read of the lines of a document is the hop of the nodes that come through,
\* and what is reported are those that do not.
LEMMA BodyFacts ==
  ASSUME NEW dialect \in DialectNames, NEW listOnly \in BOOLEAN, NEW S, NEW nodes \in Seq(S),
         NEW wraps
  PROVE  LET body == Wrapped(dialect, listOnly, nodes, wraps)
         IN  /\ \E q : Takes(dialect, nodes, NodesRead(body), q)
             /\ IdsSkipped(body) = {nodes[i].id : i \in LeftOut(dialect, nodes)}
<1> DEFINE e == Emitted(dialect, nodes)
           m == Len(e)
           body == Wrapped(dialect, listOnly, nodes, wraps)
           L == Published(dialect, listOnly, nodes).lines
           b == Len(Before(dialect, listOnly))
           a == Len(After(dialect, listOnly))
           looked == LookedAt(body)
           taken == {i \in looked : Readable(body, i)}
           at == Picked(taken, Len(body.lines))
           read == [k \in DOMAIN at |-> Read(body, at[k])]
           left == LeftOut(dialect, nodes)
<1>0. body.lines = L /\ body.form = FormOf(dialect)
  BY DEF Wrapped
<1>1. /\ b \in Nat /\ a \in Nat /\ m \in Nat /\ DOMAIN e = 1..m
      /\ Len(L) = b + m + a /\ DOMAIN L = 1..Len(L)
      /\ \A k \in 1..m : L[b + k] = Written(dialect, nodes[e[k]])
  BY LinesFacts
<1>2. /\ \A k \in 1..m : e[k] \in DOMAIN nodes /\ HasForm(dialect, nodes[e[k]])
      /\ \A k, l \in 1..m : k < l => e[k] < e[l]
      /\ \A i \in DOMAIN nodes : HasForm(dialect, nodes[i]) => \E k \in 1..m : e[k] = i
  <2>1. /\ e \in Seq(DOMAIN nodes) /\ Increasing(e)
        /\ \A k \in DOMAIN e : HasForm(dialect, nodes[e[k]])
        /\ \A i \in DOMAIN nodes : HasForm(dialect, nodes[i]) => \E k \in DOMAIN e : e[k] = i
    BY EmittedFacts
  <2> HIDE DEF e
  <2>2. \A k \in 1..m : e[k] \in DOMAIN nodes /\ HasForm(dialect, nodes[e[k]])
    <3>1. \A k \in DOMAIN e : e[k] \in DOMAIN nodes
      <4>1. e \in Seq(DOMAIN nodes)
        BY <2>1
      <4> QED BY <4>1
    <3>2. DOMAIN e = 1..m
      BY <1>1
    <3> HIDE DEF m
    <3> QED BY <2>1, <3>1, <3>2
  <2>3. \A k, l \in 1..m : k < l => e[k] < e[l]
    <3>1. Increasing(e) /\ DOMAIN e = 1..m
      BY <1>1, <2>1
    <3> HIDE DEF m
    <3> QED BY <3>1 DEF Increasing
  <2>4. \A i \in DOMAIN nodes : HasForm(dialect, nodes[i]) => \E k \in 1..m : e[k] = i
    BY <1>1, <2>1
  <2> QED BY <2>2, <2>3, <2>4
<1>3. \A i : i \in looked <=> i \in (b + 1)..(b + m) /\ ~Hidden(dialect, nodes, e[i - b])
  BY LookedAtFacts
<1> HIDE DEF e, m, body, L, b, a, looked
<1>4. ASSUME NEW i \in (b + 1)..(b + m)
      PROVE  /\ i - b \in 1..m /\ e[i - b] \in DOMAIN nodes /\ HasForm(dialect, nodes[e[i - b]])
             /\ body.lines[i].id = nodes[e[i - b]].id
             /\ Readable(body, i) /\ ~IniComment(dialect, nodes[e[i - b]]) <=>
                  Taken(dialect, nodes[e[i - b]])
             /\ Taken(dialect, nodes[e[i - b]]) => Read(body, i) = Hop(dialect, nodes[e[i - b]])
  <2>1. i - b \in 1..m /\ i = b + (i - b)
    BY <1>1
  <2>2. body.lines[i] = Written(dialect, nodes[e[i - b]]) /\ HasForm(dialect, nodes[e[i - b]])
    BY <1>0, <1>1, <1>2, <2>1
  <2> QED BY <1>0, <1>2, <2>1, <2>2, LineRead
<1>5. \A i : i \in taken <=> i \in (b + 1)..(b + m) /\ Comes(dialect, nodes, e[i - b])
  BY <1>3, <1>4 DEF Hidden, Comes
<1>6. taken \subseteq 1..Len(L) /\ Len(L) \in Nat
  BY <1>1, <1>5
<1>7. at = Picked(taken, Len(L))
  BY <1>0
<1> HIDE DEF taken, at
<1>8. /\ at \in Seq(1..Len(L)) /\ Increasing(at)
      /\ \A i \in taken : \E k \in DOMAIN at : at[k] = i
      /\ \A k \in DOMAIN at : at[k] \in taken
  <2> DEFINE n == Len(L)
  <2>1. n \in Nat /\ taken \subseteq 1..n /\ at = Picked(taken, n)
    BY <1>6, <1>7
  <2> HIDE DEF n
  <2>2. /\ Picked(taken, n) \in Seq(1..n)
        /\ \A i \in taken : \E k \in DOMAIN Picked(taken, n) : Picked(taken, n)[k] = i
        /\ \A k \in DOMAIN Picked(taken, n) : Picked(taken, n)[k] \in taken
        /\ Increasing(Picked(taken, n))
    BY <2>1, PickedFacts, Zenon
  <2>3. /\ at \in Seq(1..n) /\ Increasing(at)
        /\ \A i \in taken : \E k \in DOMAIN at : at[k] = i
        /\ \A k \in DOMAIN at : at[k] \in taken
    BY <2>1, <2>2
  <2> QED BY <2>3 DEF n
<1> DEFINE q == [k \in DOMAIN at |-> e[at[k] - b]]
<1>9. Takes(dialect, nodes, read, q)
  <2>1. \A k \in DOMAIN at : /\ at[k] \in (b + 1)..(b + m) /\ Comes(dialect, nodes, q[k])
                             /\ q[k] = e[at[k] - b] /\ at[k] - b \in 1..m
                             /\ q[k] \in DOMAIN nodes
                             /\ Read(body, at[k]) = Hop(dialect, nodes[q[k]])
    BY <1>4, <1>5, <1>8 DEF Comes
  <2>2. DOMAIN at = 1..Len(at) /\ Len(at) \in Nat
    BY <1>8
  <2>3. DOMAIN q = DOMAIN at
    OBVIOUS
  <2>4. read = [k \in 1..Len(at) |-> Hop(dialect, nodes[q[k]])]
    <3> HIDE DEF q
    <3> QED BY <2>1, <2>2
  <2>5. Increasing(q)
    <3>1. \A k, l \in DOMAIN at : k < l => at[k] < at[l]
      BY <1>8 DEF Increasing
    <3>2. \A k, l \in DOMAIN at : k < l => at[k] - b < at[l] - b
      BY <1>1, <2>1, <3>1
    <3> HIDE DEF q
    <3> QED BY <1>2, <2>1, <2>3, <3>2 DEF Increasing
  <2>6. ASSUME NEW i \in DOMAIN nodes, Comes(dialect, nodes, i)
        PROVE  \E k \in DOMAIN q : q[k] = i
    <3>1. PICK j \in 1..m : e[j] = i
      BY <1>2, <2>6 DEF Comes, Taken
    <3>2. b + j \in (b + 1)..(b + m) /\ (b + j) - b = j
      BY <1>1
    <3>3. b + j \in taken
      BY <1>5, <2>6, <3>1, <3>2
    <3>4. PICK k \in DOMAIN at : at[k] = b + j
      BY <1>8, <3>3
    <3> QED BY <2>1, <2>3, <3>1, <3>2, <3>4
  <2> HIDE DEF q, read
  <2> QED BY <2>1, <2>2, <2>3, <2>4, <2>5, <2>6 DEF Takes
<1>10. {body.lines[i].id : i \in looked \ taken} = {nodes[i].id : i \in left}
  <2>1. ASSUME NEW i \in looked \ taken
        PROVE  \E j \in left : body.lines[i].id = nodes[j].id
    <3>1. i \in (b + 1)..(b + m)
      BY <1>3
    <3>2. e[i - b] \in left
      BY <1>3, <1>4, <1>5, <3>1 DEF LeftOut, Hidden, Comes
    <3> QED BY <1>4, <3>1, <3>2
  <2>2. ASSUME NEW j \in left
        PROVE  \E i \in looked \ taken : body.lines[i].id = nodes[j].id
    <3>1. PICK k \in 1..m : e[k] = j
      BY <1>2 DEF LeftOut
    <3>2. b + k \in (b + 1)..(b + m) /\ (b + k) - b = k
      BY <1>1
    <3>3. b + k \in looked \ taken
      BY <1>3, <1>5, <3>1, <3>2 DEF LeftOut, Hidden, Comes
    <3> QED BY <1>4, <3>1, <3>2, <3>3
  <2> HIDE DEF left
  <2> QED BY <2>1, <2>2
<1> QED
  <2>1. \E p : Takes(dialect, nodes, read, p)
    <3> HIDE DEF q, read
    <3> QED BY <1>9
  <2>2. NodesRead(body) = read
    BY DEF NodesRead, read, at, taken, looked
  <2>3. IdsSkipped(body) = {body.lines[i].id : i \in looked \ taken}
    BY DEF IdsSkipped, taken, looked
  <2> QED BY <1>10, <2>1, <2>2, <2>3 DEF body, left

\* What Parse makes of a document it does not refuse.
ParsedAs(dialect, nodes, p) ==
    /\ p.unread = FALSE
    /\ \E q : Takes(dialect, nodes, p.nodes, q)
    /\ p.skipped = {nodes[i].id : i \in LeftOut(dialect, nodes)}
    /\ IsIni(dialect) =>
          \A i \in DOMAIN nodes : HasForm(dialect, nodes[i]) => nodes[i].name # "yaml"

\* However a document is wrapped, Parse refuses it as a whole or reads its lines.
LEMMA ParseFacts ==
  ASSUME NEW dialect \in DialectNames, NEW listOnly \in BOOLEAN, NEW S, NEW nodes \in Seq(S),
         NEW wraps \in Nat
  PROVE  LET p == Parse(Wrapped(dialect, listOnly, nodes, wraps))
         IN  p = Refused \/ ParsedAs(dialect, nodes, p)
<1> DEFINE doc0 == Wrapped(dialect, listOnly, nodes, wraps)
           p == Parse(doc0)
<1>1. PICK v \in Nat : Body(doc0) = Wrapped(dialect, listOnly, nodes, v)
  <2>1. CASE IsBase64(doc0)
    <3>1. doc0.wraps = wraps /\ wraps - 1 \in Nat
      BY <2>1 DEF IsBase64, Wrapped
    <3>2. Unwrapped(doc0) = Wrapped(dialect, listOnly, nodes, wraps - 1)
      BY DEF Unwrapped, Wrapped
    <3> QED BY <2>1, <3>1, <3>2 DEF Body
  <2>2. CASE ~IsBase64(doc0)
    BY <2>2 DEF Body
  <2> QED BY <2>1, <2>2
<1> DEFINE body == Wrapped(dialect, listOnly, nodes, v)
           refused == LooksLikeClashYAML(body) /\ body.form # "yaml"
           blob == body.wraps > 0 /\ body.lines # <<>>
<1>2. p = IF refused \/ blob THEN Refused
          ELSE [nodes |-> NodesRead(body), skipped |-> IdsSkipped(body), unread |-> FALSE]
  <2> HIDE DEF doc0
  <2> QED BY <1>1 DEF Parse, Refused, NodesRead, IdsSkipped
<1>3. /\ \E q : Takes(dialect, nodes, NodesRead(body), q)
      /\ IdsSkipped(body) = {nodes[i].id : i \in LeftOut(dialect, nodes)}
  BY BodyFacts
<1>4. ASSUME ~refused, ~blob, IsIni(dialect), NEW i \in DOMAIN nodes, HasForm(dialect, nodes[i])
      PROVE  nodes[i].name # "yaml"
  <2> DEFINE e == Emitted(dialect, nodes)
             L == Published(dialect, listOnly, nodes).lines
             b == Len(Before(dialect, listOnly))
  <2>1. body.lines = L /\ body.form = FormOf(dialect) /\ body.wraps = v
    BY DEF Wrapped
  <2>2. PICK k \in DOMAIN e : e[k] = i
    <3>1. /\ e \in Seq(DOMAIN nodes) /\ Increasing(e)
          /\ \A k \in DOMAIN e : HasForm(dialect, nodes[e[k]])
          /\ \A j \in DOMAIN nodes : HasForm(dialect, nodes[j]) => \E k \in DOMAIN e : e[k] = j
      BY EmittedFacts
    <3> HIDE DEF e
    <3> QED BY <1>4, <3>1
  <2> DEFINE a == Len(After(dialect, listOnly))
  <2>3. /\ b \in Nat /\ a \in Nat /\ Len(e) \in Nat /\ DOMAIN e = 1..Len(e)
        /\ Len(L) = b + Len(e) + a /\ DOMAIN L = 1..Len(L)
        /\ \A j \in 1..Len(e) : L[b + j] = Written(dialect, nodes[e[j]])
    BY LinesFacts
  <2> HIDE DEF e, L, a, b, body
  <2>4. b + k \in DOMAIN L
    BY <2>2, <2>3
  <2>5. L # <<>>
    BY <2>4
  <2>6. body.wraps = 0 /\ body.form = "ini"
    BY <1>4, <2>1, <2>5, Forms
  <2>7. ~ \E j \in NodesOf(body) : body.lines[j].name = "yaml"
    BY <1>4, <2>6 DEF LooksLikeClashYAML
  <2>8. b + k \in NodesOf(body) /\ body.lines[b + k].name = nodes[i].name
    <3>1. L[b + k].what = "node" /\ L[b + k].name = nodes[i].name
      <4>1. L[b + k] = Written(dialect, nodes[i])
        BY <2>2, <2>3
      <4> QED BY <4>1 DEF Written, NodeLine
    <3> QED BY <2>1, <2>4, <3>1 DEF NodesOf
  <2> QED BY <2>7, <2>8
<1> HIDE DEF refused, blob, body, p
<1>5. CASE refused \/ blob
  BY <1>2, <1>5 DEF p
<1>6. CASE ~(refused \/ blob)
  <2>1. p.nodes = NodesRead(body) /\ p.skipped = IdsSkipped(body) /\ p.unread = FALSE
    BY <1>2, <1>6
  <2> QED BY <1>3, <1>4, <1>6, <2>1 DEF p, ParsedAs
<1> QED BY <1>5, <1>6 DEF p

(***************************************************************************)
(* One hop of one node.                                                    *)
(***************************************************************************)
\* A node as the readers make it.
GoodNode(n) == IsNode(n) /\ NodeFields(n.type, n.has)

\* The nodes a chain begins with are good.
LEMMA GoodNodeFacts ==
  ASSUME NEW n, IsNode(n), Value(n.has, "sni") \notin Splits,
         Value(n.has, "servername") \notin Splits, "server" \notin DOMAIN n.has
  PROVE  GoodNode(n) /\ Value(n.has, "server") = "none"
<1>1. Fields(n.has)
  BY DEF IsNode, Fields
<1>2. \A f : Value(n.has, f) # "none" => f \in FieldsOf(n.type)
  BY DEF IsNode, Value
<1>3. Value(n.has, "server") = "none"
  BY DEF Value
<1> QED BY <1>1, <1>2, <1>3 DEF GoodNode, NodeFields

\* What a hop keeps of the fields of a node, for every dialect.
LEMMA ThroughFacts ==
  ASSUME NEW dialect \in DialectNames, NEW n, GoodNode(n), Taken(dialect, n)
  PROVE  LET out == Through(dialect, n.type, n.has)
         IN  /\ Carried(dialect, n.type, n.has, out)
             /\ (IsIni(dialect) => Secured(n.type, out)) => Through(dialect, n.type, out) = out
             /\ dialect = "v2ray" => LinkReadable(n.type, LinkWritten(n.type, out))
<1> DEFINE out == Through(dialect, n.type, n.has)
<1>1. NodeFields(n.type, n.has)
  BY DEF GoodNode
<1>2. CASE dialect = "clash"
  <2>1. out = n.has /\ Through(dialect, n.type, out) = out
    BY <1>2 DEF Through
  <2>2. Drawn(n.has, n.has)
    BY <1>1 DEF Drawn, Holds, NodeFields
  <2>3. KeptSecrets(dialect, n.type, n.has, n.has) /\ KeptServer(dialect, n.type, n.has, n.has)
    BY DEF KeptSecrets, KeptValue, KeptServer
  <2>4. KeptGuard(dialect, n.type, n.has, n.has)
    BY DEF KeptGuard
  <2>5. KeptName(dialect, n.type, n.has, n.has)
    BY DEF KeptName
  <2>6. Carried(dialect, n.type, n.has, n.has)
    BY <1>1, <2>2, <2>3, <2>4, <2>5 DEF Carried
  <2> QED BY <1>2, <2>1, <2>6
<1>3. CASE dialect = "singbox"
  <2>1. n.type \in SingboxWords
    BY <1>3 DEF Taken, HasForm
  <2>2. \A has : Through(dialect, n.type, has) = SingboxRead(n.type, SingboxWritten(n.type, has))
    BY <1>3 DEF Through
  <2> QED BY <1>1, <1>3, <2>1, <2>2, SingboxCarried
<1>4. CASE dialect = "v2ray"
  <2>1. n.type \in LinkWords \ {"http"} /\ LinkReadable(n.type, LinkWritten(n.type, n.has))
    BY <1>4 DEF Taken, HasForm, LinkReadable
  <2>2. \A has : Through(dialect, n.type, has) = LinkRead(n.type, LinkWritten(n.type, has))
    BY <1>4 DEF Through
  <2> QED BY <1>1, <1>4, <2>1, <2>2, LinkCarried
<1>5. CASE IsIni(dialect)
  <2>1. /\ dialect \in {"surge", "shadowrocket"}
        /\ n.type \in SurgeTypes /\ n.type \in SurgeWords(dialect)
    BY <1>5 DEF Taken, HasForm, SurgeReadable, SurgeTypes, IsIni
  <2>2. \A has : Through(dialect, n.type, has) = SurgeRead(n.type, SurgeWritten(n.type, has))
    BY <2>1 DEF Through
  <2>3. /\ Carried(dialect, n.type, n.has, out)
        /\ Secured(n.type, out) => Through(dialect, n.type, out) = out
    BY <1>1, <2>1, <2>2, SurgeCarried
  <2> QED BY <1>5, <2>1, <2>3
<1> QED BY <1>2, <1>3, <1>4, <1>5 DEF DialectNames, IsIni

\* A node that another hop in the dialect does not change: one of the Surge family,
\* if the node is secured.
Settled(dialect, n) ==
    /\ Taken(dialect, n)
    /\ (IsIni(dialect) => Secured(n.type, n.has)) => Hop(dialect, n) = n
    /\ IsIni(dialect) => n.name # "yaml"

\* A hop makes a good node of a good one, keeps what it should and settles it.
LEMMA HopFacts ==
  ASSUME NEW dialect \in DialectNames, NEW n, GoodNode(n), Taken(dialect, n)
  PROVE  /\ GoodNode(Hop(dialect, n))
         /\ Hop(dialect, n).id = n.id /\ Hop(dialect, n).type = n.type
         /\ Carried(dialect, n.type, n.has, Hop(dialect, n).has)
         /\ (IsIni(dialect) => n.name # "yaml") => Settled(dialect, Hop(dialect, n))
<1> DEFINE out == Through(dialect, n.type, n.has)
           h == Hop(dialect, n)
<1>1. /\ Carried(dialect, n.type, n.has, out)
      /\ (IsIni(dialect) => Secured(n.type, out)) => Through(dialect, n.type, out) = out
      /\ dialect = "v2ray" => LinkReadable(n.type, LinkWritten(n.type, out))
  BY ThroughFacts
<1>2. /\ h.id = n.id /\ h.type = n.type /\ h.name = NameAfter(dialect, n) /\ h.has = out
      /\ h = [id |-> h.id, name |-> h.name, type |-> h.type, has |-> h.has]
  BY DEF Hop
<1>3. n.id \in Nat /\ n.type \in Types /\ n.name \in NameKinds
  BY DEF GoodNode, IsNode
<1>4. NameAfter(dialect, n) \in NameKinds
  BY <1>3 DEF NameAfter, NameKinds
<1> HIDE DEF out, h
<1>5. NodeFields(n.type, out)
  BY <1>1 DEF Carried
<1>6. DOMAIN out \subseteq FieldsOf(n.type) /\ out \in [DOMAIN out -> Values]
  BY <1>5, ValueFacts DEF NodeFields, Fields
<1>7. GoodNode(h)
  BY <1>2, <1>3, <1>4, <1>5, <1>6 DEF GoodNode, IsNode
<1>8. ASSUME IsIni(dialect) => n.name # "yaml"
      PROVE  Settled(dialect, h)
  <2>1. IsIni(dialect) => h.name = n.name
    BY <1>2 DEF NameAfter, IsIni
  <2>2. HasForm(dialect, h)
    BY <1>2 DEF Taken, HasForm
  <2>3. Taken(dialect, h)
    BY <1>1, <1>2, <2>1, <2>2 DEF Taken
  <2>4. NameAfter(dialect, h) = h.name
    BY <1>2 DEF NameAfter
  <2>5. (IsIni(dialect) => Secured(h.type, h.has)) => Hop(dialect, h) = h
    BY <1>1, <1>2, <2>4 DEF Hop
  <2> QED BY <1>8, <2>1, <2>3, <2>5 DEF Settled
<1> QED BY <1>1, <1>2, <1>7, <1>8 DEF h

(***************************************************************************)
(* A list of nodes, and one that was read from what another was published  *)
(* as.                                                                     *)
(***************************************************************************)
PoolOK(nodes) ==
    /\ nodes \in Seq(Range(nodes))
    /\ \A k \in DOMAIN nodes : GoodNode(nodes[k])
    /\ \A i, j \in DOMAIN nodes : i < j => nodes[i].id < nodes[j].id

\* No nodes at all are a list of nodes.
LEMMA EmptyPool == PoolOK(<<>>)
BY DEF PoolOK

\* A list is a sequence of its own elements.
LEMMA OwnRange ==
  ASSUME NEW len \in Nat, NEW A, NEW seq \in [1..len -> A]
  PROVE  seq \in Seq(Range(seq))
<1> DEFINE R == Range(seq)
<1>1. seq \in [1..len -> R]
  BY DEF Range
<1> HIDE DEF R
<1>2. seq \in Seq(R)
  BY <1>1, SeqDef
<1> QED BY <1>2 DEF R

\* What is read is a list of good nodes.
LEMMA TakesFacts ==
  ASSUME NEW dialect \in DialectNames, NEW nodes, PoolOK(nodes), NEW read, NEW q,
         Takes(dialect, nodes, read, q)
  PROVE  /\ PoolOK(read) /\ DOMAIN q = DOMAIN read
         /\ \A k \in DOMAIN read :
              /\ q[k] \in DOMAIN nodes /\ Comes(dialect, nodes, q[k])
              /\ Taken(dialect, nodes[q[k]])
              /\ read[k] = Hop(dialect, nodes[q[k]])
<1>1. PICK len \in Nat : /\ DOMAIN q = 1..len
                         /\ read = [k \in 1..len |-> Hop(dialect, nodes[q[k]])]
  BY DEF Takes
<1>2. /\ \A k \in 1..len : /\ q[k] \in DOMAIN nodes /\ Comes(dialect, nodes, q[k])
                           /\ Taken(dialect, nodes[q[k]])
                           /\ read[k] = Hop(dialect, nodes[q[k]])
      /\ DOMAIN read = 1..len /\ read = [k \in 1..len |-> read[k]]
  BY <1>1 DEF Takes, Comes
<1>3. \A k \in 1..len : GoodNode(read[k]) /\ read[k].id = nodes[q[k]].id
  BY <1>2, HopFacts DEF PoolOK
<1>4. \A i, j \in 1..len : i < j => read[i].id < read[j].id
  <2>1. \A i, j \in 1..len : i < j => q[i] < q[j]
    BY <1>1 DEF Takes, Increasing
  <2> QED BY <1>2, <1>3, <2>1 DEF PoolOK
<1>5. read \in Seq(Range(read))
  <2>1. read \in [1..len -> Range(read)]
    BY <1>2 DEF Range
  <2> QED BY <2>1, OwnRange
<1> QED BY <1>1, <1>2, <1>3, <1>4, <1>5 DEF PoolOK

\* If Surge lines are made of the list, none closes a section, and every node is secured.
Open(dialect, nodes) ==
    IsIni(dialect) => \A i \in DOMAIN nodes : /\ ~ClosesSection(dialect, nodes[i])
                                             /\ Secured(nodes[i].type, nodes[i].has)

\* Who takes all nodes of a list takes them in their places.
LEMMA TakesAll ==
  ASSUME NEW dialect \in DialectNames, NEW nodes, PoolOK(nodes), NEW read, NEW q,
         Takes(dialect, nodes, read, q), Open(dialect, nodes),
         \A i \in DOMAIN nodes : Settled(dialect, nodes[i])
  PROVE  read = nodes
<1>1. PICK len \in Nat : /\ DOMAIN q = 1..len
                         /\ read = [k \in 1..len |-> Hop(dialect, nodes[q[k]])]
  BY DEF Takes
<1> DEFINE n == Len(nodes)
<1>2. n \in Nat /\ DOMAIN nodes = 1..n /\ nodes = [k \in 1..n |-> nodes[k]]
  BY DEF PoolOK
<1> HIDE DEF n
<1>0. \A i \in 1..n : Comes(dialect, nodes, i) /\ Hop(dialect, nodes[i]) = nodes[i]
  BY <1>2 DEF Open, Comes, Shut, Settled
<1>3. /\ \A k \in 1..len : q[k] \in 1..n
      /\ \A i, j \in 1..len : i < j => q[i] < q[j]
      /\ \A i \in 1..n : \E k \in 1..len : q[k] = i
  BY <1>0, <1>1, <1>2 DEF Takes, Increasing
<1> DEFINE T == {i \in 1..len : q[i] # i}
<1>4. T = {}
  <2> SUFFICES ASSUME T # {} PROVE FALSE
    OBVIOUS
  <2>1. PICK i \in T : \A j \in T : i <= j
    <3>1. T \subseteq Nat
      OBVIOUS
    <3> HIDE DEF T
    <3> QED BY <3>1, LeastNat
  <2>2. i \in 1..len /\ q[i] # i /\ q[i] \in 1..n
    BY <1>3
  <2>3. \A j \in 1..len : j < i => q[j] = j
    BY <2>1
  <2>4. i < q[i]
    <3>1. CASE q[i] < i
      <4>1. q[i] \in 1..len /\ q[q[i]] = q[i]
        BY <2>2, <2>3, <3>1
      <4>2. q[q[i]] < q[i]
        BY <1>3, <2>2, <3>1, <4>1
      <4> QED BY <2>2, <4>1, <4>2
    <3> QED BY <2>2, <3>1
  <2>5. PICK k \in 1..len : q[k] = i
    <3>1. i \in 1..n
      BY <1>2, <2>2, <2>4
    <3> QED BY <1>3, <3>1
  <2>6. CASE k < i
    BY <2>2, <2>3, <2>5, <2>6
  <2>7. CASE i < k
    <3>1. q[i] < q[k]
      BY <1>3, <2>2, <2>7
    <3> QED BY <2>2, <2>4, <2>5, <3>1
  <2> QED BY <2>2, <2>5, <2>6, <2>7
<1>5. \A i \in 1..len : q[i] = i
  BY <1>4
<1>6. \A i : i \in 1..len <=> i \in 1..n
  BY <1>3, <1>5
<1>7. len = n
  <2>1. len <= n
    BY <1>2, <1>6
  <2>2. n <= len
    BY <1>2, <1>6
  <2> QED BY <1>2, <2>1, <2>2
<1>8. \A k \in 1..n : Hop(dialect, nodes[q[k]]) = nodes[k]
  BY <1>0, <1>5, <1>7
<1> QED BY <1>1, <1>2, <1>7, <1>8

(***************************************************************************)
(* What is still to be seen of the node a chain began with.                *)
(***************************************************************************)
\* HopsBy, of any route.
Hops(way, dialects) == {i \in DOMAIN way : way[i] \in dialects}
NameFromSNI == {"surge", "shadowrocket", "singbox"}

\* SecretKept, of any node and the one it once was.
SecretTraced(way, o, n, field) ==
    LET was == Value(o.has, field)
        now == Value(n.has, field)
        surged == Hops(way, {"surge", "shadowrocket"}) # {}
        linked == Hops(way, {"v2ray"}) # {}
    IN  \/ now = was
        \/ now = "first" /\ was \in Splits /\ surged
        \/ now = "first" /\ was = "colon" /\ field \in Unescaped(n.type) /\ linked
        \/ now = "decoded" /\ was = "percent" /\ field \in Unescaped(n.type) /\ linked
        \/ now = "rest" /\ field = "password" /\ Holds(o.has, "overwrites") /\ surged
        \/ now = "rest" /\ field = "password" /\ n.type = "tuic" /\ linked
             /\ Value(o.has, "uuid") = "colon"
        \/ now = "rest" /\ field = "username" /\ was = "none" /\ Holds(o.has, "list") /\ surged
        \/ now = "none" /\ was = "address" /\ field \in Unescaped(n.type)
             /\ n.type \in Mislead /\ linked
        \/ now = "none" /\ field = "uuid" /\ n.type = "tuic"
             /\ Hops(way, {"shadowrocket"}) # {}
        \/ now = "auto" /\ field = "cipher" /\ n.type = "vmess"

\* ServerKept, of the same.
ServerTraced(way, o, n) ==
    Value(n.has, "server") # "none" =>
        /\ n.type \in Mislead /\ Hops(way, {"v2ray"}) # {}
        /\ \E f \in Unescaped(n.type) : Value(o.has, f) = "address"

\* Verification, TLS and Reality, of the same.
GuardTraced(way, o, n) ==
    /\ Value(n.has, "skip-cert-verify") # "none" =>
         \/ Value(o.has, "skip-cert-verify") # "none"
         \/ Holds(o.has, "unverified") /\ Hops(way, {"surge", "shadowrocket"}) # {}
    /\ n.type \in {"vmess", "vless", "http"} /\ Value(o.has, "tls") # "none" =>
         Value(n.has, "tls") # "none"
    /\ n.type = "vless" /\ Value(o.has, "reality-opts") # "none" =>
         Value(n.has, "reality-opts") # "none"

\* ServerNameLost, of the same.
NameLost(way, o, n) ==
    /\ n.type \in {"vmess", "vless"}
    /\ \E j \in Hops(way, {"v2ray"}) :
          \/ Value(o.has, "servername") = "none"
          \/ \E i \in Hops(way, NameFromSNI) : i < j

\* The server name survives, or a link has dropped it; it has left the field it was in
\* only if a hop came by that moves it.
NameTraced(way, o, n) ==
  NameMatters(n.type, o.has) =>
    \/ Name(o.has) = "none"
    \/ NameLost(way, o, n)
    \/ /\ Name(n.has) = Name(o.has)
       /\ Value(o.has, "servername") # "none" /\ Value(n.has, "servername") = "none" =>
            Hops(way, NameFromSNI) # {}

\* n is what o became on the way.
Traced(way, o, n) ==
    /\ o.id = n.id /\ o.type = n.type
    /\ \A f \in Secrets : SecretTraced(way, o, n, f)
    /\ ServerTraced(way, o, n)
    /\ GuardTraced(way, o, n)
    /\ NameTraced(way, o, n)
    /\ Drawn(n.has, o.has)

\* A node is what it was.
LEMMA TracedAtOnce ==
  ASSUME NEW o, NEW way, Fields(o.has), Value(o.has, "server") = "none"
  PROVE  Traced(way, o, o)
<1>1. \A f \in Secrets : SecretTraced(way, o, o, f)
  BY DEF SecretTraced
<1>2. ServerTraced(way, o, o) /\ GuardTraced(way, o, o) /\ NameTraced(way, o, o)
  BY DEF ServerTraced, GuardTraced, NameTraced
<1>3. Drawn(o.has, o.has)
  BY DEF Drawn, Holds
<1> QED BY <1>1, <1>2, <1>3 DEF Traced

\* A longer route has the hops of the shorter one.
LEMMA HopsAppend ==
  ASSUME NEW way \in Seq(DialectNames), NEW dialect \in DialectNames
  PROVE  /\ DOMAIN way \subseteq DOMAIN Append(way, dialect)
         /\ \A dialects : Hops(way, dialects) \subseteq Hops(Append(way, dialect), dialects)
<1>1. /\ DOMAIN way \subseteq DOMAIN Append(way, dialect)
      /\ \A i \in DOMAIN way : Append(way, dialect)[i] = way[i]
  OBVIOUS
<1> QED BY <1>1 DEF Hops

\* Publishing makes the route longer, and changes no node.
LEMMA TracedAppend ==
  ASSUME NEW way \in Seq(DialectNames), NEW dialect \in DialectNames, NEW o, NEW n,
         Traced(way, o, n)
  PROVE  Traced(Append(way, dialect), o, n)
<1> DEFINE longer == Append(way, dialect)
<1>1. \A dialects : Hops(way, dialects) \subseteq Hops(longer, dialects)
  BY HopsAppend
<1> HIDE DEF longer
<1>2. \A f \in Secrets : SecretTraced(longer, o, n, f)
  BY <1>1 DEF Traced, SecretTraced
<1>3. NameTraced(longer, o, n)
  BY <1>1 DEF Traced, NameTraced, NameLost
<1>4. ServerTraced(longer, o, n) /\ GuardTraced(longer, o, n)
  BY <1>1 DEF Traced, ServerTraced, GuardTraced
<1> QED BY <1>2, <1>3, <1>4 DEF Traced, longer

\* A hop through the last dialect of the route keeps track of a node.
LEMMA TracedHop ==
  ASSUME NEW way \in Seq(DialectNames), way # <<>>, NEW o, NEW n, GoodNode(n),
         Traced(way, o, n), Taken(Last(way), n)
  PROVE  Traced(way, o, Hop(Last(way), n))
<1> DEFINE dialect == Last(way)
           m == Hop(dialect, n)
<1>1. dialect \in DialectNames /\ Len(way) \in DOMAIN way /\ way[Len(way)] = dialect
      /\ \A i \in DOMAIN way : i \in Nat /\ i <= Len(way) /\ Len(way) \in Nat
  BY DEF Last
<1>2. /\ m.id = n.id /\ m.type = n.type
      /\ Carried(dialect, n.type, n.has, m.has)
  BY <1>1, HopFacts
<1> HIDE DEF dialect, m
<1>3. \A dialects : dialect \in dialects => Len(way) \in Hops(way, dialects)
  BY <1>1 DEF Hops
<1>h. /\ IsIni(dialect) => Hops(way, {"surge", "shadowrocket"}) # {}
      /\ dialect = "v2ray" => Hops(way, {"v2ray"}) # {}
      /\ dialect = "shadowrocket" => Hops(way, {"shadowrocket"}) # {}
  BY <1>3 DEF IsIni
\* What the values that do something to others do not come of.
<1>s. \A f \in Secrets : SecretTraced(way, o, n, f)
  BY DEF Traced
<1>v. \A f \in Secrets : Value(n.has, f) \in Splits \cup {"colon", "percent", "address"} =>
                             Value(o.has, f) = Value(n.has, f)
  BY <1>s DEF SecretTraced, Splits
<1>d. \A v \in Splits : Holds(n.has, v) => Holds(o.has, v)
  BY DEF Traced, Drawn, Holds
<1>e. /\ Holds(n.has, "overwrites") => Holds(o.has, "overwrites")
      /\ Holds(n.has, "list") => Holds(o.has, "list")
      /\ Holds(n.has, "unverified") => Holds(o.has, "unverified")
  BY <1>d DEF Splits
<1>u. /\ "uuid" \in Secrets /\ \A type : Unescaped(type) \subseteq Secrets
      /\ \A type : "username" \notin Unescaped(type)
  BY DEF Secrets, Unescaped
<1>4. \A f \in Secrets : SecretTraced(way, o, m, f)
  <2> TAKE f \in Secrets
  <2> DEFINE was  == Value(o.has, f)
             then == Value(n.has, f)
             now  == Value(m.has, f)
  <2>1. SecretTraced(way, o, n, f)
    BY <1>s
  <2>2. KeptValue(dialect, n.type, n.has, f, then, now)
    BY <1>2 DEF Carried, KeptSecrets
  <2>3. then \in Splits \cup {"colon", "percent", "address"} => was = then
    BY <1>v
  <2>4. f = "username" /\ then = "none" => was = "none"
    BY <1>u, <2>1 DEF SecretTraced
  <2>5. Value(n.has, "uuid") = "colon" => Value(o.has, "uuid") = "colon"
    BY <1>u, <1>v
  <2> HIDE DEF was, then, now
  <2>6. CASE now = then
    BY <1>2, <2>1, <2>6 DEF SecretTraced, was, then, now
  <2>7. CASE now # then
    <3>1. KeptValue(dialect, n.type, o.has, f, was, now)
      BY <1>e, <2>2, <2>3, <2>4, <2>5, <2>7 DEF KeptValue
    <3> QED BY <1>2, <1>h, <3>1 DEF SecretTraced, KeptValue, was, now
  <2> QED BY <2>6, <2>7
<1>5. GuardTraced(way, o, m) /\ ServerTraced(way, o, m)
  <2>1. GuardTraced(way, o, n) /\ ServerTraced(way, o, n)
    BY DEF Traced
  <2>2. KeptGuard(dialect, n.type, n.has, m.has) /\ KeptServer(dialect, n.type, n.has, m.has)
    BY <1>2 DEF Carried
  <2>3. GuardTraced(way, o, m)
    BY <1>2, <1>e, <1>h, <2>1, <2>2 DEF GuardTraced, KeptGuard
  <2>4. \A f \in Unescaped(n.type) : Value(n.has, f) = "address" => Value(o.has, f) = "address"
    BY <1>u, <1>v
  <2>5. ServerTraced(way, o, m)
    BY <1>2, <1>h, <2>1, <2>2, <2>4 DEF ServerTraced, KeptServer
  <2> QED BY <2>3, <2>5
<1>7. Drawn(m.has, o.has)
  BY <1>2, <1>d DEF Carried, Drawn
<1>6. NameTraced(way, o, m)
  <2> SUFFICES ASSUME NameMatters(n.type, o.has),
                      Name(o.has) # "none", ~NameLost(way, o, n)
               PROVE  \/ NameLost(way, o, m)
                      \/ /\ Name(m.has) = Name(o.has)
                         /\ Value(o.has, "servername") # "none"
                              /\ Value(m.has, "servername") = "none" =>
                              Hops(way, NameFromSNI) # {}
    BY <1>2 DEF NameTraced, NameLost
  <2>1. /\ Name(n.has) = Name(o.has)
        /\ Value(o.has, "servername") # "none" /\ Value(n.has, "servername") = "none" =>
             Hops(way, NameFromSNI) # {}
    BY DEF Traced, NameTraced
  <2>2. NameMatters(n.type, n.has)
    <3>1. GuardTraced(way, o, n)
      BY DEF Traced
    <3> QED BY <3>1 DEF GuardTraced, NameMatters
  <2>3. KeptName(dialect, n.type, n.has, m.has)
    BY <1>2 DEF Carried
  <2>4. \/ /\ Name(m.has) = Name(n.has)
           /\ Value(n.has, "servername") # "none" /\ Value(m.has, "servername") = "none" =>
                dialect \in NameFromSNI
        \/ /\ n.type \in {"vmess", "vless"} /\ dialect = "v2ray"
           /\ Value(n.has, "servername") = "none"
    BY <2>1, <2>2, <2>3 DEF KeptName, NameFromSNI
  <2>5. CASE Name(m.has) = Name(n.has) /\
             (Value(n.has, "servername") # "none" /\ Value(m.has, "servername") = "none" =>
                dialect \in NameFromSNI)
    BY <1>3, <2>1, <2>5
  <2>6. CASE /\ n.type \in {"vmess", "vless"} /\ dialect = "v2ray"
             /\ Value(n.has, "servername") = "none"
    <3>1. Len(way) \in Hops(way, {"v2ray"})
      BY <1>3, <2>6
    <3>2. Value(o.has, "servername") = "none" \/ \E i \in Hops(way, NameFromSNI) : i < Len(way)
      <4> SUFFICES ASSUME Value(o.has, "servername") # "none"
                   PROVE  \E i \in Hops(way, NameFromSNI) : i < Len(way)
        OBVIOUS
      <4>1. PICK i \in Hops(way, NameFromSNI) : TRUE
        BY <2>1, <2>6
      <4>2. i \in DOMAIN way /\ way[i] \in NameFromSNI
        BY <4>1 DEF Hops
      <4>3. i # Len(way)
        BY <1>1, <2>6, <4>2 DEF NameFromSNI
      <4> QED BY <1>1, <4>1, <4>2, <4>3
    <3> QED BY <1>2, <2>6, <3>1, <3>2 DEF NameLost
  <2> QED BY <2>4, <2>5, <2>6
<1> QED BY <1>2, <1>4, <1>5, <1>6, <1>7 DEF Traced, dialect, m

(***************************************************************************)
(* A document that is wrapped once at most, and whose nodes another hop    *)
(* does not change, is read.                                               *)
(***************************************************************************)
\* Unwrapped, such a document is recognised, and not mistaken for a Clash document.
LEMMA PlainRecognised ==
  ASSUME NEW dialect \in DialectNames, NEW listOnly \in BOOLEAN, NEW S, NEW nodes \in Seq(S),
         nodes # <<>>, \A i \in DOMAIN nodes : Settled(dialect, nodes[i])
  PROVE  LET plain == Wrapped(dialect, listOnly, nodes, 0)
         IN  /\ Structured(plain) \/ HasLinks(plain)
             /\ ~(LooksLikeClashYAML(plain) /\ plain.form # "yaml")
<1> DEFINE plain == Wrapped(dialect, listOnly, nodes, 0)
           e == Emitted(dialect, nodes)
           L == Published(dialect, listOnly, nodes).lines
           b == Len(Before(dialect, listOnly))
           a == Len(After(dialect, listOnly))
<1>1. plain.lines = L /\ plain.form = FormOf(dialect) /\ plain.wraps = 0
  BY DEF Wrapped
<1>2. /\ e \in Seq(DOMAIN nodes) /\ Increasing(e)
      /\ \A k \in DOMAIN e : HasForm(dialect, nodes[e[k]])
      /\ \A i \in DOMAIN nodes : HasForm(dialect, nodes[i]) => \E k \in DOMAIN e : e[k] = i
  BY EmittedFacts
<1>3. /\ b \in Nat /\ a \in Nat /\ Len(e) \in Nat /\ DOMAIN e = 1..Len(e)
      /\ Len(L) = b + Len(e) + a /\ DOMAIN L = 1..Len(L)
      /\ \A k \in 1..Len(e) : L[b + k] = Written(dialect, nodes[e[k]])
  BY LinesFacts
<1>4. \A i \in DOMAIN L : L[i].what = "node" <=> i \in (b + 1)..(b + Len(e))
  BY NodeLines
<1>5. IsIni(dialect) => \E i \in DOMAIN L : L[i] = Section("proxy")
  BY <1>1, ProxySection
<1> HIDE DEF e, L, a, b, plain
<1>6. \E i \in NodesOf(plain) : TRUE
  <2>1. 1 \in DOMAIN nodes
    OBVIOUS
  <2>2. HasForm(dialect, nodes[1])
    BY <2>1 DEF Settled, Taken
  <2>3. PICK k \in DOMAIN e : e[k] = 1
    BY <1>2, <2>1, <2>2
  <2>4. b + k \in DOMAIN L /\ b + k \in (b + 1)..(b + Len(e))
    BY <1>3, <2>3
  <2>5. L[b + k].what = "node"
    BY <1>4, <2>4
  <2> QED BY <1>1, <2>4, <2>5 DEF NodesOf
<1>7. ASSUME NEW i \in NodesOf(plain), IsIni(dialect)
      PROVE  plain.lines[i].name # "yaml"
  <2>1. i \in DOMAIN L /\ L[i].what = "node"
    BY <1>1 DEF NodesOf
  <2>2. i \in (b + 1)..(b + Len(e))
    BY <1>4, <2>1
  <2>3. i - b \in 1..Len(e) /\ b + (i - b) = i
    BY <1>3, <2>2
  <2>4. L[i] = Written(dialect, nodes[e[i - b]]) /\ e[i - b] \in DOMAIN nodes
    BY <1>2, <1>3, <2>3
  <2>5. L[i].name = nodes[e[i - b]].name
    BY <2>4 DEF Written, NodeLine
  <2> QED BY <1>1, <1>7, <2>4, <2>5 DEF Settled
<1>8. ~(LooksLikeClashYAML(plain) /\ plain.form # "yaml")
  BY <1>1, <1>7, Forms DEF LooksLikeClashYAML
<1>9. CASE dialect = "clash"
  BY <1>1, <1>8, <1>9, Forms DEF Structured, LooksLikeClashYAML, plain
<1>10. CASE dialect = "singbox"
  BY <1>1, <1>8, <1>10, Forms DEF Structured, LooksLikeSingboxJSON, plain
<1>11. CASE dialect = "v2ray"
  BY <1>1, <1>6, <1>8, <1>11, Forms DEF HasLinks, plain
<1>12. CASE IsIni(dialect)
  <2>1. plain.form = "ini"
    BY <1>1, <1>12, Forms
  <2>2. LooksLikeSurge(plain)
    BY <1>1, <1>5, <1>8, <1>12, <2>1 DEF LooksLikeSurge
  <2> QED BY <1>8, <2>2 DEF Structured, plain
<1> QED BY <1>9, <1>10, <1>11, <1>12 DEF DialectNames, IsIni

\* Wrapped once at most, it is read as what it was made of.
LEMMA SettledRead ==
  ASSUME NEW dialect \in DialectNames, NEW listOnly \in BOOLEAN, NEW nodes, PoolOK(nodes),
         NEW wraps \in {0, 1},
         nodes # <<>>, Open(dialect, nodes), \A i \in DOMAIN nodes : Settled(dialect, nodes[i])
  PROVE  Parse(Wrapped(dialect, listOnly, nodes, wraps)).nodes = nodes
<1> DEFINE doc0  == Wrapped(dialect, listOnly, nodes, wraps)
           plain == Wrapped(dialect, listOnly, nodes, 0)
           p     == Parse(doc0)
<1>1. nodes \in Seq(Range(nodes)) /\ wraps \in Nat
  BY DEF PoolOK
<1>2. /\ Structured(plain) \/ HasLinks(plain)
      /\ ~(LooksLikeClashYAML(plain) /\ plain.form # "yaml")
  BY <1>1, PlainRecognised
<1>3. Body(doc0) = plain
  <2>1. CASE wraps = 0
    <3>1. doc0 = plain /\ doc0.wraps = 0
      BY <2>1 DEF Wrapped
    <3> HIDE DEF doc0, plain
    <3> QED BY <3>1 DEF Body, IsBase64
  <2>2. CASE wraps = 1
    <3>1. Unwrapped(doc0) = plain /\ doc0.wraps = 1
      BY <2>2 DEF Wrapped, Unwrapped
    <3> HIDE DEF doc0, plain
    <3> QED BY <1>2, <3>1 DEF Body, IsBase64
  <2> QED BY <2>1, <2>2
<1>4. plain.wraps = 0
  BY DEF Wrapped
<1>5. p # Refused
  <2> HIDE DEF doc0, plain
  <2>1. p.unread = FALSE
    BY <1>2, <1>3, <1>4 DEF Parse
  <2> QED BY <2>1 DEF Refused
<1> HIDE DEF doc0
<1>6. ParsedAs(dialect, nodes, p)
  BY <1>1, <1>5, ParseFacts DEF doc0
<1> HIDE DEF p
<1>7. PICK q : Takes(dialect, nodes, p.nodes, q)
  BY <1>6 DEF ParsedAs
<1>8. p.nodes = nodes
  BY <1>7, TakesAll
<1> QED BY <1>8 DEF p, doc0

(***************************************************************************)
(* What a hop makes of a list of nodes: none is lost without a word.       *)
(***************************************************************************)
\* A list has one node of each identity.
LEMMA DistinctIds ==
  ASSUME NEW nodes, PoolOK(nodes), NEW i \in DOMAIN nodes, NEW j \in DOMAIN nodes,
         nodes[i].id = nodes[j].id
  PROVE  i = j
<1>1. i \in Nat /\ j \in Nat
  BY DEF PoolOK
<1>2. nodes[i].id \in Nat /\ nodes[j].id \in Nat
  BY DEF PoolOK, GoodNode, IsNode
<1>3. ~(i < j) /\ ~(j < i)
  BY <1>2 DEF PoolOK
<1> QED BY <1>1, <1>3

\* Each node is read, has no form, is reported or is hidden, and none of those gone is
\* read.
LEMMA HopAccounted ==
  ASSUME NEW dialect \in DialectNames, NEW nodes, PoolOK(nodes), NEW read, NEW q,
         Takes(dialect, nodes, read, q)
  PROVE  LET gone == {n.id : n \in {m \in Range(nodes) : ~HasForm(dialect, m)}}
                       \cup {nodes[i].id : i \in LeftOut(dialect, nodes)}
         IN  /\ \A i \in DOMAIN nodes :
                  nodes[i].id \in Ids(read) \cup gone \/ Hidden(dialect, nodes, i)
             /\ gone \subseteq Ids(nodes) \ Ids(read)
<1> DEFINE formless == {n.id : n \in {m \in Range(nodes) : ~HasForm(dialect, m)}}
           gone == formless \cup {nodes[i].id : i \in LeftOut(dialect, nodes)}
<1>1. /\ DOMAIN q = DOMAIN read
      /\ \A k \in DOMAIN read : /\ q[k] \in DOMAIN nodes /\ Comes(dialect, nodes, q[k])
                                /\ Taken(dialect, nodes[q[k]])
                                /\ read[k] = Hop(dialect, nodes[q[k]])
  BY TakesFacts
<1>2. \A k \in DOMAIN read : read[k].id = nodes[q[k]].id
  BY <1>1 DEF Hop
<1>3. ASSUME NEW i \in DOMAIN nodes
      PROVE  nodes[i].id \in Ids(read) \cup gone \/ Hidden(dialect, nodes, i)
  <2>1. nodes[i] \in Range(nodes)
    BY DEF Range
  <2>2. CASE Comes(dialect, nodes, i)
    <3>1. PICK k \in DOMAIN q : q[k] = i
      BY <2>2 DEF Takes
    <3>2. read[k] \in Range(read) /\ read[k].id = nodes[i].id
      BY <1>1, <1>2, <3>1 DEF Range
    <3> QED BY <3>2 DEF Ids
  <2>3. CASE ~HasForm(dialect, nodes[i])
    BY <2>1, <2>3
  <2>4. CASE HasForm(dialect, nodes[i]) /\ ~Comes(dialect, nodes, i) /\ ~Hidden(dialect, nodes, i)
    <3>1. i \in LeftOut(dialect, nodes)
      BY <2>4 DEF LeftOut, Comes, Hidden
    <3> QED BY <3>1
  <2> QED BY <2>2, <2>3, <2>4
<1>4. ASSUME NEW x \in gone PROVE x \in Ids(nodes) \ Ids(read)
  <2>1. PICK i \in DOMAIN nodes : x = nodes[i].id /\ ~Taken(dialect, nodes[i])
    <3>1. CASE x \in formless
      <4>1. PICK n \in Range(nodes) : x = n.id /\ ~HasForm(dialect, n)
        BY <3>1
      <4>2. PICK i \in DOMAIN nodes : nodes[i] = n
        BY DEF Range
      <4> QED BY <4>1, <4>2 DEF Taken
    <3>2. CASE x \notin formless
      BY <1>4, <3>2 DEF LeftOut
    <3> QED BY <3>1, <3>2
  <2>2. x \in Ids(nodes)
    BY <2>1 DEF Ids, Range
  <2>3. ASSUME x \in Ids(read) PROVE FALSE
    <3>1. PICK k \in DOMAIN read : x = read[k].id
      BY <2>3 DEF Ids, Range
    <3>2. nodes[q[k]].id = nodes[i].id /\ q[k] \in DOMAIN nodes /\ Taken(dialect, nodes[q[k]])
      BY <1>1, <1>2, <2>1, <3>1
    <3>3. q[k] = i
      BY <2>1, <3>2, DistinctIds
    <3> QED BY <2>1, <3>2, <3>3
  <2> QED BY <2>2, <2>3
<1> QED BY <1>3, <1>4

(***************************************************************************)
(* The inductive invariant.                                                *)
(***************************************************************************)
\* A document on its way is one that the last dialect of the route makes of the
\* nodes at hand, wrapped any number of times; what is reported are the nodes that
\* have no form in it.
InFlight ==
    doc # NoDoc =>
        /\ route # <<>> /\ pool # <<>> /\ from = pool /\ ~unread
        /\ \E listOnly \in BOOLEAN, wraps \in 0..MaxWraps :
              doc = Wrapped(Last(route), listOnly, pool, wraps)
        /\ reported = {n.id : n \in {m \in Range(pool) : ~HasForm(Last(route), m)}}

\* Every node is one the chain began with, after the hops of the route.
AllTraced == \A k \in DOMAIN pool : \E o \in Range(origin) : Traced(route, o, pool[k])

\* The nodes at hand came through the last hop, so that another in the same
\* dialect does not change them.
AllSettled ==
    /\ doc = NoDoc /\ route # <<>> => \A k \in DOMAIN pool : Settled(Last(route), pool[k])
    /\ doc # NoDoc /\ Len(route) >= 2 =>
          \A k \in DOMAIN pool : Settled(route[Len(route) - 1], pool[k])

IInv ==
    /\ PoolOK(origin) /\ PoolOK(pool)
    /\ route \in Seq(DialectNames) /\ Len(route) <= MaxHops
    /\ InFlight
    /\ AllTraced
    /\ AllSettled
    /\ AllAccounted

\* A chain begins with good nodes that are what they were.
LEMMA InitIInv == Init => IInv
<1> SUFFICES ASSUME Init PROVE IInv
  OBVIOUS
<1>1. /\ PoolOK(origin)
      /\ \A k \in DOMAIN origin : Fields(origin[k].has) /\ Value(origin[k].has, "server") = "none"
  <2>1. /\ origin \in Seq(Range(origin))
        /\ \A n \in Range(origin) :
              /\ IsNode(n) /\ "server" \notin DOMAIN n.has
              /\ \A f \in {"sni", "servername"} : Value(n.has, f) \notin Splits
        /\ \A i, j \in DOMAIN origin : i < j => origin[i].id < origin[j].id
    BY ChainAssumption DEF Init
  <2>2. \A k \in DOMAIN origin : GoodNode(origin[k]) /\ Value(origin[k].has, "server") = "none"
    <3> TAKE k \in DOMAIN origin
    <3>1. origin[k] \in Range(origin)
      BY DEF Range
    <3>2. /\ IsNode(origin[k]) /\ "server" \notin DOMAIN origin[k].has
          /\ Value(origin[k].has, "sni") \notin Splits
          /\ Value(origin[k].has, "servername") \notin Splits
      BY <2>1, <3>1
    <3> QED BY <3>2, GoodNodeFacts
  <2> QED BY <2>1, <2>2 DEF PoolOK, GoodNode, NodeFields
<1>2. pool = origin /\ doc = NoDoc /\ route = <<>>
  BY DEF Init
<1>3. AllTraced
  <2> SUFFICES ASSUME NEW k \in DOMAIN pool PROVE \E o \in Range(origin) : Traced(route, o, pool[k])
    BY DEF AllTraced
  <2>1. pool[k] \in Range(origin)
    BY <1>2 DEF Range
  <2>2. Fields(pool[k].has) /\ Value(pool[k].has, "server") = "none"
    BY <1>1, <1>2
  <2> QED BY <2>1, <2>2, TracedAtOnce
<1>4. InFlight /\ AllSettled /\ AllAccounted
  BY <1>2 DEF InFlight, AllSettled, AllAccounted
<1>5. route \in Seq(DialectNames) /\ Len(route) <= MaxHops
  BY <1>2, ChainAssumption
<1> QED BY <1>1, <1>2, <1>3, <1>4, <1>5 DEF IInv

\* A document is not NoDoc.
LEMMA WrappedIsDoc ==
  ASSUME NEW dialect \in DialectNames, NEW listOnly, NEW nodes, NEW wraps
  PROVE  Wrapped(dialect, listOnly, nodes, wraps) # NoDoc
<1>1. Wrapped(dialect, listOnly, nodes, wraps).form = FormOf(dialect)
  BY DEF Wrapped
<1>2. FormOf(dialect) # "none"
  BY DEF FormOf, DialectNames
<1>3. NoDoc.form = "none"
  BY DEF NoDoc
<1> QED BY <1>1, <1>2, <1>3

\* Publishing makes a document of the nodes at hand.
LEMMA PublishIInv ==
  ASSUME IInv, NEW dialect \in DialectNames, NEW listOnly \in BOOLEAN, Publish(dialect, listOnly)
  PROVE  IInv'
<1> DEFINE wraps == IF dialect = "v2ray" THEN 1 ELSE 0
<1>1. wraps \in 0..MaxWraps /\ MaxHops \in Nat
  BY ChainAssumption
<1>2. /\ doc = NoDoc /\ pool # <<>> /\ Len(route) < MaxHops
      /\ doc' = Published(dialect, listOnly, pool)
      /\ from' = pool /\ route' = Append(route, dialect) /\ unread' = FALSE
      /\ reported' = {n.id : n \in {m \in Range(pool) : ~HasForm(dialect, m)}}
      /\ origin' = origin /\ pool' = pool
  BY DEF Publish
<1>3. /\ PoolOK(origin) /\ PoolOK(pool) /\ route \in Seq(DialectNames) /\ Len(route) <= MaxHops
      /\ AllTraced /\ AllSettled
  BY DEF IInv
<1>4. doc' = Wrapped(dialect, listOnly, pool, wraps)
  <2>1. pool \in Seq(Range(pool))
    BY <1>3 DEF PoolOK
  <2> DEFINE pub == Published(dialect, listOnly, pool)
  <2>2. \E lines : pub = [form |-> FormOf(dialect), wraps |-> wraps, lines |-> lines]
    BY <2>1, PublishedParts
  <2> HIDE DEF pub, wraps
  <2>3. pub = [form |-> FormOf(dialect), wraps |-> wraps, lines |-> pub.lines]
    BY <2>2
  <2> QED BY <1>2, <2>3 DEF Wrapped, pub
<1> HIDE DEF wraps
<1>5. doc' # NoDoc
  BY <1>4, WrappedIsDoc
<1>6. /\ route' \in Seq(DialectNames) /\ Len(route') = Len(route) + 1 /\ Len(route') <= MaxHops
      /\ Last(route') = dialect /\ route' # <<>> /\ Len(route) \in Nat
      /\ route # <<>> => route'[Len(route') - 1] = Last(route)
  BY <1>1, <1>2, <1>3 DEF Last
<1>7. InFlight'
  BY <1>1, <1>2, <1>4, <1>6 DEF InFlight
<1>8. AllTraced'
  <2> SUFFICES ASSUME NEW k \in DOMAIN pool
               PROVE  \E o \in Range(origin) : Traced(route', o, pool[k])
    BY <1>2 DEF AllTraced
  <2>1. PICK o \in Range(origin) : Traced(route, o, pool[k])
    BY <1>3 DEF AllTraced
  <2>2. Traced(Append(route, dialect), o, pool[k])
    BY <1>3, <2>1, TracedAppend
  <2> QED BY <1>2, <2>2
<1>9. AllSettled'
  <2> SUFFICES ASSUME Len(route') >= 2, NEW k \in DOMAIN pool
               PROVE  Settled(route'[Len(route') - 1], pool[k])
    BY <1>2, <1>5 DEF AllSettled
  <2>1. route # <<>>
    BY <1>6
  <2>2. Settled(Last(route), pool[k])
    BY <1>2, <1>3, <2>1 DEF AllSettled
  <2> QED BY <1>6, <2>1, <2>2
<1>10. AllAccounted'
  BY <1>5 DEF AllAccounted
<1> QED BY <1>2, <1>3, <1>6, <1>7, <1>8, <1>9, <1>10 DEF IInv

\* Wrapping changes nothing but the number of wrappings.
LEMMA WrapIInv == IInv /\ Wrap => IInv'
<1> SUFFICES ASSUME IInv, Wrap PROVE IInv'
  OBVIOUS
<1>1. /\ doc # NoDoc /\ doc.wraps < MaxWraps /\ doc' = [doc EXCEPT !.wraps = @ + 1]
      /\ UNCHANGED <<origin, pool, from, route, reported, unread>>
  BY DEF Wrap
<1>2. PICK listOnly \in BOOLEAN, wraps \in 0..MaxWraps :
         doc = Wrapped(Last(route), listOnly, pool, wraps)
  BY <1>1 DEF IInv, InFlight
<1>3. route # <<>> /\ route \in Seq(DialectNames) /\ Last(route) \in DialectNames
  BY <1>1 DEF IInv, InFlight, Last
<1>4. doc.wraps = wraps /\ doc' = Wrapped(Last(route), listOnly, pool, wraps + 1)
  BY <1>1, <1>2 DEF Wrapped
<1>5. wraps + 1 \in 0..MaxWraps
  BY <1>1, <1>4, ChainAssumption
<1>6. doc' # NoDoc
  BY <1>3, <1>4, WrappedIsDoc
<1>7. InFlight'
  BY <1>1, <1>4, <1>5 DEF IInv, InFlight
<1>8. AllTraced'
  BY <1>1 DEF IInv, AllTraced
<1>9. AllSettled'
  BY <1>1, <1>6 DEF IInv, AllSettled
<1>10. AllAccounted'
  BY <1>6 DEF AllAccounted
<1> QED BY <1>1, <1>7, <1>8, <1>9, <1>10 DEF IInv

\* Subscribing makes of the nodes at hand what a hop makes of them, or none.
LEMMA SubscribeIInv == IInv /\ Subscribe => IInv'
<1> SUFFICES ASSUME IInv, Subscribe PROVE IInv'
  OBVIOUS
<1> DEFINE dialect == Last(route)
           p == Parse(doc)
<1>1. /\ doc # NoDoc /\ doc' = NoDoc
      /\ pool' = p.nodes /\ reported' = reported \cup p.skipped /\ unread' = p.unread
      /\ origin' = origin /\ from' = from /\ route' = route
  BY DEF Subscribe
<1>2. /\ PoolOK(origin) /\ PoolOK(pool) /\ route \in Seq(DialectNames) /\ Len(route) <= MaxHops
      /\ AllTraced
  BY DEF IInv
<1>3. /\ route # <<>> /\ from = pool
      /\ reported = {n.id : n \in {m \in Range(pool) : ~HasForm(dialect, m)}}
  BY <1>1 DEF IInv, InFlight
<1>4. PICK listOnly \in BOOLEAN, wraps \in 0..MaxWraps :
         doc = Wrapped(dialect, listOnly, pool, wraps)
  BY <1>1 DEF IInv, InFlight
<1>5. dialect \in DialectNames /\ wraps \in Nat /\ pool \in Seq(Range(pool))
  BY <1>2, <1>3 DEF Last, PoolOK
<1>6. p = Refused \/ ParsedAs(dialect, pool, p)
  <2> HIDE DEF dialect
  <2> QED BY <1>4, <1>5, ParseFacts
<1> HIDE DEF p, dialect
<1>7. InFlight'
  BY <1>1 DEF InFlight
<1>8. CASE p = Refused
  <2>1. p.nodes = <<>> /\ p.skipped = {} /\ p.unread = TRUE
    BY <1>8 DEF Refused
  <2>2. PoolOK(pool')
    BY <1>1, <2>1, EmptyPool
  <2>3. AllTraced'
    BY <1>1, <2>1 DEF AllTraced
  <2>4. AllSettled'
    BY <1>1, <2>1 DEF AllSettled
  <2>5. reported \subseteq Ids(from)
    BY <1>3 DEF Ids
  <2>6. Ids(pool') = {}
    BY <1>1, <2>1 DEF Ids, Range
  <2>7. AllAccounted'
    BY <1>1, <2>1, <2>5, <2>6 DEF AllAccounted
  <2> QED BY <1>1, <1>2, <1>7, <2>2, <2>3, <2>4, <2>7 DEF IInv
<1>9. CASE p # Refused
  <2> DEFINE read == p.nodes
  <2>1. PICK q : Takes(dialect, pool, read, q)
    BY <1>6, <1>9 DEF ParsedAs
  <2>2. /\ p.unread = FALSE
        /\ p.skipped = {pool[i].id : i \in LeftOut(dialect, pool)}
        /\ IsIni(dialect) => \A i \in DOMAIN pool :
              HasForm(dialect, pool[i]) => pool[i].name # "yaml"
    BY <1>6, <1>9 DEF ParsedAs
  <2> HIDE DEF read
  <2>3. /\ PoolOK(read) /\ DOMAIN q = DOMAIN read
        /\ \A k \in DOMAIN read : /\ q[k] \in DOMAIN pool /\ Taken(dialect, pool[q[k]])
                                  /\ read[k] = Hop(dialect, pool[q[k]])
    BY <1>2, <1>5, <2>1, TakesFacts
  <2>4. pool' = read
    BY <1>1 DEF read
  <2>5. AllTraced'
    <3> SUFFICES ASSUME NEW k \in DOMAIN read
                 PROVE  \E o \in Range(origin) : Traced(route, o, read[k])
      BY <1>1, <2>4 DEF AllTraced
    <3> DEFINE n == pool[q[k]]
    <3>1. q[k] \in DOMAIN pool /\ Taken(dialect, n) /\ read[k] = Hop(dialect, n) /\ GoodNode(n)
      BY <1>2, <2>3 DEF PoolOK
    <3>2. PICK o \in Range(origin) : Traced(route, o, n)
      BY <1>2, <3>1 DEF AllTraced
    <3> HIDE DEF n
    <3>3. Traced(route, o, Hop(dialect, n))
      BY <1>2, <1>3, <3>1, <3>2, TracedHop DEF dialect
    <3> QED BY <3>1, <3>3
  <2>6. AllSettled'
    <3> SUFFICES ASSUME NEW k \in DOMAIN read PROVE Settled(dialect, read[k])
      BY <1>1, <2>4 DEF AllSettled, dialect
    <3>1. /\ q[k] \in DOMAIN pool /\ Taken(dialect, pool[q[k]])
          /\ read[k] = Hop(dialect, pool[q[k]]) /\ GoodNode(pool[q[k]])
      BY <1>2, <2>3 DEF PoolOK
    <3>2. IsIni(dialect) => pool[q[k]].name # "yaml"
      BY <2>2, <3>1 DEF Taken
    <3> QED BY <1>5, <3>1, <3>2, HopFacts
  <2>7. AllAccounted'
    <3>1. reported' = {n.id : n \in {m \in Range(pool) : ~HasForm(dialect, m)}}
                        \cup {pool[i].id : i \in LeftOut(dialect, pool)}
      BY <1>1, <1>3, <2>2
    <3>2. /\ \A i \in DOMAIN pool :
               pool[i].id \in Ids(read) \cup reported' \/ Hidden(dialect, pool, i)
          /\ reported' \subseteq Ids(pool) \ Ids(read)
      BY <1>2, <1>5, <2>1, <3>1, HopAccounted
    <3>3. Last(route') = dialect /\ from' = pool /\ Ids(pool') = Ids(read)
      BY <1>1, <1>3, <2>4 DEF dialect
    <3>4. ASSUME NEW n, NEW i \in DOMAIN pool, pool[i] = n, Hidden(dialect, pool, i)
          PROVE  Unreported(n)'
      <4>1. dialect \in {"surge", "shadowrocket"}
        BY <3>4 DEF Hidden, IniComment, Shut, IsIni
      <4>2. CASE IniComment(dialect, pool[i])
        BY <3>3, <3>4, <4>1, <4>2 DEF IniComment, Unreported
      <4>3. CASE Shut(dialect, pool, i)
        <5>1. PICK j \in DOMAIN pool : j <= i /\ ClosesSection(dialect, pool[j])
          BY <4>3 DEF Shut
        <5>2. \E k, l \in DOMAIN from' :
                 k <= l /\ from'[l] = n /\ ClosesSection(Last(route'), from'[k])
          BY <3>3, <3>4, <5>1
        <5> QED BY <3>3, <4>1, <5>2 DEF Unreported
      <4> QED BY <3>4, <4>2, <4>3 DEF Hidden
    <3>5. ASSUME NEW n \in Range(pool)
          PROVE  n.id \in Ids(read) \cup reported' \/ Unreported(n)'
      <4>1. PICK i \in DOMAIN pool : pool[i] = n
        BY DEF Range
      <4> QED BY <3>2, <3>4, <4>1
    <3> QED BY <3>2, <3>3, <3>5 DEF AllAccounted
  <2> QED BY <1>1, <1>2, <1>7, <2>3, <2>4, <2>5, <2>6, <2>7 DEF IInv
<1> QED BY <1>8, <1>9

\* Every step keeps the invariant.
LEMMA NextIInv == IInv /\ [Next]_vars => IInv'
<1> SUFFICES ASSUME IInv, [Next]_vars PROVE IInv'
  OBVIOUS
<1>1. CASE \E dialect \in DialectNames, listOnly \in BOOLEAN : Publish(dialect, listOnly)
  BY <1>1, PublishIInv
<1>2. CASE Wrap
  BY <1>2, WrapIInv
<1>3. CASE Subscribe
  BY <1>3, SubscribeIInv
<1>4. CASE UNCHANGED vars
  BY <1>4 DEF vars, IInv, InFlight, AllTraced, AllSettled, AllAccounted, Unreported
<1> QED BY <1>1, <1>2, <1>3, <1>4 DEF Next

\* The invariant holds in every reachable state.
LEMMA InvAlways == Spec => []IInv
<1>1. Init => IInv
  BY InitIInv
<1>2. IInv /\ [Next]_vars => IInv'
  BY NextIInv
<1> QED BY <1>1, <1>2, PTL DEF Spec

\* The invariant gives TypeOK.
LEMMA IInvTypeOK == IInv => TypeOK
<1> SUFFICES ASSUME IInv PROVE TypeOK
  OBVIOUS
<1>1. \A n \in Range(pool) : IsNode(n)
  <2> TAKE n \in Range(pool)
  <2>1. PICK k \in DOMAIN pool : pool[k] = n
    BY DEF Range
  <2> QED BY <2>1 DEF IInv, PoolOK, GoodNode
<1>2. \A i, j \in DOMAIN pool : i < j => pool[i].id < pool[j].id
  BY DEF IInv, PoolOK
<1>3. doc # NoDoc => doc.wraps \in 0..MaxWraps
  BY DEF IInv, InFlight, Wrapped
<1> QED BY <1>1, <1>2, <1>3 DEF TypeOK, IInv

(* TypeOK: a reader gives a node only the fields its type has in a Clash   *)
(* document, and nodes stay in their order, one of each.                   *)
THEOREM TypeCorrect == Spec => []TypeOK
<1>1. IInv => TypeOK
  BY IInvTypeOK
<1> QED BY InvAlways, <1>1, PTL

(* AllAccounted: no node disappears at a hop without a word, however often *)
(* its document is wrapped, and nothing is reported that is still there.   *)
THEOREM AllAccountedAlways == Spec => []AllAccounted
<1>1. IInv => AllAccounted
  BY DEF IInv
<1> QED BY InvAlways, <1>1, PTL

\* The node of the same identity is the one Origin chooses.
LEMMA OneOrigin ==
  ASSUME PoolOK(origin), NEW n, NEW o \in Range(origin), o.id = n.id
  PROVE  Origin(n) = o
<1>1. ASSUME NEW a \in Range(origin), NEW b \in Range(origin), a.id = b.id
      PROVE  a = b
  <2>1. PICK i \in DOMAIN origin : origin[i] = a
    BY DEF Range
  <2>2. PICK j \in DOMAIN origin : origin[j] = b
    BY DEF Range
  <2>3. i = j
    BY <1>1, <2>1, <2>2, DistinctIds
  <2> QED BY <2>1, <2>2, <2>3
<1>2. Origin(n) \in Range(origin) /\ Origin(n).id = n.id
  BY Zenon DEF Origin
<1> QED BY <1>1, <1>2

\* What the node a chain began with holds, it holds as a value of one of its fields.
LEMMA HeldByOrigin ==
  ASSUME NEW n, NEW o, GoodNode(o), Origin(n) = o
  PROVE  \A v \in {"unverified", "overwrites", "list"} : Holds(o.has, v) => HoldsA(n, v)
<1> SUFFICES ASSUME NEW v \in {"unverified", "overwrites", "list"}, Holds(o.has, v)
             PROVE  v \in Range(o.has)
  BY DEF HoldsA
<1>1. PICK f : Value(o.has, f) = v
  BY DEF Holds
<1>2. v # "none"
  OBVIOUS
<1>3. f \in DOMAIN o.has /\ o.has[f] = v
  BY <1>1, <1>2 DEF Value
<1> QED BY <1>3 DEF Range

\* A node that is traced is Protected.
LEMMA TracedProtected ==
  ASSUME NEW n, NEW o, GoodNode(n), GoodNode(o), Origin(n) = o, Traced(route, o, n)
  PROVE  Protected(n)
<1>1. Fields(n.has) /\ Fields(o.has)
  BY DEF GoodNode, NodeFields
<1>2. \A f : /\ f \in DOMAIN n.has <=> Value(n.has, f) # "none"
             /\ f \in DOMAIN o.has <=> Value(o.has, f) # "none"
  BY <1>1, ValueFacts
<1>3. GuardTraced(route, o, n) /\ NameTraced(route, o, n)
  BY DEF Traced
<1>0. Holds(o.has, "unverified") => HoldsA(n, "unverified")
  BY HeldByOrigin
<1>4. /\ "skip-cert-verify" \in DOMAIN n.has =>
           \/ "skip-cert-verify" \in DOMAIN o.has
           \/ HoldsA(n, "unverified") /\ Surged
      /\ n.type \in {"vmess", "vless", "http"} => {"tls"} \cap DOMAIN o.has \subseteq DOMAIN n.has
      /\ n.type = "vless" => {"reality-opts"} \cap DOMAIN o.has \subseteq DOMAIN n.has
  BY <1>0, <1>2, <1>3 DEF GuardTraced, Surged, Hops, HopsBy
<1>5. ASSUME n.type \notin {"vmess", "vless", "http", "socks5"} \/ "tls" \in DOMAIN o.has,
             n.type # "socks5"
      PROVE  \/ SNI(o.has) = Nothing
             \/ SNI(n.has) = SNI(o.has)
             \/ ServerNameLost(n)
  <2>1. NameMatters(n.type, o.has)
    BY <1>2, <1>5 DEF NameMatters
  <2>2. /\ Fields(SNI(o.has)) /\ Fields(SNI(n.has))
        /\ \A f : Value(SNI(o.has), f) = IF f = "sni" THEN Name(o.has) ELSE "none"
        /\ \A f : Value(SNI(n.has), f) = IF f = "sni" THEN Name(n.has) ELSE "none"
    BY <1>1, SNIFields
  <2>3. CASE Name(o.has) = "none"
    <3>1. SNI(o.has) = Nothing
      BY <2>2, <2>3, NothingFields, SameFields
    <3> QED BY <3>1
  <2>4. CASE NameLost(route, o, n)
    BY <1>2, <2>4 DEF NameLost, ServerNameLost, Hops, HopsBy, NameFromSNI
  <2>5. CASE Name(n.has) = Name(o.has)
    <3>1. SNI(n.has) = SNI(o.has)
      BY <2>2, <2>5, SameFields
    <3> QED BY <3>1
  <2> QED BY <1>3, <2>1, <2>3, <2>4, <2>5 DEF NameTraced
<1> QED BY <1>4, <1>5 DEF Protected

\* The invariant gives Faithful.
LEMMA IInvFaithful == IInv => Faithful
<1> SUFFICES ASSUME IInv, NEW n \in Range(pool)
             PROVE  /\ n.type = Origin(n).type
                    /\ \A field \in Secrets : SecretKept(n, field)
                    /\ ServerKept(n)
                    /\ Protected(n)
  BY DEF Faithful
<1>1. PICK k \in DOMAIN pool : pool[k] = n
  BY DEF Range
<1>2. PICK o \in Range(origin) : Traced(route, o, n)
  BY <1>1 DEF IInv, AllTraced
<1>3. PICK j \in DOMAIN origin : origin[j] = o
  BY DEF Range
<1>4. PoolOK(origin) /\ GoodNode(n) /\ GoodNode(o)
  BY <1>1, <1>3 DEF IInv, PoolOK
<1>5. Origin(n) = o
  BY <1>2, <1>4, OneOrigin DEF Traced
<1>6. \A field \in Secrets : SecretKept(n, field)
  <2> TAKE field \in Secrets
  <2>1. SecretTraced(route, o, n, field)
    BY <1>2 DEF Traced
  <2>2. /\ Holds(o.has, "overwrites") => HoldsA(n, "overwrites")
        /\ Holds(o.has, "list") => HoldsA(n, "list")
    BY <1>4, <1>5, HeldByOrigin
  <2> QED
    BY <1>5, <2>1, <2>2 DEF SecretTraced, SecretKept, Misled, Mislead, Surged, Linked, Hops, HopsBy
<1>7. ServerKept(n)
  <2> SUFFICES ASSUME "server" \in DOMAIN n.has
               PROVE  \E field \in Secrets : Misled(n, field)
    BY DEF ServerKept
  <2>1. Value(n.has, "server") # "none"
    BY <1>4, ValueFacts DEF GoodNode, NodeFields
  <2>2. /\ n.type \in Mislead /\ Hops(route, {"v2ray"}) # {}
        /\ \E f \in Unescaped(n.type) : Value(o.has, f) = "address"
    BY <1>2, <2>1 DEF Traced, ServerTraced
  <2>3. Unescaped(n.type) \subseteq Secrets
    BY DEF Unescaped, Secrets
  <2> QED BY <1>5, <2>2, <2>3 DEF Misled, Mislead, Linked, Hops, HopsBy
<1>8. Protected(n)
  BY <1>2, <1>4, <1>5, TracedProtected
<1> QED BY <1>2, <1>5, <1>6, <1>7, <1>8 DEF Traced

(* Faithful: in any chain of formats a node keeps its type, its secrets,   *)
(* its TLS, Reality and certificate verification, and its server name, but *)
(* for the losses that Faithful names.                                     *)
THEOREM FaithfulAlways == Spec => []Faithful
<1>1. IInv => Faithful
  BY IInvFaithful
<1> QED BY InvAlways, <1>1, PTL

\* The step that Settles is about.
LEMMA AgainSettles == IInv /\ Subscribe /\ Again => pool' = from
<1> SUFFICES ASSUME IInv, Subscribe, Again PROVE pool' = from
  OBVIOUS
<1> DEFINE dialect == Last(route)
<1>1. /\ doc # NoDoc /\ doc.wraps <= 1 /\ Len(route) >= 2
      /\ dialect = route[Len(route) - 1] /\ pool' = Parse(doc).nodes
  BY DEF Again, Subscribe
<1>2. PICK listOnly \in BOOLEAN, wraps \in 0..MaxWraps :
         doc = Wrapped(dialect, listOnly, pool, wraps)
  BY <1>1 DEF IInv, InFlight
<1>3. /\ pool # <<>> /\ from = pool /\ PoolOK(pool)
      /\ \A k \in DOMAIN pool : Settled(dialect, pool[k])
  BY <1>1 DEF IInv, InFlight, AllSettled
<1>4. dialect \in DialectNames
  BY <1>1 DEF IInv, Last
<1>5. wraps \in {0, 1}
  <2>1. doc.wraps = wraps
    BY <1>2 DEF Wrapped
  <2> QED BY <1>1, <2>1, ChainAssumption
<1>7. Open(dialect, pool)
  <2> SUFFICES ASSUME IsIni(dialect), NEW k \in DOMAIN pool
               PROVE  /\ ~ClosesSection(dialect, pool[k])
                      /\ Secured(pool[k].type, pool[k].has)
    BY DEF Open
  <2> DEFINE n == pool[k]
  <2>1. n \in Range(from)
    BY <1>3 DEF Range
  <2>2. /\ ~ClosesSection(dialect, n)
        /\ n.type = "vless" /\ "skip-cert-verify" \in DOMAIN n.has => HasTLS(n.has)
    BY <2>1 DEF Again, IsIni
  <2>3. Fields(n.has)
    BY <1>3 DEF PoolOK, GoodNode, NodeFields
  <2> HIDE DEF n
  <2>4. Secured(n.type, n.has)
    BY <2>2, <2>3, ValueFacts, TLSFields DEF Secured, UsesTLS
  <2> QED BY <2>2, <2>4 DEF n
<1> HIDE DEF dialect
<1>6. Parse(doc).nodes = pool
  BY <1>2, <1>3, <1>4, <1>5, <1>7, SettledRead
<1> QED BY <1>1, <1>3, <1>6

(* Settles: a second hop through the same format, of a document wrapped    *)
(* once at most, reads the very nodes it was made of.                      *)
THEOREM SettlesAlways == Spec => Settles
<1>1. IInv /\ [Next]_vars => [Again /\ doc' = NoDoc => pool' = from]_vars
  <2> SUFFICES ASSUME IInv, [Next]_vars, Again, doc' = NoDoc, ~UNCHANGED vars
               PROVE  pool' = from
    OBVIOUS
  <2>1. CASE \E dialect \in DialectNames, listOnly \in BOOLEAN : Publish(dialect, listOnly)
    BY <2>1 DEF Publish, Again
  <2>2. CASE Wrap
    <3>1. IInv'
      BY WrapIInv, <2>2
    <3>2. PICK listOnly \in BOOLEAN, wraps \in 0..MaxWraps :
             doc = Wrapped(Last(route), listOnly, pool, wraps)
      BY <2>2 DEF IInv, InFlight, Wrap
    <3>3. Last(route) \in DialectNames
      BY DEF IInv, Again, Last
    <3>4. doc' = Wrapped(Last(route), listOnly, pool, wraps + 1)
      BY <2>2, <3>2 DEF Wrap, Wrapped
    <3> QED BY <3>3, <3>4, WrappedIsDoc
  <2>3. CASE Subscribe
    BY <2>3, AgainSettles
  <2> QED BY <2>1, <2>2, <2>3 DEF Next
<1> QED BY InvAlways, <1>1, PTL DEF Spec, Settles
=============================================================================
