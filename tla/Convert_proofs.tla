---------------------------- MODULE Convert_proofs -----------------------------
(***************************************************************************)
(* Proofs about Convert, for every set of requests and external configs,   *)
(* any number of slots and any bound on the sources of a batch.            *)
(***************************************************************************)
EXTENDS Convert, LeastNumbers, SequenceTheorems, FiniteSetTheorems, TLAPS

-----------------------------------------------------------------------------
(* What a batch contributes.                                               *)

Piece(batch) == [from : {batch}, nr : Nat]

\* The step of the loop of Gathered, from the sources below n.
GatherOne(batch, rs, before, n) ==
  IF rs[n] = "content" THEN Append(before, [from |-> batch, nr |-> n]) ELSE before

\* g is the loop's result after each of the first m sources.
Loop(batch, rs, g, m) ==
  g = [n \in 0 .. m |-> IF n = 0 THEN <<>> ELSE GatherOne(batch, rs, g[n - 1], n)]

LEMMA LoopExists ==
  ASSUME NEW batch, NEW rs, NEW length \in Nat
  PROVE  \E g : Loop(batch, rs, g, length)
<1> DEFINE Bad == {m \in Nat : ~ \E g : Loop(batch, rs, g, m)}
<1> SUFFICES ASSUME Bad # {} PROVE FALSE
  OBVIOUS
<1>1. PICK m \in Bad : \A k \in Bad : m <= k
  <2>1. Bad \subseteq Nat
    OBVIOUS
  <2> HIDE DEF Bad
  <2> QED BY <2>1, LeastNat
<1>2. CASE m = 0
  <2>1. Loop(batch, rs, [n \in 0 .. 0 |-> <<>>], 0)
    BY DEF Loop
  <2> QED BY <1>2, <2>1
<1>3. CASE m # 0
  <2>1. m - 1 \in Nat /\ m - 1 \notin Bad
    BY <1>1, <1>3
  <2>2. PICK g : Loop(batch, rs, g, m - 1)
    BY <2>1
  <2> DEFINE h == [n \in 0 .. m |-> IF n < m THEN g[n]
                                    ELSE GatherOne(batch, rs, g[m - 1], m)]
  <2>3. ASSUME NEW n \in 0 .. m
        PROVE  h[n] = IF n = 0 THEN <<>> ELSE GatherOne(batch, rs, h[n - 1], n)
    <3>1. CASE n = m
      <4>1. n # 0 /\ m - 1 \in 0 .. m /\ m - 1 < m /\ ~ (n < m)
        BY <1>3, <2>1, <3>1
      <4>2. h[n] = GatherOne(batch, rs, g[m - 1], m) /\ h[m - 1] = g[m - 1]
        BY <4>1
      <4> HIDE DEF h
      <4> QED BY <3>1, <4>1, <4>2
    <3>2. CASE n # m
      <4>1. n \in 0 .. m - 1 /\ n < m /\ (n # 0 => n - 1 \in 0 .. m /\ n - 1 < m)
        BY <3>2
      <4>2. h[n] = g[n] /\ (n # 0 => h[n - 1] = g[n - 1])
        BY <4>1
      <4>3. g[n] = IF n = 0 THEN <<>> ELSE GatherOne(batch, rs, g[n - 1], n)
        BY <2>2, <4>1 DEF Loop
      <4> HIDE DEF h
      <4> QED BY <4>2, <4>3
    <3> QED BY <3>1, <3>2
  <2>4. h = [n \in 0 .. m |-> IF n = 0 THEN <<>> ELSE GatherOne(batch, rs, h[n - 1], n)]
    <3>1. DOMAIN h = 0 .. m /\ h = [n \in 0 .. m |-> h[n]]
      OBVIOUS
    <3> HIDE DEF h
    <3> QED BY <2>3, <3>1
  <2>5. Loop(batch, rs, h, m)
    <3> HIDE DEF h
    <3> QED BY <2>4 DEF Loop
  <2> QED BY <2>5
<1> QED BY <1>2, <1>3

\* What has been gathered from the first n of the results rs.
GatheredFrom(batch, rs, s, n) ==
  /\ s \in Seq(Piece(batch))
  /\ \A i \in 1 .. Len(s) : s[i].nr \in 1 .. n /\ rs[s[i].nr] = "content"
  /\ \A i, j \in 1 .. Len(s) : i < j => s[i].nr < s[j].nr
  /\ \A k \in 1 .. n : rs[k] = "content" => \E i \in 1 .. Len(s) : s[i].nr = k

LEMMA GatherStep ==
  ASSUME NEW batch, NEW rs, NEW n \in Nat \ {0}, NEW s,
         GatheredFrom(batch, rs, s, n - 1)
  PROVE  GatheredFrom(batch, rs, GatherOne(batch, rs, s, n), n)
<1>1. CASE rs[n] # "content"
  BY <1>1 DEF GatheredFrom, GatherOne
<1>2. CASE rs[n] = "content"
  <2> DEFINE e == [from |-> batch, nr |-> n]
             t == Append(s, e)
  <2>1. s \in Seq(Piece(batch)) /\ e \in Piece(batch) /\ e.nr = n
    BY DEF GatheredFrom, Piece
  <2> HIDE DEF e
  <2>2. /\ t \in Seq(Piece(batch)) /\ Len(t) = Len(s) + 1 /\ Len(s) \in Nat
        /\ \A i \in 1 .. Len(s) : t[i] = s[i]
        /\ t[Len(s) + 1] = e
    BY <2>1, AppendProperties, LenProperties
  <2> HIDE DEF t
  <2>3. \A i \in 1 .. Len(t) : t[i].nr \in 1 .. n /\ rs[t[i].nr] = "content"
    BY <1>2, <2>1, <2>2 DEF GatheredFrom
  <2>4. \A i, j \in 1 .. Len(t) : i < j => t[i].nr < t[j].nr
    <3> SUFFICES ASSUME NEW i \in 1 .. Len(t), NEW j \in 1 .. Len(t), i < j
                 PROVE  t[i].nr < t[j].nr
      OBVIOUS
    <3>1. i \in 1 .. Len(s) /\ t[i].nr = s[i].nr /\ s[i].nr \in 1 .. n - 1
      BY <2>2 DEF GatheredFrom
    <3>2. CASE j \in 1 .. Len(s)
      BY <2>2, <3>1, <3>2 DEF GatheredFrom
    <3>3. CASE j = Len(s) + 1
      BY <2>1, <2>2, <3>1, <3>3
    <3> QED BY <2>2, <3>2, <3>3
  <2>5. ASSUME NEW k \in 1 .. n, rs[k] = "content"
        PROVE  \E i \in 1 .. Len(t) : t[i].nr = k
    <3>1. CASE k = n
      BY <2>1, <2>2, <3>1
    <3>2. CASE k # n
      <4>1. PICK i \in 1 .. Len(s) : s[i].nr = k
        BY <2>5, <3>2 DEF GatheredFrom
      <4> QED BY <2>2, <4>1
    <3> QED BY <3>1, <3>2
  <2>6. GatherOne(batch, rs, s, n) = t
    BY <1>2 DEF GatherOne, t, e
  <2> QED BY <2>2, <2>3, <2>4, <2>5, <2>6 DEF GatheredFrom
<1> QED BY <1>1, <1>2

\* Gathered is in order and complete.
LEMMA GatheredFacts ==
  ASSUME NEW batch, NEW rs, Len(rs) \in Nat
  PROVE  GatheredFrom(batch, rs, Gathered(batch, rs), Len(rs))
<1> DEFINE g == CHOOSE g : Loop(batch, rs, g, Len(rs))
           Bad == {n \in 0 .. Len(rs) : ~ GatheredFrom(batch, rs, g[n], n)}
<1>1. Gathered(batch, rs) = g[Len(rs)]
  BY DEF Gathered, Loop, GatherOne
<1>2. Loop(batch, rs, g, Len(rs))
  BY LoopExists
<1> HIDE DEF g
<1>3. ASSUME Bad # {} PROVE FALSE
  <2>1. PICK n \in Bad : \A k \in Bad : n <= k
    <3>1. Bad \subseteq Nat
      OBVIOUS
    <3> HIDE DEF Bad
    <3> QED BY <1>3, <3>1, LeastNat
  <2>2. n \in 0 .. Len(rs)
    OBVIOUS
  <2>3. CASE n = 0
    <3>1. g[0] = <<>>
      BY <1>2, <2>2, <2>3 DEF Loop
    <3>2. GatheredFrom(batch, rs, <<>>, 0)
      BY EmptySeq DEF GatheredFrom
    <3> QED BY <2>3, <3>1, <3>2
  <2>4. CASE n # 0
    <3>1. n \in Nat \ {0} /\ n - 1 \in 0 .. Len(rs) /\ ~ (n <= n - 1)
      BY <2>2, <2>4
    <3>2. n - 1 \notin Bad
      BY <2>1, <3>1
    <3>3. GatheredFrom(batch, rs, g[n - 1], n - 1)
      BY <3>1, <3>2
    <3>4. g[n] = GatherOne(batch, rs, g[n - 1], n)
      BY <1>2, <2>2, <2>4 DEF Loop
    <3> QED BY <3>1, <3>3, <3>4, GatherStep
  <2> QED BY <2>3, <2>4
<1>4. Len(rs) \in 0 .. Len(rs)
  OBVIOUS
<1> QED BY <1>1, <1>3, <1>4
-----------------------------------------------------------------------------
(* The invariant.                                                          *)

WorkerStates == {"queued", "fetching", "returning", "finished"} \cup Range(HasRead)

Typed ==
  /\ request \in Requests
  /\ phase \in Batches \cup {"start", "config", "base", "done"}
  /\ config \in Configs \cup {NoConfig}
  /\ worker \in Seq(WorkerStates)
  /\ slots \in 0 .. MaxConcurrent
  /\ results \in [Batches -> Seq(Result)]
  /\ canceled \in BOOLEAN
  /\ replied \in [Batches -> Seq(Result)]
  /\ baseReply \in Result
  /\ stdin \in [holds : Reply, drained : BOOLEAN, read : BOOLEAN,
                data : {"empty", "content"}]

\* When Run goes on, none of its goroutines is still at work.
NothingLeftBehind == phase \notin Batches => Joined

\* Only rulesets queue for a slot, and only other batches read the standard
\* input; outside of the batches nobody is at work.
Working ==
  /\ phase \in Batches => Len(worker) = Len(replied[phase])
  /\ \A i \in 1 .. Len(worker) :
       /\ worker[i] = "queued" => phase = "rules"
       /\ worker[i] \in Range(HasRead) \cup {"returning"} =>
            phase \in {"subs", "inserts"} /\ Sources(phase)[i] = "stdin"
  /\ NothingLeftBehind

Fetching == {i \in 1 .. Len(worker) : worker[i] = "fetching"}

Slotted == slots = IF phase = "rules" THEN Cardinality(Fetching) ELSE 0

\* The slices hold what the sources replied, in their places, and no source of
\* a batch that is over is without a reply.
Written ==
  /\ \A b \in Batches :
       /\ Len(results[b]) = Len(replied[b])
       /\ \A i \in 1 .. Len(replied[b]) :
            results[b][i] = IF b = "rules" /\ replied[b][i] = "failed"
                              THEN "zero" ELSE replied[b][i]
  /\ \A b \in {"subs", "inserts"} :
       /\ Len(replied[b]) \in {0, Len(Sources(b))}
       /\ \A i \in 1 .. Len(replied[b]) :
            replied[b][i] = "zero" => phase = b /\ worker[i] # "finished"
  /\ phase \in {"start", "subs", "inserts", "config"} => Len(replied["rules"]) = 0
  /\ Len(replied["rules"]) # 0 =>
       /\ request.expand /\ config.generator
       /\ Len(replied["rules"]) = Len(config.rulesets)

Once == NamesStdinOnce("subs") /\ NamesStdinOnce("inserts")

\* What is kept of the standard input, if no batch names it twice: whoever
\* reads it reads all of it, and whoever comes later gets the same.
Heard ==
  /\ \A i \in 1 .. Len(worker) : worker[i] = "returning" => stdin.read
  /\ Once =>
       /\ stdin.read => stdin.data = stdin.holds
       /\ stdin.drained /\ ~stdin.read =>
            \E i \in 1 .. Len(worker) : worker[i] \in Range(HasRead)
       /\ \A i \in 1 .. Len(worker), d \in {"content", "empty"} :
            worker[i] = HasRead[d] => d = stdin.holds
       /\ \A b \in {"subs", "inserts"} : \A i \in 1 .. Len(replied[b]) :
            Sources(b)[i] = "stdin" /\ replied[b][i] # "zero" =>
              (replied[b][i] = "content" <=> stdin.holds = "content")

IInv == Typed /\ Working /\ Slotted /\ Written /\ Heard

-----------------------------------------------------------------------------
(* Goroutines.                                                             *)

\* The texts that goroutines use to remember what they read are no other state.
LEMMA HasReadFacts ==
  /\ DOMAIN HasRead = {"content", "empty"}
  /\ HasRead["content"] = "has read content" /\ HasRead["empty"] = "has read nothing"
  /\ Range(HasRead) = {"has read content", "has read nothing"}
<1>1. DOMAIN HasRead = {"content", "empty"}
  BY DEF HasRead
<1>2. HasRead["content"] = "has read content" /\ HasRead["empty"] = "has read nothing"
  BY DEF HasRead
<1>3. Range(HasRead) = {HasRead[x] : x \in {"content", "empty"}}
  BY <1>1 DEF Range
<1> QED BY <1>1, <1>2, <1>3

LEMMA RequestTypes ==
  ASSUME Typed
  PROVE  /\ request \in Request
         /\ \A b \in {"subs", "inserts"} :
              Sources(b) \in Seq(Source) /\ Len(Sources(b)) \in Nat
         /\ config.rulesets \in Seq({"remote", "inline"})
         /\ Len(config.rulesets) \in Nat
<1>1. request \in Request
  BY ConvertAssumption DEF Typed
<1>2. request.subs \in Seq(Source) /\ request.inserts \in Seq(Source)
  BY <1>1 DEF Request
<1>3. config.rulesets \in Seq({"remote", "inline"})
  <2>1. NoConfig.rulesets \in Seq({"remote", "inline"})
    BY EmptySeq DEF NoConfig
  <2>2. ASSUME NEW c \in Configs PROVE c.rulesets \in Seq({"remote", "inline"})
    BY ConvertAssumption DEF Config
  <2> QED BY <2>1, <2>2 DEF Typed
<1> QED BY <1>1, <1>2, <1>3, LenProperties DEF Sources

LEMMA Lengths ==
  ASSUME Typed
  PROVE  /\ Len(worker) \in Nat /\ DOMAIN worker = 1 .. Len(worker)
         /\ \A b \in Batches : /\ Len(replied[b]) \in Nat /\ Len(results[b]) \in Nat
                               /\ DOMAIN replied[b] = 1 .. Len(replied[b])
                               /\ DOMAIN results[b] = 1 .. Len(results[b])
BY LenProperties DEF Typed

LEMMA FetchingFinite == Typed => IsFiniteSet(Fetching) /\ Cardinality(Fetching) \in Nat
<1> SUFFICES ASSUME Typed PROVE IsFiniteSet(Fetching) /\ Cardinality(Fetching) \in Nat
  OBVIOUS
<1>1. IsFiniteSet(1 .. Len(worker))
  BY Lengths, FS_Interval
<1>2. IsFiniteSet(Fetching)
  BY <1>1, FS_Subset DEF Fetching
<1> QED BY <1>2, FS_CardinalityType

\* What goroutine i may do.
Turns(i, s) == worker' = [worker EXCEPT ![i] = s]

Takes(i) ==
  /\ worker[i] = "queued" /\ Turns(i, "fetching")
  /\ slots < MaxConcurrent /\ slots' = slots + 1
  /\ UNCHANGED <<results, replied, stdin>>

Leaves(i) ==
  /\ worker[i] = "queued" /\ Turns(i, "finished")
  /\ UNCHANGED <<slots, results, replied, stdin>>

\* What a goroutine returns that has the standard input for its source.
ReturnsStdin(i, reply) ==
  \/ stdin.read /\ reply = stdin.data
  \/ ~stdin.read /\ reply = "failed" /\ stdin.holds = "failed"

Ends(i, reply) ==
  /\ reply \in Reply /\ FinishWith(i, reply)
  /\ worker[i] \in {"fetching", "returning"}
  /\ phase \in {"subs", "inserts"} /\ Sources(phase)[i] = "stdin"
       => ReturnsStdin(i, reply)
  /\ stdin' = stdin

Reads(i, d) ==
  /\ phase \in {"subs", "inserts"} /\ Sources(phase)[i] = "stdin"
  /\ worker[i] = "fetching" /\ Turns(i, HasRead[d])
  /\ ~stdin.read
  /\ d \in {"content", "empty"}
  /\ d = IF stdin.drained /\ stdin.holds = "content" THEN "empty" ELSE stdin.holds
  /\ stdin' = [stdin EXCEPT !.drained = TRUE]
  /\ UNCHANGED <<slots, results, replied>>

Keeps(i, d) ==
  /\ d \in {"content", "empty"}
  /\ worker[i] = HasRead[d] /\ Turns(i, "returning")
  /\ stdin' = [stdin EXCEPT !.data = d, !.read = TRUE]
  /\ UNCHANGED <<slots, results, replied>>

WorkerMove(i) ==
  /\ i \in 1 .. Len(worker) /\ phase \in Batches
  /\ UNCHANGED <<request, phase, config, canceled, answer, baseReply>>
  /\ \/ Takes(i) \/ Leaves(i)
     \/ \E reply \in Reply : Ends(i, reply)
     \/ \E d \in {"content", "empty"} : Reads(i, d) \/ Keeps(i, d)

LEMMA SourceOfFacts ==
  /\ phase \in {"subs", "inserts"} => \A i : SourceOf(i) = Sources(phase)[i]
  /\ phase = "rules" => \A i : SourceOf(i) = "url"
BY DEF SourceOf, Sources

LEMMA WorkerMoves ==
  ASSUME IInv, NEW i, WorkerStep(i)
  PROVE  WorkerMove(i)
<1> USE DEF IInv
<1>1. i \in 1 .. Len(worker) /\ worker[i] # "finished"
  <2>1. CASE KeepStdin(i)
    BY <2>1, Lengths, HasReadFacts DEF KeepStdin
  <2>2. CASE Acquire(i) \/ Abandon(i)
    BY <2>2, Lengths DEF Acquire, Abandon
  <2>3. CASE Finish(i) \/ ReturnStdin(i)
    BY <2>3, Lengths DEF Finish, ReturnStdin
  <2>4. CASE ReadStdin(i) \/ ReuseStdin(i)
    BY <2>4, Lengths DEF ReadStdin, ReuseStdin, Reading
  <2> QED BY <2>1, <2>2, <2>3, <2>4 DEF WorkerStep, Advance
<1>2. phase \in Batches
  BY <1>1, Lengths DEF Working, NothingLeftBehind, Joined
<1>3. CASE Acquire(i)
  BY <1>1, <1>2, <1>3 DEF Acquire, SlotFree, WorkerMove, Takes, Turns
<1>4. CASE Abandon(i)
  BY <1>1, <1>2, <1>4 DEF Abandon, WorkerMove, Leaves, Turns
<1>5. CASE Finish(i)
  <2>1. PICK reply \in Reply : FinishWith(i, reply)
    BY <1>5 DEF Finish
  <2>2. Ends(i, reply)
    BY <1>5, <2>1, SourceOfFacts DEF Finish, Ends
  <2> QED BY <1>1, <1>2, <1>5, <2>2 DEF Finish, WorkerMove
<1>6. CASE ReadStdin(i)
  <2>1. /\ phase \in {"subs", "inserts"} /\ Sources(phase)[i] = "stdin"
        /\ worker[i] = "fetching" /\ ~stdin.read
    BY <1>2, <1>6, SourceOfFacts DEF ReadStdin, Reading, Batches
  <2>2. stdin.holds \in Reply
    BY DEF Typed
  <2> DEFINE got == IF stdin.drained /\ stdin.holds = "content" THEN "empty"
                                                            ELSE stdin.holds
  <2>3. CASE got = "failed"
    <3>1. FinishWith(i, "failed") /\ stdin' = stdin
      BY <1>6, <2>3 DEF ReadStdin
    <3>2. Ends(i, "failed")
      BY <2>1, <2>3, <3>1 DEF Ends, ReturnsStdin, Reply
    <3> QED BY <1>1, <1>2, <1>6, <3>2 DEF ReadStdin, WorkerMove, Reply
  <2>4. CASE got # "failed"
    <3>1. got \in {"content", "empty"}
      BY <2>2, <2>4 DEF Reply
    <3>2. /\ worker' = [worker EXCEPT ![i] = HasRead[got]]
          /\ stdin' = [stdin EXCEPT !.drained = TRUE]
          /\ UNCHANGED <<slots, results, replied>>
      BY <1>6, <2>4 DEF ReadStdin
    <3>3. Reads(i, got)
      BY <2>1, <3>1, <3>2 DEF Reads, Turns
    <3> HIDE DEF got
    <3> QED BY <1>1, <1>2, <1>6, <3>1, <3>3 DEF ReadStdin, WorkerMove
  <2> QED BY <2>3, <2>4
<1>9. CASE ReuseStdin(i)
  <2>1. /\ phase \in {"subs", "inserts"} /\ Sources(phase)[i] = "stdin"
        /\ worker[i] = "fetching" /\ stdin.read /\ stdin.data \in {"empty", "content"}
    BY <1>2, <1>9, SourceOfFacts DEF ReuseStdin, Reading, Batches, Typed
  <2>2. Ends(i, stdin.data)
    BY <1>9, <2>1 DEF ReuseStdin, Ends, ReturnsStdin, Reply
  <2> QED BY <1>1, <1>2, <1>9, <2>1, <2>2 DEF ReuseStdin, WorkerMove, Reply
<1>7. CASE KeepStdin(i)
  <2>1. PICK d \in {"content", "empty"} : worker[i] = HasRead[d] /\ stdin' = Kept(d)
    BY <1>7, HasReadFacts DEF KeepStdin
  <2>2. Keeps(i, d)
    BY <1>7, <2>1 DEF KeepStdin, Keeps, Kept, Turns
  <2> QED BY <1>1, <1>2, <1>7, <2>2 DEF KeepStdin, WorkerMove
<1>8. CASE ReturnStdin(i)
  <2>1. stdin.read /\ stdin.data \in Reply
    BY <1>1, <1>8 DEF ReturnStdin, Heard, Typed, Reply
  <2>2. Ends(i, stdin.data)
    BY <1>8, <2>1 DEF ReturnStdin, Ends, ReturnsStdin
  <2> QED BY <1>1, <1>2, <1>8, <2>1, <2>2 DEF ReturnStdin, WorkerMove
<1> QED BY <1>3, <1>4, <1>5, <1>6, <1>7, <1>8, <1>9 DEF WorkerStep, Advance

LEMMA WorkerStateFacts ==
  WorkerStates = {"queued", "fetching", "returning", "finished",
                  "has read content", "has read nothing"}
BY HasReadFacts DEF WorkerStates

LEMMA TurnFacts ==
  ASSUME Typed, NEW i \in 1 .. Len(worker), NEW s \in WorkerStates, Turns(i, s)
  PROVE  /\ worker' \in Seq(WorkerStates)
         /\ Len(worker') = Len(worker)
         /\ worker'[i] = s
         /\ \A j \in 1 .. Len(worker) : j # i => worker'[j] = worker[j]
<1>1. worker \in Seq(WorkerStates)
  BY DEF Typed
<1> QED BY <1>1, ExceptSeq DEF Turns

\* A goroutine that ends writes what it got at its own index.
LEMMA EndFacts ==
  ASSUME IInv, NEW i \in 1 .. Len(worker), NEW reply, Ends(i, reply),
         phase \in Batches, phase' = phase
  PROVE  /\ results' \in [Batches -> Seq(Result)]
         /\ replied' \in [Batches -> Seq(Result)]
         /\ \A b \in Batches : /\ Len(results'[b]) = Len(results[b])
                               /\ Len(replied'[b]) = Len(replied[b])
         /\ \A b \in Batches \ {phase} :
              results'[b] = results[b] /\ replied'[b] = replied[b]
         /\ replied'[phase][i] = reply
         /\ results'[phase][i] =
              IF phase = "rules" /\ reply = "failed" THEN "zero" ELSE reply
         /\ \A j \in 1 .. Len(worker) :
              j # i => /\ replied'[phase][j] = replied[phase][j]
                       /\ results'[phase][j] = results[phase][j]
         /\ Turns(i, "finished")
         /\ slots' = IF phase = "rules" THEN slots - 1 ELSE slots
<1> USE DEF IInv
<1> DEFINE said == IF phase = "rules" /\ reply = "failed" THEN "zero" ELSE reply
<1>1. reply \in Result /\ said \in Result
  BY DEF Ends, Result
<1>2. /\ results[phase] \in Seq(Result) /\ i \in 1 .. Len(results[phase])
      /\ replied[phase] \in Seq(Result) /\ i \in 1 .. Len(replied[phase])
      /\ Len(results[phase]) = Len(worker) /\ Len(replied[phase]) = Len(worker)
  BY DEF Typed, Working, Written
<1>3. /\ results' = [results EXCEPT ![phase] = [results[phase] EXCEPT ![i] = said]]
      /\ replied' = [replied EXCEPT ![phase] = [replied[phase] EXCEPT ![i] = reply]]
      /\ Turns(i, "finished")
      /\ slots' = IF phase = "rules" THEN slots - 1 ELSE slots
  BY <1>2 DEF Ends, FinishWith, Slot, Released, Turns, Typed
<1> HIDE DEF said
<1>4. /\ [results[phase] EXCEPT ![i] = said] \in Seq(Result)
      /\ Len([results[phase] EXCEPT ![i] = said]) = Len(results[phase])
      /\ \A j \in 1 .. Len(results[phase]) :
           [results[phase] EXCEPT ![i] = said][j] = IF j = i THEN said ELSE results[phase][j]
  BY <1>1, <1>2, ExceptSeq
<1>5. /\ [replied[phase] EXCEPT ![i] = reply] \in Seq(Result)
      /\ Len([replied[phase] EXCEPT ![i] = reply]) = Len(replied[phase])
      /\ \A j \in 1 .. Len(replied[phase]) :
           [replied[phase] EXCEPT ![i] = reply][j] = IF j = i THEN reply ELSE replied[phase][j]
  BY <1>1, <1>2, ExceptSeq
<1>6. /\ results'[phase] = [results[phase] EXCEPT ![i] = said]
      /\ replied'[phase] = [replied[phase] EXCEPT ![i] = reply]
      /\ \A b \in Batches \ {phase} : results'[b] = results[b] /\ replied'[b] = replied[b]
  BY <1>3 DEF Typed
<1>7. /\ results' \in [Batches -> Seq(Result)] /\ replied' \in [Batches -> Seq(Result)]
  BY <1>3, <1>4, <1>5 DEF Typed
<1>8. /\ results'[phase][i] = said /\ replied'[phase][i] = reply
      /\ \A j \in 1 .. Len(worker) :
           j # i => /\ replied'[phase][j] = replied[phase][j]
                    /\ results'[phase][j] = results[phase][j]
  BY <1>2, <1>4, <1>5, <1>6
<1>9. \A b \in Batches : /\ Len(results'[b]) = Len(results[b])
                         /\ Len(replied'[b]) = Len(replied[b])
  BY <1>4, <1>5, <1>6
<1> QED BY <1>3, <1>6, <1>7, <1>8, <1>9 DEF said

\* Who is fetching, after one of the goroutines has turned.
LEMMA FetchingTurns ==
  ASSUME Typed, NEW i \in 1 .. Len(worker), NEW s \in WorkerStates, Turns(i, s)
  PROVE  /\ worker[i] # "fetching" /\ s = "fetching" =>
              Cardinality(Fetching') = Cardinality(Fetching) + 1
         /\ worker[i] = "fetching" /\ s # "fetching" =>
              /\ Cardinality(Fetching') = Cardinality(Fetching) - 1
              /\ Cardinality(Fetching) > 0
         /\ worker[i] # "fetching" /\ s # "fetching" =>
              Cardinality(Fetching') = Cardinality(Fetching)
<1>1. CASE worker[i] # "fetching" /\ s = "fetching"
  <2>1. Fetching' = Fetching \cup {i} /\ i \notin Fetching
    BY <1>1, TurnFacts DEF Fetching
  <2> QED BY <1>1, <2>1, FetchingFinite, FS_AddElement
<1>2. CASE worker[i] = "fetching" /\ s # "fetching"
  <2>1. Fetching' = Fetching \ {i} /\ i \in Fetching
    BY <1>2, TurnFacts DEF Fetching
  <2>2. Cardinality(Fetching') = Cardinality(Fetching) - 1
    BY <2>1, FetchingFinite, FS_RemoveElement
  <2>3. Cardinality(Fetching) # 0
    BY <2>1, FetchingFinite, FS_EmptySet
  <2> QED BY <1>2, <2>2, <2>3, FetchingFinite
<1>3. CASE worker[i] # "fetching" /\ s # "fetching"
  <2>1. Fetching' = Fetching
    BY <1>3, TurnFacts DEF Fetching
  <2> QED BY <1>3, <2>1
<1>4. CASE worker[i] = "fetching" /\ s = "fetching"
  BY <1>4
<1> QED BY <1>1, <1>2, <1>3, <1>4

LEMMA WorkerTyped ==
  ASSUME IInv, NEW i, WorkerMove(i)
  PROVE  Typed' /\ Slotted'
<1> USE DEF IInv
<1>0. /\ i \in 1 .. Len(worker) /\ phase \in Batches
      /\ UNCHANGED <<request, phase, config, canceled, answer, baseReply>>
  BY DEF WorkerMove
<1>1. slots \in Nat /\ MaxConcurrent \in Nat /\ slots <= MaxConcurrent
  BY ConvertAssumption DEF Typed
<1>2. CASE Takes(i)
  <2>1. phase = "rules"
    BY <1>0, <1>2 DEF Takes, Working
  <2>2. Turns(i, "fetching") /\ worker[i] # "fetching" /\ "fetching" \in WorkerStates
    BY <1>2, WorkerStateFacts DEF Takes
  <2>3. Slotted'
    BY <1>0, <1>1, <1>2, <2>1, <2>2, FetchingTurns DEF Takes, Slotted
  <2> QED BY <1>0, <1>1, <1>2, <2>2, <2>3, TurnFacts DEF Takes, Typed
<1>3. CASE Leaves(i)
  <2>2. Turns(i, "finished") /\ worker[i] # "fetching" /\ "finished" \in WorkerStates
    BY <1>3, WorkerStateFacts DEF Leaves
  <2>3. Slotted'
    BY <1>0, <1>3, <2>2, FetchingTurns DEF Leaves, Slotted
  <2> QED BY <1>0, <1>3, <2>2, <2>3, TurnFacts DEF Leaves, Typed
<1>4. ASSUME NEW reply, Ends(i, reply) PROVE Typed' /\ Slotted'
  <2>1. phase = "rules" => worker[i] = "fetching"
    BY <1>0, <1>4 DEF Ends, Working
  <2>2. Turns(i, "finished") /\ "finished" \in WorkerStates
        /\ slots' = IF phase = "rules" THEN slots - 1 ELSE slots
    BY <1>0, <1>4, EndFacts, WorkerStateFacts
  <2>3. Slotted' /\ slots' \in 0 .. MaxConcurrent
    <3>1. CASE phase = "rules"
      <4>1. Cardinality(Fetching') = Cardinality(Fetching) - 1 /\ Cardinality(Fetching) > 0
        BY <1>0, <2>1, <2>2, <3>1, FetchingTurns
      <4> QED BY <1>0, <1>1, <2>2, <3>1, <4>1 DEF Slotted
    <3>2. CASE phase # "rules"
      BY <1>0, <1>1, <2>2, <3>2 DEF Slotted
    <3> QED BY <3>1, <3>2
  <2>4. worker' \in Seq(WorkerStates)
    BY <1>0, <2>2, TurnFacts
  <2>5. results' \in [Batches -> Seq(Result)] /\ replied' \in [Batches -> Seq(Result)]
    BY <1>0, <1>4, EndFacts
  <2> QED BY <1>0, <1>4, <2>3, <2>4, <2>5 DEF Ends, Typed
<1>5. ASSUME NEW d, Reads(i, d) \/ Keeps(i, d) PROVE Typed' /\ Slotted'
  <2>1. PICK s \in WorkerStates : Turns(i, s)
    BY <1>5, HasReadFacts, WorkerStateFacts DEF Reads, Keeps
  <2>2. phase # "rules"
    BY <1>0, <1>5, HasReadFacts DEF Reads, Keeps, Working
  <2>3. Slotted' /\ slots' = slots /\ UNCHANGED <<results, replied>>
    BY <1>0, <1>5, <2>2 DEF Slotted, Reads, Keeps
  <2>4. stdin' \in [holds : Reply, drained : BOOLEAN, read : BOOLEAN,
                    data : {"empty", "content"}]
    BY <1>5 DEF Reads, Keeps, Typed
  <2>5. worker' \in Seq(WorkerStates)
    BY <1>0, <2>1, TurnFacts
  <2> QED BY <1>0, <2>3, <2>4, <2>5 DEF Typed
<1> QED BY <1>2, <1>3, <1>4, <1>5 DEF WorkerMove

\* Where a goroutine has got to, and what it leaves alone.
LEMMA Turned ==
  ASSUME IInv, NEW i, WorkerMove(i)
  PROVE  \E s \in WorkerStates \ {"queued"} :
           /\ Turns(i, s)
           /\ s \in Range(HasRead) \cup {"returning"} =>
                phase \in {"subs", "inserts"} /\ Sources(phase)[i] = "stdin"
<1> USE DEF IInv
<1>1. Takes(i) => Turns(i, "fetching")
  BY DEF Takes
<1>2. Leaves(i) => Turns(i, "finished")
  BY DEF Leaves
<1>3. ASSUME NEW reply, Ends(i, reply) PROVE Turns(i, "finished")
  BY <1>3, EndFacts DEF WorkerMove
<1>4. ASSUME NEW d, Reads(i, d)
      PROVE  /\ HasRead[d] \in WorkerStates \ {"queued"} /\ Turns(i, HasRead[d])
             /\ phase \in {"subs", "inserts"} /\ Sources(phase)[i] = "stdin"
  BY <1>4, WorkerStateFacts, HasReadFacts DEF Reads
<1>5. ASSUME NEW d, Keeps(i, d)
      PROVE  /\ Turns(i, "returning")
             /\ phase \in {"subs", "inserts"} /\ Sources(phase)[i] = "stdin"
  BY <1>5, HasReadFacts DEF Keeps, Working, WorkerMove
<1>6. /\ {"fetching", "finished", "returning"} \subseteq WorkerStates \ {"queued"}
      /\ "finished" \notin Range(HasRead) \cup {"returning"}
      /\ "fetching" \notin Range(HasRead) \cup {"returning"}
  BY WorkerStateFacts, HasReadFacts
<1> QED BY <1>1, <1>2, <1>3, <1>4, <1>5, <1>6 DEF WorkerMove

LEMMA WorkerWorking ==
  ASSUME IInv, NEW i, WorkerMove(i)
  PROVE  Working'
<1> USE DEF IInv
<1>0. /\ i \in 1 .. Len(worker) /\ phase \in Batches /\ phase' = phase
      /\ request' = request /\ \A b : Sources(b)' = Sources(b)
  BY DEF WorkerMove, Sources
<1>1. PICK s \in WorkerStates \ {"queued"} :
        /\ Turns(i, s)
        /\ s \in Range(HasRead) \cup {"returning"} =>
             phase \in {"subs", "inserts"} /\ Sources(phase)[i] = "stdin"
  BY Turned
<1>2. /\ Len(worker') = Len(worker) /\ worker'[i] = s
      /\ \A j \in 1 .. Len(worker) : j # i => worker'[j] = worker[j]
  BY <1>0, <1>1, TurnFacts
<1>3. Len(replied'[phase]) = Len(replied[phase])
  <2>1. ASSUME NEW reply, Ends(i, reply) PROVE Len(replied'[phase]) = Len(replied[phase])
    BY <1>0, <2>1, EndFacts
  <2> QED BY <2>1 DEF WorkerMove, Takes, Leaves, Reads, Keeps
<1>4. NothingLeftBehind'
  BY <1>0 DEF NothingLeftBehind
<1>5. \A j \in 1 .. Len(worker') :
        /\ worker'[j] = "queued" => phase = "rules"
        /\ worker'[j] \in Range(HasRead) \cup {"returning"} =>
             phase \in {"subs", "inserts"} /\ Sources(phase)[j] = "stdin"
  BY <1>1, <1>2 DEF Working
<1> QED BY <1>0, <1>2, <1>3, <1>4, <1>5 DEF Working

LEMMA WorkerWritten ==
  ASSUME IInv, NEW i, WorkerMove(i)
  PROVE  Written'
<1> USE DEF IInv
<1>0. /\ i \in 1 .. Len(worker) /\ phase \in Batches /\ phase' = phase
      /\ request' = request /\ config' = config /\ \A b : Sources(b)' = Sources(b)
  BY DEF WorkerMove, Sources
<1>1. ASSUME NEW reply, Ends(i, reply) PROVE Written'
  <2>1. reply # "zero" /\ Turns(i, "finished") /\ "finished" \in WorkerStates
    BY <1>0, <1>1, EndFacts, WorkerStateFacts DEF Ends, Reply
  <2>2. /\ worker'[i] = "finished"
        /\ \A j \in 1 .. Len(worker) : j # i => worker'[j] = worker[j]
    BY <1>0, <2>1, TurnFacts
  <2>3. ASSUME NEW b \in Batches
        PROVE  /\ Len(results'[b]) = Len(replied'[b]) /\ Len(replied'[b]) = Len(replied[b])
               /\ \A j \in 1 .. Len(replied'[b]) :
                    results'[b][j] = IF b = "rules" /\ replied'[b][j] = "failed"
                                       THEN "zero" ELSE replied'[b][j]
    <3>1. Len(results[b]) = Len(replied[b])
          /\ \A j \in 1 .. Len(replied[b]) :
               results[b][j] = IF b = "rules" /\ replied[b][j] = "failed"
                                 THEN "zero" ELSE replied[b][j]
      BY DEF Written
    <3>2. Len(results'[b]) = Len(replied'[b]) /\ Len(replied'[b]) = Len(replied[b])
      BY <1>0, <1>1, <3>1, EndFacts
    <3>3. CASE b # phase
      BY <1>0, <1>1, <3>1, <3>2, <3>3, EndFacts
    <3>4. CASE b = phase
      <4>1. Len(replied[b]) = Len(worker)
        BY <1>0, <3>4 DEF Working
      <4>2. replied'[b][i] = reply
            /\ results'[b][i] = IF b = "rules" /\ reply = "failed" THEN "zero" ELSE reply
        BY <1>0, <1>1, <3>4, EndFacts
      <4>3. \A j \in 1 .. Len(worker) :
              j # i => replied'[b][j] = replied[b][j] /\ results'[b][j] = results[b][j]
        BY <1>0, <1>1, <3>4, EndFacts
      <4> QED BY <3>1, <3>2, <4>1, <4>2, <4>3
    <3> QED BY <3>2, <3>3, <3>4
  <2>4. ASSUME NEW b \in {"subs", "inserts"}, NEW j \in 1 .. Len(replied'[b]),
               replied'[b][j] = "zero"
        PROVE  phase = b /\ worker'[j] # "finished"
    <3>1. b \in Batches /\ j \in 1 .. Len(replied[b])
      BY <2>3 DEF Batches
    <3>2. CASE b # phase
      BY <1>0, <1>1, <2>4, <3>1, <3>2, EndFacts DEF Written
    <3>3. CASE b = phase
      BY <1>0, <1>1, <2>1, <2>2, <2>4, <3>1, <3>3, EndFacts DEF Written, Working
    <3> QED BY <3>2, <3>3
  <2> QED BY <1>0, <2>3, <2>4 DEF Written, Batches
<1>2. ASSUME NEW s \in WorkerStates \ {"finished"}, Turns(i, s),
             UNCHANGED <<results, replied>>
      PROVE  Written'
  <2>1. /\ worker'[i] = s /\ Len(worker') = Len(worker)
        /\ \A j \in 1 .. Len(worker) : j # i => worker'[j] = worker[j]
    BY <1>0, <1>2, TurnFacts
  <2>2. ASSUME NEW b \in {"subs", "inserts"}, NEW j \in 1 .. Len(replied[b]),
               replied[b][j] = "zero"
        PROVE  phase = b /\ worker'[j] # "finished"
    <3>1. phase = b /\ worker[j] # "finished" /\ j \in 1 .. Len(worker)
      BY <2>2 DEF Written, Working, Batches
    <3> QED BY <2>1, <3>1
  <2> QED BY <1>0, <1>2, <2>2 DEF Written
<1>3. CASE Takes(i) \/ Leaves(i)
  <2>1. phase = "rules"
    BY <1>3 DEF Takes, Leaves, Working, WorkerMove
  <2> QED BY <1>0, <1>3, <2>1 DEF Written, Takes, Leaves
<1>4. ASSUME NEW d, Reads(i, d) \/ Keeps(i, d) PROVE Written'
  <2>1. HasRead[d] \in WorkerStates \ {"finished"}
        /\ "returning" \in WorkerStates \ {"finished"}
    BY <1>4, HasReadFacts, WorkerStateFacts DEF Reads, Keeps
  <2> QED BY <1>2, <1>4, <2>1 DEF Reads, Keeps
<1> QED BY <1>1, <1>3, <1>4 DEF WorkerMove

\* No two goroutines of a batch have the standard input for their source.
LEMMA OnlyReader ==
  ASSUME IInv, Once, phase \in {"subs", "inserts"},
         NEW i \in 1 .. Len(worker), NEW j \in 1 .. Len(worker),
         Sources(phase)[i] = "stdin", Sources(phase)[j] = "stdin"
  PROVE  i = j
<1>1. Len(worker) = Len(replied[phase]) /\ Len(replied[phase]) \in {0, Len(Sources(phase))}
  BY DEF IInv, Working, Written, Batches
<1>2. DOMAIN Sources(phase) = 1 .. Len(Sources(phase))
  BY RequestTypes, LenProperties DEF IInv
<1>3. i \in DOMAIN Sources(phase) /\ j \in DOMAIN Sources(phase)
  BY <1>1, <1>2, Lengths DEF IInv
<1>4. NamesStdinOnce(phase)
  BY DEF Once
<1> QED BY <1>3, <1>4 DEF NamesStdinOnce

LEMMA WorkerHeard ==
  ASSUME IInv, NEW i, WorkerMove(i)
  PROVE  Heard'
<1> USE DEF IInv
<1>0. /\ i \in 1 .. Len(worker) /\ phase \in Batches /\ phase' = phase
      /\ request' = request /\ \A b : Sources(b)' = Sources(b)
      /\ Once' = Once
  BY DEF WorkerMove, Sources, Once, NamesStdinOnce
<1>1. CASE Takes(i) \/ Leaves(i)
  <2>1. PICK s \in {"fetching", "finished"} : Turns(i, s) /\ s \in WorkerStates
    BY <1>1, WorkerStateFacts DEF Takes, Leaves
  <2>2. /\ Len(worker') = Len(worker) /\ worker'[i] = s
        /\ \A j \in 1 .. Len(worker) : j # i => worker'[j] = worker[j]
    BY <1>0, <2>1, TurnFacts
  <2>3. worker[i] = "queued" /\ UNCHANGED <<results, replied, stdin>>
    BY <1>1 DEF Takes, Leaves
  <2>4. \A j \in 1 .. Len(worker), t \in Range(HasRead) \cup {"returning"} :
          worker'[j] = t <=> worker[j] = t
    BY <2>1, <2>2, <2>3, HasReadFacts
  <2>5. \A j \in 1 .. Len(worker') : worker'[j] = "returning" => stdin'.read
    BY <2>2, <2>3, <2>4 DEF Heard
  <2>6. \A d \in {"content", "empty"} : HasRead[d] \in Range(HasRead)
    BY HasReadFacts
  <2>7. ASSUME Once, NEW j \in 1 .. Len(worker'), NEW d \in {"content", "empty"},
               worker'[j] = HasRead[d]
        PROVE  d = stdin'.holds
    BY <2>2, <2>3, <2>4, <2>6, <2>7 DEF Heard
  <2>8. ASSUME Once, stdin'.drained, ~stdin'.read
        PROVE  \E j \in 1 .. Len(worker') : worker'[j] \in Range(HasRead)
    BY <2>2, <2>3, <2>4, <2>8 DEF Heard
  <2> QED BY <1>0, <2>3, <2>5, <2>7, <2>8 DEF Heard
<1>2. ASSUME NEW reply, Ends(i, reply) PROVE Heard'
  <2>1. Turns(i, "finished") /\ "finished" \in WorkerStates
    BY <1>0, <1>2, EndFacts, WorkerStateFacts
  <2>2. /\ Len(worker') = Len(worker) /\ worker'[i] = "finished"
        /\ \A j \in 1 .. Len(worker) : j # i => worker'[j] = worker[j]
    BY <1>0, <2>1, TurnFacts
  <2>3. stdin' = stdin /\ worker[i] \notin Range(HasRead)
    BY <1>2, HasReadFacts DEF Ends
  <2>4. ASSUME Once, NEW b \in {"subs", "inserts"}, NEW j \in 1 .. Len(replied'[b]),
               Sources(b)[j] = "stdin", replied'[b][j] # "zero"
        PROVE  replied'[b][j] = "content" <=> stdin.holds = "content"
    <3>1. b \in Batches /\ Len(replied'[b]) = Len(replied[b])
      BY <1>0, <1>2, EndFacts DEF Batches
    <3>2. CASE b = phase /\ j = i
      <4>1. ReturnsStdin(i, reply) /\ replied'[b][j] = reply
        BY <1>0, <1>2, <2>4, <3>2, EndFacts DEF Ends
      <4> QED BY <2>4, <4>1 DEF ReturnsStdin, Heard
    <3>3. CASE ~ (b = phase /\ j = i)
      <4>1. replied'[b][j] = replied[b][j]
        <5>1. CASE b # phase
          <6>1. replied'[b] = replied[b]
            BY <1>0, <1>2, <3>1, <5>1, EndFacts
          <6> QED BY <6>1
        <5>2. CASE b = phase /\ j # i
          <6>1. j \in 1 .. Len(worker)
            BY <1>0, <2>4, <3>1, <5>2 DEF Working
          <6> QED BY <1>0, <1>2, <5>2, <6>1, EndFacts
        <5> QED BY <3>3, <5>1, <5>2
      <4> QED BY <2>4, <3>1, <4>1 DEF Heard
    <3> QED BY <3>2, <3>3
  <2>5. \A j \in 1 .. Len(worker') : worker'[j] = "returning" => stdin'.read
    BY <2>2, <2>3 DEF Heard
  <2>6. /\ \A d \in {"content", "empty"} : HasRead[d] \in Range(HasRead)
        /\ "finished" \notin Range(HasRead)
    BY HasReadFacts
  <2>7. ASSUME Once, NEW j \in 1 .. Len(worker'), NEW d \in {"content", "empty"},
               worker'[j] = HasRead[d]
        PROVE  d = stdin'.holds
    BY <2>2, <2>3, <2>6, <2>7 DEF Heard
  <2>8. ASSUME Once, stdin'.drained, ~stdin'.read
        PROVE  \E j \in 1 .. Len(worker') : worker'[j] \in Range(HasRead)
    BY <2>2, <2>3, <2>8 DEF Heard
  <2> QED BY <1>0, <2>3, <2>4, <2>5, <2>7, <2>8 DEF Heard
<1>3. ASSUME NEW d, Reads(i, d) PROVE Heard'
  <2>1. Turns(i, HasRead[d]) /\ HasRead[d] \in WorkerStates
        /\ HasRead[d] \in Range(HasRead) /\ d \in {"content", "empty"}
    BY <1>3, HasReadFacts, WorkerStateFacts DEF Reads
  <2>2. /\ Len(worker') = Len(worker) /\ worker'[i] = HasRead[d]
        /\ \A j \in 1 .. Len(worker) : j # i => worker'[j] = worker[j]
    BY <1>0, <2>1, TurnFacts
  <2>3. /\ stdin'.holds = stdin.holds /\ stdin'.read = stdin.read /\ ~stdin.read
        /\ stdin'.data = stdin.data
        /\ UNCHANGED <<results, replied>>
    BY <1>3 DEF Reads, Typed
  <2>4. ASSUME Once PROVE d = stdin.holds
    <3>1. ASSUME stdin.drained PROVE FALSE
      <4>1. PICK j \in 1 .. Len(worker) : worker[j] \in Range(HasRead)
        BY <2>3, <2>4, <3>1 DEF Heard
      <4>2. Sources(phase)[j] = "stdin" /\ Sources(phase)[i] = "stdin"
            /\ phase \in {"subs", "inserts"}
        BY <1>3, <4>1 DEF Working, Reads
      <4>3. i = j
        BY <1>0, <2>4, <4>2, OnlyReader
      <4> QED BY <1>3, <4>1, <4>3, HasReadFacts DEF Reads
    <3> QED BY <1>3, <3>1 DEF Reads
  <2>5. \A j \in 1 .. Len(worker') : worker'[j] = "returning" => stdin'.read
    <3>1. HasRead[d] # "returning"
      BY <2>1, HasReadFacts
    <3> QED BY <2>2, <2>3, <3>1 DEF Heard
  <2>6. ASSUME Once, NEW j \in 1 .. Len(worker'), NEW e \in {"content", "empty"},
               worker'[j] = HasRead[e]
        PROVE  e = stdin'.holds
    <3>1. CASE j = i
      <4>1. HasRead[d] = HasRead[e]
        BY <2>2, <2>6, <3>1
      <4>2. d = e
        BY <2>1, <4>1, HasReadFacts
      <4> QED BY <2>3, <2>4, <2>6, <4>2
    <3>2. CASE j # i
      BY <2>2, <2>3, <2>6, <3>2 DEF Heard
    <3> QED BY <3>1, <3>2
  <2>7. \E j \in 1 .. Len(worker') : worker'[j] \in Range(HasRead)
    BY <1>0, <2>1, <2>2
  <2> QED BY <1>0, <2>3, <2>5, <2>6, <2>7 DEF Heard
<1>4. ASSUME NEW d, Keeps(i, d) PROVE Heard'
  <2>1. Turns(i, "returning") /\ "returning" \in WorkerStates
        /\ "returning" \notin Range(HasRead) /\ d \in {"content", "empty"}
        /\ worker[i] = HasRead[d]
    BY <1>4, HasReadFacts, WorkerStateFacts DEF Keeps
  <2>2. /\ Len(worker') = Len(worker) /\ worker'[i] = "returning"
        /\ \A j \in 1 .. Len(worker) : j # i => worker'[j] = worker[j]
    BY <1>0, <2>1, TurnFacts
  <2>3. /\ stdin'.holds = stdin.holds /\ stdin'.read /\ stdin'.data = d
        /\ UNCHANGED <<results, replied>>
    BY <1>4 DEF Keeps, Typed
  <2>4. ASSUME Once PROVE d = stdin.holds
    BY <1>0, <2>1, <2>4 DEF Heard
  <2>5. ASSUME Once, NEW j \in 1 .. Len(worker'), NEW e \in {"content", "empty"},
               worker'[j] = HasRead[e]
        PROVE  e = stdin'.holds
    <3>1. HasRead[e] # "returning"
      BY HasReadFacts
    <3> QED BY <2>2, <2>3, <2>5, <3>1 DEF Heard
  <2> QED BY <1>0, <2>3, <2>4, <2>5 DEF Heard
<1> QED BY <1>1, <1>2, <1>3, <1>4 DEF WorkerMove

LEMMA WorkerInv == ASSUME IInv, NEW i, WorkerStep(i) PROVE IInv'
BY WorkerMoves, WorkerTyped, WorkerWorking, WorkerWritten, WorkerHeard DEF IInv

-----------------------------------------------------------------------------
(* Run.                                                                    *)

LEMMA FunctionIsSeq ==
  ASSUME NEW S, NEW n \in Nat, NEW f \in [1 .. n -> S]
  PROVE  f \in Seq(S) /\ Len(f) = n
OBVIOUS

\* When Run takes a step, no goroutine is at work.
Quiet == slots = 0 /\ \A i \in 1 .. Len(worker) : worker[i] = "finished"

LEMMA QuietRun == ASSUME IInv, RunStep PROVE Quiet
<1> USE DEF IInv
<1>1. Joined
  BY DEF RunStep, Start, SubsJoined, InsertsJoined, FetchConfig, RulesJoined,
         FetchBase, Working, NothingLeftBehind, Batches
<1>2. \A i \in 1 .. Len(worker) : worker[i] = "finished"
  BY <1>1, Lengths DEF Joined
<1>3. Fetching = {}
  BY <1>2 DEF Fetching
<1> QED BY <1>2, <1>3, FS_EmptySet DEF Quiet, Slotted

\* Run starts a batch, goes on to a fetch of its own, or returns.
StartsAt(b) == CASE b = "subs"    -> {"start"}
                 [] b = "inserts" -> {"subs"}
                 [] OTHER         -> {"config"}

Begins(b, jobs) ==
  /\ phase \in StartsAt(b)
  /\ Begin(b, jobs)
  /\ jobs = IF b = "rules"
              THEN IF request.expand /\ config'.generator THEN config'.rulesets ELSE <<>>
              ELSE Sources(b)
  /\ b = "subs" => request.subs # <<>>
  /\ answer' = answer /\ baseReply' = baseReply

GoesOn ==
  /\ \/ phase \in {"subs", "inserts"} /\ phase' = "config"
     \/ phase = "rules" /\ phase' = "base"
  /\ UNCHANGED <<worker, results, replied, headers, answer, baseReply>>

RunMove ==
  /\ UNCHANGED <<request, slots, canceled, stdin>>
  /\ config' \in Configs \cup {NoConfig}
  /\ config' = config \/ phase = "config"
  /\ baseReply' \in Result
  /\ \/ \E b \in Batches : \E jobs : Begins(b, jobs)
     \/ GoesOn
     \/ phase # "done" /\ \E a : Return(a)

LEMMA RunMoves == ASSUME IInv, RunStep PROVE RunMove
<1> USE DEF IInv
<1>0. config \in Configs \cup {NoConfig} /\ baseReply \in Result
  BY DEF Typed
<1>1. ASSUME Merge, phase \in {"subs", "inserts"}, baseReply' = baseReply
      PROVE  GoesOn \/ \E a : Return(a)
  BY <1>1 DEF Merge, GoesOn
<1>2. CASE Start
  <2>1. CASE Begin("subs", request.subs) /\ answer' = answer /\ request.subs # <<>>
    <3>1. Begins("subs", request.subs)
      BY <1>2, <2>1 DEF Start, Begins, StartsAt, Sources
    <3> QED BY <1>0, <1>2, <3>1 DEF Start, RunMove, Batches
  <2>2. CASE \E a : Return(a)
    BY <1>0, <1>2, <2>2 DEF Start, RunMove
  <2> QED BY <1>2, <2>1, <2>2 DEF Start
<1>3. CASE SubsJoined
  <2>1. CASE Begin("inserts", request.inserts) /\ answer' = answer
    <3>1. Begins("inserts", request.inserts)
      BY <1>3, <2>1 DEF SubsJoined, Begins, StartsAt, Sources
    <3> QED BY <1>0, <1>3, <3>1 DEF SubsJoined, RunMove, Batches
  <2>2. CASE GoesOn \/ \E a : Return(a)
    BY <1>0, <1>3, <2>2 DEF SubsJoined, RunMove
  <2> QED BY <1>1, <1>3, <2>1, <2>2 DEF SubsJoined
<1>4. CASE InsertsJoined
  BY <1>0, <1>1, <1>4 DEF InsertsJoined, RunMove
<1>5. CASE FetchConfig
  <2>1. ASSUME NEW cfg \in Configs \cup {NoConfig}, Generate(cfg) PROVE RunMove
    <3>1. CASE \E a : Return(a)
      BY <1>0, <1>5, <2>1, <3>1 DEF FetchConfig, Generate, RunMove
    <3>2. CASE ~ \E a : Return(a)
      <4>1. PICK jobs : jobs = IF request.expand /\ cfg.generator THEN cfg.rulesets ELSE <<>>
        OBVIOUS
      <4>2. Begin("rules", jobs) /\ config' = cfg /\ answer' = answer
        BY <2>1, <3>2, <4>1 DEF Generate
      <4>3. Begins("rules", jobs)
        BY <1>5, <4>1, <4>2 DEF FetchConfig, Begins, StartsAt
      <4> QED BY <1>0, <1>5, <4>2, <4>3 DEF FetchConfig, RunMove, Batches
    <3> QED BY <3>1, <3>2
  <2>2. CASE (\E a : Return(a)) /\ config' = config
    BY <1>0, <1>5, <2>2 DEF FetchConfig, RunMove
  <2> QED BY <1>5, <2>1, <2>2 DEF FetchConfig
<1>6. CASE RulesJoined
  BY <1>0, <1>6 DEF RulesJoined, RunMove, GoesOn
<1>7. CASE FetchBase
  BY <1>0, <1>7 DEF FetchBase, RunMove, Result
<1> QED BY <1>2, <1>3, <1>4, <1>5, <1>6, <1>7 DEF RunStep

LEMMA BeginFacts ==
  ASSUME IInv, Quiet, NEW b \in Batches, NEW jobs, Begins(b, jobs),
         config' \in Configs \cup {NoConfig}, request' = request
  PROVE  /\ phase' = b
         /\ Len(jobs) \in Nat
         /\ worker' \in Seq(WorkerStates) /\ Len(worker') = Len(jobs)
         /\ \A i \in 1 .. Len(jobs) :
              worker'[i] \in IF b = "rules" THEN {"queued", "finished"} ELSE {"fetching"}
         /\ results' \in [Batches -> Seq(Result)] /\ replied' \in [Batches -> Seq(Result)]
         /\ Len(results'[b]) = Len(jobs) /\ Len(replied'[b]) = Len(jobs)
         /\ \A i \in 1 .. Len(jobs) : results'[b][i] = "zero" /\ replied'[b][i] = "zero"
         /\ \A c \in Batches \ {b} : results'[c] = results[c] /\ replied'[c] = replied[c]
<1> USE DEF IInv
<1>1. \E S : jobs \in Seq(S)
  <2>1. CASE b = "rules"
    <3>1. config'.rulesets \in Seq({"remote", "inline"})
      <4>1. NoConfig.rulesets \in Seq({"remote", "inline"})
        BY EmptySeq DEF NoConfig
      <4>2. ASSUME NEW c \in Configs PROVE c.rulesets \in Seq({"remote", "inline"})
        BY ConvertAssumption DEF Config
      <4> QED BY <4>1, <4>2
    <3> QED BY <2>1, <3>1, EmptySeq DEF Begins
  <2>2. CASE b # "rules"
    BY <2>2, RequestTypes DEF Begins, Batches
  <2> QED BY <2>1, <2>2
<1>2. Len(jobs) \in Nat /\ DOMAIN jobs = 1 .. Len(jobs)
  BY <1>1, LenProperties
<1> DEFINE n == Len(jobs)
           zeros == [i \in DOMAIN jobs |-> "zero"]
           states == [i \in DOMAIN jobs |-> CASE b # "rules" -> "fetching"
                                             [] jobs[i] = "remote" -> "queued"
                                             [] OTHER -> "finished"]
<1>3. zeros \in [1 .. n -> Result] /\ \A i \in 1 .. n : zeros[i] = "zero"
  BY <1>2 DEF Result
<1>4. zeros \in Seq(Result) /\ Len(zeros) = n
  <2> HIDE DEF zeros
  <2> QED BY <1>2, <1>3, FunctionIsSeq
<1>5. /\ states \in [1 .. n -> WorkerStates]
      /\ \A i \in 1 .. n :
           states[i] \in IF b = "rules" THEN {"queued", "finished"} ELSE {"fetching"}
  <2>1. \A i \in 1 .. n :
          states[i] \in IF b = "rules" THEN {"queued", "finished"} ELSE {"fetching"}
    <3>1. CASE b = "rules"
      BY <1>2, <3>1
    <3>2. CASE b # "rules"
      <4>1. jobs = Sources(b) /\ jobs \in Seq(Source)
        BY <3>2, RequestTypes DEF Begins, Batches
      <4>2. \A i \in 1 .. n : jobs[i] # "remote"
        BY <4>1, ElementOfSeq DEF Source
      <4> QED BY <1>2, <3>2, <4>2
    <3> QED BY <3>1, <3>2
  <2>2. {"queued", "finished", "fetching"} \subseteq WorkerStates
    BY WorkerStateFacts
  <2>3. DOMAIN states = 1 .. n /\ states = [i \in 1 .. n |-> states[i]]
    BY <1>2
  <2> HIDE DEF states
  <2> QED BY <2>1, <2>2, <2>3
<1>6. states \in Seq(WorkerStates) /\ Len(states) = n
  <2> HIDE DEF states
  <2> QED BY <1>2, <1>5, FunctionIsSeq
<1>7. /\ phase' = b /\ worker' = states
      /\ results' = [results EXCEPT ![b] = zeros]
      /\ replied' = [replied EXCEPT ![b] = zeros]
  BY DEF Begins, Begin
<1> HIDE DEF zeros, states
<1> QED BY <1>2, <1>3, <1>4, <1>5, <1>6, <1>7 DEF Typed

LEMMA BeginsInv ==
  ASSUME IInv, Quiet, RunMove, NEW b \in Batches, NEW jobs, Begins(b, jobs)
  PROVE  IInv'
<1> USE DEF IInv
<1>0. /\ UNCHANGED <<request, slots, canceled, stdin, answer, baseReply>>
      /\ config' \in Configs \cup {NoConfig} /\ \A c : Sources(c)' = Sources(c)
      /\ config' = config \/ phase = "config"
      /\ Once' = Once /\ slots = 0
  BY DEF RunMove, Begins, Quiet, Sources, Once, NamesStdinOnce
<1>1. Typed'
  BY <1>0, BeginFacts DEF Typed
<1>2. Working'
  <2>1. \A i \in 1 .. Len(worker') :
          /\ worker'[i] = "queued" => b = "rules"
          /\ worker'[i] \notin Range(HasRead) \cup {"returning"}
    BY <1>0, BeginFacts, HasReadFacts
  <2> QED BY <1>0, <2>1, BeginFacts DEF Working, NothingLeftBehind
<1>3. Slotted'
  <2>1. phase' = "rules" => Fetching' = {}
    BY <1>0, BeginFacts DEF Fetching
  <2> QED BY <1>0, <2>1, FS_EmptySet DEF Slotted
<1>4. Written'
  <2>1. ASSUME NEW c \in Batches
        PROVE  /\ Len(results'[c]) = Len(replied'[c])
               /\ \A i \in 1 .. Len(replied'[c]) :
                    results'[c][i] = IF c = "rules" /\ replied'[c][i] = "failed"
                                       THEN "zero" ELSE replied'[c][i]
    <3>1. CASE c = b
      <4>1. /\ Len(results'[c]) = Len(replied'[c])
            /\ \A i \in 1 .. Len(replied'[c]) :
                 results'[c][i] = "zero" /\ replied'[c][i] = "zero"
        BY <1>0, <3>1, BeginFacts
      <4> QED BY <4>1
    <3>2. CASE c # b
      <4>1. results'[c] = results[c] /\ replied'[c] = replied[c]
        BY <1>0, <3>2, BeginFacts
      <4> QED BY <4>1 DEF Written
    <3> QED BY <3>1, <3>2
  <2>2. ASSUME NEW c \in {"subs", "inserts"}
        PROVE  /\ Len(replied'[c]) \in {0, Len(Sources(c))}
               /\ \A i \in 1 .. Len(replied'[c]) :
                    replied'[c][i] = "zero" => b = c /\ worker'[i] # "finished"
    <3>1. CASE c = b
      BY <1>0, <3>1, BeginFacts DEF Begins
    <3>2. CASE c # b
      <4>1. replied'[c] = replied[c] /\ Len(replied[c]) \in {0, Len(Sources(c))}
        BY <1>0, <3>2, BeginFacts DEF Written, Batches
      <4>2. ASSUME NEW i \in 1 .. Len(replied[c]) PROVE replied[c][i] # "zero"
        BY DEF Written, Working, Quiet, Batches
      <4> QED BY <4>1, <4>2
    <3> QED BY <3>1, <3>2
  <2>3. b # "rules" => Len(replied["rules"]) = 0 /\ replied'["rules"] = replied["rules"]
                       /\ config' = config
    BY <1>0, BeginFacts DEF Begins, StartsAt, Written, Batches
  <2>4. b = "rules" => Len(replied'["rules"]) = Len(jobs)
    BY <1>0, BeginFacts
  <2>5. Len(<<>>) = 0
    OBVIOUS
  <2>6. /\ b \in {"subs", "inserts"} => Len(replied'["rules"]) = 0
        /\ Len(replied'["rules"]) # 0 =>
             /\ request.expand /\ config'.generator
             /\ Len(replied'["rules"]) = Len(config'.rulesets)
    BY <2>3, <2>4, <2>5 DEF Begins, Batches
  <2>7. phase' = b /\ (b = "rules" \/ Len(replied'["rules"]) = 0)
    BY <1>0, <2>6, BeginFacts DEF Batches
  <2>8. phase' \in {"start", "subs", "inserts", "config"} => Len(replied'["rules"]) = 0
    BY <2>7
  <2>9. \A c \in {"subs", "inserts"} :
          /\ Len(replied'[c]) \in {0, Len(Sources(c)')}
          /\ \A i \in 1 .. Len(replied'[c]) :
               replied'[c][i] = "zero" => phase' = c /\ worker'[i] # "finished"
    BY <1>0, <2>2, <2>7 DEF Sources
  <2>10. request' = request
    BY <1>0
  <2> QED BY <2>1, <2>6, <2>8, <2>9, <2>10 DEF Written
<1>5. Heard'
  <2>1. ~ \E i \in 1 .. Len(worker) : worker[i] \in Range(HasRead)
    BY HasReadFacts DEF Quiet
  <2>2. /\ \A i \in 1 .. Len(worker') : worker'[i] # "returning"
        /\ \A i \in 1 .. Len(worker'), d \in {"content", "empty"} : worker'[i] # HasRead[d]
    <3>1. \A i \in 1 .. Len(worker') : worker'[i] \in {"queued", "finished", "fetching"}
      BY <1>0, BeginFacts
    <3>2. \A d \in {"content", "empty"} :
            HasRead[d] \notin {"queued", "finished", "fetching"}
      BY HasReadFacts
    <3> QED BY <3>1, <3>2
  <2>3. ASSUME Once, NEW c \in {"subs", "inserts"}, NEW i \in 1 .. Len(replied'[c]),
               Sources(c)[i] = "stdin", replied'[c][i] # "zero"
        PROVE  replied'[c][i] = "content" <=> stdin.holds = "content"
    <3>1. c # b
      BY <1>0, <2>3, BeginFacts
    <3>2. replied'[c] = replied[c]
      BY <1>0, <3>1, BeginFacts DEF Batches
    <3> QED BY <2>3, <3>2 DEF Heard
  <2> QED BY <1>0, <2>1, <2>2, <2>3 DEF Heard
<1> QED BY <1>1, <1>2, <1>3, <1>4, <1>5

\* Run goes on to something that is no batch, with no goroutine at work.
LEMMA QuietInv ==
  ASSUME IInv, Quiet, RunMove, UNCHANGED <<worker, results, replied>>,
         \/ phase' \in {"base", "done"}
         \/ phase' = "config" /\ phase \in {"subs", "inserts"}
  PROVE  IInv'
<1> USE DEF IInv
<1>0. /\ UNCHANGED <<request, slots, canceled, stdin>> /\ slots = 0
      /\ config' \in Configs \cup {NoConfig} /\ baseReply' \in Result
      /\ \A c : Sources(c)' = Sources(c)
      /\ config' = config \/ phase = "config"
      /\ Once' = Once
      /\ phase' \in {"base", "done", "config"}
      /\ \A i \in 1 .. Len(worker) : worker[i] = "finished"
  BY DEF RunMove, Quiet, Sources, Once, NamesStdinOnce
<1>1. Typed'
  BY <1>0 DEF Typed
<1>2. Working'
  <2>1. Joined
    BY <1>0, Lengths DEF Joined
  <2> QED BY <1>0, <2>1, HasReadFacts DEF Working, NothingLeftBehind, Batches, Joined
<1>3. Slotted'
  BY <1>0 DEF Slotted
<1>4. Written'
  <2>1. ASSUME NEW b \in {"subs", "inserts"}, NEW i \in 1 .. Len(replied[b])
        PROVE  replied[b][i] # "zero"
    BY <1>0 DEF Written, Working, Batches
  <2>2. phase = "config" => Len(replied["rules"]) = 0
    BY DEF Written
  <2>3. /\ phase' = "config" => Len(replied["rules"]) = 0
        /\ Len(replied["rules"]) # 0 =>
             /\ request.expand /\ config'.generator
             /\ Len(replied["rules"]) = Len(config'.rulesets)
    BY <1>0, <2>2 DEF Written
  <2> QED BY <1>0, <2>1, <2>3 DEF Written
<1>5. Heard'
  <2>1. \A i \in 1 .. Len(worker) : worker[i] \notin Range(HasRead) \cup {"returning"}
    BY <1>0, HasReadFacts
  <2>2. UNCHANGED <<worker, replied, stdin>>
    BY <1>0
  <2> QED BY <1>0, <2>1, <2>2 DEF Heard
<1> QED BY <1>1, <1>2, <1>3, <1>4, <1>5

LEMMA RunInv == ASSUME IInv, RunStep PROVE IInv'
<1>1. RunMove /\ Quiet
  BY RunMoves, QuietRun
<1>2. CASE GoesOn
  BY <1>1, <1>2, QuietInv DEF GoesOn
<1>3. CASE \E a : Return(a)
  BY <1>1, <1>3, QuietInv DEF Return
<1> QED BY <1>1, <1>2, <1>3, BeginsInv DEF RunMove

LEMMA InitInv == Init => IInv
<1> SUFFICES ASSUME Init PROVE IInv
  OBVIOUS
<1>1. Typed
  <2>1. stdin \in [holds : Reply, drained : BOOLEAN, read : BOOLEAN,
                   data : {"empty", "content"}]
    BY DEF Init, Reply
  <2>2. worker \in Seq(WorkerStates) /\ <<>> \in Seq(Result)
    BY EmptySeq DEF Init
  <2>3. 0 \in 0 .. MaxConcurrent
    BY ConvertAssumption
  <2> QED BY <2>1, <2>2, <2>3 DEF Init, Typed, Result
<1>2. \A b \in Batches : Len(replied[b]) = 0 /\ Len(results[b]) = 0
  BY DEF Init
<1>3. Len(worker) = 0 /\ DOMAIN worker = {}
  BY DEF Init
<1>4. Working
  BY <1>2, <1>3 DEF Init, Working, NothingLeftBehind, Joined
<1>5. Slotted
  BY DEF Init, Slotted
<1>6. Written
  BY <1>2 DEF Init, Written, Batches
<1>7. Heard
  BY <1>2, <1>3 DEF Init, Heard, Batches
<1> QED BY <1>1, <1>4, <1>5, <1>6, <1>7 DEF IInv

LEMMA StepInv == IInv /\ [Next]_vars => IInv'
<1> SUFFICES ASSUME IInv, [Next]_vars PROVE IInv'
  OBVIOUS
<1>1. CASE Cancel \/ UNCHANGED vars
  <2>1. /\ UNCHANGED <<request, phase, config, worker, slots, results, replied,
                       baseReply, stdin>>
        /\ canceled' \in BOOLEAN
    BY <1>1 DEF Cancel, vars, IInv, Typed
  <2>2. Typed' /\ Working' /\ Slotted'
    BY <2>1 DEF IInv, Typed, Working, Slotted, Fetching, Sources, NothingLeftBehind, Joined
  <2>3. Written' /\ Heard'
    BY <2>1 DEF IInv, Written, Heard, Once, NamesStdinOnce, Sources
  <2> QED BY <2>2, <2>3 DEF IInv
<1> QED BY <1>1, WorkerInv, RunInv DEF Next

LEMMA InvAlways == Spec => []IInv
BY InitInv, StepInv, PTL DEF Spec

(* SlotsAccounted: the semaphore counts the rulesets being fetched.        *)
THEOREM SlotsAccountedAlways == Spec => []SlotsAccounted
<1>1. IInv => SlotsAccounted
  <2> SUFFICES ASSUME IInv PROVE SlotsAccounted
    OBVIOUS
  <2>1. Fetching = {i \in DOMAIN worker : worker[i] = "fetching"}
    BY Lengths DEF Fetching, IInv
  <2> QED BY <2>1 DEF IInv, Slotted, SlotsAccounted
<1> QED BY <1>1, InvAlways, PTL

-----------------------------------------------------------------------------
(* The headers.                                                            *)

\* A subscription's header is kept at its own index.
Headed ==
  /\ userinfos \in Seq(0 .. MaxSources)
  /\ headed \subseteq 1 .. MaxSources
  /\ \A i \in 1 .. Len(userinfos) : userinfos[i] = IF i \in headed THEN i ELSE 0
  /\ phase = "start" => headed = {}
  /\ phase \notin {"start", "done"} =>
       Len(userinfos) = Len(request.subs) /\ Len(request.subs) # 0

LEMMA HeaderWorker ==
  ASSUME IInv, Headed, NEW i \in 1 .. MaxSources, WorkerStep(i)
  PROVE  Headed'
<1> USE DEF IInv
<1>1. WorkerMove(i)
  BY WorkerMoves
<1>2. phase' = phase /\ request' = request /\ i \in 1 .. Len(worker)
  BY <1>1 DEF WorkerMove
<1>3. CASE UNCHANGED headers
  BY <1>2, <1>3 DEF Headed, headers
<1>4. CASE KeepHeader(i) /\ phase = "subs"
  <2>1. Len(worker) = Len(request.subs) /\ Len(userinfos) = Len(request.subs)
    <3>1. /\ Len(worker) = Len(replied["subs"]) /\ Sources("subs") = request.subs
          /\ Len(replied["subs"]) \in {0, Len(Sources("subs"))}
      BY <1>4 DEF Working, Written, Batches, Sources
    <3>2. Len(worker) # 0
      BY <1>2, Lengths
    <3> QED BY <1>4, <3>1, <3>2 DEF Headed
  <2>2. i \in 1 .. Len(userinfos) /\ i \in 0 .. MaxSources
    BY <1>2, <2>1
  <2>3. userinfos' = [userinfos EXCEPT ![i] = i] /\ headed' = headed \cup {i}
    BY <1>4 DEF KeepHeader, Slot
  <2>4. /\ userinfos' \in Seq(0 .. MaxSources) /\ Len(userinfos') = Len(userinfos)
        /\ \A j \in 1 .. Len(userinfos) :
             userinfos'[j] = IF j = i THEN i ELSE userinfos[j]
    BY <2>2, <2>3, ExceptSeq DEF Headed
  <2>5. \A j \in 1 .. Len(userinfos') :
          userinfos'[j] = IF j \in headed' THEN j ELSE 0
    BY <2>3, <2>4 DEF Headed
  <2> QED BY <1>2, <1>4, <2>3, <2>4, <2>5 DEF Headed
<1>5. UNCHANGED headers \/ (KeepHeader(i) /\ phase = "subs")
  <2>1. Finish(i) => UNCHANGED headers \/ (KeepHeader(i) /\ phase = "subs")
    BY DEF Finish
  <2>2. (Acquire(i) \/ Abandon(i) \/ KeepStdin(i)) => UNCHANGED headers
    BY DEF Acquire, Abandon, KeepStdin
  <2>3. (ReadStdin(i) \/ ReuseStdin(i) \/ ReturnStdin(i)) => UNCHANGED headers
    BY DEF ReadStdin, ReuseStdin, ReturnStdin
  <2> QED BY <2>1, <2>2, <2>3 DEF WorkerStep, Advance
<1> QED BY <1>3, <1>4, <1>5

LEMMA HeaderRun ==
  ASSUME IInv, Headed, RunStep
  PROVE  Headed'
<1> USE DEF IInv
<1>1. RunMove
  BY RunMoves
<1>2. request' = request
  BY <1>1 DEF RunMove
<1>3. CASE UNCHANGED headers /\ phase # "start" /\ phase' # "start"
           /\ (phase # "done" \/ phase' = "done")
  BY <1>2, <1>3 DEF Headed, headers
<1>4. ASSUME NEW b \in Batches, NEW jobs, Begins(b, jobs) PROVE Headed'
  <2>1. phase' = b /\ headed' = headed
    BY <1>4 DEF Begins, Begin
  <2>2. CASE b = "subs"
    <3>1. /\ phase = "start" /\ jobs = request.subs /\ request.subs # <<>>
          /\ userinfos' = [k \in DOMAIN jobs |-> 0]
      BY <1>4, <2>2 DEF Begins, Begin, StartsAt, Sources
    <3>2. jobs \in Seq(Source) /\ Len(jobs) \in Nat /\ DOMAIN jobs = 1 .. Len(jobs)
      <4>1. Sources("subs") \in Seq(Source) /\ Sources("subs") = request.subs
        BY RequestTypes DEF Sources
      <4> QED BY <3>1, <4>1, LenProperties
    <3>3. Len(jobs) # 0
      BY <3>1, <3>2, EmptySeq
    <3>4. userinfos' \in [1 .. Len(jobs) -> 0 .. MaxSources]
      BY <3>1, <3>2, ConvertAssumption
    <3>5. userinfos' \in Seq(0 .. MaxSources) /\ Len(userinfos') = Len(jobs)
      BY <3>2, <3>4, FunctionIsSeq
    <3>6. headed' = {}
      BY <2>1, <3>1 DEF Headed
    <3> QED BY <1>2, <2>1, <2>2, <3>1, <3>2, <3>3, <3>5, <3>6 DEF Headed
  <2>3. CASE b # "subs"
    <3>1. phase \in {"subs", "config"} /\ userinfos' = userinfos
      BY <1>4, <2>3 DEF Begins, Begin, StartsAt, Batches
    <3>2. phase' # "start" /\ phase' # "done"
      BY <2>1 DEF Batches
    <3> QED BY <1>2, <2>1, <3>1, <3>2 DEF Headed
  <2> QED BY <2>2, <2>3
<1>5. CASE GoesOn
  <2>1. UNCHANGED headers /\ phase # "start" /\ phase' # "start" /\ phase # "done"
    BY <1>5 DEF GoesOn
  <2> QED BY <1>3, <2>1
<1>6. ASSUME phase # "done", NEW a, Return(a) PROVE Headed'
  BY <1>2, <1>6 DEF Return, Headed, headers
<1> QED BY <1>1, <1>4, <1>5, <1>6 DEF RunMove

LEMMA HeadedStep == IInv /\ Headed /\ [Next]_vars => Headed'
<1> SUFFICES ASSUME IInv, Headed, [Next]_vars PROVE Headed'
  OBVIOUS
<1>1. CASE Cancel \/ UNCHANGED vars
  BY <1>1 DEF Cancel, vars, headers, Headed
<1> QED BY <1>1, HeaderWorker, HeaderRun DEF Next

-----------------------------------------------------------------------------
(* The output.                                                             *)

\* Pieces of one batch, in the order of their sources.
InOrder(s, batch) ==
  /\ s \in Seq(Piece(batch))
  /\ \A i, j \in 1 .. Len(s) : i < j => s[i].nr < s[j].nr

Contentful(rs) == {i \in 1 .. Len(rs) : rs[i] = "content"}

LEMMA PieceOf ==
  ASSUME NEW batch, NEW s \in Seq(Piece(batch))
  PROVE  /\ Len(s) \in Nat /\ DOMAIN s = 1 .. Len(s)
         /\ \A i \in 1 .. Len(s) : s[i].from = batch /\ s[i].nr \in Nat
<1>1. Len(s) \in Nat /\ DOMAIN s = 1 .. Len(s)
  BY LenProperties
<1>2. \A i \in 1 .. Len(s) : s[i] \in Piece(batch)
  BY ElementOfSeq
<1> QED BY <1>1, <1>2 DEF Piece

LEMMA GatheredInOrder ==
  ASSUME NEW batch, NEW rs, Len(rs) \in Nat
  PROVE  /\ InOrder(Gathered(batch, rs), batch)
         /\ From(Gathered(batch, rs), batch) = Contentful(rs)
<1> DEFINE s == Gathered(batch, rs)
<1>1. GatheredFrom(batch, rs, s, Len(rs))
  BY GatheredFacts
<1> HIDE DEF s
<1>2. s \in Seq(Piece(batch))
  BY <1>1 DEF GatheredFrom
<1>3. /\ DOMAIN s = 1 .. Len(s) /\ Len(s) \in Nat
      /\ \A i \in 1 .. Len(s) : s[i].from = batch
  BY <1>2, PieceOf
<1>4. InOrder(s, batch)
  BY <1>1, <1>2 DEF InOrder, GatheredFrom
<1>5. From(s, batch) = {s[k].nr : k \in 1 .. Len(s)}
  BY <1>3 DEF From
<1>6. \A k \in 1 .. Len(s) : s[k].nr \in Contentful(rs)
  BY <1>1 DEF GatheredFrom, Contentful
<1>7. \A n \in Contentful(rs) : \E k \in 1 .. Len(s) : s[k].nr = n
  BY <1>1 DEF GatheredFrom, Contentful
<1>8. From(s, batch) = Contentful(rs)
  BY <1>5, <1>6, <1>7
<1> QED BY <1>4, <1>8 DEF s

\* Pieces of b, in order, and then those of c.
Before(st, b, c) ==
  \A i, j \in DOMAIN st :
    i < j => \/ st[i].from = st[j].from /\ st[i].nr < st[j].nr
             \/ st[i].from = b /\ st[j].from = c

\* Two batches, one after the other.
LEMMA Joining ==
  ASSUME NEW b, NEW c, b # c, NEW s, InOrder(s, b), NEW t, InOrder(t, c)
  PROVE  /\ s \o t \in Gatherings({b, c})
         /\ s \o t = <<>> <=> s = <<>> /\ t = <<>>
         /\ From(s \o t, b) = From(s, b) /\ From(s \o t, c) = From(t, c)
         /\ Before(s \o t, b, c)
<1> DEFINE st == s \o t
           Both == [from : {b, c}, nr : Nat]
<1>1. /\ s \in Seq(Piece(b)) /\ t \in Seq(Piece(c))
      /\ Piece(b) \subseteq Both /\ Piece(c) \subseteq Both
  BY DEF InOrder, Piece
<1>2. s \in Seq(Both) /\ t \in Seq(Both)
  <2> HIDE DEF Both
  <2> QED BY <1>1, SeqMonotonic
<1>3. /\ Len(s) \in Nat /\ DOMAIN s = 1 .. Len(s)
      /\ \A i \in 1 .. Len(s) : s[i].from = b /\ s[i].nr \in Nat
  BY <1>1, PieceOf
<1>4. /\ Len(t) \in Nat /\ DOMAIN t = 1 .. Len(t)
      /\ \A i \in 1 .. Len(t) : t[i].from = c /\ t[i].nr \in Nat
  BY <1>1, PieceOf
<1> HIDE DEF Both
<1>5. /\ st \in Seq(Both) /\ Len(st) = Len(s) + Len(t)
      /\ \A i \in 1 .. Len(s) + Len(t) :
           st[i] = IF i <= Len(s) THEN s[i] ELSE t[i - Len(s)]
  BY <1>2, ConcatProperties
<1>6. st = <<>> <=> s = <<>> /\ t = <<>>
  BY <1>2, ConcatEqualIffEmpty
<1>7. DOMAIN st = 1 .. Len(st)
  BY <1>5, LenProperties
<1> HIDE DEF st
<1>8. /\ \A i \in 1 .. Len(s) : i \in DOMAIN st /\ st[i] = s[i]
      /\ \A i \in 1 .. Len(t) : Len(s) + i \in DOMAIN st /\ st[Len(s) + i] = t[i]
      /\ \A i \in DOMAIN st : \/ i \in 1 .. Len(s)
                              \/ i - Len(s) \in 1 .. Len(t) /\ st[i] = t[i - Len(s)]
  <2>1. PICK m \in Nat, n \in Nat : m = Len(s) /\ n = Len(t)
    BY <1>3, <1>4
  <2>2. DOMAIN st = 1 .. m + n
    BY <1>5, <1>7, <2>1
  <2>3. \A i \in 1 .. m + n : st[i] = IF i <= m THEN s[i] ELSE t[i - m]
    BY <1>5, <2>1
  <2>4. ASSUME NEW i \in 1 .. m PROVE i \in DOMAIN st /\ st[i] = s[i]
    <3>1. i \in 1 .. m + n /\ i <= m
      OBVIOUS
    <3> QED BY <2>2, <2>3, <3>1
  <2>5. ASSUME NEW i \in 1 .. n PROVE m + i \in DOMAIN st /\ st[m + i] = t[i]
    <3>1. m + i \in 1 .. m + n /\ ~ (m + i <= m) /\ (m + i) - m = i
      OBVIOUS
    <3> QED BY <2>2, <2>3, <3>1
  <2>6. ASSUME NEW i \in DOMAIN st
        PROVE  i \in 1 .. m \/ (i - m \in 1 .. n /\ st[i] = t[i - m])
    <3>1. i \in 1 .. m + n
      BY <2>2
    <3>2. i \in 1 .. m \/ (~ (i <= m) /\ i - m \in 1 .. n)
      BY <3>1
    <3> QED BY <2>3, <3>1, <3>2
  <2> QED BY <2>1, <2>4, <2>5, <2>6
<1>9. From(st, b) = From(s, b)
  <2>1. {l \in DOMAIN st : st[l].from = b} = 1 .. Len(s)
    BY <1>3, <1>4, <1>8
  <2>2. {l \in DOMAIN s : s[l].from = b} = 1 .. Len(s)
    BY <1>3
  <2> QED BY <1>8, <2>1, <2>2 DEF From
<1>10. From(st, c) = From(t, c)
  <2>1. \A i \in DOMAIN st : st[i].from = c <=> i - Len(s) \in 1 .. Len(t)
    BY <1>3, <1>4, <1>8
  <2>2. From(t, c) = {t[k].nr : k \in 1 .. Len(t)}
    BY <1>4 DEF From
  <2>3. ASSUME NEW n \in From(st, c) PROVE n \in {t[k].nr : k \in 1 .. Len(t)}
    <3>1. PICK i \in DOMAIN st : st[i].from = c /\ n = st[i].nr
      BY DEF From
    <3>2. i - Len(s) \in 1 .. Len(t) /\ i \in Nat
      BY <1>5, <1>7, <2>1, <3>1
    <3>3. ~ (i \in 1 .. Len(s))
      BY <1>3, <3>2
    <3>4. st[i] = t[i - Len(s)]
      BY <1>8, <3>3
    <3> QED BY <3>1, <3>2, <3>4
  <2>4. ASSUME NEW k \in 1 .. Len(t) PROVE t[k].nr \in From(st, c)
    <3>1. Len(s) + k \in DOMAIN st /\ st[Len(s) + k] = t[k] /\ t[k].from = c
      BY <1>4, <1>8
    <3> QED BY <3>1 DEF From
  <2> QED BY <2>2, <2>3, <2>4
<1>11. ASSUME NEW i \in DOMAIN st, NEW j \in DOMAIN st, i < j
       PROVE  \/ st[i].from = st[j].from /\ st[i].nr < st[j].nr
              \/ st[i].from = b /\ st[j].from = c
  <2>0. i \in Nat /\ j \in Nat
    BY <1>7
  <2>1. CASE j \in 1 .. Len(s)
    <3>1. i \in 1 .. Len(s)
      BY <1>3, <1>7, <1>11, <2>0, <2>1
    <3>2. s[i].nr < s[j].nr
      BY <1>11, <2>1, <3>1 DEF InOrder
    <3> QED BY <1>3, <1>8, <2>1, <3>1, <3>2
  <2>2. CASE j \notin 1 .. Len(s) /\ i \in 1 .. Len(s)
    BY <1>3, <1>4, <1>8, <2>2
  <2>3. CASE j \notin 1 .. Len(s) /\ i \notin 1 .. Len(s)
    <3>1. /\ i - Len(s) \in 1 .. Len(t) /\ st[i] = t[i - Len(s)]
          /\ j - Len(s) \in 1 .. Len(t) /\ st[j] = t[j - Len(s)]
      BY <1>8, <2>3
    <3>2. i - Len(s) < j - Len(s)
      BY <1>3, <1>11, <2>0
    <3>3. t[i - Len(s)].nr < t[j - Len(s)].nr
      BY <3>1, <3>2 DEF InOrder
    <3> QED BY <1>4, <3>1, <3>3
  <2> QED BY <2>1, <2>2, <2>3
<1>12. st \in Gatherings({b, c}) /\ Before(st, b, c)
  BY <1>5, <1>11 DEF Both, Gatherings, Before
<1> QED BY <1>6, <1>9, <1>10, <1>12 DEF st

\* Once a batch is over, its slice says what its sources had to give.
LEMMA Complete ==
  ASSUME IInv, Quiet, NEW b \in {"subs", "inserts"}
  PROVE  /\ results[b] = replied[b] /\ Len(replied[b]) \in Nat
         /\ \A i \in 1 .. Len(replied[b]) : replied[b][i] \in Reply
         /\ Contentful(replied[b]) = Contents(b)
<1> USE DEF IInv
<1>1. b \in Batches /\ b # "rules"
  BY DEF Batches
<1>2. /\ results[b] \in Seq(Result) /\ replied[b] \in Seq(Result)
      /\ Len(replied[b]) \in Nat /\ DOMAIN replied[b] = 1 .. Len(replied[b])
      /\ Len(results[b]) = Len(replied[b])
  BY <1>1, Lengths DEF Typed, Written
<1>3. results[b] = replied[b]
  <2>1. \A i \in 1 .. Len(replied[b]) : results[b][i] = replied[b][i]
    BY <1>1 DEF Written
  <2> QED BY <1>2, <2>1, SeqEqual
<1>4. ASSUME NEW i \in 1 .. Len(replied[b]) PROVE replied[b][i] \in Reply
  <2>1. replied[b][i] # "zero"
    <3>1. ASSUME replied[b][i] = "zero" PROVE FALSE
      <4>1. phase = b /\ worker[i] # "finished"
        BY <3>1 DEF Written
      <4>2. i \in 1 .. Len(worker)
        BY <1>1, <4>1 DEF Working
      <4> QED BY <4>1, <4>2 DEF Quiet
    <3> QED BY <3>1
  <2>2. replied[b][i] \in Result
    BY <1>2, ElementOfSeq
  <2> QED BY <2>1, <2>2 DEF Result
<1>5. ASSUME Once, NEW i \in 1 .. Len(replied[b]), Sources(b)[i] = "stdin"
      PROVE  replied[b][i] = "content" <=> stdin.holds = "content"
  BY <1>4, <1>5 DEF Heard, Reply
<1>6. Contents(b) = {i \in 1 .. Len(replied[b]) :
                       IF Sources(b)[i] = "stdin" /\ Once
                         THEN stdin.holds = "content" ELSE replied[b][i] = "content"}
  BY <1>1, <1>2 DEF Contents, Once
<1>7. Contentful(replied[b]) = Contents(b)
  BY <1>5, <1>6 DEF Contentful
<1> QED BY <1>2, <1>3, <1>4, <1>7

\* The part of OutputAsDeclared that is about nodes.
NodesDeclared(nodes) ==
  /\ From(nodes, "subs") = Contents("subs")
  /\ From(nodes, "inserts") = IF Failing(replied["inserts"]) = {}
                                THEN Contents("inserts") ELSE {}
  /\ \A i, j \in DOMAIN nodes :
       i < j => \/ nodes[i].from = nodes[j].from
                   /\ nodes[i].nr < nodes[j].nr
                \/ nodes[i].from # nodes[j].from
                   /\ (nodes[i].from = "inserts") = request.prepend

LEMMA NodesFacts ==
  ASSUME IInv, Quiet
  PROVE  LET nodes == Nodes(results["subs"], results["inserts"])
         IN  /\ nodes \in Gatherings({"subs", "inserts"})
             /\ NodesDeclared(nodes)
             /\ nodes = <<>> => Gathered("subs", replied["subs"]) = <<>>
<1> DEFINE nodes == Nodes(results["subs"], results["inserts"])
           own == Gathered("subs", replied["subs"])
           ins == Inserted(replied["inserts"])
<1>1. /\ results["subs"] = replied["subs"] /\ results["inserts"] = replied["inserts"]
      /\ Len(replied["subs"]) \in Nat /\ Len(replied["inserts"]) \in Nat
      /\ Contentful(replied["subs"]) = Contents("subs")
      /\ Contentful(replied["inserts"]) = Contents("inserts")
  BY Complete
<1>2. InOrder(own, "subs") /\ From(own, "subs") = Contents("subs")
  BY <1>1, GatheredInOrder
<1>3. /\ InOrder(ins, "inserts")
      /\ From(ins, "inserts") = IF Failing(replied["inserts"]) = {}
                                  THEN Contents("inserts") ELSE {}
  <2>1. CASE Failing(replied["inserts"]) = {}
    BY <1>1, <2>1, GatheredInOrder DEF Inserted
  <2>2. CASE Failing(replied["inserts"]) # {}
    <3>1. InOrder(<<>>, "inserts") /\ From(<<>>, "inserts") = {}
      BY EmptySeq DEF InOrder, From
    <3> QED BY <2>2, <3>1 DEF Inserted
  <2> QED BY <2>1, <2>2
<1>4. nodes = IF request.prepend THEN ins \o own ELSE own \o ins
  BY <1>1 DEF Nodes
<1>5. request.prepend \in BOOLEAN
  BY RequestTypes DEF IInv, Request
<1> HIDE DEF nodes, own, ins
<1>6. CASE request.prepend
  <2>1. InOrder(ins, "inserts") /\ InOrder(own, "subs") /\ "inserts" # "subs"
    BY <1>2, <1>3
  <2>2. /\ ins \o own \in Gatherings({"inserts", "subs"})
        /\ (ins \o own = <<>> => own = <<>>)
        /\ From(ins \o own, "inserts") = From(ins, "inserts")
        /\ From(ins \o own, "subs") = From(own, "subs")
        /\ Before(ins \o own, "inserts", "subs")
    BY <2>1, Joining
  <2>3. nodes = ins \o own
    BY <1>4, <1>6
  <2>4. {"inserts", "subs"} = {"subs", "inserts"}
    OBVIOUS
  <2>5. nodes \in Gatherings({"subs", "inserts"})
    BY <2>2, <2>3, <2>4
  <2>6. Before(nodes, "inserts", "subs")
    BY <2>2, <2>3
  <2>7. NodesDeclared(nodes)
    BY <1>2, <1>3, <1>5, <1>6, <2>2, <2>3, <2>6 DEF NodesDeclared, Before
  <2> QED BY <2>2, <2>3, <2>5, <2>7 DEF nodes, own
<1>7. CASE ~request.prepend
  <2>1. InOrder(own, "subs") /\ InOrder(ins, "inserts") /\ "subs" # "inserts"
    BY <1>2, <1>3
  <2>2. /\ own \o ins \in Gatherings({"subs", "inserts"})
        /\ (own \o ins = <<>> => own = <<>>)
        /\ From(own \o ins, "subs") = From(own, "subs")
        /\ From(own \o ins, "inserts") = From(ins, "inserts")
        /\ Before(own \o ins, "subs", "inserts")
    <3>1. PICK a, b : a = "subs" /\ b = "inserts"
      OBVIOUS
    <3>2. InOrder(own, a) /\ InOrder(ins, b) /\ a # b
      BY <2>1, <3>1
    <3>3. /\ own \o ins \in Gatherings({a, b})
          /\ (own \o ins = <<>> <=> own = <<>> /\ ins = <<>>)
          /\ From(own \o ins, a) = From(own, a)
          /\ From(own \o ins, b) = From(ins, b)
          /\ Before(own \o ins, a, b)
      BY <3>2, Joining
    <3> QED BY <3>1, <3>3
  <2>3. nodes = own \o ins
    BY <1>4, <1>7
  <2>5. nodes \in Gatherings({"subs", "inserts"})
    BY <2>2, <2>3
  <2>6. Before(nodes, "subs", "inserts")
    BY <2>2, <2>3
  <2>7. NodesDeclared(nodes)
    BY <1>2, <1>3, <1>5, <1>7, <2>2, <2>3, <2>6 DEF NodesDeclared, Before
  <2> QED BY <2>2, <2>3, <2>5, <2>7 DEF nodes, own
<1> QED BY <1>5, <1>6, <1>7

\* The part of OutputAsDeclared that is about rules.
RulesDeclared(rules, rulesets) ==
  /\ rules # BaseRules /\ request.expand =>
       \A i \in DOMAIN replied["rules"] :
         i \in From(rules, "rules") <=>
           rulesets[i] = "inline" \/ i \in Contents("rules")
  /\ \A i, j \in DOMAIN rules : i < j => rules[i].nr < rules[j].nr

LEMMA RulesFacts ==
  ASSUME IInv
  PROVE  LET rules == Rules(results["rules"])
         IN  /\ rules \in Gatherings({"rules", "base"})
             /\ RulesDeclared(rules, config.rulesets)
<1> USE DEF IInv
<1> DEFINE rules == Rules(results["rules"])
<1>1. /\ DOMAIN replied["rules"] = 1 .. Len(replied["rules"])
      /\ Len(replied["rules"]) \in Nat
      /\ DOMAIN config.rulesets = 1 .. Len(config.rulesets)
      /\ Len(config.rulesets) \in Nat
  BY Lengths, RequestTypes, LenProperties DEF Batches
<1>2. Contents("rules") = {i \in 1 .. Len(replied["rules"]) : replied["rules"][i] = "content"}
  BY <1>1 DEF Contents
<1>3. CASE ~config.generator
  <2>1. rules = <<>> /\ Len(replied["rules"]) = 0
    BY <1>3 DEF Rules, Written
  <2> QED BY <1>1, <2>1, EmptySeq DEF RulesDeclared, Gatherings
<1>4. CASE config.generator
  <2> DEFINE rs == [i \in DOMAIN config.rulesets |->
                      IF config.rulesets[i] = "inline" \/ ~request.expand
                        THEN "content" ELSE results["rules"][i]]
  <2>1. rules = Gathered("rules", rs)
    BY <1>4 DEF Rules
  <2>2. Len(rs) = Len(config.rulesets)
    <3>1. rs \in [1 .. Len(config.rulesets) -> {rs[i] : i \in 1 .. Len(config.rulesets)}]
      BY <1>1
    <3> HIDE DEF rs
    <3> QED BY <1>1, <3>1, FunctionIsSeq
  <2>3. \A i \in 1 .. Len(config.rulesets) :
          rs[i] = IF config.rulesets[i] = "inline" \/ ~request.expand
                    THEN "content" ELSE results["rules"][i]
    BY <1>1
  <2> HIDE DEF rs, rules
  <2>4. InOrder(rules, "rules") /\ From(rules, "rules") = Contentful(rs)
    BY <1>1, <2>1, <2>2, GatheredInOrder
  <2>5. rules \in Gatherings({"rules", "base"})
    <3>1. /\ rules \in Seq(Piece("rules"))
          /\ Piece("rules") \subseteq [from : {"rules", "base"}, nr : Nat]
      BY <2>4 DEF InOrder, Piece
    <3> QED BY <3>1, SeqMonotonic DEF Gatherings
  <2>6. DOMAIN rules = 1 .. Len(rules)
    BY <2>4, PieceOf DEF InOrder
  <2>7. ASSUME request.expand, NEW i \in DOMAIN replied["rules"]
        PROVE  i \in From(rules, "rules") <=>
                 config.rulesets[i] = "inline" \/ i \in Contents("rules")
    <3>1. i \in 1 .. Len(replied["rules"]) /\ i \in 1 .. Len(config.rulesets)
      BY <1>1 DEF Written
    <3>2. results["rules"][i] = "content" <=> replied["rules"][i] = "content"
      BY <3>1 DEF Written, Batches
    <3> QED BY <1>2, <2>2, <2>3, <2>4, <2>7, <3>1, <3>2 DEF Contentful
  <2> QED BY <2>4, <2>5, <2>6, <2>7 DEF rules, RulesDeclared, InOrder
<1> QED BY <1>3, <1>4

-----------------------------------------------------------------------------
(* The answer.                                                             *)

\* The rules that Run returns a document with: none for a list of nodes, the
\* base's own, or those of the rulesets.
Outputs(rules) ==
  \/ rules = <<>> /\ phase = "config"
  \/ rules = BaseRules
  \/ rules = Rules(results["rules"]) /\ config' = config

\* What Run returns, and why.
Returns(a) ==
  \/ \E e \in {"target", "no url", "config"} : a = Fail(e, 0)
  \/ /\ Failing(results["subs"]) # {}
     /\ a = Fail("subscription", FirstFailing(results["subs"]))
  \/ /\ Nodes(results["subs"], results["inserts"]) = <<>>
     /\ a = Fail("no nodes", 0)
  \/ /\ phase \in {"config", "rules", "base"}
     /\ \E rules : Outputs(rules) /\ a = Converted(rules)

LEMMA ReturnAnswers ==
  ASSUME IInv, RunStep
  PROVE  /\ phase # "done" /\ UNCHANGED <<request, stdin>>
         /\ \/ answer' = answer
            \/ /\ phase' = "done" /\ UNCHANGED <<worker, results, replied, headers>>
               /\ Returns(answer')
<1>1. phase # "done" /\ UNCHANGED <<request, stdin>>
  BY DEF RunStep, Start, SubsJoined, InsertsJoined, FetchConfig, RulesJoined, FetchBase
<1> DEFINE Goal == \/ answer' = answer
                   \/ /\ phase' = "done" /\ UNCHANGED <<worker, results, replied, headers>>
                      /\ Returns(answer')
<1> SUFFICES Goal
  BY <1>1
<1>2. ASSUME NEW a, Return(a), Returns(a) PROVE Goal
  BY <1>2 DEF Return
<1>3. ASSUME Merge PROVE Goal
  <2>1. CASE Return(Fail("no nodes", 0)) /\ Nodes(results["subs"], results["inserts"]) = <<>>
    <3>1. Returns(Fail("no nodes", 0))
      BY <2>1 DEF Returns
    <3> QED BY <1>2, <2>1, <3>1
  <2>2. CASE answer' = answer
    BY <2>2
  <2> QED BY <1>3, <2>1, <2>2 DEF Merge
<1>4. ASSUME NEW rules, Outputs(rules), Return(Converted(rules)),
             phase \in {"config", "rules", "base"}
      PROVE  Goal
  <2>1. Returns(Converted(rules))
    BY <1>4 DEF Returns
  <2> HIDE DEF Goal
  <2> QED BY <1>2, <1>4, <2>1
<1>5. ASSUME NEW e \in {"target", "no url", "config"}, Return(Fail(e, 0)) PROVE Goal
  <2>1. Returns(Fail(e, 0))
    BY DEF Returns
  <2> HIDE DEF Goal
  <2> QED BY <1>2, <1>5, <2>1
<1> HIDE DEF Goal
<1>6. answer' = answer => Goal
  BY DEF Goal
<1>7. CASE Start
  BY <1>5, <1>6, <1>7 DEF Start
<1>8. CASE SubsJoined
  <2>1. CASE /\ Failing(results["subs"]) # {}
             /\ Return(Fail("subscription", FirstFailing(results["subs"])))
    <3>1. Returns(Fail("subscription", FirstFailing(results["subs"])))
      BY <2>1 DEF Returns
    <3> QED BY <1>2, <2>1, <3>1
  <2> QED BY <1>3, <1>6, <1>8, <2>1 DEF SubsJoined
<1>9. CASE InsertsJoined
  BY <1>3, <1>9 DEF InsertsJoined
<1>10. CASE FetchConfig
  <2>1. ASSUME NEW cfg, Generate(cfg), phase = "config" PROVE Goal
    <3>1. Outputs(<<>>)
      BY <2>1 DEF Outputs
    <3> QED BY <1>4, <1>6, <2>1, <3>1 DEF Generate
  <2> QED BY <1>5, <1>10, <2>1 DEF FetchConfig
<1>11. CASE RulesJoined
  <2>1. Outputs(Rules(results["rules"]))
    BY <1>11 DEF RulesJoined, Outputs
  <2> QED BY <1>4, <1>6, <1>11, <2>1 DEF RulesJoined
<1>12. CASE FetchBase
  <2>1. PICK base \in Reply : Return(Converted(FinalRules(results["rules"], base)))
    BY <1>12 DEF FetchBase
  <2>2. Outputs(FinalRules(results["rules"], base))
    BY <1>12 DEF FetchBase, FinalRules, Outputs
  <2> QED BY <1>4, <1>12, <2>1, <2>2 DEF FetchBase
<1> QED BY <1>7, <1>8, <1>9, <1>10, <1>11, <1>12 DEF RunStep

Answers ==
  [error : Errors, index : Nat]
    \cup [error : {"none"}, nodes : Gatherings({"subs", "inserts"}),
          userinfo : 0 .. MaxSources, rules : Gatherings({"rules", "base"})]
    \cup {NoAnswer}

\* Together with IInv: nothing is answered before the end, and the answer has
\* the properties it should have.
Answered ==
  /\ answer = NoAnswer \/ phase = "done"
  /\ answer \in Answers
  /\ OutputAsDeclared
  /\ FailsForItsSubscriptions
  /\ UserinfoOfFirst

\* The subscription that is reported is the first that failed.
LEMMA FirstFailed ==
  ASSUME IInv, Quiet, Failing(results["subs"]) # {}
  PROVE  LET first == FirstFailing(results["subs"])
         IN  /\ first \in Nat
             /\ replied["subs"][first] = "failed"
             /\ \A i \in 1 .. first - 1 : replied["subs"][i] \in {"empty", "content"}
<1>1. /\ results["subs"] = replied["subs"] /\ Len(replied["subs"]) \in Nat
      /\ \A i \in 1 .. Len(replied["subs"]) : replied["subs"][i] \in Reply
  BY Complete
<1>2. DOMAIN replied["subs"] = 1 .. Len(replied["subs"])
  BY Lengths DEF IInv, Batches
<1>3. PICK T : T = Failing(replied["subs"])
  OBVIOUS
<1>4. T = {i \in 1 .. Len(replied["subs"]) : replied["subs"][i] = "failed"}
  BY <1>2, <1>3 DEF Failing
<1>5. T \subseteq Nat /\ T # {}
  BY <1>1, <1>3, <1>4
<1>6. \E m \in T : \A k \in T : m <= k
  BY <1>5, LeastNat
<1>7. PICK first : first = FirstFailing(results["subs"])
  OBVIOUS
<1>8. first = CHOOSE i \in T : \A j \in T : i <= j
  BY <1>1, <1>3, <1>7 DEF FirstFailing
<1>9. first \in T /\ \A j \in T : first <= j
  BY <1>6, <1>8
<1>10. ASSUME NEW i \in 1 .. first - 1
       PROVE  replied["subs"][i] \in {"empty", "content"}
  <2>1. i \in 1 .. Len(replied["subs"]) /\ ~ (first <= i)
    BY <1>1, <1>4, <1>9
  <2>2. i \notin T
    BY <1>9, <2>1
  <2> QED BY <1>1, <1>4, <2>1, <2>2 DEF Reply
<1> QED BY <1>4, <1>5, <1>7, <1>9, <1>10

\* Whatever the document is returned with has the declared nodes and rules.
LEMMA OutputRules ==
  ASSUME IInv, NEW rules, Outputs(rules)
  PROVE  rules \in Gatherings({"rules", "base"}) /\ RulesDeclared(rules, config'.rulesets)
<1>1. CASE rules = <<>> /\ phase = "config"
  <2>1. DOMAIN replied["rules"] = {}
    <3>1. Len(replied["rules"]) = 0
      BY <1>1 DEF IInv, Written
    <3> QED BY <3>1, Lengths DEF IInv, Batches
  <2> QED BY <1>1, <2>1, EmptySeq DEF RulesDeclared, Gatherings
<1>2. CASE rules = BaseRules
  <2>1. BaseRules \in Gatherings({"rules", "base"}) /\ DOMAIN BaseRules = {1}
    BY DEF BaseRules, Gatherings
  <2> QED BY <1>2, <2>1 DEF RulesDeclared
<1>3. CASE rules = Rules(results["rules"]) /\ config' = config
  BY <1>3, RulesFacts
<1> QED BY <1>1, <1>2, <1>3 DEF Outputs

LEMMA ReturnedAnswer ==
  ASSUME IInv, Headed, Quiet, Returns(answer'), phase' = "done",
         UNCHANGED <<request, stdin, worker, results, replied, headers>>
  PROVE  Answered'
<1>0. /\ \A b : Contents(b)' = Contents(b)
      /\ Failing(replied["inserts"])' = Failing(replied["inserts"])
  BY DEF Contents, Sources, NamesStdinOnce, Failing
<1>1. ASSUME NEW e \in {"target", "no url", "config"}, answer' = Fail(e, 0)
      PROVE  Answered'
  BY <1>1 DEF Answered, Fail, Answers, Errors, OutputAsDeclared,
               FailsForItsSubscriptions, UserinfoOfFirst
<1>2. CASE /\ Failing(results["subs"]) # {}
           /\ answer' = Fail("subscription", FirstFailing(results["subs"]))
  <2>1. PICK first : first = FirstFailing(results["subs"])
    OBVIOUS
  <2>2. /\ first \in Nat /\ replied["subs"][first] = "failed"
        /\ \A i \in 1 .. first - 1 : replied["subs"][i] \in {"empty", "content"}
    BY <1>2, <2>1, FirstFailed
  <2>3. /\ answer' \in Answers
        /\ answer'.error = "subscription" /\ answer'.index = first
    BY <1>2, <2>1, <2>2 DEF Fail, Answers, Errors
  <2>4. FailsForItsSubscriptions'
    BY <2>2, <2>3 DEF FailsForItsSubscriptions
  <2>5. OutputAsDeclared' /\ UserinfoOfFirst'
    BY <2>3 DEF OutputAsDeclared, UserinfoOfFirst
  <2> QED BY <2>3, <2>4, <2>5 DEF Answered
<1>3. CASE /\ Nodes(results["subs"], results["inserts"]) = <<>>
           /\ answer' = Fail("no nodes", 0)
  <2>1. answer' \in Answers /\ answer'.error = "no nodes"
    BY <1>3 DEF Fail, Answers, Errors
  <2>2. Gathered("subs", replied["subs"]) = <<>>
    BY <1>3, NodesFacts
  <2>3. FailsForItsSubscriptions'
    BY <2>1, <2>2 DEF FailsForItsSubscriptions
  <2>4. OutputAsDeclared' /\ UserinfoOfFirst'
    BY <2>1 DEF OutputAsDeclared, UserinfoOfFirst
  <2> QED BY <2>1, <2>3, <2>4 DEF Answered
<1>4. ASSUME NEW rules, Outputs(rules), answer' = Converted(rules),
             phase \in {"config", "rules", "base"}
      PROVE  Answered'
  <2>1. PICK nodes : nodes = Nodes(results["subs"], results["inserts"])
    OBVIOUS
  <2>2. nodes \in Gatherings({"subs", "inserts"}) /\ NodesDeclared(nodes)
    BY <2>1, NodesFacts
  <2>3. rules \in Gatherings({"rules", "base"}) /\ RulesDeclared(rules, config'.rulesets)
    BY <1>4, OutputRules
  <2>4. answer' = [error |-> "none", nodes |-> nodes,
                   userinfo |-> userinfos[1], rules |-> rules]
    BY <1>4, <2>1 DEF Converted
  <2>8. /\ userinfos[1] = IF 1 \in headed THEN 1 ELSE 0
        /\ userinfos[1] \in 0 .. MaxSources
    <3>1. userinfos \in Seq(0 .. MaxSources) /\ Len(userinfos) # 0
      BY <1>4 DEF Headed
    <3>2. 1 \in 1 .. Len(userinfos)
      BY <3>1, LenProperties
    <3> QED BY <3>1, <3>2, ElementOfSeq DEF Headed
  <2>9. UserinfoOfFirst'
    BY <2>4, <2>8 DEF UserinfoOfFirst, headers
  <2>5. /\ answer' \in Answers
        /\ answer'.error = "none" /\ answer'.nodes = nodes /\ answer'.rules = rules
    BY <2>2, <2>3, <2>4, <2>8 DEF Answers
  <2>6. FailsForItsSubscriptions'
    BY <2>5 DEF FailsForItsSubscriptions
  <2>7. OutputAsDeclared'
    BY <1>0, <2>2, <2>3, <2>5 DEF OutputAsDeclared, NodesDeclared, RulesDeclared
  <2> QED BY <2>5, <2>6, <2>7, <2>9 DEF Answered
<1> QED BY <1>1, <1>2, <1>3, <1>4 DEF Returns

LEMMA AnswerStep == IInv /\ Headed /\ Answered /\ [Next]_vars => Answered'
<1> SUFFICES ASSUME IInv, Headed, Answered, [Next]_vars PROVE Answered'
  OBVIOUS
<1>1. ASSUME phase # "done", answer' = answer PROVE Answered'
  <2>1. answer' = NoAnswer /\ NoAnswer.error = "pending"
    BY <1>1 DEF Answered, NoAnswer
  <2> QED BY <2>1 DEF Answered, Answers, OutputAsDeclared,
                      FailsForItsSubscriptions, UserinfoOfFirst
<1>2. CASE RunStep
  <2>1. Quiet
    BY <1>2, QuietRun
  <2> QED BY <1>1, <1>2, <2>1, ReturnAnswers, ReturnedAnswer
<1>3. ASSUME NEW i \in 1 .. MaxSources, WorkerStep(i) PROVE Answered'
  <2>1. i \in DOMAIN worker /\ worker[i] # "finished"
    BY <1>3, HasReadFacts DEF WorkerStep, Advance, Acquire, Abandon, Finish, Reading,
                              ReadStdin, ReuseStdin, KeepStdin, ReturnStdin
  <2>2. phase # "done"
    BY <2>1 DEF IInv, Working, NothingLeftBehind, Joined, Batches
  <2>3. answer' = answer
    BY <1>3 DEF WorkerStep, Advance, Acquire, Abandon, Finish, ReadStdin, ReuseStdin,
                KeepStdin, ReturnStdin
  <2> QED BY <1>1, <2>2, <2>3
<1>4. CASE Cancel
  BY <1>1, <1>4 DEF Cancel
<1>5. CASE UNCHANGED vars
  <2>1. OutputAsDeclared' = OutputAsDeclared
    BY <1>5 DEF vars, OutputAsDeclared, Contents, Sources, NamesStdinOnce, From
  <2>2. UserinfoOfFirst' = UserinfoOfFirst
    BY <1>5 DEF vars, headers, UserinfoOfFirst
  <2> QED BY <1>5, <2>1, <2>2 DEF vars, Answered, FailsForItsSubscriptions
<1> QED BY <1>2, <1>3, <1>4, <1>5 DEF Next

LEMMA AnswerAlways == Spec => [](IInv /\ Headed /\ Answered)
<1>1. Init => Answered
  <2> SUFFICES ASSUME Init PROVE Answered
    OBVIOUS
  <2>1. answer = NoAnswer /\ NoAnswer.error = "pending"
    BY DEF Init, NoAnswer
  <2> QED BY <2>1 DEF Answered, Answers, OutputAsDeclared,
                      FailsForItsSubscriptions, UserinfoOfFirst
<1>2. Init => Headed
  <2> SUFFICES ASSUME Init PROVE Headed
    OBVIOUS
  <2>1. userinfos = <<>> /\ headed = {} /\ phase = "start"
    BY DEF Init
  <2> QED BY <2>1, EmptySeq DEF Headed
<1> QED BY <1>1, <1>2, AnswerStep, HeadedStep, InvAlways, PTL DEF Spec

(* TypeOK: every variable of a conversion keeps its type, its answer       *)
(* included, whose nodes and rules are sequences of pieces.                *)
THEOREM TypeCorrect == Spec => []TypeOK
<1>1. IInv /\ Headed /\ Answered => TypeOK
  BY DEF IInv, Typed, Headed, Answered, Answers, TypeOK, WorkerStates
<1> QED BY <1>1, AnswerAlways, PTL

(* OutputAsDeclared: the nodes and the rules of a document come in the     *)
(* order in which the request and the config name their sources, none      *)
(* missing and none twice, in whatever order the sources reply.            *)
THEOREM OutputAsDeclaredAlways == Spec => []OutputAsDeclared
<1>1. Answered => OutputAsDeclared
  BY DEF Answered
<1> QED BY <1>1, AnswerAlways, PTL

(* FailsForItsSubscriptions: a failed run reports the first subscription   *)
(* that failed, and no insert source can make a run fail.                  *)
THEOREM FailsForItsSubscriptionsAlways == Spec => []FailsForItsSubscriptions
<1>1. Answered => FailsForItsSubscriptions
  BY DEF Answered
<1> QED BY <1>1, AnswerAlways, PTL

(* UserinfoOfFirst: the traffic and expiry passed on are the first         *)
(* subscription's or nobody's, in whatever order the subscriptions reply.  *)
THEOREM UserinfoOfFirstAlways == Spec => []UserinfoOfFirst
<1>1. Answered => UserinfoOfFirst
  BY DEF Answered
<1> QED BY <1>1, AnswerAlways, PTL

=============================================================================
