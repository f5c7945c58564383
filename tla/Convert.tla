------------------------------ MODULE Convert -------------------------------
(***************************************************************************)
(* One conversion to Clash: convert.Run with the concurrent fetches of     *)
(* fetchAndParseAll, and GenerateClash with the concurrent ruleset fetches *)
(* of collectRules, each batch a set of goroutines that write into a slice *)
(* at their own index and that a WaitGroup joins.  The HTTP client may     *)
(* hang up at any moment (the context ends).                               *)
(*                                                                         *)
(* A list of nodes or rules is the sequence of the sources it came from:   *)
(* <<"subs", 2>> stands for all the nodes of the second subscription.      *)
(*                                                                         *)
(* A source may be '-', the standard input of the convert command, which   *)
(* its cliFetcher reads once and keeps, without a lock.                    *)
(***************************************************************************)
EXTENDS Integers, Sequences, FiniteSets, Functions

CONSTANTS
  Requests,        \* the requests: a subset of Request
  Configs,         \* the external configs: a subset of Config
  MaxConcurrent,   \* maxConcurrentRulesetFetches
  MaxSources       \* bound on the sources of a batch

\* link: a share link, which is parsed in place.
Source == {"url", "link", "stdin"}

\* supported: the target is one that render knows.  expand: the rules are
\* inlined, rather than left to rule-providers.  list: only the nodes.
Request == [supported : BOOLEAN, subs : Seq(Source), inserts : Seq(Source),
            prepend : BOOLEAN, config : BOOLEAN, expand : BOOLEAN,
            list : BOOLEAN]

\* generator: enable_rule_generator.  base: a clash_rule_base is given.
Config == [generator : BOOLEAN, rulesets : Seq({"remote", "inline"}),
           base : BOOLEAN, overwrite : BOOLEAN]

NoConfig == [generator |-> TRUE, rulesets |-> <<>>, base |-> FALSE,
             overwrite |-> FALSE]

ASSUME ConvertAssumption ==
  /\ Requests \subseteq Request
  /\ Configs \subseteq Config
  /\ MaxConcurrent \in Nat \ {0}
  /\ MaxSources \in Nat
  /\ \A r \in Requests : Len(r.subs) <= MaxSources /\ Len(r.inserts) <= MaxSources
  /\ \A c \in Configs : Len(c.rulesets) <= MaxSources

\* What a source gives: an error, nothing that can be used, or something.
Reply == {"failed", "empty", "content"}

\* What an element of a results slice holds, at first the zero value.
Result == Reply \cup {"zero"}

VARIABLES
  request,
  phase,       \* what Run is doing: "start", a batch, "config", ..., "done"
  config,      \* the parsed external config
  worker,      \* the goroutines of the batch
  slots,       \* the length of the semaphore channel
  results,     \* the results slice of each batch
  userinfos,   \* its userinfo fields for the subscriptions: whose header each
               \* holds, 0 for none
  canceled,    \* the context has ended
  answer,      \* what Run returned
  replied,     \* history: what each source of each batch replied
  headed,      \* history: the subscriptions that sent a Subscription-Userinfo
  baseReply,   \* history: what clash_rule_base was found to hold
  stdin        \* the standard input, and what the cliFetcher keeps of it

headers == <<userinfos, headed>>
vars == <<request, phase, config, worker, slots, results, canceled, answer,
          replied, headers, baseReply, stdin>>

Batches == {"subs", "inserts", "rules"}

Errors == {"target", "no url", "subscription", "no nodes", "config"}

NoAnswer == [error |-> "pending"]

\* index: which subscription failed, for the error message.
Fail(error, index) == [error |-> error, index |-> index]

Init ==
  /\ request \in Requests
  /\ phase = "start"
  /\ config = NoConfig
  /\ worker = <<>>
  /\ slots = 0
  /\ results = [b \in Batches |-> <<>>]
  /\ canceled = FALSE
  /\ answer = NoAnswer
  /\ replied = [b \in Batches |-> <<>>]
  /\ userinfos = <<>>
  /\ headed = {}
  /\ baseReply = "zero"
  /\ \E held \in IF "stdin" \in Range(request.subs) \cup Range(request.inserts)
                   THEN Reply ELSE {"empty"} :
       stdin = [holds |-> held, drained |-> FALSE, read |-> FALSE, data |-> "empty"]

-----------------------------------------------------------------------------
(* What becomes of the results.                                            *)

Failing(rs) == {i \in DOMAIN rs : rs[i] = "failed"}

\* Mutant of FirstFailing: the last error overwrites the ones before it.
LastFailing(rs) == CHOOSE i \in Failing(rs) : \A j \in Failing(rs) : j <= i

FirstFailing(rs) == CHOOSE i \in Failing(rs) : \A j \in Failing(rs) : i <= j

\* What a batch contributes, in the order of its sources: the loop over its
\* results appends what there is.
Gathered(batch, rs) ==
  LET upTo[n \in 0 .. Len(rs)] ==
        IF n = 0 THEN <<>>
          ELSE IF rs[n] = "content"
                 THEN Append(upTo[n - 1], [from |-> batch, nr |-> n])
                 ELSE upTo[n - 1]
  IN  upTo[Len(rs)]

\* The nodes of the insert sources: none if one of the sources failed.
Inserted(rs) ==
  IF Failing(rs) # {} THEN <<>> ELSE Gathered("inserts", rs)

Nodes(subs, inserts) ==
  LET own == Gathered("subs", subs)
  IN  IF request.prepend THEN Inserted(inserts) \o own
                         ELSE own \o Inserted(inserts)

\* The rules of the rulesets.  Inline rulesets and, if the rules are left to
\* rule-providers, remote ones as well need no fetch.
Rules(rs) ==
  IF ~config.generator
    THEN <<>>
    ELSE Gathered("rules",
           [i \in DOMAIN config.rulesets |->
              IF config.rulesets[i] = "inline" \/ ~request.expand
                THEN "content" ELSE rs[i]])

BaseRules == <<[from |-> "base", nr |-> 1]>>

\* The rules of the output: a base may bring rules of its own.
FinalRules(rs, base) ==
  IF base = "content" /\ ~config.overwrite THEN BaseRules ELSE Rules(rs)

\* userinfo: the subscription whose Subscription-Userinfo is passed on, 0 for
\* none.  The headers of the insert sources are thrown away.
Converted(rules) ==
  [error |-> "none",
   nodes |-> Nodes(results["subs"], results["inserts"]),
   userinfo |-> userinfos[1],
   rules |-> rules]

-----------------------------------------------------------------------------
(* The goroutines.                                                         *)

\* The goroutines of a batch are started; those of collectRules, one for each
\* remote ruleset, begin by asking for a slot.
Begin(batch, jobs) ==
  /\ phase' = batch
  /\ worker' = [i \in DOMAIN jobs |->
                  CASE batch # "rules" -> "fetching"
                    [] jobs[i] = "remote" -> "queued"
                    [] OTHER -> "finished"]
  /\ results' = [results EXCEPT ![batch] = [i \in DOMAIN jobs |-> "zero"]]
  /\ replied' = [replied EXCEPT ![batch] = [i \in DOMAIN jobs |-> "zero"]]
  /\ userinfos' = IF batch = "subs" THEN [i \in DOMAIN jobs |-> 0] ELSE userinfos
  /\ UNCHANGED headed

\* wg.Wait returns.
Joined == \A i \in DOMAIN worker : worker[i] = "finished"

\* Mutant of SlotFree: the channel has one slot too many.
SlotFreeAndOne == slots <= MaxConcurrent

SlotFree == slots < MaxConcurrent

\* sem <- struct{}{}.
Acquire(i) ==
  /\ i \in DOMAIN worker /\ worker[i] = "queued"
  /\ SlotFree
  /\ slots' = slots + 1
  /\ worker' = [worker EXCEPT ![i] = "fetching"]
  /\ UNCHANGED <<request, phase, config, results, canceled, answer, replied,
                 headers, baseReply, stdin>>

\* The ctx.Done() branch of the select.
Abandon(i) ==
  /\ i \in DOMAIN worker /\ worker[i] = "queued"
  /\ canceled
  /\ worker' = [worker EXCEPT ![i] = "finished"]
  /\ UNCHANGED <<request, phase, config, slots, results, canceled, answer,
                 replied, headers, baseReply, stdin>>

\* Mutant of Released: the slot of a fetch that failed is not given back.
ReleasedIfOk(reply) ==
  IF phase = "rules" /\ reply # "failed" THEN slots - 1 ELSE slots

\* The semaphore once a goroutine has ended.
Released(reply) == IF phase = "rules" THEN slots - 1 ELSE slots

\* Mutant of Slot: results are appended as they come.
NextSlot(i) ==
  CHOOSE j \in DOMAIN worker :
    results[phase][j] = "zero"
      /\ \A k \in DOMAIN worker : results[phase][k] = "zero" => j <= k

\* The index a goroutine writes its results at.
Slot(i) == i

\* A goroutine has the reply of its source, and ends.  A ruleset that fails
\* leaves nothing in the slice.
FinishWith(i, reply) ==
  /\ results' = [results EXCEPT ![phase][Slot(i)] =
                   IF phase = "rules" /\ reply = "failed" THEN "zero" ELSE reply]
  /\ replied' = [replied EXCEPT ![phase][i] = reply]
  /\ slots' = Released(reply)
  /\ worker' = [worker EXCEPT ![i] = "finished"]

SourceOf(i) ==
  CASE phase = "subs"    -> request.subs[i]
    [] phase = "inserts" -> request.inserts[i]
    [] OTHER             -> "url"

\* The Subscription-Userinfo that came with a reply goes where the reply goes.
KeepHeader(i) ==
  /\ userinfos' = [userinfos EXCEPT ![Slot(i)] = i]
  /\ headed' = headed \cup {i}

\* A source replies.  A link cannot fail, and has no headers.
Finish(i) ==
  /\ i \in DOMAIN worker /\ worker[i] = "fetching"
  /\ SourceOf(i) # "stdin"
  /\ \E reply \in Reply :
       /\ SourceOf(i) = "link" => reply # "failed"
       /\ FinishWith(i, reply)
       /\ \/ UNCHANGED headers
          \/ phase = "subs" /\ SourceOf(i) = "url" /\ reply # "failed" /\ KeepHeader(i)
  /\ UNCHANGED <<request, phase, config, canceled, answer, baseReply, stdin>>

\* A goroutine that has read the standard input, by what it has read.
HasRead == [content |-> "has read content", empty |-> "has read nothing"]

\* It reads the standard input.
Reading(i) ==
  /\ i \in DOMAIN worker /\ worker[i] = "fetching"
  /\ SourceOf(i) = "stdin"

\* cliFetcher: all there is to read is read, which may be nothing.
ReadStdin(i) ==
  LET got == IF stdin.drained /\ stdin.holds = "content" THEN "empty"
                                                          ELSE stdin.holds
  IN  /\ Reading(i)
      /\ ~stdin.read
      /\ IF got = "failed"
           THEN FinishWith(i, got) /\ UNCHANGED stdin
           ELSE /\ worker' = [worker EXCEPT ![i] = HasRead[got]]
                /\ stdin' = [stdin EXCEPT !.drained = TRUE]
                /\ UNCHANGED <<slots, results, replied>>
      /\ UNCHANGED <<request, phase, config, canceled, answer, headers, baseReply>>

\* cliFetcher: what was read before is returned.
ReuseStdin(i) ==
  /\ Reading(i)
  /\ stdin.read
  /\ FinishWith(i, stdin.data)
  /\ UNCHANGED <<request, phase, config, canceled, answer, headers, baseReply, stdin>>

\* Mutant of Kept: that the input has been read is not remembered.
KeptNotRead(data) == [stdin EXCEPT !.data = data]

\* What the cliFetcher keeps.
Kept(data) == [stdin EXCEPT !.data = data, !.read = TRUE]

KeepStdin(i) ==
  /\ i \in DOMAIN worker
  /\ \E data \in DOMAIN HasRead :
       worker[i] = HasRead[data] /\ stdin' = Kept(data)
  /\ worker' = [worker EXCEPT ![i] = "returning"]
  /\ UNCHANGED <<request, phase, config, slots, results, canceled, answer,
                 replied, headers, baseReply>>

\* return f.stdinData, which another goroutine may have set since.
ReturnStdin(i) ==
  /\ i \in DOMAIN worker /\ worker[i] = "returning"
  /\ FinishWith(i, stdin.data)
  /\ UNCHANGED <<request, phase, config, canceled, answer, headers, baseReply, stdin>>

-----------------------------------------------------------------------------
(* Run.                                                                    *)

Return(a) ==
  /\ phase' = "done"
  /\ answer' = a
  /\ UNCHANGED <<worker, results, replied, headers>>

Start ==
  /\ phase = "start"
  /\ \/ /\ ~request.supported
        /\ Return(Fail("target", 0))
     \/ /\ request.supported /\ request.subs = <<>>
        /\ Return(Fail("no url", 0))
     \/ /\ request.supported /\ request.subs # <<>>
        /\ Begin("subs", request.subs)
        /\ UNCHANGED answer
  /\ UNCHANGED <<request, config, slots, canceled, baseReply, stdin>>

\* Mutant of Merge: an insert source that fails makes the run fail.
MergeIfComplete ==
  IF Failing(results["inserts"]) # {}
    THEN Return(Fail("subscription", FirstFailing(results["inserts"])))
    ELSE IF Nodes(results["subs"], results["inserts"]) = <<>>
           THEN Return(Fail("no nodes", 0))
           ELSE /\ phase' = "config"
                /\ UNCHANGED <<answer, worker, results, replied, headers>>

\* The check for nodes, once the inserts are merged in.
Merge ==
  IF Nodes(results["subs"], results["inserts"]) = <<>>
    THEN Return(Fail("no nodes", 0))
    ELSE /\ phase' = "config"
         /\ UNCHANGED <<answer, worker, results, replied, headers>>

SubsJoined ==
  /\ phase = "subs"
  /\ Joined
  /\ IF Failing(results["subs"]) # {}
       THEN Return(Fail("subscription", FirstFailing(results["subs"])))
       ELSE IF request.inserts # <<>>
              THEN Begin("inserts", request.inserts) /\ UNCHANGED answer
              ELSE Merge
  /\ UNCHANGED <<request, config, slots, canceled, baseReply, stdin>>

InsertsJoined ==
  /\ phase = "inserts"
  /\ Joined
  /\ Merge
  /\ UNCHANGED <<request, config, slots, canceled, baseReply, stdin>>

\* GenerateClash up to wg.Wait in collectRules.
Generate(cfg) ==
  /\ config' = cfg
  /\ IF request.list
       THEN Return(Converted(<<>>))
       ELSE /\ Begin("rules", IF request.expand /\ cfg.generator
                                THEN cfg.rulesets ELSE <<>>)
            /\ UNCHANGED answer

\* f.Get of the external config, if there is one.
FetchConfig ==
  /\ phase = "config"
  /\ \/ ~request.config /\ Generate(NoConfig)
     \/ request.config /\ \E cfg \in Configs : Generate(cfg)
     \/ request.config /\ Return(Fail("config", 0)) /\ UNCHANGED config
  /\ UNCHANGED <<request, slots, canceled, baseReply, stdin>>

RulesJoined ==
  /\ phase = "rules"
  /\ Joined
  /\ IF config.base
       THEN phase' = "base" /\ UNCHANGED <<answer, worker, results, replied, headers>>
       ELSE Return(Converted(Rules(results["rules"])))
  /\ UNCHANGED <<request, config, slots, canceled, baseReply, stdin>>

\* f.Get of clash_rule_base: it fails, has no rules, or has some.
FetchBase ==
  /\ phase = "base"
  /\ \E base \in Reply :
       /\ baseReply' = base
       /\ Return(Converted(FinalRules(results["rules"], base)))
  /\ UNCHANGED <<request, config, slots, canceled, stdin>>

\* The HTTP client hangs up.
Cancel ==
  /\ phase # "done"
  /\ ~canceled
  /\ canceled' = TRUE
  /\ UNCHANGED <<request, phase, config, worker, slots, results, answer,
                 replied, headers, baseReply, stdin>>

\* What a goroutine does in bounded time.
Advance(i) ==
  \/ Acquire(i) \/ Abandon(i) \/ Finish(i)
  \/ ReuseStdin(i) \/ KeepStdin(i) \/ ReturnStdin(i)

WorkerStep(i) == Advance(i) \/ ReadStdin(i)

RunStep ==
  Start \/ SubsJoined \/ InsertsJoined \/ FetchConfig \/ RulesJoined \/ FetchBase

Next ==
  \/ RunStep
  \/ \E i \in 1 .. MaxSources : WorkerStep(i)
  \/ Cancel

Spec == Init /\ [][Next]_vars

(* Run and its goroutines go on when they can, and a fetch returns sooner  *)
(* or later (Fetch, EveryCallReturns; a file is taken to be a regular      *)
(* one).  io.ReadAll(os.Stdin) knows no context and no timeout: it may     *)
(* wait for ever, so ReadStdin has no fairness.  No client has to hang up. *)
Fairness ==
  /\ WF_vars(RunStep)
  /\ \A i \in 1 .. MaxSources : WF_vars(Advance(i))

FairSpec == Spec /\ Fairness

-----------------------------------------------------------------------------
(* Properties.                                                             *)

Gatherings(batches) == Seq([from : batches, nr : Nat])

TypeOK ==
  /\ request \in Requests
  /\ phase \in Batches \cup {"start", "config", "base", "done"}
  /\ config \in Configs \cup {NoConfig}
  /\ worker \in Seq({"queued", "fetching", "returning", "finished"}
                     \cup Range(HasRead))
  /\ slots \in 0 .. MaxConcurrent
  /\ results \in [Batches -> Seq(Result)]
  /\ canceled \in BOOLEAN
  /\ answer \in [error : Errors, index : Nat]
               \cup [error : {"none"}, nodes : Gatherings({"subs", "inserts"}),
                     userinfo : 0 .. MaxSources, rules : Gatherings({"rules", "base"})]
               \cup {NoAnswer}
  /\ replied \in [Batches -> Seq(Result)]
  /\ userinfos \in Seq(0 .. MaxSources)
  /\ headed \subseteq 1 .. MaxSources
  /\ baseReply \in Result
  /\ stdin \in [holds : Reply, drained : BOOLEAN, read : BOOLEAN,
               data : {"empty", "content"}]

Sources(batch) == IF batch = "subs" THEN request.subs ELSE request.inserts

NamesStdinOnce(batch) ==
  \A i, j \in DOMAIN Sources(batch) :
    Sources(batch)[i] = "stdin" /\ Sources(batch)[j] = "stdin" => i = j

\* The sources of a batch that had something to give: for '-', what the
\* standard input held.
Contents(batch) ==
  {i \in DOMAIN replied[batch] :
     IF /\ batch # "rules"
        /\ Sources(batch)[i] = "stdin"
        /\ NamesStdinOnce("subs") /\ NamesStdinOnce("inserts")
       THEN stdin.holds = "content"
       ELSE replied[batch][i] = "content"}

From(seq, batch) == {seq[k].nr : k \in {l \in DOMAIN seq : seq[l].from = batch}}

(* The nodes and the rules of the output come in the order the request and *)
(* the config name their sources in, none missing, none twice, whatever    *)
(* order the sources reply in; the standard input is there as a whole for  *)
(* everyone that names it, if no batch does so twice (convert.go,          *)
(* fetchAndParseAll; common.go, collectRules: "assembled in declared       *)
(* order"; main.go, cliFetcher).                                           *)
OutputAsDeclared ==
  answer.error = "none" =>
    LET nodes == answer.nodes
        rules == answer.rules
    IN  /\ From(nodes, "subs") = Contents("subs")
        /\ From(nodes, "inserts") = IF Failing(replied["inserts"]) = {}
                                      THEN Contents("inserts") ELSE {}
        /\ \A i, j \in DOMAIN nodes :
             i < j => \/ nodes[i].from = nodes[j].from
                         /\ nodes[i].nr < nodes[j].nr
                      \/ nodes[i].from # nodes[j].from
                         /\ (nodes[i].from = "inserts") = request.prepend
        /\ rules # BaseRules /\ request.expand =>
             \A i \in DOMAIN replied["rules"] :
               i \in From(rules, "rules") <=>
                 config.rulesets[i] = "inline" \/ i \in Contents("rules")
        /\ \A i, j \in DOMAIN rules : i < j => rules[i].nr < rules[j].nr

(* A run that fails over its nodes fails because of the subscriptions: the *)
(* first that failed is the one that is reported, whichever failed first,  *)
(* and no insert source can make a run fail that would have succeeded      *)
(* without ("Failures are non-fatal (the user's own subscription must      *)
(* still convert)", convert.go, Run and fetchAndParseAll).                 *)
FailsForItsSubscriptions ==
  /\ answer.error = "subscription" =>
       /\ replied["subs"][answer.index] = "failed"
       /\ \A i \in 1 .. answer.index - 1 :
            replied["subs"][i] \in {"empty", "content"}
  /\ answer.error = "no nodes" => Gathered("subs", replied["subs"]) = <<>>

(* The semaphore counts the rulesets that are being fetched, and every     *)
(* slot is given back, also by the fetches that fail (collectRules).       *)
SlotsAccounted ==
  slots = IF phase = "rules"
            THEN Cardinality({i \in DOMAIN worker : worker[i] = "fetching"})
            ELSE 0

(* The traffic and expiry a client is shown are those of the first         *)
(* subscription, or none if it sent none, whichever subscription replied   *)
(* first and wherever the nodes of the output come from (convert.go:       *)
(* "Userinfo comes from the first subscription URL only").                 *)
UserinfoOfFirst ==
  answer.error = "none" =>
    answer.userinfo = IF 1 \in headed THEN 1 ELSE 0

(* Run returns, whatever its sources reply, however many of them fail and  *)
(* whether or not the client hangs up while some wait for a slot, unless a *)
(* goroutine waits for a standard input that never ends (main.go, 149).    *)
EveryRunReturns ==
  \/ <>(phase = "done")
  \/ <>[](\E i \in 1 .. MaxSources : Reading(i) /\ ~stdin.read)

=============================================================================
