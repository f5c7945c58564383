----------------------------- MODULE MCService ------------------------------
(* Instances of Service: launches that differ in one setting and are asked *)
(* nothing, and a few settings that two clients put requests to.           *)
EXTENDS Service

Silent(domain) == [x \in domain |-> "absent"]

NoRequests == [c \in Clients |-> NoRequest]

\* One setting, in the file, in the environment and as a flag.
OneSetting ==
  UNION {{[file |-> "document", entry |-> [Silent(Fields) EXCEPT ![f] = e],
           var |-> [Silent(Fields) EXCEPT ![f] = v],
           listen |-> listen, request |-> NoRequests] :
             e \in FileValuesOf(f), v \in EnvValuesOf(f),
             listen \in IF f = "listen" THEN ValuesOf(f) \cup {"absent"}
                                        ELSE {"absent"}} : f \in Fields}

OtherFiles ==
  {[file |-> file, entry |-> Silent(Fields), var |-> Silent(Fields),
    listen |-> "absent", request |-> NoRequests] :
      file \in {"missing", "malformed", "unreadable"}}

\* A launch with the settings of a file that are given, and two requests.
Asked(settings, first, second) ==
  [file |-> "document",
   entry |-> [f \in Fields |-> IF f \in DOMAIN settings THEN settings[f]
                                                        ELSE "absent"],
   var |-> Silent(Fields), listen |-> "absent",
   request |-> [c \in Clients |-> IF c = "first" THEN first ELSE second]]

Plain ==
  [path |-> "sub", tokens |-> <<"none", "none", "none">>, remote |-> "a",
   xff |-> "none", xrip |-> "none", url |-> "given", flush |-> FALSE,
   proxy |-> "none", supported |-> TRUE, insert |-> "unset", config |-> FALSE]

Guarded == [api_access_token |-> "good", trusted_proxies |-> "good"]

\* Who may come in: tokens, and addresses that are claimed.
Admission ==
  {Asked(settings, [Plain EXCEPT !.path = "flushcache", !.tokens = t,
                                 !.remote = remote, !.xff = xff, !.xrip = "b"],
         [Plain EXCEPT !.path = path, !.tokens = <<"right", "none", "none">>]) :
     settings \in {Guarded, [trusted_proxies |-> "good"],
                   [enabled |-> "off", cache_ttl |-> "negative"]},
     t \in {<<"none", "none", "none">>, <<"wrong", "none", "right">>,
            <<"none", "right", "wrong">>},
     remote \in {"a", "p"}, xff \in {"none", "a"},
     path \in {"flushcache", "healthz"}}

\* What handleSub refuses, before or after it has flushed the cache.
Parameters ==
  {Asked(settings, [Plain EXCEPT !.url = url, !.flush = flush, !.proxy = proxy,
                                 !.supported = supported],
         NoRequest) :
     settings \in {<<>>, [allow_private_ips |-> "on", cache_ttl |-> "negative"]},
     url \in {"missing", "separators", "given"}, flush \in BOOLEAN,
     proxy \in {"none", "public", "private", "unparsable"},
     supported \in BOOLEAN}

\* Conversions, long and short ones, alone and two at a time.
Conversions ==
  {Asked(settings, [Plain EXCEPT !.insert = insert, !.config = config], NoRequest) :
     settings \in {[insert_urls |-> "good"],
                   [insert_urls |-> "good", insert_enabled |-> "off",
                    default_config_url |-> "good"]},
     insert \in {"unset", "on", "off"}, config \in BOOLEAN}
  \cup
  {Asked([insert_urls |-> "good"], Plain,
         [Plain EXCEPT !.insert = "off", !.remote = remote, !.path = path]) :
     remote \in {"a", "b"}, path \in {"sub", "readyz"}}

AnyRun == OneSetting \cup OtherFiles \cup Admission \cup Parameters \cup Conversions

=============================================================================
