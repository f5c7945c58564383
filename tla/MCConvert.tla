----------------------------- MODULE MCConvert ------------------------------
(* Instances of Convert: the requests and the external configs.            *)
EXTENDS Convert

Asking(subs, inserts, prepends, configs, expands, lists) ==
  [supported : {TRUE}, subs : subs, inserts : inserts, prepend : prepends,
   config : configs, expand : expands, list : lists]

Refused == {[supported |-> FALSE, subs |-> <<"url">>, inserts |-> <<>>,
             prepend |-> FALSE, config |-> FALSE, expand |-> TRUE,
             list |-> FALSE]}

AnyRequest ==
  Asking({<<>>, <<"link", "url">>, <<"url", "url">>},
         {<<>>, <<"url", "url">>}, BOOLEAN, BOOLEAN, BOOLEAN, BOOLEAN)
    \cup Asking({<<"stdin", "url">>, <<"stdin", "stdin">>},
                {<<>>, <<"stdin">>}, {TRUE}, {FALSE}, {TRUE}, {TRUE})
    \cup Refused

AnyConfig ==
  [generator : BOOLEAN, base : BOOLEAN, overwrite : BOOLEAN,
   rulesets : {<<"remote", "inline", "remote", "remote">>}]

=============================================================================
