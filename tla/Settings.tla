------------------------------- MODULE Settings -------------------------------
(***************************************************************************)
(* internal/config: the application's settings, in layers.  The defaults   *)
(* are overridden by a YAML file, that by environment variables, and the   *)
(* address by a flag; what is left at zero is filled in, and Validate has  *)
(* the last word.                                                          *)
(*                                                                         *)
(* A setting keeps the layer it came from next to its value, and a value   *)
(* is only what becomes of it:                                             *)
(*   "empty"     the zero value: no text, the number 0, no entry           *)
(*   "blank"     white space, or a list of nothing else                    *)
(*   "negative"  a number or a duration below zero                         *)
(*   "junk"      in the environment: not of the setting's type             *)
(*   "bad"       of its type, and no parser takes it                       *)
(*   "good", "on", "off"                                                   *)
(* and of a list of proxies, which Validate and server.New each parse,     *)
(*   "address"   one whose entry is an address, where "good" is a CIDR     *)
(*   "padded"    one whose entry has white space around it                 *)
(***************************************************************************)

Urls == {"proxy", "flaresolverr_url", "default_config_url"}
Texts == Urls \cup {"listen", "api_access_token", "user_agent"}
Limits == {"timeout", "requests_per_minute", "burst"}
Numbers == Limits \cup {"cache_ttl"}
Switches == {"enabled", "insert_enabled", "insert_prepend",
             "allow_private_ips"}
Lists == {"insert_urls", "allow_private_cidrs", "trusted_proxies"}

Fields == Texts \cup Numbers \cup Switches \cup Lists

ValuesOf(f) ==
  CASE f \in Urls     -> {"empty", "blank", "bad", "good"}
    [] f \in Texts \ Urls -> {"empty", "blank", "good"}
    [] f \in Numbers  -> {"empty", "negative", "good"}
    [] f \in Switches -> {"on", "off"}
    [] f \in Lists    -> {"empty", "blank", "bad", "good"} \cup
                          IF f = "trusted_proxies" THEN {"address", "padded"} ELSE {}

\* The entries of a file; an unset variable has the value "".
FileValuesOf(f) == ValuesOf(f) \cup {"absent"}

EnvValuesOf(f) ==
  CASE f = "timeout" -> {"absent"}
    [] f \in Texts   -> (ValuesOf(f) \ {"empty"}) \cup {"absent"}
    [] f \in Lists   -> (ValuesOf(f) \ {"blank", "padded"}) \cup {"absent"}
    [] OTHER         -> ValuesOf(f) \cup {"absent", "junk"}

Setting == [from : {"default", "file", "env", "flag"},
            value : UNION {ValuesOf(f) : f \in Fields}]

-----------------------------------------------------------------------------

Default(f) ==
  [from |-> "default",
   value |-> CASE f \in Limits \cup {"listen"} -> "good"
               [] f \in Switches \ {"allow_private_ips"} -> "on"
               [] f = "allow_private_ips" -> "off"
               [] OTHER -> "empty"]

\* Default, and the file on top of it.
FromFile(entry) ==
  [f \in Fields |-> IF entry[f] = "absent" THEN Default(f)
                      ELSE [from |-> "file", value |-> entry[f]]]

\* Whether applyEnv takes notice of a variable: not if it cannot be parsed,
\* and a default_config_url is trimmed first.
Noticed(f, v) ==
  /\ v \notin {"absent", "junk"}
  /\ ~(f = "default_config_url" /\ v = "blank")

\* applyEnv.
UnderEnv(s, var) ==
  [f \in Fields |-> IF Noticed(f, var[f]) THEN [from |-> "env", value |-> var[f]]
                      ELSE s[f]]

\* Mutant of Backfilled: what is negative is filled in as well, what is zero
\* is not.
BackfilledNegative(s) ==
  [f \in Fields |-> IF f \in Limits /\ s[f].value = "negative" THEN Default(f)
                      ELSE s[f]]

\* The end of Load: numbers left at zero get their defaults back.
Backfilled(s) ==
  [f \in Fields |-> IF f \in Limits /\ s[f].value = "empty" THEN Default(f)
                      ELSE s[f]]

\* Mutant of Loaded: the file is read after the environment.
LoadedFileLast(entry, var) ==
  Backfilled([f \in Fields |-> IF entry[f] = "absent"
                                 THEN UnderEnv(FromFile(entry), var)[f]
                                 ELSE [from |-> "file", value |-> entry[f]]])

\* What Load makes of a file's entries and the environment.
Loaded(entry, var) == Backfilled(UnderEnv(FromFile(entry), var))

\* What the parsers of netip take, and what strings.TrimSpace leaves of an entry.
ParsePrefix(v) == v = "good"
ParseAddr(v)   == v = "address"
Trimmed(v) == CASE v = "padded" -> "good"
                [] v = "blank"  -> "empty"
                [] OTHER        -> v

\* What Validate refuses.  Blank entries of trusted_proxies are skipped.
Refused(f, v) ==
  \/ f = "listen" /\ v \in {"empty", "blank"}
  \/ f \in Urls /\ v \in {"blank", "bad"}
  \/ f \in Limits /\ v = "negative"
  \/ f \in Lists \ {"trusted_proxies"} /\ v \in {"blank", "bad"}
  \/ /\ f = "trusted_proxies" /\ Trimmed(v) # "empty"
     /\ ~ParsePrefix(Trimmed(v)) /\ ~ParseAddr(Trimmed(v))

\* Validate.
Valid(s) == \A f \in Fields : ~Refused(f, s[f].value)

\* The --listen flag, which an empty string leaves unset.
UnderFlag(s, listen) ==
  IF listen \in {"absent", "empty"} THEN s
    ELSE [s EXCEPT !["listen"] = [from |-> "flag", value |-> listen]]

=============================================================================
