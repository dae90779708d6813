---------------------------- MODULE HeaderConfig ----------------------------
(***************************************************************************)
(* What the header, source and symbol tables of the configuration files do *)
(* to the set of include files: the parse functions of config_file.c that  *)
(* config_parse() calls for "proxy", "keep", "keep-includes",              *)
(* "elide-includes", "includes", "symbols", "ignore", "ignore-symbols" and *)
(* "ignore-as-argument".                                                   *)
(*                                                                         *)
(* A key is one string of a value.  "proxy" and handling keys hold for     *)
(* every include file whose absolute path ends with a given relative path: *)
(* its matches.  Keys are parsed in the order of the configuration files,  *)
(* which is any order, and the matches of a key in the order of the hash   *)
(* table, which is any order too.                                          *)
(***************************************************************************)
EXTENDS Includes

CONSTANTS
  Symbol,       \* names of symbols
  ProxyKeys,    \* [to, matches]: to is a proxy for the matches
  HandleKeys,   \* [handling, matches]: keep or elide the matches
  SymbolKeys,   \* [sym, inc]: the file inc declares the symbol sym
  IgnoreKeys    \* [ignore]: a symbol, or the source file (MAIN), to be ignored

Handling == {"DEFAULT", "ELIDE", "KEEP"}

ASSUME KeysAssumption ==
  /\ ProxyKeys \subseteq [to : Id, matches : SUBSET Id]
  /\ HandleKeys \subseteq [handling : {"ELIDE", "KEEP"}, matches : SUBSET Id]
  /\ SymbolKeys \subseteq [sym : Symbol, inc : File]
  /\ IgnoreKeys \subseteq [ignore : Symbol \cup {MAIN}]
  /\ MAIN \notin Symbol
  /\ NULL \notin ProxyKeys

VARIABLES
  todo,               \* the keys config_parse() has not met yet
  key,                \* the "proxy" key being parsed, if any
  matching,           \* the matches proxy_parse_string() has still to visit
  proxy,              \* tidy_include::proxy
  is_proxy_explicit,  \* tidy_include::is_proxy_explicit
  handling,           \* tidy_include::handling
  symbol_includes,    \* to_include_array of each symbol's symbol_includes
  ignore_symbol_set,
  is_ignored,         \* tidy_source::is_ignored
  error_count         \* whether an error was found in a configuration file

keyVars   == <<todo, key, matching>>
proxyVars == <<proxy, is_proxy_explicit>>
tableVars == <<handling, symbol_includes, ignore_symbol_set, is_ignored,
               error_count>>

configVars  == <<keyVars, proxyVars, tableVars>>

HeaderConfigTypeOK ==
  /\ IncludesTypeOK
  /\ todo \in SUBSET (ProxyKeys \cup HandleKeys \cup SymbolKeys \cup IgnoreKeys)
  /\ key \in ProxyKeys \cup {NULL}
  /\ matching \in SUBSET Id
  /\ proxy \in [Id -> Id \cup {NULL}]
  /\ is_proxy_explicit \in [Id -> BOOLEAN]
  /\ handling \in [Id -> Handling]
  /\ symbol_includes \in [Symbol -> Seq(Id)]
  /\ ignore_symbol_set \in SUBSET Symbol
  /\ is_ignored \in BOOLEAN
  /\ error_count \in BOOLEAN

HeaderConfigInit ==
  /\ IncludesInit
  /\ todo = ProxyKeys \cup HandleKeys \cup SymbolKeys \cup IgnoreKeys
  /\ key = NULL
  /\ matching = {}
  /\ proxy = [h \in Id |-> NULL]
  /\ is_proxy_explicit = [h \in Id |-> FALSE]
  /\ handling = [h \in Id |-> "DEFAULT"]
  /\ symbol_includes = [s \in Symbol |-> <<>>]
  /\ ignore_symbol_set = {}
  /\ is_ignored = FALSE
  /\ error_count = FALSE

-----------------------------------------------------------------------------
(***************************************************************************)
(* Chains of proxies.  The program follows them with loops of the form     *)
(* while ( include->proxy != NULL ).                                       *)
(***************************************************************************)

Closed(S) == \A h \in S : proxy[h] # NULL => proxy[h] \in S

\* y is on the chain of proxies that starts at x.
OnChain(x, y) == \A S \in SUBSET Id : x \in S /\ Closed(S) => y \in S

\* r is where the loop of include_get_proxy() stops when it starts at x.
IsRoot(x, r) == OnChain(x, r) /\ proxy[r] = NULL

\* include_get_proxy() returns.
ChainEnds(x) == \E r \in Id : IsRoot(x, r)

\* Mutant of include_get_proxy(): proxies are not followed.
include_get_itself(x) == x

include_get_proxy(x) == CHOOSE r \in Id : IsRoot(x, r)

\* Mutant of include_proxy_would_cycle(): only the first link is looked at.
include_proxy_is_cycle(from, to) == from = to

include_proxy_would_cycle(from, to) == OnChain(to, from)

-----------------------------------------------------------------------------
ParsingKeys == pc = "config_init" /\ key = NULL

\* proxy_parse_string(): the table names the proxy, which has to be included;
\* the loop over tidy_include_set is ProxyMatch.
ProxyKey(k) ==
  /\ ParsingKeys
  /\ k \in todo
  /\ todo' = todo \ {k}
  /\ IF k.to \in included
       THEN key' = k /\ matching' = k.matches \cap included
       ELSE UNCHANGED <<key, matching>>
  /\ UNCHANGED <<pc, status, pos, tuVars, includeVars, proxyVars, tableVars>>

\* Mutant of more_direct().
less_direct(to, old) == depth[to] > depth[old]

more_direct(to, old) == depth[to] < depth[old]

\* One iteration of that loop for the match from: a proxy is replaced by one
\* that is included more directly; there is none: it is set, unless that would
\* make a cycle, which is warned about.  A walk that does not end is a step
\* that is never taken.
ProxyMatch(from) ==
  LET to == key.to
  IN  /\ pc = "config_init" /\ key # NULL
      /\ from \in matching
      /\ matching' = matching \ {from}
      /\ \/ /\ proxy[from] # NULL
            /\ proxy' = [proxy EXCEPT ![from] =
                           IF more_direct(to, @) THEN to ELSE @]
            /\ UNCHANGED is_proxy_explicit
         \/ /\ proxy[from] = NULL
            /\ include_proxy_would_cycle(from, to)
            /\ UNCHANGED proxyVars
         \/ /\ proxy[from] = NULL
            /\ ~include_proxy_would_cycle(from, to)
            /\ ChainEnds(to)
            /\ proxy' = [proxy EXCEPT ![from] = to]
            /\ is_proxy_explicit' = [is_proxy_explicit EXCEPT ![from] = TRUE]
      /\ UNCHANGED <<pc, status, pos, tuVars, includeVars, todo, key, tableVars>>

ProxyKeyDone ==
  /\ pc = "config_init" /\ key # NULL
  /\ matching = {}
  /\ key' = NULL
  /\ UNCHANGED <<pc, status, pos, tuVars, includeVars, todo, matching,
                 proxyVars, tableVars>>

\* Mutant of Conflicts(): the last match decides.
AllConflict(k, match) ==
  match # {} /\ \A h \in match : handling[h] \notin {"DEFAULT", k.handling}

\* A match of k is handled in the other way already.
Conflicts(k, match) == \E h \in match : handling[h] \notin {"DEFAULT", k.handling}

\* include_handle().
HandleKey(k) ==
  LET match == k.matches \cap included
  IN  /\ ParsingKeys
      /\ k \in todo
      /\ todo' = todo \ {k}
      /\ handling' = [h \in Id |-> IF h \in match /\ handling[h] = "DEFAULT"
                                   THEN k.handling ELSE handling[h]]
      /\ error_count' = (error_count \/ Conflicts(k, match))
      /\ UNCHANGED <<pc, status, pos, tuVars, includeVars, key, matching,
                     proxyVars, symbol_includes, ignore_symbol_set, is_ignored>>

depth_of_added == 1

\* includes_parse_string() and symbols_parse_string(): a file that is not
\* included gets an entry; symbol_include_add() adds it to the
\* symbol's files unless it is one already.
SymbolKey(k) ==
  LET h == FileID[k.inc]
      s == k.sym
      has == \E i \in 1..Len(symbol_includes[s]) : symbol_includes[s][i] = h
  IN  /\ ParsingKeys
      /\ k \in todo
      /\ todo' = todo \ {k}
      /\ symbol_includes' =
           [symbol_includes EXCEPT ![s] = IF has THEN @ ELSE Append(@, h)]
      /\ IF h \in included
           THEN UNCHANGED <<included, file, depth>>
           ELSE /\ included' = included \cup {h}
                /\ file' = [file EXCEPT ![h] = k.inc]
                /\ depth' = [depth EXCEPT ![h] = depth_of_added]
      /\ UNCHANGED <<pc, status, pos, tuVars, includer, lines, key, matching,
                     proxyVars, handling, ignore_symbol_set, is_ignored, error_count>>

ignores_symbol(k) == k.ignore # MAIN

\* ignore_parse() and ignore_symbols_parse_string().
IgnoreSymbol(k) ==
  /\ ParsingKeys
  /\ k \in todo
  /\ ignores_symbol(k)
  /\ todo' = todo \ {k}
  /\ ignore_symbol_set' = ignore_symbol_set \cup {k.ignore}
  /\ UNCHANGED <<pc, status, pos, tuVars, includeVars, key, matching, proxyVars,
                 handling, symbol_includes, is_ignored, error_count>>

\* ignore_as_argument_parse() for the source file being tidied; the key's value
\* is either Boolean.
IgnoreSource(k) ==
  /\ ParsingKeys
  /\ k \in todo
  /\ ~ignores_symbol(k)
  /\ todo' = todo \ {k}
  /\ \E value \in BOOLEAN : is_ignored' = (is_ignored \/ value)
  /\ UNCHANGED <<pc, status, pos, tuVars, includeVars, key, matching, proxyVars,
                 handling, symbol_includes, ignore_symbol_set, error_count>>

\* A configuration file was parsed and had an error: exit( EX_CONFIG ).  The
\* keys left are those of the files after it.
ConfigError ==
  /\ ParsingKeys
  /\ error_count
  /\ pc' = "exit"
  /\ status' = "EX_CONFIG"
  /\ UNCHANGED <<pos, tuVars, includeVars, configVars>>

\* All of them were parsed without errors: main() goes on, and skips the rest
\* of its work if the source file is to be ignored.
ConfigDone ==
  /\ ParsingKeys
  /\ todo = {}
  /\ ~error_count
  /\ pc' = IF is_ignored THEN "tidy_status" ELSE "source_check_for_errors"
  /\ UNCHANGED <<status, pos, tuVars, includeVars, configVars>>

ConfigStep ==
  \/ \E k \in ProxyKeys : ProxyKey(k)
  \/ \E from \in Id : ProxyMatch(from)
  \/ ProxyKeyDone
  \/ \E k \in HandleKeys : HandleKey(k)
  \/ \E k \in SymbolKeys : SymbolKey(k)
  \/ \E k \in IgnoreKeys : IgnoreSymbol(k) \/ IgnoreSource(k)
  \/ ConfigError
  \/ ConfigDone

headerConfigVars == <<includesVars, configVars>>

HeaderConfigStep ==
  (IncludesStep /\ UNCHANGED configVars) \/ ConfigStep

HeaderConfigSpec ==
  HeaderConfigInit /\ [][HeaderConfigStep]_headerConfigVars

-----------------------------------------------------------------------------
\* h was included when the configuration was parsed, rather than added by it.
FromSource(h) == \E i \in 1..Len(tu) : Names(i, h)

ConfigParsed == pc \notin {"source_init", "includes_init", "config_init", "exit"}

\* Proxies make no cycle: every set of include files has one whose proxy, if
\* any, is outside the set.  It is what include_proxy_would_cycle() is for, and
\* without it the loops that follow proxies do not end.
ProxyAcyclic ==
  \A S \in SUBSET Id : S # {} => \E h \in S : proxy[h] \notin S

\* If an include file is given two proxies, no key gives either of them a proxy
\* of its own.
SafeKeys ==
  \A k1, k2 \in ProxyKeys :
    k1 # k2 /\ k1.matches \cap k2.matches # {} =>
      \A k \in ProxyKeys : k1.to \notin k.matches /\ k2.to \notin k.matches

\* No key gives the proxies of from a proxy of their own.
RootProxies(from) ==
  \A k \in ProxyKeys : from \in k.matches =>
    \A j \in ProxyKeys : k.to \notin j.matches

\* If keys give an include file proxies, it has one, and of several the one that
\* was included most directly ("just pick the one that's more directly
\* included"), whatever the order of the keys and of their matches.  Where the
\* proxies have proxies themselves neither is so: a key may be refused for a
\* cycle that a later one takes away again.
MostDirectProxy ==
  pc = "source_check_for_errors" =>
    \A k \in ProxyKeys : \A from \in k.matches :
      FromSource(k.to) /\ FromSource(from) /\ RootProxies(from) =>
        proxy[from] # NULL /\ depth[proxy[from]] <= depth[k.to]

\* Two keys that want to handle the same include file in different ways never
\* go unnoticed: the program does not get past the configuration files.
ConflictIsError ==
  ConfigParsed =>
    \A k1, k2 \in HandleKeys :
      (\E h \in k1.matches \cap k2.matches : FromSource(h)) =>
         k1.handling = k2.handling

=============================================================================
