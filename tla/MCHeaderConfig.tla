--------------------------- MODULE MCHeaderConfig ---------------------------
(***************************************************************************)
(* Instances of HeaderConfig, and so of Includes, for TLC.  Of the headers *)
(* of a source file, four may include one another and themselves in every  *)
(* way: "a", which a link also names, "b", and "d", which has the basename *)
(* of "a" (as sys/signal.h has that of signal.h).  The configuration is    *)
(* read for the translation units of five of which some include others.    *)
(***************************************************************************)
EXTENDS HeaderConfig

MCFile == {"a", "b", "c", "d", "e", "link"}

MCFileID == [f \in MCFile |-> IF f = "link" THEN "a" ELSE f]

MCBasename == [f \in MCFile |-> IF f = "d" THEN "a" ELSE f]

AnyInclude ==
  LET headers == {"a", "b", "d", "link"}
  IN  (headers \cup {MAIN}) \X headers \cup {<<MAIN, NULL>>, <<"b", NULL>>}

ConfigInclude == {<<MAIN, "a">>, <<MAIN, "c">>, <<MAIN, "e">>,
                  <<"a", "b">>, <<"a", "d">>, <<"a", "e">>, <<"b", "c">>}

MCMayInclude == AnyInclude \cup ConfigInclude

Proxy(to, matches) == [to |-> to, matches |-> matches]

Handle(handle, matches) == [handling |-> handle, matches |-> matches]

\* Two keys that together would make a cycle, and two that give the same header
\* different proxies.
MCProxyKeys == {Proxy("a", {"b"}), Proxy("b", {"a"}),
                Proxy("c", {"d"}), Proxy("e", {"d"})}

MCHandleKeys == {Handle("KEEP", {"a", "b"}), Handle("ELIDE", {"b"})}

MCSymbolKeys == {[sym |-> "s", inc |-> "e"]}

MCIgnoreKeys == {[ignore |-> "s"], [ignore |-> MAIN]}

\* "d" is a proxy for "c"; and "c" for every include file whose path ends with
\* its name, as [lib/c.h] with proxy = "c.h" has it.
OverrideProxyKeys == {Proxy("d", {"c"}), Proxy("c", {"c"})}

\* Is the configuration read for this translation unit?
ReadsConfig ==
  \A i \in 1..Len(tu) : <<tu[i].includer, tu[i].included>> \in ConfigInclude

\* The program has returned, or main() is about to go on.
Finished ==
  /\ \/ pc \in {"exit", "source_check_for_errors", "tidy_status"}
     \/ pc = "config_init" /\ ~ReadsConfig
  /\ UNCHANGED headerConfigVars

MCStep == HeaderConfigStep /\ (pc = "config_init" => ReadsConfig)

MCSpec == HeaderConfigInit /\ [][MCStep \/ Finished]_headerConfigVars
=============================================================================
