-------------------------------- MODULE Tidy --------------------------------
(***************************************************************************)
(* include-tidy as main() runs it: the include files of the translation    *)
(* unit, the configuration, the implicit proxies (module Proxies), the     *)
(* symbols the source file references, the report of the includes that are *)
(* missing or unnecessary, and the exit status.                            *)
(***************************************************************************)
EXTENDS Proxies, FiniteSetsExt

CONSTANTS
  Declares,     \* Declares[s]: the file that declares the symbol s, or MAIN
  Associated,   \* the IDs whose path is that of the source's associated header
  MaxRefs       \* bound: the references to one symbol

ASSUME TidyAssumption ==
  /\ Declares \in [Symbol -> File \cup {MAIN}]
  /\ Associated \subseteq Id
  /\ MaxRefs \in Nat

VARIABLES
  opt_all_includes,      \* --all-includes
  opt_error,             \* --error
  is_needed,             \* tidy_include::is_needed
  symbol_set,            \* tidy_include::symbol_set
  ref_count,             \* tidy_symbol::ref_count
  includes_missing,      \* tidy_source::includes_missing
  includes_unnecessary,  \* tidy_source::includes_unnecessary
  report                 \* the lines printed

optVars    == <<opt_all_includes, opt_error>>
symbolVars == <<is_needed, symbol_set, ref_count>>
reportVars == <<includes_missing, includes_unnecessary, report>>

tidyVars == <<proxiesVars, optVars, symbolVars, reportVars>>

TidyInit ==
  /\ HeaderConfigInit
  /\ opt_all_includes \in BOOLEAN
  /\ opt_error \in {"ALWAYS", "NEVER", "VIOLATIONS"}
  /\ is_needed = [h \in Id |-> FALSE]
  /\ symbol_set = [h \in Id |-> {}]
  /\ ref_count = [s \in Symbol |-> 0]
  /\ includes_missing = 0
  /\ includes_unnecessary = 0
  /\ report = {}

-----------------------------------------------------------------------------
\* The headers the configuration lists for s, after following their proxies.
ListedRoots(s) ==
  [i \in 1..Len(symbol_includes[s]) |-> include_get_proxy(symbol_includes[s][i])]

\* Mutant of config_symbol_get_include(): the first one.
config_symbol_get_first(s) == ListedRoots(s)[1]

\* Those the loop looks at: none after one that is direct.
LookedAt(s) ==
  LET inc == symbol_includes[s]
      IsDirect(h) == ChainEnds(h) /\ depth[include_get_proxy(h)] = 0
  IN  {i \in 1..Len(inc) : \A j \in 1..(i - 1) : ~IsDirect(inc[j])}

\* config_symbol_get_include(): the first of them of least depth.
config_symbol_get_include(s) ==
  LET r == ListedRoots(s)
  IN  r[CHOOSE i \in LookedAt(s) : \A j \in LookedAt(s) :
          depth[r[i]] < depth[r[j]] \/ (depth[r[i]] = depth[r[j]] /\ i <= j)]

\* The include file that has to be included for s: the one the configuration
\* has for it, or else the proxy of the file that declares it.
IncludeFor(s) ==
  IF symbol_includes[s] # <<>> THEN config_symbol_get_include(s)
  ELSE include_get_proxy(FileID[Declares[s]])

\* The loops over proxies that lead there end.
IncludeForEnds(s) ==
  IF symbol_includes[s] = <<>> THEN ChainEnds(FileID[Declares[s]])
  ELSE \A i \in LookedAt(s) : ChainEnds(symbol_includes[s][i])

\* The source file references a symbol that a file it includes declares:
\* add_symbol() and include_add_symbol(), unless it is to be ignored.  If the
\* proxies lead nowhere, include_get_proxy() is where the program stays.
add_symbol(s) ==
  LET h == IncludeFor(s)
  IN  /\ pc = "symbols_init"
      /\ Declares[s] # MAIN
      /\ FromSource(FileID[Declares[s]])
      /\ s \notin ignore_symbol_set
      /\ ref_count[s] < MaxRefs
      /\ ref_count' = [ref_count EXCEPT ![s] = @ + 1]
      /\ IF IncludeForEnds(s)
           THEN /\ is_needed' = [is_needed EXCEPT ![h] = TRUE]
                /\ symbol_set' = [symbol_set EXCEPT ![h] = @ \cup {s}]
                /\ UNCHANGED pc
           ELSE /\ pc' = "include_get_proxy"
                /\ UNCHANGED <<is_needed, symbol_set>>
      /\ UNCHANGED <<status, pos, tuVars, includeVars, configVars, optVars,
                     reportVars>>

SymbolsDone ==
  /\ pc = "symbols_init"
  /\ pc' = "includes_print"
  /\ UNCHANGED <<status, pos, tuVars, includeVars, configVars, optVars,
                 symbolVars, reportVars>>

-----------------------------------------------------------------------------
(***************************************************************************)
(* includes_print().  needed is is_needed once the associated header, if   *)
(* any, was marked.                                                        *)
(***************************************************************************)

\* Mutant of should_print_include().
should_print_change(h, needed) == needed[h] # (depth[h] = 0)

should_print_include(h, needed) ==
  \/ Len(lines[h]) > 1
  \/ /\ ~(needed[h] /\ handling[h] = "ELIDE")
     /\ \/ opt_all_includes /\ (needed[h] \/ handling[h] = "KEEP")
        \/ needed[h] # (depth[h] = 0)

\* Mutant of Duplicates(): the length is not looked at first.
DuplicatesOfAny(h) == Len(lines[h]) - 1

\* How many of the lines of h repeat the first one.
Duplicates(h) == IF Len(lines[h]) > 1 THEN Len(lines[h]) - 1 ELSE 0

When(condition, line) == IF condition THEN {line} ELSE {}

\* What maybe_print_include() prints for h.  The first of no lines, which the
\* code reads past the end of an array, is NULL.
maybe_print_include(h, needed) ==
  LET keep   == handling[h] = "KEEP"
      direct == depth[h] = 0
      first  == IF lines[h] = <<>> THEN NULL ELSE lines[h][1]
  IN  IF keep /\ ~opt_all_includes THEN {}
      ELSE When(/\ needed[h] \/ keep
                /\ direct \/ keep
                /\ opt_all_includes, [print |-> "SHOW", inc |-> h])
           \cup
           When(needed[h] /\ ~keep /\ ~direct, [print |-> "ADD", inc |-> h])
           \cup
           When(~needed[h] /\ ~keep /\ direct,
                [print |-> "DELETE", inc |-> h, line |-> first])
           \cup
           {[print |-> "DELETE", inc |-> h, line |-> lines[h][i]] :
              i \in 2..Len(lines[h])}

\* get_associated_header(): the first match in the hash table, if any.
get_associated_header ==
  LET match == {h \in Associated \cap included : is_local(h)}
  IN  IF match = {} THEN {{}} ELSE {{h} : h \in match}

includes_print ==
  /\ pc = "includes_print"
  /\ \E assoc \in get_associated_header :
       LET needed == [h \in Id |-> is_needed[h] \/ h \in assoc]
           shown  == {h \in included : should_print_include(h, needed)}
       IN  /\ is_needed' = needed
           /\ includes_missing' =
                Cardinality({h \in shown : /\ handling[h] # "KEEP"
                                           /\ needed[h]
                                           /\ depth[h] > 0})
           /\ includes_unnecessary' =
                Cardinality({h \in shown : handling[h] # "KEEP" /\ ~needed[h]})
                + MapThenSumSet(Duplicates, shown)
           /\ report' = UNION {maybe_print_include(h, needed) : h \in shown}
  /\ pc' = "tidy_status"
  /\ UNCHANGED <<status, pos, tuVars, includeVars, configVars, optVars,
                 symbol_set, ref_count>>

\* Mutant of HasViolations.
HasBothViolations == includes_missing > 0 /\ includes_unnecessary > 0

HasViolations == includes_missing > 0 \/ includes_unnecessary > 0

\* tidy_status(), and the return from main().
tidy_status ==
  /\ pc = "tidy_status"
  /\ pc' = "exit"
  /\ status' = IF opt_error = "NEVER" THEN "EX_OK"
               ELSE IF HasViolations THEN "TIDY_EX_VIOLATIONS"
               ELSE IF opt_error = "ALWAYS" THEN "TIDY_EX_NO_VIOLATIONS_ERROR"
               ELSE "EX_OK"
  /\ UNCHANGED <<pos, tuVars, includeVars, configVars, optVars, symbolVars,
                 reportVars>>

\* The program has exited, or is in a loop it does not leave.
Stopped == pc \in {"exit", "include_get_proxy"} /\ UNCHANGED tidyVars

TidyStep ==
  \/ ProxiesStep /\ UNCHANGED <<optVars, symbolVars, reportVars>>
  \/ \E s \in Symbol : add_symbol(s)
  \/ SymbolsDone
  \/ includes_print
  \/ tidy_status

TidyNext == TidyStep \/ Stopped

\* The program is one thread that is not suspended.
TidySpec == TidyInit /\ [][TidyNext]_tidyVars /\ WF_tidyVars(TidyStep)

-----------------------------------------------------------------------------
Used == {s \in Symbol : ref_count[s] > 0}

Printed == pc = "tidy_status" /\ ~is_ignored

DeletedLines(h) == {l.line : l \in {x \in report : x.print = "DELETE" /\ x.inc = h}}

Added(h) == [print |-> "ADD", inc |-> h] \in report

\* Every symbol is declared, as far as the report is concerned, by one include
\* file, however often it is referenced: the end of a chain of proxies.
OneIncludePerSymbol ==
  \A s \in Symbol : \A g, h \in Id :
    s \in symbol_set[g] \cap symbol_set[h] => g = h /\ proxy[h] = NULL

\* Including any one of the headers the configuration lists for a symbol is
\* enough: no other one is asked for on its account.
AnyOneSuffices ==
  pc = "includes_print" =>
    \A s \in Used : \A i \in 1..Len(symbol_includes[s]) :
      depth[include_get_proxy(symbol_includes[s][i])] = 0 =>
        \A h \in Id : s \in symbol_set[h] => depth[h] = 0

\* Once the report has been followed, of the include files that are not kept or
\* elided, those that a used symbol needs, and the associated header, are
\* included by one line, and no others are.
NeededAreIncluded ==
    \A h \in included :
      handling[h] = "DEFAULT" =>
        LET needed == h \in {IncludeFor(s) : s \in Used}
                           \cup {g \in Associated \cap included : is_local(g)}
            kept   == {lines[h][i] : i \in 1..Len(lines[h])} \ DeletedLines(h)
        IN  IF needed THEN /\ Added(h) <=> kept = {}
                           /\ Cardinality(kept) <= 1
                      ELSE kept = {} /\ ~Added(h)

\* An include file to be kept, or one that is needed and to be elided, is not
\* in the report except for what --all-includes shows and for lines that repeat
\* its first one.
HandledAreLeftAlone ==
    \A h \in included :
      \/ handling[h] = "KEEP"
      \/ handling[h] = "ELIDE" /\ is_needed[h]
      => ~Added(h) /\ \A n \in DeletedLines(h) : n # lines[h][1]

\* Following the report makes the source file tidy, and the report respects what
\* the configuration says of include files.
ReportTidies == Printed => NeededAreIncluded /\ HandledAreLeftAlone

\* The counters are those of the lines that are printed, whose printing other code
\* decides, and of the lines that repeat a kept header, which are not printed.
CountsAgree ==
  /\ includes_missing = Cardinality({l \in report : l.print = "ADD"})
  /\ LET kept == {h \in included : handling[h] = "KEEP" /\ ~opt_all_includes}
     IN  includes_unnecessary =
           Cardinality({l \in report : l.print = "DELETE"}) + MapThenSumSet(Duplicates, kept)

\* The exit status is that of a violation whenever the report asks for a
\* change, unless it is never to be: it is counted what is printed.
ReportIsViolation ==
  pc = "exit" /\ status \in {"EX_OK", "TIDY_EX_NO_VIOLATIONS_ERROR", "TIDY_EX_VIOLATIONS"} =>
    /\ ~is_ignored => CountsAgree
    /\ \/ status = "TIDY_EX_VIOLATIONS"
       \/ opt_error = "NEVER"
       \/ \A l \in report : l.print = "SHOW"

\* The program gets lost on a walk along proxies only where the proxies of the
\* configuration, or the includers, are such that they make a cycle.
WalksEnd == pc = "include_get_proxy" => ~ChainsAreSafe

\* The program ends: the walks along proxies do.
Terminates == <>(pc = "exit")
=============================================================================
