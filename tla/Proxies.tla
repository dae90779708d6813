------------------------------ MODULE Proxies -------------------------------
(***************************************************************************)
(* The implicit proxies of proxies.c: after the configuration was read,    *)
(* implicit_proxies_init() visits the directives of the translation unit a *)
(* second time and makes the includer of a system header that is not for   *)
(* users to include its proxy.                                             *)
(***************************************************************************)
EXTENDS HeaderConfig

CONSTANTS
  RelPath,      \* RelPath[f]: the relative path of f
  IsLocal,      \* IsLocal[f]: f is below the directory of the source file
  Standard,     \* the relative paths of the standard headers of the language
  CPlusPlus,    \* the source file is C++ rather than C
  CxxHeader,    \* CxxHeader[f]: for f = <x.h>, the relative path cx; else NULL
  PathFind      \* PathFind[p]: the ID of the file the include paths have for p

ASSUME ProxiesAssumption ==
  /\ DOMAIN RelPath = File
  /\ IsLocal \in [File -> BOOLEAN]
  /\ CPlusPlus \in BOOLEAN
  /\ \A f \in File : CxxHeader[f] # NULL =>
       PathFind[CxxHeader[f]] \in Id \cup {NULL}

proxiesVars == headerConfigVars

-----------------------------------------------------------------------------
is_local(h) == IsLocal[file[h]]

config_is_standard_include(h) == RelPath[file[h]] \in Standard

\* include_find_by_rel_path().
include_find_by_rel_path(p) ==
  IF PathFind[p] \in included THEN PathFind[p] ELSE NULL

\* source_check_for_errors(): libclang reported errors, or it did not.
SourceHasErrors ==
  /\ pc = "source_check_for_errors"
  /\ pc' = "exit"
  /\ status' = "EX_DATAERR"
  /\ UNCHANGED <<pos, tuVars, includeVars, configVars>>

SourceIsFine ==
  /\ pc = "source_check_for_errors"
  /\ pc' = "implicit_proxies_init"
  /\ pos' = 1
  /\ UNCHANGED <<status, tuVars, includeVars, configVars>>

-----------------------------------------------------------------------------
\* Mutant of ProxyCandidate(): the include file instead of its includer.
ProxyCandidateSelf(h) == IF config_is_standard_include(h) THEN NULL ELSE h

\* The include file whose proxy, or who itself, is to be h's proxy: its
\* includer if h is not a standard header or has its includer's basename; in
\* C++, for <x.h>, the header <cx>; else NULL.
ProxyCandidate(h) ==
  LET inr == includer[h]
      cxx == CxxHeader[file[h]]
  IN  IF \/ ~config_is_standard_include(h)
         \/ Basename[file[h]] = Basename[file[inr]]
      THEN inr
      ELSE IF ~CPlusPlus \/ cxx = NULL THEN NULL
      ELSE IF RelPath[file[inr]] = cxx THEN inr
      ELSE include_find_by_rel_path(cxx)

\* Mutant of SkipsImplicit(): off by one in the depth.
SkipsFirstLevel(h) ==
  IF proxy[h] # NULL \/ depth[h] <= 1 \/ is_local(h) THEN TRUE
  ELSE is_local(includer[h])

\* implicit_proxies_visitor() skips an include file that has a proxy, is direct
\* or is local, or whose includer is local.
SkipsImplicit(h) ==
  IF proxy[h] # NULL \/ depth[h] = 0 \/ is_local(h) THEN TRUE
  ELSE is_local(includer[h])

\* One call of implicit_proxies_visitor(): the proxy is the end of the
\* candidate's chain of proxies.
implicit_proxies_visitor ==
  LET h == FileID[cursor.included]
  IN  /\ pc = "implicit_proxies_init"
      /\ pos \in 1..Len(tu)
      /\ IF SkipsImplicit(h) \/ ProxyCandidate(h) = NULL
           THEN UNCHANGED proxy
           ELSE /\ ChainEnds(ProxyCandidate(h))
                /\ proxy' = [proxy EXCEPT
                               ![h] = include_get_proxy(ProxyCandidate(h))]
      /\ pos' = pos + 1
      /\ UNCHANGED <<pc, status, tuVars, includeVars, keyVars,
                     is_proxy_explicit, tableVars>>

ImplicitDone ==
  /\ pc = "implicit_proxies_init"
  /\ pos > Len(tu)
  /\ pc' = "symbols_init"
  /\ UNCHANGED <<status, pos, tuVars, includeVars, configVars>>

ProxiesStep ==
  \/ HeaderConfigStep
  \/ SourceHasErrors
  \/ SourceIsFine
  \/ implicit_proxies_visitor
  \/ ImplicitDone

ProxiesSpec == HeaderConfigInit /\ [][ProxiesStep]_proxiesVars

-----------------------------------------------------------------------------
\* The assertion in implicit_proxies_visitor() that an include file that is
\* not direct has an includer, although the configuration adds include files
\* of depth 1 that have none.
VisitedHasIncluder ==
  pc = "implicit_proxies_init" /\ pos \in 1..Len(tu) =>
    LET h == FileID[cursor.included]
    IN  h \in included /\ (depth[h] > 0 => includer[h] \in included)

\* Nobody is told to include an implementation header: once the implicit
\* proxies are set, a header that is neither standard nor local, nor direct,
\* stands for itself only if a local file is what includes it.
ImplementationHidden ==
  pc = "symbols_init" =>
    \A h \in included :
      FromSource(h) /\ depth[h] > 0 /\ ~is_local(h)
        /\ ~config_is_standard_include(h) /\ proxy[h] = NULL
      => is_local(includer[h])

\* The second visit gives h no proxy.
Fixed(h) ==
  \/ is_proxy_explicit[h]
  \/ ~FromSource(h)
  \/ depth[h] = 0
  \/ is_local(h)
  \/ is_local(includer[h])
  \/ /\ config_is_standard_include(h)
     /\ Basename[file[h]] # Basename[file[includer[h]]]
     /\ CPlusPlus => CxxHeader[file[h]] = NULL

\* The second visit gives no proxy to one that the configuration says is a proxy,
\* nor, in C++, to a header <cx>.
FixedTargets ==
  /\ \A h \in Id : is_proxy_explicit[h] => Fixed(proxy[h])
  /\ CPlusPlus =>
       \A h \in included : LET cx == CxxHeader[file[h]]
                          IN  cx # NULL /\ PathFind[cx] \in included => Fixed(PathFind[cx])

\* The proxies of the configuration make no cycle.
ExplicitAcyclic ==
  \A S \in SUBSET Id :
    S # {} => \E h \in S : ~is_proxy_explicit[h] \/ proxy[h] \notin S

\* What the implicit proxies depend on to make no cycle, as nothing checks it.
ChainsAreSafe == IncluderAcyclic /\ ExplicitAcyclic /\ FixedTargets

\* The implicit proxies make no cycle where includers and explicit proxies make
\* none, although there is no check, unless an include file is given an implicit proxy
\* that was to be an explicit one.
ImplicitMakeNoCycle == ConfigParsed /\ ChainsAreSafe => ProxyAcyclic
=============================================================================
