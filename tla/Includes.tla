------------------------------ MODULE Includes ------------------------------
(***************************************************************************)
(* The set of include files of a translation unit, tidy_include_set, and   *)
(* how includes_init() of include.c builds it from the #include directives *)
(* libclang reports.                                                       *)
(*                                                                         *)
(* The fields of struct tidy_include are functions on unique file IDs:     *)
(* included is the set of IDs that have an entry in tidy_include_set; the  *)
(* fields of an ID without an entry have the values a new entry starts     *)
(* with.  A pointer to a tidy_include is its ID.  A CXFile (File) is a     *)
(* name libclang opened; a symbolic or hard link makes two of them share   *)
(* an ID.                                                                  *)
(*                                                                         *)
(* The preprocessor is external: it hands the program the directives in    *)
(* the order it met them, each one located in the source file or in a file *)
(* that is open at that point.                                             *)
(***************************************************************************)
EXTENDS Naturals, Sequences

CONSTANTS
  File,           \* the CXFile objects
  FileID,         \* FileID[f]: the unique ID of f
  Basename,       \* Basename[f]: the last component of f's path
  MayInclude,     \* pairs <<includer, f>>: the #include directives in the files
  MAIN,           \* the source file being tidied, as an includer
  NULL,
  MaxDirectives   \* bound: the directives in one translation unit

Id == {FileID[f] : f \in File}

Directive == [includer : File \cup {MAIN}, included : File \cup {NULL}]

ASSUME FileAssumption ==
  /\ NULL \notin Id /\ NULL \notin File
  /\ MAIN \notin File
  /\ FileID \in [File -> Id]
  /\ MayInclude \subseteq (File \cup {MAIN}) \X (File \cup {NULL})
  /\ MaxDirectives \in Nat

VARIABLES
  pc,         \* the function main() has called, or "exit"
  status,     \* the status the program exited with
  stack,      \* external: the files the preprocessor has open, innermost last
  tu,         \* external: the directives of the translation unit, in order
  pos,        \* the directive the running visitor is called for next
  included,   \* the IDs that have an entry in tidy_include_set
  file,       \* tidy_include::file
  includer,   \* tidy_include::includer
  depth,      \* tidy_include::depth
  lines       \* tidy_include::lines; the line of a directive is its place in tu

tuVars      == <<stack, tu>>
includeVars == <<included, file, includer, depth, lines>>

IncludesTypeOK ==
  /\ stack \in Seq(File)
  /\ tu \in Seq(Directive)
  /\ pos \in Nat \ {0}
  /\ included \in SUBSET Id
  /\ file \in [Id -> File \cup {NULL}]
  /\ includer \in [Id -> Id \cup {NULL}]
  /\ depth \in [Id -> Nat]
  /\ lines \in [Id -> Seq(Nat)]

IncludesInit ==
  /\ pc = "source_init"
  /\ status = NULL
  /\ stack = <<>>
  /\ tu = <<>>
  /\ pos = 1
  /\ included = {}
  /\ file = [h \in Id |-> NULL]
  /\ includer = [h \in Id |-> NULL]
  /\ depth = [h \in Id |-> 0]
  /\ lines = [h \in Id |-> <<>>]

-----------------------------------------------------------------------------
(***************************************************************************)
(* External: the preprocessor returns from all but the k outermost open    *)
(* files, the innermost of which includes f.  A file whose include guard   *)
(* is already defined is one from which it returns before any directive.   *)
(* A file that cannot be found (NULL) is not opened.                       *)
(***************************************************************************)
Preprocess(k, f) ==
  LET includer_file == IF k = 0 THEN MAIN ELSE stack[k]
  IN  /\ pc = "source_init"
      /\ Len(tu) < MaxDirectives
      /\ <<includer_file, f>> \in MayInclude
      /\ tu' = Append(tu, [includer |-> includer_file, included |-> f])
      /\ stack' = IF f = NULL THEN SubSeq(stack, 1, k)
                              ELSE Append(SubSeq(stack, 1, k), f)
      /\ UNCHANGED <<pc, status, pos, includeVars>>

\* libclang has no translation unit for the source file: source_init() exits.
ParseFails ==
  /\ pc = "source_init"
  /\ tu = <<>>
  /\ pc' = "exit"
  /\ status' \in {"EX_UNAVAILABLE", "EX_SOFTWARE", "EX_NOINPUT", "EX_DATAERR"}
  /\ UNCHANGED <<tuVars, pos, includeVars>>

\* main() goes on from source_init() to includes_init().
ParseDone ==
  /\ pc = "source_init"
  /\ pc' = "includes_init"
  /\ UNCHANGED <<status, tuVars, pos, includeVars>>

-----------------------------------------------------------------------------
\* The directive a visitor is called for.
cursor == tu[pos]

is_direct(d) == d.includer = MAIN

\* includes_init_visitor() is called for a directive that names a file.
Visiting ==
  /\ pc = "includes_init"
  /\ pos \in 1..Len(tu)
  /\ cursor.included # NULL

\* The file was not found: exit( EX_DATAERR ).
MissingFile ==
  /\ pc = "includes_init"
  /\ pos \in 1..Len(tu)
  /\ cursor.included = NULL
  /\ pc' = "exit"
  /\ status' = "EX_DATAERR"
  /\ UNCHANGED <<tuVars, pos, includeVars>>

\* Mutants of depth_of_new().
depth_of_new_flat(i) == IF i = NULL THEN 0 ELSE 1

depth_of_new_less(i) == IF i = NULL THEN 0 ELSE depth[i] - 1

\* The depth of a new entry with the includer i.
depth_of_new(i) == IF i = NULL THEN 0 ELSE depth[i] + 1

\* Mutant of include_insert(): no entry for a file that is not direct.
include_insert_direct(f, includer_id) ==
  /\ included' = IF includer_id = NULL THEN included \cup {FileID[f]} ELSE included
  /\ UNCHANGED <<file, includer, depth>>

\* What include_insert() stores for a file that has no entry yet.
include_insert(f, includer_id) ==
  LET h == FileID[f]
  IN  /\ included' = included \cup {h}
      /\ file' = [file EXCEPT ![h] = f]
      /\ includer' = [includer EXCEPT ![h] = includer_id]
      /\ depth' = [depth EXCEPT ![h] = depth_of_new(includer_id)]

\* A file is met for the first time.
NewInclude ==
  LET d == cursor
      h == FileID[d.included]
  IN  /\ Visiting
      /\ h \notin included
      /\ include_insert(d.included,
                        IF is_direct(d) THEN NULL ELSE FileID[d.includer])
      /\ lines' = [lines EXCEPT ![h] = IF is_direct(d) THEN Append(@, pos) ELSE @]
      /\ pos' = pos + 1
      /\ UNCHANGED <<pc, status, tuVars>>

\* Mutants of make_direct() and lines_again().
make_direct_late(h) == depth' = depth /\ includer' = [includer EXCEPT ![h] = NULL]

lines_again_any_name(h, d) == Append(lines[h], pos)

make_direct(h) ==
  /\ depth' = [depth EXCEPT ![h] = 0]
  /\ includer' = [includer EXCEPT ![h] = NULL]

\* Under another name (a link) the line is not recorded.
lines_again(h, d) ==
  IF d.included = file[h] THEN Append(lines[h], pos) ELSE lines[h]

\* A file that has an entry is included by the source file: the entry becomes
\* direct.
DirectAgain ==
  LET d == cursor
      h == FileID[d.included]
  IN  /\ Visiting
      /\ h \in included
      /\ is_direct(d)
      /\ make_direct(h)
      /\ lines' = [lines EXCEPT ![h] = lines_again(h, d)]
      /\ pos' = pos + 1
      /\ UNCHANGED <<pc, status, tuVars, included, file>>

\* Mutants of includer_again().
includer_again_always(h, new) == new

includer_again_self(h, new) == IF includer[h] = NULL THEN NULL ELSE h

\* The includer of h once the include file new includes it: new, if it has the
\* same basename as h.
includer_again(h, new) ==
  IF /\ includer[h] \notin {NULL, new}
     /\ Basename[file[h]] = Basename[file[new]]
  THEN new ELSE includer[h]

\* A file that has an entry is included by another include file.
IndirectAgain ==
  LET d   == cursor
      h   == FileID[d.included]
      new == FileID[d.includer]
  IN  /\ Visiting
      /\ h \in included
      /\ ~is_direct(d)
      /\ includer' = [includer EXCEPT ![h] = includer_again(h, new)]
      /\ pos' = pos + 1
      /\ UNCHANGED <<pc, status, tuVars, included, file, depth, lines>>

\* main() goes on from includes_init() to config_init().
IncludesDone ==
  /\ pc = "includes_init"
  /\ pos > Len(tu)
  /\ pc' = "config_init"
  /\ pos' = 1
  /\ UNCHANGED <<status, tuVars, includeVars>>

includes_init_visitor ==
  MissingFile \/ NewInclude \/ DirectAgain \/ IndirectAgain

IncludesStep ==
  \/ \E k \in 0..Len(stack), f \in File \cup {NULL} : Preprocess(k, f)
  \/ ParseFails
  \/ ParseDone
  \/ includes_init_visitor
  \/ IncludesDone

includesVars == <<pc, status, pos, tuVars, includeVars>>

IncludesSpec ==
  IncludesInit /\ [][IncludesStep]_includesVars

-----------------------------------------------------------------------------
(***************************************************************************)
(* Properties of the set while it is built and in every later phase.       *)
(***************************************************************************)

\* The directives includes_init_visitor() has returned from.
Visited ==
  IF pc = "source_init" THEN {}
  ELSE IF pc = "includes_init" THEN 1..(pos - 1)
  ELSE 1..Len(tu)

\* Directive i names the file whose unique ID is h.
Names(i, h) == tu[i].included # NULL /\ FileID[tu[i].included] = h

\* The assertion in include_insert() that an includer has an entry, and the
\* dereference of includer->basename in includes_init_visitor(): whenever a
\* directive located in an include file is visited, that file has an entry.
IncluderKnown ==
  Visiting /\ ~is_direct(cursor) => FileID[cursor.includer] \in included

\* depth = 0 is what the rest of the program takes for "the source file
\* includes it itself": it holds of exactly the files a visited directive of
\* the source file names, whatever the order of direct and indirect mentions.
DepthZeroIsDirect ==
  pc # "exit" =>
    \A h \in included :
      depth[h] = 0 <=> \E i \in Visited : Names(i, h) /\ is_direct(tu[i])

\* An include file that a directive names and that is not direct was included,
\* by a visited directive, from a file that is strictly less deep; so a depth
\* is never less than the distance from the source file, even though the depths
\* of the files a header included are not revised when it turns out direct.
DepthGrounded ==
  pc # "exit" =>
    \A h \in included :
      depth[h] > 0 /\ (\E i \in Visited : Names(i, h)) =>
        \E i \in Visited :
          /\ Names(i, h)
          /\ ~is_direct(tu[i])
          /\ FileID[tu[i].includer] \in included
          /\ depth[FileID[tu[i].includer]] < depth[h]

\* lines holds every line on which the source file includes the file under the
\* name it was first met by, each once and in order: what "DELETE LINE n (same
\* as line m)" is printed from.
LinesExact ==
  pc # "exit" =>
    \A h \in included :
      /\ \A i, j \in 1..Len(lines[h]) : i < j => lines[h][i] < lines[h][j]
      /\ {lines[h][i] : i \in 1..Len(lines[h])} =
           {n \in Visited : is_direct(tu[n]) /\ tu[n].included = file[h]}

\* An include file's includer is either nobody or a file that really includes
\* it, in every phase: the implicit proxies are derived from it.
IncluderIncludes ==
  pc # "exit" =>
    \A h \in included :
      includer[h] # NULL =>
        /\ includer[h] \in included
        /\ \E i \in Visited :
             /\ Names(i, h)
             /\ ~is_direct(tu[i])
             /\ FileID[tu[i].includer] = includer[h]

\* By the directives visited, x includes y, perhaps indirectly, or is y.
Reaches(x, y) ==
  \A S \in SUBSET Id :
    /\ x \in S
    /\ \A i \in Visited : \A h \in Id :
         Names(i, h) /\ ~is_direct(tu[i]) /\ FileID[tu[i].includer] \in S => h \in S
    => y \in S

\* No include file includes, not even indirectly, a file of the same basename
\* that includes it.
NamesakesApart ==
  \A i \in Visited : \A h \in Id :
    LET inr == FileID[tu[i].includer]
    IN  Names(i, h) /\ ~is_direct(tu[i]) /\ Basename[file[h]] = Basename[file[inr]]
        => ~Reaches(h, inr)

\* Every set of include files has one whose includer, if any, is outside.
IncluderAcyclic ==
  \A S \in SUBSET Id : S # {} => \E h \in S : includer[h] \notin S

\* Includers make no cycle, however the files include each other, although an
\* includer is replaced without a look at who includes it: the only ones that do
\* are those of a file that includes itself or a namesake.
IncludersEnd == pc # "exit" /\ NamesakesApart => IncluderAcyclic

\* Once an include file is direct it stays so, and an includer only ever gives
\* way to "the source file" or to a file of the same basename.
DirectIsForever ==
  [][\A h \in included :
       /\ depth[h] = 0 => depth'[h] = 0
       /\ includer[h] = NULL => includer'[h] = NULL
       /\ includer'[h] \notin {NULL, includer[h]} =>
            Basename[file[h]] = Basename[file[includer'[h]]]
    ]_includeVars

\* The comment in includes_init_visitor() says that the line on which a
\* directly included file is included is added to its lines;
\* maybe_print_include() takes the first of them for "DELETE LINE".
DirectHasLine ==
  pc = "config_init" => \A h \in included : depth[h] = 0 => lines[h] # <<>>
=============================================================================
