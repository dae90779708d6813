---------------------------- MODULE Tidy_proofs -----------------------------
(***************************************************************************)
(* Proofs about the set of include files, about what the configuration     *)
(* does to it, and about the implicit proxies; then about which include    *)
(* files the symbols of the source file need, and about the report: that   *)
(* following it makes the source file tidy, where no include file has two  *)
(* names and one at most is the source file's associated header; and that  *)
(* the counters and the exit status are those of the lines printed.  They  *)
(* are for every set of files, links between them, #include directives and *)
(* number of directives, every configuration, set of standard headers,     *)
(* language, set of symbols and option.                                    *)
(***************************************************************************)
EXTENDS Tidy, Facts

-----------------------------------------------------------------------------
(***************************************************************************)
(* The inductive invariant.                                                *)
(***************************************************************************)

\* A file the preprocessor has open was included by a directive it reported.
OpenReported ==
  \A j \in 1..Len(stack) : \E i \in 1..Len(tu) : tu[i].included = stack[j]

\* A directive located in an include file comes after one that included it.
ReportedInOrder ==
  \A i \in 1..Len(tu) :
    tu[i].includer # MAIN => \E j \in 1..(i - 1) : tu[j].included = tu[i].includer

\* The set is empty until the visits start, and a visit is never past the end.
PhasesInOrder ==
  /\ pc \in {"source_init", "includes_init", "config_init", "exit"}
  /\ pc = "source_init" => included = {} /\ pos = 1
  /\ pc = "includes_init" => pos <= Len(tu) + 1

\* The files that the visited directives name have entries.
VisitedIncluded ==
  pc # "exit" =>
    \A i \in Visited : tu[i].included # NULL /\ FileID[tu[i].included] \in included

IncludesInv ==
  /\ IncludesTypeOK
  /\ OpenReported
  /\ ReportedInOrder
  /\ PhasesInOrder
  /\ VisitedIncluded
  /\ DepthZeroIsDirect
  /\ IncluderIncludes

-----------------------------------------------------------------------------
(***************************************************************************)
(* Type correctness.                                                       *)
(***************************************************************************)

\* The directive includes_init_visitor() is called for, and the IDs of the
\* files it names.
LEMMA CursorType ==
  ASSUME IncludesTypeOK, Visiting
  PROVE  /\ cursor \in Directive
         /\ cursor.included \in File
         /\ FileID[cursor.included] \in Id
         /\ ~is_direct(cursor) => /\ cursor.includer \in File
                                  /\ FileID[cursor.includer] \in Id
<1>1. cursor \in Directive
  BY DEF IncludesTypeOK, Visiting, cursor
<1> QED
  BY <1>1, FileAssumption DEF Visiting, Directive, is_direct

\* The fields of the entries keep their types while the set is built.
LEMMA TypeStep == IncludesTypeOK /\ [IncludesStep]_includesVars => IncludesTypeOK'
<1> SUFFICES ASSUME IncludesTypeOK, [IncludesStep]_includesVars
             PROVE  IncludesTypeOK'
  OBVIOUS
<1>1. ASSUME NEW k \in 0..Len(stack), NEW f \in File \cup {NULL}, Preprocess(k, f)
      PROVE  IncludesTypeOK'
  <2> DEFINE i == IF k = 0 THEN MAIN ELSE stack[k]
  <2>1. i \in File \cup {MAIN}
    BY DEF IncludesTypeOK
  <2>2. [includer |-> i, included |-> f] \in Directive
    BY <2>1 DEF Directive
  <2>3. tu' \in Seq(Directive)
    BY <1>1, <2>2 DEF Preprocess, IncludesTypeOK
  <2>4. SubSeq(stack, 1, k) \in Seq(File)
    BY DEF IncludesTypeOK
  <2>5. stack' \in Seq(File)
    BY <1>1, <2>4 DEF Preprocess
  <2> QED
    BY <1>1, <2>3, <2>5 DEF Preprocess, IncludesTypeOK, includeVars
<1>2. CASE ParseFails
  BY <1>2 DEF ParseFails, IncludesTypeOK, tuVars, includeVars
<1>3. CASE ParseDone
  BY <1>3 DEF ParseDone, IncludesTypeOK, tuVars, includeVars
<1>4. CASE MissingFile
  BY <1>4 DEF MissingFile, IncludesTypeOK, tuVars, includeVars
<1>5. CASE NewInclude
  <2>1. Visiting
    BY <1>5 DEF NewInclude
  <2> DEFINE h == FileID[cursor.included]
             i == IF is_direct(cursor) THEN NULL ELSE FileID[cursor.includer]
  <2>2. h \in Id /\ i \in Id \cup {NULL} /\ cursor.included \in File
    BY <2>1, CursorType
  <2>3. depth' \in [Id -> Nat]
    BY <1>5, <2>2 DEF NewInclude, include_insert, depth_of_new, IncludesTypeOK
  <2>4. lines' \in [Id -> Seq(Nat)]
    BY <1>5, <2>2 DEF NewInclude, IncludesTypeOK
  <2>5. /\ included' \in SUBSET Id
        /\ file' \in [Id -> File \cup {NULL}]
        /\ includer' \in [Id -> Id \cup {NULL}]
    BY <1>5, <2>2 DEF NewInclude, include_insert, depth_of_new, IncludesTypeOK
  <2> QED
    BY <1>5, <2>3, <2>4, <2>5 DEF NewInclude, IncludesTypeOK, tuVars
<1>6. CASE DirectAgain
  <2>1. FileID[cursor.included] \in Id
    BY <1>6, CursorType DEF DirectAgain, make_direct, lines_again
  <2> QED
    BY <1>6, <2>1 DEF DirectAgain, make_direct, lines_again, IncludesTypeOK, tuVars
<1>7. CASE IndirectAgain
  <2>1. FileID[cursor.included] \in Id /\ FileID[cursor.includer] \in Id
    BY <1>7, CursorType DEF IndirectAgain, includer_again
  <2> QED
    BY <1>7, <2>1 DEF IndirectAgain, includer_again, IncludesTypeOK, tuVars
<1>8. CASE IncludesDone
  BY <1>8 DEF IncludesDone, IncludesTypeOK, tuVars, includeVars
<1>9. CASE UNCHANGED includesVars
  BY <1>9 DEF includesVars, IncludesTypeOK, tuVars, includeVars
<1> QED
  BY <1>1, <1>2, <1>3, <1>4, <1>5, <1>6, <1>7, <1>8, <1>9
  DEF IncludesStep, includes_init_visitor

LEMMA TypeInit == IncludesInit => IncludesTypeOK
BY FileAssumption DEF IncludesInit, IncludesTypeOK

\* Every pointer between include files is to an include file, and every depth
\* and line number is a number, whatever the directives are.
THEOREM IncludesTypeCorrect == IncludesSpec => []IncludesTypeOK
BY TypeInit, TypeStep, PTL DEF IncludesSpec

-----------------------------------------------------------------------------
(***************************************************************************)
(* What the preprocessor reports.                                          *)
(***************************************************************************)

\* A directive of an include file that is open comes after one that included
\* that file.
LEMMA PreprocessOrder ==
  ASSUME IncludesTypeOK, OpenReported, ReportedInOrder,
         NEW k \in 0..Len(stack), NEW f \in File \cup {NULL}, Preprocess(k, f)
  PROVE  OpenReported' /\ ReportedInOrder'
<1> DEFINE includer_file == IF k = 0 THEN MAIN ELSE stack[k]
           d == [includer |-> includer_file, included |-> f]
<1>1. tu' = Append(tu, d) /\ tu \in Seq(Directive) /\ stack \in Seq(File)
  BY DEF Preprocess, IncludesTypeOK
<1>2. /\ Len(tu') = Len(tu) + 1
      /\ Len(tu) \in Nat
      /\ \A i \in 1..Len(tu) : tu'[i] = tu[i]
      /\ tu'[Len(tu) + 1] = d
  BY <1>1
<1>3. SubSeq(stack, 1, k) \in Seq(File) /\ Len(SubSeq(stack, 1, k)) = k
      /\ \A j \in 1..k : SubSeq(stack, 1, k)[j] = stack[j]
  BY <1>1
<1>4. OpenReported'
  <2> SUFFICES ASSUME NEW j \in 1..Len(stack')
               PROVE  \E i \in 1..Len(tu') : tu'[i].included = stack'[j]
    BY DEF OpenReported
  <2>1. CASE j \in 1..k
    <3>1. j \in 1..Len(stack) /\ stack'[j] = stack[j]
      BY <1>1, <1>3, <2>1 DEF Preprocess
    <3>2. PICK i \in 1..Len(tu) : tu[i].included = stack[j]
      BY <3>1 DEF OpenReported
    <3> QED
      BY <1>2, <3>1, <3>2
  <2>2. CASE j \notin 1..k
    <3>1. j = k + 1 /\ stack'[j] = f
      BY <1>1, <1>3, <2>2 DEF Preprocess
    <3>2. tu'[Len(tu) + 1].included = f
      BY <1>2
    <3> QED
      BY <1>2, <3>1, <3>2
  <2> QED
    BY <2>1, <2>2
<1>5. ReportedInOrder'
  <2> SUFFICES ASSUME NEW i \in 1..Len(tu'), tu'[i].includer # MAIN
               PROVE  \E j \in 1..(i - 1) : tu'[j].included = tu'[i].includer
    BY DEF ReportedInOrder
  <2>1. CASE i \in 1..Len(tu)
    <3>1. PICK j \in 1..(i - 1) : tu[j].included = tu[i].includer
      BY <1>2, <2>1 DEF ReportedInOrder
    <3>2. j \in 1..Len(tu)
      BY <1>2, <2>1
    <3> QED
      BY <1>2, <2>1, <3>1, <3>2
  <2>2. CASE i = Len(tu) + 1
    <3>1. tu'[i].includer = includer_file
      BY <1>2, <2>2
    <3>2. k \in 1..Len(stack) /\ tu'[i].includer = stack[k]
      BY <1>1, <3>1
    <3>3. PICK j \in 1..Len(tu) : tu[j].included = stack[k]
      BY <3>2 DEF OpenReported
    <3> QED
      BY <1>2, <2>2, <3>2, <3>3
  <2> QED
    BY <1>2, <2>1, <2>2
<1> QED
  BY <1>4, <1>5

\* The assertion in include_insert(): a directive's includer has an entry when
\* the directive is visited, because one that includes it was visited before.
LEMMA IncluderVisited ==
  ASSUME IncludesTypeOK, ReportedInOrder, VisitedIncluded
  PROVE  IncluderKnown
<1> SUFFICES ASSUME Visiting, ~is_direct(cursor)
             PROVE  FileID[cursor.includer] \in included
  BY DEF IncluderKnown
<1>1. pos \in 1..Len(tu) /\ cursor = tu[pos] /\ tu[pos].includer # MAIN
  BY DEF Visiting, cursor, is_direct
<1>2. PICK j \in 1..(pos - 1) : tu[j].included = tu[pos].includer
  BY <1>1 DEF ReportedInOrder
<1>3. j \in Visited /\ pc # "exit"
  BY <1>2 DEF Visited, Visiting
<1> QED
  BY <1>1, <1>2, <1>3 DEF VisitedIncluded

-----------------------------------------------------------------------------
(***************************************************************************)
(* What one call of includes_init_visitor() does to the set.               *)
(***************************************************************************)

\* A call that returns has visited one directive more.
LEMMA VisitedGrows ==
  ASSUME IncludesTypeOK, Visiting, pc' = pc, tu' = tu, pos' = pos + 1
  PROVE  /\ pc = "includes_init"
         /\ pos \in 1..Len(tu) /\ Len(tu) \in Nat
         /\ Visited = 1..(pos - 1)
         /\ Visited' = Visited \cup {pos}
         /\ pos' <= Len(tu') + 1
<1>1. pc = "includes_init" /\ pos \in 1..Len(tu) /\ Len(tu) \in Nat /\ pos \in Nat
  BY DEF Visiting, IncludesTypeOK
<1>2. Visited = 1..(pos - 1) /\ Visited' = 1..(pos' - 1)
  BY <1>1 DEF Visited
<1> QED
  BY <1>1, <1>2

\* The entry of the file that was named is there, and is direct just if it was
\* or the directive is; the other entries are as before.
LEMMA VisitKeeps ==
  ASSUME IncludesInv, Visiting, pc' = pc, tu' = tu, pos' = pos + 1,
         NEW h, h = FileID[cursor.included],
         included' = included \cup {h},
         \A g \in included \ {h} : depth'[g] = depth[g],
         depth'[h] = 0 <=> is_direct(cursor) \/ (h \in included /\ depth[h] = 0)
  PROVE  VisitedIncluded' /\ DepthZeroIsDirect'
<1>1. /\ pc = "includes_init" /\ pos \in Visited'
      /\ Visited' = Visited \cup {pos}
  BY VisitedGrows DEF IncludesInv
<1>2. cursor = tu[pos] /\ tu[pos].included # NULL
  BY DEF Visiting, cursor
<1>3. VisitedIncluded'
  BY <1>1, <1>2, tu' = tu DEF IncludesInv, VisitedIncluded
<1>4. \A i \in Visited' : i = pos \/ i \in Visited
  BY <1>1
<1>5. ASSUME NEW g \in included'
      PROVE  depth'[g] = 0 <=>
               \E i \in Visited' : Names(i, g)' /\ is_direct(tu'[i])
  <2>1. Names(pos, g) <=> g = h
    BY <1>2 DEF Names
  <2>2. \A i : Names(i, g)' <=> Names(i, g)
    BY DEF Names
  <2>3. CASE g # h
    <3>1. g \in included /\ depth'[g] = depth[g]
      BY <2>3
    <3>2. depth[g] = 0 <=> \E i \in Visited : Names(i, g) /\ is_direct(tu[i])
      BY <1>1, <3>1 DEF IncludesInv, DepthZeroIsDirect
    <3> QED
      BY <1>1, <2>1, <2>2, <2>3, <3>1, <3>2
  <2>4. CASE g = h /\ h \in included
    <3>1. depth[g] = 0 <=> \E i \in Visited : Names(i, g) /\ is_direct(tu[i])
      BY <1>1, <2>4 DEF IncludesInv, DepthZeroIsDirect
    <3> QED
      BY <1>1, <1>2, <2>1, <2>2, <2>4, <3>1
  <2>5. CASE g = h /\ h \notin included
    <3>1. \A i \in Visited : ~Names(i, g)
      BY <1>1, <2>5 DEF IncludesInv, VisitedIncluded, Names
    <3> QED
      BY <1>1, <1>2, <2>1, <2>2, <2>5, <3>1
  <2> QED
    BY <2>3, <2>4, <2>5
<1> QED
  BY <1>3, <1>5 DEF DepthZeroIsDirect

\* An includer that was not the entry's before is the includer of the directive.
LEMMA VisitIncluder ==
  ASSUME IncludesInv, Visiting, pc' = pc, tu' = tu, pos' = pos + 1,
         NEW h, h = FileID[cursor.included],
         included' = included \cup {h},
         \A g \in included \ {h} : includer'[g] = includer[g],
         \/ includer'[h] = NULL
         \/ h \in included /\ includer'[h] = includer[h]
         \/ ~is_direct(cursor) /\ includer'[h] = FileID[cursor.includer]
  PROVE  IncluderIncludes'
<1>1. /\ pc = "includes_init" /\ pos \in Visited'
      /\ Visited' = Visited \cup {pos}
  BY VisitedGrows DEF IncludesInv
<1>2. IncluderKnown
  BY IncluderVisited DEF IncludesInv
<1> DEFINE Included(g) ==
             /\ includer'[g] \in included'
             /\ \E i \in Visited' : /\ Names(i, g)'
                                   /\ ~is_direct(tu'[i])
                                   /\ FileID[tu'[i].includer] = includer'[g]
<1>3. ASSUME NEW g \in included, includer'[g] = includer[g], includer'[g] # NULL
      PROVE  Included(g)
  <2>1. PICK i \in Visited : /\ Names(i, g)
                             /\ ~is_direct(tu[i])
                             /\ FileID[tu[i].includer] = includer[g]
    BY <1>1, <1>3 DEF IncludesInv, IncluderIncludes
  <2>2. includer[g] \in included
    BY <1>1, <1>3 DEF IncludesInv, IncluderIncludes
  <2> QED
    BY <1>1, <1>3, <2>1, <2>2 DEF Names
<1>4. ASSUME ~is_direct(cursor), includer'[h] = FileID[cursor.includer]
      PROVE  Included(h)
  <2>1. FileID[cursor.includer] \in included
    BY <1>2, <1>4 DEF IncluderKnown
  <2>2. Names(pos, h) /\ ~is_direct(tu[pos]) /\ cursor = tu[pos]
    BY <1>4 DEF Names, Visiting, cursor
  <2>3. \A i : Names(i, h)' <=> Names(i, h)
    BY DEF Names
  <2> QED
    BY <1>1, <1>4, <2>1, <2>2, <2>3
<1>5. \A g \in included' : includer'[g] # NULL => Included(g)
  BY <1>3, <1>4
<1> QED
  BY <1>5 DEF IncluderIncludes

-----------------------------------------------------------------------------
(***************************************************************************)
(* The invariant is inductive.                                             *)
(***************************************************************************)

LEMMA InvInit == IncludesInit => IncludesInv
<1> SUFFICES ASSUME IncludesInit PROVE IncludesInv
  OBVIOUS
<1>1. tu = <<>> /\ stack = <<>> /\ included = {} /\ pc = "source_init" /\ pos = 1
  BY DEF IncludesInit
<1>2. Visited = {}
  BY <1>1 DEF Visited
<1> QED
  BY <1>1, <1>2, TypeInit
  DEF IncludesInv, OpenReported, ReportedInOrder, PhasesInOrder, VisitedIncluded,
      DepthZeroIsDirect, IncluderIncludes

\* Before the visits start there is no entry, and nothing was visited.
LEMMA ParsingKeeps ==
  ASSUME IncludesInv, pc = "source_init", UNCHANGED <<pos, includeVars>>,
         pc' \in {"source_init", "includes_init", "exit"}
  PROVE  PhasesInOrder' /\ VisitedIncluded' /\ DepthZeroIsDirect'
           /\ IncluderIncludes'
<1>1. included' = {} /\ pos' = 1
  BY DEF IncludesInv, PhasesInOrder, includeVars
<1>2. pc' # "exit" => Visited' = {}
  BY <1>1 DEF Visited
<1> HIDE DEF Visited
<1> QED
  BY <1>1, <1>2
  DEF PhasesInOrder, VisitedIncluded, DepthZeroIsDirect, IncluderIncludes

LEMMA InvStep == IncludesInv /\ [IncludesStep]_includesVars => IncludesInv'
<1> SUFFICES ASSUME IncludesInv, [IncludesStep]_includesVars
             PROVE  IncludesInv'
  OBVIOUS
<1> USE DEF IncludesInv
<1>1. IncludesTypeOK'
  BY TypeStep
<1>2. ASSUME NEW k \in 0..Len(stack), NEW f \in File \cup {NULL}, Preprocess(k, f)
      PROVE  IncludesInv'
  <2>1. OpenReported' /\ ReportedInOrder'
    BY <1>2, PreprocessOrder
  <2>2. Len(tu') \in Nat
    BY <1>1 DEF IncludesTypeOK
  <2> QED
    BY <1>1, <1>2, <2>1, <2>2, ParsingKeeps DEF Preprocess
<1>3. ASSUME UNCHANGED tuVars
      PROVE  OpenReported' /\ ReportedInOrder'
  BY <1>3 DEF tuVars, OpenReported, ReportedInOrder
<1>4. CASE ParseFails
  BY <1>1, <1>3, <1>4, ParsingKeeps DEF ParseFails
<1>5. CASE ParseDone
  BY <1>1, <1>3, <1>5, ParsingKeeps DEF ParseDone
<1>6. CASE MissingFile
  BY <1>1, <1>3, <1>6
  DEF MissingFile, PhasesInOrder, VisitedIncluded, DepthZeroIsDirect,
      IncluderIncludes
<1>7. CASE NewInclude
  <2> DEFINE h == FileID[cursor.included]
             i == IF is_direct(cursor) THEN NULL ELSE FileID[cursor.includer]
  <2>1. Visiting /\ h \notin included /\ UNCHANGED tuVars
    BY <1>7 DEF NewInclude
  <2>2. pc' = pc /\ tu' = tu /\ pos' = pos + 1 /\ included' = included \cup {h}
    BY <1>7 DEF NewInclude, include_insert, depth_of_new, tuVars
  <2>3. h \in Id /\ (~is_direct(cursor) => i \in Id /\ i # NULL)
    BY <2>1, CursorType, FileAssumption
  <2>4. /\ depth' = [depth EXCEPT ![h] = IF i = NULL THEN 0 ELSE depth[i] + 1]
        /\ includer' = [includer EXCEPT ![h] = i]
    BY <1>7 DEF NewInclude, include_insert, depth_of_new
  <2>5. PhasesInOrder'
    BY <2>1, <2>2, VisitedGrows DEF PhasesInOrder
  <2>6. \A g \in included \ {h} : depth'[g] = depth[g] /\ includer'[g] = includer[g]
    BY <2>4 DEF IncludesTypeOK
  <2>7. depth'[h] = 0 <=> is_direct(cursor)
    BY <2>3, <2>4 DEF IncludesTypeOK
  <2>8. includer'[h] = i
    BY <2>3, <2>4 DEF IncludesTypeOK
  <2> HIDE DEF h, IncludesInv
  <2>9. VisitedIncluded' /\ DepthZeroIsDirect'
    BY <2>1, <2>2, <2>6, <2>7, VisitKeeps DEF h
  <2>10. IncluderIncludes'
    BY <2>1, <2>2, <2>6, <2>8, VisitIncluder DEF h
  <2> QED
    BY <1>1, <1>3, <2>1, <2>5, <2>9, <2>10 DEF IncludesInv
<1>8. CASE DirectAgain
  <2> DEFINE h == FileID[cursor.included]
  <2>1. Visiting /\ h \in included /\ is_direct(cursor) /\ UNCHANGED tuVars
    BY <1>8 DEF DirectAgain, make_direct, lines_again, tuVars
  <2>2. pc' = pc /\ tu' = tu /\ pos' = pos + 1 /\ included' = included \cup {h}
    BY <1>8 DEF DirectAgain, make_direct, lines_again, tuVars
  <2>3. h \in Id
    BY <2>1, CursorType
  <2>4. depth' = [depth EXCEPT ![h] = 0] /\ includer' = [includer EXCEPT ![h] = NULL]
    BY <1>8 DEF DirectAgain, make_direct, lines_again
  <2>5. PhasesInOrder'
    BY <2>1, <2>2, VisitedGrows DEF PhasesInOrder
  <2>6. \A g \in included \ {h} : depth'[g] = depth[g] /\ includer'[g] = includer[g]
    BY <2>4 DEF IncludesTypeOK
  <2>7. depth'[h] = 0 /\ includer'[h] = NULL
    BY <2>3, <2>4 DEF IncludesTypeOK
  <2> HIDE DEF h, IncludesInv
  <2>8. VisitedIncluded' /\ DepthZeroIsDirect'
    BY <2>1, <2>2, <2>6, <2>7, VisitKeeps DEF h
  <2>9. IncluderIncludes'
    BY <2>1, <2>2, <2>6, <2>7, VisitIncluder DEF h
  <2> QED
    BY <1>1, <1>3, <2>1, <2>5, <2>8, <2>9 DEF IncludesInv
<1>9. CASE IndirectAgain
  <2> DEFINE h == FileID[cursor.included]
             new == FileID[cursor.includer]
  <2>1. Visiting /\ h \in included /\ ~is_direct(cursor) /\ UNCHANGED tuVars
    BY <1>9 DEF IndirectAgain, includer_again, tuVars
  <2>2. pc' = pc /\ tu' = tu /\ pos' = pos + 1 /\ included' = included \cup {h}
    BY <1>9 DEF IndirectAgain, includer_again, tuVars
  <2>3. h \in Id
    BY <2>1, CursorType
  <2>4. PhasesInOrder'
    BY <2>1, <2>2, VisitedGrows DEF PhasesInOrder
  <2>5. \A g \in included \ {h} : includer'[g] = includer[g]
    BY <1>9 DEF IndirectAgain, includer_again, IncludesTypeOK
  <2>6. includer'[h] = includer[h] \/ includer'[h] = new
    BY <1>9, <2>3 DEF IndirectAgain, includer_again, IncludesTypeOK
  <2>7. depth' = depth
    BY <1>9 DEF IndirectAgain, includer_again
  <2> HIDE DEF h, new, IncludesInv
  <2>8. VisitedIncluded' /\ DepthZeroIsDirect'
    BY <2>1, <2>2, <2>7, VisitKeeps DEF h
  <2>9. IncluderIncludes'
    BY <2>1, <2>2, <2>5, <2>6, VisitIncluder DEF h, new
  <2> QED
    BY <1>1, <1>3, <2>1, <2>4, <2>8, <2>9 DEF IncludesInv
<1>10. CASE IncludesDone
  <2>1. pos = Len(tu) + 1 /\ Len(tu) \in Nat
    BY <1>10 DEF IncludesDone, PhasesInOrder, IncludesTypeOK
  <2>2. Visited' = Visited /\ UNCHANGED <<tuVars, includeVars>>
    BY <1>10, <2>1 DEF IncludesDone, Visited, tuVars
  <2>3. pc = "includes_init" /\ pc' = "config_init"
    BY <1>10 DEF IncludesDone
  <2> HIDE DEF Visited
  <2> QED
    BY <1>1, <1>3, <2>2, <2>3
    DEF PhasesInOrder, VisitedIncluded, DepthZeroIsDirect, IncluderIncludes,
        Names, tuVars, includeVars
<1>11. CASE UNCHANGED includesVars
  <2>1. Visited' = Visited
    BY <1>11 DEF includesVars, tuVars, Visited
  <2> QED
    BY <1>1, <1>3, <1>11, <2>1
    DEF includesVars, PhasesInOrder, VisitedIncluded, DepthZeroIsDirect,
        IncluderIncludes, Names, tuVars, includeVars
<1> QED
  BY <1>2, <1>4, <1>5, <1>6, <1>7, <1>8, <1>9, <1>10, <1>11
  DEF IncludesStep, includes_init_visitor

LEMMA Invariant == IncludesSpec => []IncludesInv
BY InvInit, InvStep, PTL DEF IncludesSpec

-----------------------------------------------------------------------------
(***************************************************************************)
(* The lines on which an include file is included.                         *)
(***************************************************************************)

LinesInv ==
  /\ \A h \in included : file[h] \in File /\ FileID[file[h]] = h
  /\ \A h \in Id \ included : lines[h] = <<>>
  /\ LinesExact

LineSet(L) == {L[i] : i \in 1..Len(L)}

\* Appending a line that is greater than all others keeps them in order.
LEMMA AppendLine ==
  ASSUME NEW L \in Seq(Nat), NEW n \in Nat,
         \A i, j \in 1..Len(L) : i < j => L[i] < L[j],
         \A m \in LineSet(L) : m < n
  PROVE  /\ \A i, j \in 1..Len(Append(L, n)) :
              i < j => Append(L, n)[i] < Append(L, n)[j]
         /\ LineSet(Append(L, n)) = LineSet(L) \cup {n}
<1> DEFINE M == Append(L, n)
<1>1. Len(M) = Len(L) + 1 /\ M[Len(L) + 1] = n /\ Len(L) \in Nat
  OBVIOUS
<1>2. \A i \in 1..Len(L) : M[i] = L[i] /\ L[i] < n /\ L[i] \in LineSet(L)
  BY DEF LineSet
<1>3. \A i \in 1..Len(M) : i \in 1..Len(L) \/ i = Len(L) + 1
  BY <1>1
<1> HIDE DEF M
<1>4. ASSUME NEW i \in 1..Len(M), NEW j \in 1..Len(M), i < j
      PROVE  M[i] < M[j]
  <2>1. i \in 1..Len(L)
    BY <1>1, <1>4
  <2> QED
    BY <1>1, <1>2, <1>3, <1>4, <2>1
<1>5. LineSet(M) = LineSet(L) \cup {n}
  <2>1. \A m \in LineSet(M) : m \in LineSet(L) \cup {n}
    BY <1>1, <1>2, <1>3 DEF LineSet
  <2>2. n \in LineSet(M)
    BY <1>1 DEF LineSet
  <2>3. \A m \in LineSet(L) : m \in LineSet(M)
    BY <1>1, <1>2 DEF LineSet
  <2> QED
    BY <2>1, <2>2, <2>3
<1> QED
  BY <1>4, <1>5 DEF M

\* One call of includes_init_visitor() appends the directive's line to the
\* lines of the file it names, if it is located in the source file and names
\* the file as the first directive did.
LEMMA LinesVisit ==
  ASSUME IncludesInv, LinesInv, Visiting, pc' = pc, tu' = tu, pos' = pos + 1,
         NEW h \in Id, h = FileID[cursor.included],
         included' = included \cup {h},
         \A g \in included : file'[g] = file[g],
         h \notin included => file'[h] = cursor.included,
         \A g \in Id \ {h} : lines'[g] = lines[g],
         lines'[h] = IF is_direct(cursor) /\ cursor.included = file'[h]
                     THEN Append(lines[h], pos) ELSE lines[h]
  PROVE  LinesInv'
<1>1. /\ pc = "includes_init" /\ pos \in Nat /\ pos \notin Visited
      /\ Visited = 1..(pos - 1)
      /\ Visited' = Visited \cup {pos}
  BY VisitedGrows DEF IncludesInv, IncludesTypeOK
<1>2. cursor = tu[pos] /\ cursor.included \in File
  BY CursorType DEF IncludesInv, cursor
<1>3. \A g \in included' : file'[g] \in File /\ FileID[file'[g]] = g
  BY <1>2 DEF LinesInv
<1>4. \A g \in Id \ included' : lines'[g] = <<>>
  BY DEF LinesInv
<1> DEFINE Direct(f, V) == {n \in V : is_direct(tu[n]) /\ tu[n].included = f}
<1>5. ASSUME NEW g \in included', g # h
      PROVE  /\ \A i, j \in 1..Len(lines'[g]) : i < j => lines'[g][i] < lines'[g][j]
             /\ LineSet(lines'[g]) = Direct(file'[g], Visited')
  <2>1. g \in included /\ g \in Id /\ lines'[g] = lines[g] /\ file'[g] = file[g]
    BY <1>5 DEF IncludesInv, IncludesTypeOK
  <2>2. tu[pos].included # file[g]
    BY <1>2, <1>3, <1>5, <2>1
  <2>3. Direct(file[g], Visited') = Direct(file[g], Visited)
    BY <1>1, <2>2
  <2> QED
    BY <1>1, <2>1, <2>3 DEF LinesInv, LinesExact, LineSet
<1> DEFINE L == lines[h]
<1>6. /\ L \in Seq(Nat)
      /\ \A i, j \in 1..Len(L) : i < j => L[i] < L[j]
      /\ LineSet(L) = Direct(file'[h], Visited)
  <2>1. L \in Seq(Nat)
    BY DEF IncludesInv, IncludesTypeOK
  <2>2. CASE h \in included
    BY <1>1, <2>1, <2>2 DEF LinesInv, LinesExact, LineSet
  <2>3. CASE h \notin included
    <3>1. L = <<>>
      BY <2>3 DEF LinesInv
    <3>2. \A n \in Visited : tu[n].included # file'[h]
      BY <1>1, <1>3, <2>3 DEF IncludesInv, VisitedIncluded
    <3>3. LineSet(L) = {}
      BY <3>1 DEF LineSet
    <3> QED
      BY <2>1, <3>1, <3>2, <3>3
  <2> QED
    BY <2>2, <2>3
<1>7. /\ \A i, j \in 1..Len(lines'[h]) : i < j => lines'[h][i] < lines'[h][j]
      /\ LineSet(lines'[h]) = Direct(file'[h], Visited')
  <2>1. CASE is_direct(cursor) /\ cursor.included = file'[h]
    <3>1. lines'[h] = Append(L, pos)
      BY <2>1
    <3>2. \A m \in LineSet(L) : m < pos
      BY <1>1, <1>6
    <3>3. Direct(file'[h], Visited') = Direct(file'[h], Visited) \cup {pos}
      BY <1>1, <1>2, <2>1
    <3> HIDE DEF L, Direct
    <3> QED
      BY <1>1, <1>6, <3>1, <3>2, <3>3, AppendLine
  <2>2. CASE ~(is_direct(cursor) /\ cursor.included = file'[h])
    <3>1. Direct(file'[h], Visited') = Direct(file'[h], Visited)
      BY <1>1, <1>2, <2>2
    <3> QED
      BY <1>6, <2>2, <3>1
  <2> QED
    BY <2>1, <2>2
<1>8. ASSUME NEW g \in included'
      PROVE  /\ \A i, j \in 1..Len(lines'[g]) : i < j => lines'[g][i] < lines'[g][j]
             /\ LineSet(lines'[g]) =
                  {n \in Visited' : is_direct(tu'[n]) /\ tu'[n].included = file'[g]}
  BY <1>5, <1>7
<1> HIDE DEF Direct, L
<1>9. LinesExact'
  BY <1>8 DEF LinesExact, LineSet, is_direct
<1> QED
  BY <1>3, <1>4, <1>9 DEF LinesInv

LEMMA LinesStep ==
  IncludesInv /\ LinesInv /\ [IncludesStep]_includesVars => LinesInv'
<1> SUFFICES ASSUME IncludesInv, LinesInv, [IncludesStep]_includesVars
             PROVE  LinesInv'
  OBVIOUS
<1> DEFINE h == FileID[cursor.included]
<1>1. IncludesTypeOK
  BY DEF IncludesInv
<1>2. Visiting => h \in Id /\ cursor.included \in File
  BY <1>1, CursorType
<1>3. CASE NewInclude
  <2>1. /\ Visiting /\ h \notin included /\ included' = included \cup {h}
        /\ pc' = pc /\ tu' = tu /\ pos' = pos + 1
        /\ file' = [file EXCEPT ![h] = cursor.included]
        /\ lines' = [lines EXCEPT ![h] = IF is_direct(cursor)
                                          THEN Append(@, pos) ELSE @]
    BY <1>3 DEF NewInclude, include_insert, depth_of_new, tuVars
  <2>2. /\ \A g \in included : file'[g] = file[g]
        /\ file'[h] = cursor.included
        /\ \A g \in Id \ {h} : lines'[g] = lines[g]
        /\ lines'[h] = IF is_direct(cursor) THEN Append(lines[h], pos) ELSE lines[h]
    BY <1>1, <1>2, <2>1 DEF IncludesTypeOK
  <2> HIDE DEF h
  <2> QED
    BY <1>2, <2>1, <2>2, LinesVisit DEF h
<1>4. CASE DirectAgain
  <2>1. /\ Visiting /\ h \in included /\ is_direct(cursor)
        /\ included' = included \cup {h}
        /\ pc' = pc /\ tu' = tu /\ pos' = pos + 1 /\ file' = file
        /\ lines' = [lines EXCEPT ![h] = IF cursor.included = file[h]
                                          THEN Append(@, pos) ELSE @]
    BY <1>4 DEF DirectAgain, make_direct, lines_again, tuVars
  <2>2. /\ \A g \in Id \ {h} : lines'[g] = lines[g]
        /\ lines'[h] = IF cursor.included = file'[h]
                       THEN Append(lines[h], pos) ELSE lines[h]
    BY <1>1, <1>2, <2>1 DEF IncludesTypeOK
  <2> HIDE DEF h
  <2> QED
    BY <1>2, <2>1, <2>2, LinesVisit DEF h
<1>5. CASE IndirectAgain
  <2>1. /\ Visiting /\ h \in included /\ ~is_direct(cursor)
        /\ included' = included \cup {h}
        /\ pc' = pc /\ tu' = tu /\ pos' = pos + 1 /\ file' = file /\ lines' = lines
    BY <1>5 DEF IndirectAgain, includer_again, tuVars
  <2> HIDE DEF h
  <2> QED
    BY <1>2, <2>1, LinesVisit DEF h
<1>6. ASSUME UNCHANGED includeVars, Visited' = Visited \/ included = {} \/ pc' = "exit",
             UNCHANGED tu \/ included = {},
             pc = "exit" => pc' = "exit"
      PROVE  LinesInv'
  <2>1. included = {} => LinesExact'
    BY <1>6 DEF includeVars, LinesExact
  <2> HIDE DEF Visited
  <2> QED
    BY <1>6, <2>1 DEF LinesInv, LinesExact, includeVars, is_direct
<1>7. pc = "source_init" => included = {}
  BY DEF IncludesInv, PhasesInOrder
<1>8. CASE \/ \E k \in 0..Len(stack), f \in File \cup {NULL} : Preprocess(k, f)
           \/ ParseFails
           \/ ParseDone
  BY <1>6, <1>7, <1>8 DEF Preprocess, ParseFails, ParseDone, tuVars
<1>9. CASE MissingFile
  BY <1>6, <1>9 DEF MissingFile, tuVars
<1>10. CASE IncludesDone
  <2>1. pos = Len(tu) + 1 /\ Len(tu) \in Nat
    BY <1>1, <1>10 DEF IncludesDone, IncludesInv, PhasesInOrder, IncludesTypeOK
  <2>2. Visited' = Visited
    BY <1>10, <2>1 DEF IncludesDone, Visited, tuVars
  <2> QED
    BY <1>6, <1>10, <2>2 DEF IncludesDone, tuVars
<1>11. CASE UNCHANGED includesVars
  <2>1. Visited' = Visited
    BY <1>11 DEF includesVars, tuVars, Visited
  <2> QED
    BY <1>6, <1>11, <2>1 DEF includesVars, tuVars
<1> QED
  BY <1>3, <1>4, <1>5, <1>8, <1>9, <1>10, <1>11
  DEF IncludesStep, includes_init_visitor

LEMMA LinesInit == IncludesInit => LinesInv
BY DEF IncludesInit, LinesInv, LinesExact

-----------------------------------------------------------------------------
(***************************************************************************)
(* Depths are grounded.                                                    *)
(***************************************************************************)

\* Directive i shows why h is as deep as it is: it includes h from a file that
\* is less deep.
Grounds(i, h) ==
  /\ Names(i, h)
  /\ ~is_direct(tu[i])
  /\ FileID[tu[i].includer] \in included
  /\ depth[FileID[tu[i].includer]] < depth[h]

GroundedInv ==
  pc # "exit" =>
    \A h \in included : depth[h] > 0 => \E i \in Visited : Grounds(i, h)

\* What grounds an entry does so as long as its depth stays and no other depth
\* grows.
LEMMA GroundsKept ==
  ASSUME IncludesTypeOK, depth' \in [Id -> Nat], tu' = tu,
         included \subseteq included', included' \subseteq Id,
         \A g \in included : depth'[g] <= depth[g],
         NEW h \in Id, depth'[h] = depth[h],
         NEW i, Grounds(i, h)
  PROVE  Grounds(i, h)'
<1> DEFINE g == FileID[tu[i].includer]
<1>1. g \in Id /\ depth'[g] <= depth[g] /\ depth[g] < depth[h] /\ g \in included'
  BY DEF Grounds, IncludesTypeOK
<1>2. depth[g] \in Nat /\ depth'[g] \in Nat /\ depth[h] \in Nat
  BY <1>1 DEF IncludesTypeOK
<1>3. depth'[g] < depth'[h]
  BY <1>1, <1>2
<1> QED
  BY <1>1, <1>3 DEF Grounds, Names, is_direct

LEMMA GroundedStep ==
  IncludesInv /\ GroundedInv /\ [IncludesStep]_includesVars => GroundedInv'
<1> SUFFICES ASSUME IncludesInv, GroundedInv, [IncludesStep]_includesVars,
                    pc' # "exit", NEW h \in included', depth'[h] > 0
             PROVE  \E i \in Visited' : Grounds(i, h)'
  BY DEF GroundedInv
<1>1. IncludesTypeOK /\ IncludesTypeOK'
  BY InvStep DEF IncludesInv
<1>2. depth' \in [Id -> Nat] /\ included' \subseteq Id /\ h \in Id
  BY <1>1 DEF IncludesTypeOK
<1>3. CASE /\ \/ \E k \in 0..Len(stack), f \in File \cup {NULL} : Preprocess(k, f)
              \/ ParseFails
              \/ ParseDone
  BY <1>3 DEF Preprocess, ParseFails, ParseDone, IncludesInv, PhasesInOrder, includeVars
<1>4. ASSUME pc # "exit", tu' = tu, included \subseteq included',
             \A g \in included : depth'[g] <= depth[g],
             h \in included, depth'[h] = depth[h],
             Visited \subseteq Visited'
      PROVE  \E i \in Visited' : Grounds(i, h)'
  <2>1. PICK i \in Visited : Grounds(i, h)
    BY <1>4 DEF GroundedInv
  <2> QED
    BY <1>1, <1>2, <1>4, <2>1, GroundsKept
<1>5. CASE MissingFile
  BY <1>5 DEF MissingFile
<1>6. CASE NewInclude
  <2> DEFINE new == FileID[cursor.included]
             i   == IF is_direct(cursor) THEN NULL ELSE FileID[cursor.includer]
  <2>1. /\ Visiting /\ new \notin included /\ included' = included \cup {new}
        /\ pc' = pc /\ tu' = tu /\ pos' = pos + 1
        /\ depth' = [depth EXCEPT ![new] = IF i = NULL THEN 0 ELSE depth[i] + 1]
    BY <1>6 DEF NewInclude, include_insert, depth_of_new, tuVars
  <2>2. Visited' = Visited \cup {pos} /\ pc # "exit"
    BY <1>1, <2>1, VisitedGrows
  <2>3. \A g \in included : depth'[g] = depth[g]
    BY <1>1, <2>1 DEF IncludesTypeOK
  <2>4. new \in Id
    BY <1>1, <2>1, CursorType
  <2>5. CASE h = new
    <3>1. depth'[new] = IF i = NULL THEN 0 ELSE depth[i] + 1
      BY <1>1, <2>1, <2>4 DEF IncludesTypeOK
    <3>2. ~is_direct(cursor) /\ i = FileID[cursor.includer]
      BY <2>5, <3>1
    <3>3. i \in included
      BY <2>1, <3>2, IncluderVisited DEF IncludesInv, IncluderKnown
    <3>4. i \in Id /\ depth[i] \in Nat /\ depth'[i] = depth[i]
      BY <1>1, <2>3, <3>3 DEF IncludesTypeOK
    <3>5. depth'[i] < depth'[new]
      BY <3>1, <3>4, FileAssumption
    <3>6. PICK n \in Visited' : n = pos
      BY <2>2
    <3>7. cursor = tu[n] /\ tu[n].included # NULL
      BY <2>1, <3>6 DEF Visiting, cursor
    <3>8. Names(n, h)' /\ ~is_direct(tu[n])' /\ FileID[tu'[n].includer] = i
      BY <2>1, <2>5, <3>2, <3>7 DEF Names, is_direct
    <3>9. Grounds(n, h)'
      BY <2>1, <2>5, <3>3, <3>5, <3>8 DEF Grounds
    <3> QED
      BY <3>9
  <2>6. CASE h # new
    <3>1. h \in included /\ \A g \in included : depth'[g] <= depth[g]
      BY <1>1, <2>1, <2>3, <2>6 DEF IncludesTypeOK
    <3> QED
      BY <1>4, <2>1, <2>2, <2>3, <3>1
  <2> QED
    BY <2>5, <2>6
<1>7. CASE DirectAgain
  <2> DEFINE again == FileID[cursor.included]
  <2>1. /\ Visiting /\ included' = included
        /\ pc' = pc /\ tu' = tu /\ pos' = pos + 1
        /\ depth' = [depth EXCEPT ![again] = 0]
    BY <1>7 DEF DirectAgain, make_direct, tuVars
  <2>2. Visited' = Visited \cup {pos} /\ pc # "exit"
    BY <1>1, <2>1, VisitedGrows
  <2>3. \A g \in included : depth'[g] \in {0, depth[g]} /\ depth[g] \in Nat
    BY <1>1, <2>1 DEF IncludesTypeOK
  <2>4. depth'[h] = depth[h] /\ \A g \in included : depth'[g] <= depth[g]
    BY <2>1, <2>3
  <2> QED
    BY <1>4, <2>1, <2>2, <2>4
<1>8. CASE IndirectAgain
  <2>1. /\ Visiting /\ included' = included /\ depth' = depth
        /\ pc' = pc /\ tu' = tu /\ pos' = pos + 1
    BY <1>8 DEF IndirectAgain, tuVars
  <2>2. Visited' = Visited \cup {pos} /\ pc # "exit"
    BY <1>1, <2>1, VisitedGrows
  <2>3. \A g \in included : depth'[g] <= depth[g]
    BY <1>1, <2>1 DEF IncludesTypeOK
  <2> QED
    BY <1>4, <2>1, <2>2, <2>3
<1>9. CASE IncludesDone \/ UNCHANGED includesVars
  <2>1. UNCHANGED <<tu, included, depth>> /\ pc # "exit"
    BY <1>9 DEF IncludesDone, includesVars, includeVars, tuVars
  <2>2. Visited' = Visited
    <3>1. CASE UNCHANGED includesVars
      BY <3>1 DEF includesVars, tuVars, Visited
    <3>2. CASE IncludesDone
      <4>1. pos = Len(tu) + 1 /\ Len(tu) \in Nat
        BY <3>2 DEF IncludesDone, IncludesInv, PhasesInOrder, IncludesTypeOK
      <4> QED
        BY <3>2, <4>1 DEF IncludesDone, Visited, tuVars
    <3> QED
      BY <1>9, <3>1, <3>2
  <2>3. \A g \in included : depth'[g] <= depth[g]
    BY <1>1, <2>1 DEF IncludesTypeOK
  <2> QED
    BY <1>4, <2>1, <2>2, <2>3
<1> QED
  BY <1>3, <1>5, <1>6, <1>7, <1>8, <1>9 DEF IncludesStep, includes_init_visitor

-----------------------------------------------------------------------------
(***************************************************************************)
(* The theorems.                                                           *)
(***************************************************************************)

\* The assertion in include_insert() never fails: however the files include
\* each other, an includer is known before what it includes.
THEOREM IncluderIsKnown == IncludesSpec => []IncluderKnown
<1>1. IncludesInv => IncluderKnown
  BY IncluderVisited DEF IncludesInv
<1> QED
  BY <1>1, Invariant, PTL

\* depth = 0 means "included by the source file", in whatever order the direct
\* and indirect directives for a file and the links to it come.
THEOREM DepthZeroMeansDirect == IncludesSpec => []DepthZeroIsDirect
<1>1. IncludesInv => DepthZeroIsDirect
  BY DEF IncludesInv
<1> QED
  BY <1>1, Invariant, PTL

\* tidy_include::includer is never stale: it is a file with an entry that a
\* visited directive shows to include the file.
THEOREM IncluderReallyIncludes == IncludesSpec => []IncluderIncludes
<1>1. IncludesInv => IncluderIncludes
  BY DEF IncludesInv
<1> QED
  BY <1>1, Invariant, PTL

\* No visit makes a direct include file indirect again, gives an include file
\* without an includer one, or changes an includer to one of another basename.
THEOREM DirectStaysDirect == IncludesSpec => DirectIsForever
<1> DEFINE Stays == \A h \in included :
                      /\ depth[h] = 0 => depth'[h] = 0
                      /\ includer[h] = NULL => includer'[h] = NULL
                      /\ includer'[h] \notin {NULL, includer[h]} =>
                           Basename[file[h]] = Basename[file[includer'[h]]]
<1>1. IncludesTypeOK /\ [IncludesStep]_includesVars => [Stays]_includeVars
  <2> SUFFICES ASSUME IncludesTypeOK, IncludesStep, ~UNCHANGED includeVars
               PROVE  Stays
    BY DEF includesVars
  <2>1. CASE NewInclude
    <3>1. FileID[cursor.included] \notin included
      BY <2>1 DEF NewInclude
    <3> QED
      BY <2>1, <3>1 DEF NewInclude, include_insert, depth_of_new, IncludesTypeOK
  <2>2. CASE DirectAgain
    BY <2>2 DEF DirectAgain, make_direct, lines_again, IncludesTypeOK
  <2>3. CASE IndirectAgain
    BY <2>3 DEF IndirectAgain, includer_again, IncludesTypeOK
  <2> QED
    BY <2>1, <2>2, <2>3
    DEF IncludesStep, includes_init_visitor, Preprocess, ParseFails, ParseDone,
        MissingFile, IncludesDone
<1> QED
  BY <1>1, IncludesTypeCorrect, PTL DEF IncludesSpec, DirectIsForever

\* The lines to delete are right: an include file's lines are those on which
\* the source file includes it by the name it was met by first, each once and
\* in order.
THEOREM LinesAreExact == IncludesSpec => []LinesExact
<1>1. LinesInv => LinesExact
  BY DEF LinesInv
<1> QED
  BY <1>1, Invariant, LinesInit, LinesStep, PTL DEF IncludesSpec

\* A file is never deeper than a chain of directives accounts for: though depths
\* are not revised when a header turns out direct, whatever is not direct was
\* included from a file that is less deep.
THEOREM DepthIsGrounded == IncludesSpec => []DepthGrounded
<1>1. IncludesInit => GroundedInv
  BY DEF IncludesInit, GroundedInv
<1>2. GroundedInv => DepthGrounded
  BY DEF GroundedInv, DepthGrounded, Grounds
<1> QED
  BY <1>1, <1>2, Invariant, GroundedStep, PTL DEF IncludesSpec

-----------------------------------------------------------------------------
(***************************************************************************)
(* Type correctness.                                                       *)
(***************************************************************************)

LEMMA ConfigTypeInit == HeaderConfigInit => HeaderConfigTypeOK
<1> SUFFICES ASSUME HeaderConfigInit PROVE HeaderConfigTypeOK
  OBVIOUS
<1>1. IncludesTypeOK
  BY TypeInit DEF HeaderConfigInit
<1>2. symbol_includes \in [Symbol -> Seq(Id)]
  BY DEF HeaderConfigInit
<1>3. handling \in [Id -> Handling]
  BY DEF HeaderConfigInit, Handling
<1> QED
  BY <1>1, <1>2, <1>3 DEF HeaderConfigInit, HeaderConfigTypeOK

LEMMA ConfigTypeStep ==
  HeaderConfigTypeOK /\ [HeaderConfigStep]_headerConfigVars => HeaderConfigTypeOK'
<1> SUFFICES ASSUME HeaderConfigTypeOK, [HeaderConfigStep]_headerConfigVars
             PROVE  HeaderConfigTypeOK'
  OBVIOUS
<1> USE DEF HeaderConfigTypeOK
<1>1. ASSUME UNCHANGED includeVars, UNCHANGED tuVars, UNCHANGED pos
      PROVE  IncludesTypeOK'
  BY <1>1 DEF IncludesTypeOK, includeVars, tuVars
<1>2. CASE IncludesStep /\ UNCHANGED configVars
  BY <1>2, TypeStep DEF configVars, keyVars, proxyVars, tableVars
<1>3. ASSUME NEW k \in ProxyKeys, ProxyKey(k) PROVE HeaderConfigTypeOK'
  BY <1>1, <1>3, KeysAssumption DEF ProxyKey, proxyVars, tableVars
<1>4. ASSUME NEW from \in Id, ProxyMatch(from) PROVE HeaderConfigTypeOK'
  <2>1. key \in ProxyKeys /\ key.to \in Id
    BY <1>4, KeysAssumption DEF ProxyMatch
  <2>2. proxy' \in [Id -> Id \cup {NULL}] /\ is_proxy_explicit' \in [Id -> BOOLEAN]
    BY <1>4, <2>1 DEF ProxyMatch, proxyVars
  <2>3. /\ IncludesTypeOK' /\ matching' \in SUBSET Id
        /\ UNCHANGED <<todo, key, tableVars>>
    BY <1>1, <1>4 DEF ProxyMatch
  <2> QED
    BY <2>2, <2>3 DEF tableVars
<1>5. CASE ProxyKeyDone
  BY <1>1, <1>5 DEF ProxyKeyDone, proxyVars, tableVars
<1>6. ASSUME NEW k \in HandleKeys, HandleKey(k) PROVE HeaderConfigTypeOK'
  <2>1. k.handling \in Handling
    BY KeysAssumption DEF Handling
  <2>2. handling' \in [Id -> Handling] /\ error_count' \in BOOLEAN
    BY <1>6, <2>1 DEF HandleKey
  <2> QED
    BY <1>1, <1>6, <2>2 DEF HandleKey, proxyVars
<1>7. ASSUME NEW k \in SymbolKeys, SymbolKey(k) PROVE HeaderConfigTypeOK'
  <2> DEFINE h == FileID[k.inc]
  <2>1. k.inc \in File /\ h \in Id /\ k.sym \in Symbol
    BY KeysAssumption, FileAssumption
  <2>2. symbol_includes' \in [Symbol -> Seq(Id)]
    <3>1. symbol_includes[k.sym] \in Seq(Id)
      BY <2>1
    <3>2. Append(symbol_includes[k.sym], h) \in Seq(Id)
      BY <2>1, <3>1
    <3>3. \/ symbol_includes' = [symbol_includes EXCEPT ![k.sym] = @]
          \/ symbol_includes' = [symbol_includes EXCEPT ![k.sym] = Append(@, h)]
      BY <1>7 DEF SymbolKey
    <3> QED
      BY <2>1, <3>1, <3>2, <3>3
  <2>3. /\ included' \in SUBSET Id
        /\ file' \in [Id -> File \cup {NULL}]
        /\ depth' \in [Id -> Nat]
    <3>1. \/ UNCHANGED <<included, file, depth>>
          \/ /\ included' = included \cup {h}
             /\ file' = [file EXCEPT ![h] = k.inc]
             /\ depth' = [depth EXCEPT ![h] = 1]
      BY <1>7 DEF SymbolKey, depth_of_added
    <3>2. included \in SUBSET Id /\ file \in [Id -> File \cup {NULL}]
          /\ depth \in [Id -> Nat]
      BY DEF IncludesTypeOK
    <3> HIDE DEF h, HeaderConfigTypeOK
    <3>3. included' \in SUBSET Id
      BY <2>1, <3>1, <3>2
    <3>4. file' \in [Id -> File \cup {NULL}]
      BY <2>1, <3>1, <3>2
    <3>5. depth' \in [Id -> Nat]
      BY <2>1, <3>1, <3>2
    <3> QED
      BY <3>3, <3>4, <3>5
  <2>4. IncludesTypeOK'
    BY <1>7, <2>3 DEF SymbolKey, IncludesTypeOK, tuVars
  <2> QED
    BY <1>7, <2>2, <2>4 DEF SymbolKey, proxyVars
<1>8. ASSUME NEW k \in IgnoreKeys, IgnoreSymbol(k) \/ IgnoreSource(k)
      PROVE  HeaderConfigTypeOK'
  BY <1>1, <1>8, KeysAssumption DEF IgnoreSymbol, IgnoreSource, ignores_symbol, proxyVars
<1>9. CASE ConfigError \/ ConfigDone
  BY <1>1, <1>9
  DEF ConfigError, ConfigDone, configVars, keyVars, proxyVars, tableVars
<1>10. CASE UNCHANGED headerConfigVars
  BY <1>1, <1>10
  DEF headerConfigVars, includesVars, configVars, keyVars, proxyVars, tableVars
<1> QED
  BY <1>2, <1>3, <1>4, <1>5, <1>6, <1>7, <1>8, <1>9, <1>10
  DEF HeaderConfigStep, ConfigStep

\* Proxies, handlings and the tables of symbols stay what their types say,
\* whatever keys the configuration has and whatever their order.
THEOREM HeaderConfigTypeCorrect == HeaderConfigSpec => []HeaderConfigTypeOK
BY ConfigTypeInit, ConfigTypeStep, PTL DEF HeaderConfigSpec

-----------------------------------------------------------------------------
(***************************************************************************)
(* Chains of proxies end.                                                  *)
(***************************************************************************)

\* The key being parsed is one that was met, and a proxy comes from a match of
\* a key that was visited.
ProxyFromKey ==
  /\ key # NULL => key \in ProxyKeys \ todo /\ matching \subseteq key.matches
  /\ \A h \in Id : proxy[h] # NULL =>
       \E k \in ProxyKeys \ todo : /\ h \in k.matches
                                   /\ k = key => h \notin matching

AcyclicInv ==
  /\ HeaderConfigTypeOK
  /\ ProxyFromKey
  /\ ProxyAcyclic

\* Giving an include file a proxy of which it is not on the chain makes no cycle:
\* include_proxy_would_cycle() is the right check.
LEMMA NoCycleMade ==
  ASSUME HeaderConfigTypeOK, ProxyAcyclic,
         NEW from \in Id, NEW to \in Id,
         ~include_proxy_would_cycle(from, to),
         proxy' = [proxy EXCEPT ![from] = to]
  PROVE  ProxyAcyclic'
<1> SUFFICES ASSUME NEW S \in SUBSET Id, S # {}, \A h \in S : proxy'[h] \in S
             PROVE  FALSE
  BY DEF ProxyAcyclic
<1>1. proxy \in [Id -> Id \cup {NULL}]
  BY DEF HeaderConfigTypeOK
<1>2. \A h \in S \ {from} : proxy'[h] = proxy[h]
  BY <1>1
<1>3. PICK T \in SUBSET Id : to \in T /\ Closed(T) /\ from \notin T
  BY DEF include_proxy_would_cycle, OnChain
<1>4. from \in S
  BY <1>2 DEF ProxyAcyclic
<1>5. to \in S
  BY <1>1, <1>4
<1>6. \A h \in S \cap T : proxy[h] \in S \cap T
  BY <1>2, <1>3, FileAssumption DEF Closed
<1>7. S \cap T # {} /\ S \cap T \in SUBSET Id
  BY <1>3, <1>5
<1> QED
  BY <1>6, <1>7 DEF ProxyAcyclic

\* Neither does replacing a proxy by one that has no proxy itself.
LEMMA OverrideByRoot ==
  ASSUME HeaderConfigTypeOK, ProxyAcyclic,
         NEW from \in Id, NEW to \in Id, proxy[from] # NULL, proxy[to] = NULL,
         proxy' = [proxy EXCEPT ![from] = to]
  PROVE  ProxyAcyclic'
<1> SUFFICES ASSUME NEW S \in SUBSET Id, S # {}, \A h \in S : proxy'[h] \in S
             PROVE  FALSE
  BY DEF ProxyAcyclic
<1>1. proxy \in [Id -> Id \cup {NULL}] /\ NULL \notin Id
  BY FileAssumption DEF HeaderConfigTypeOK
<1>2. \A h \in S \ {from} : proxy'[h] = proxy[h]
  BY <1>1
<1>3. from \in S
  BY <1>2 DEF ProxyAcyclic
<1>4. to \in S \ {from}
  BY <1>1, <1>3
<1> QED
  BY <1>1, <1>2, <1>4

LEMMA AcyclicInit == HeaderConfigInit => AcyclicInv
<1> SUFFICES ASSUME HeaderConfigInit PROVE AcyclicInv
  OBVIOUS
<1>1. proxy = [h \in Id |-> NULL] /\ key = NULL
  BY DEF HeaderConfigInit
<1>2. ProxyFromKey
  BY <1>1 DEF ProxyFromKey
<1>3. ProxyAcyclic
  BY <1>1, FileAssumption DEF ProxyAcyclic
<1> QED
  BY <1>2, <1>3, ConfigTypeInit DEF AcyclicInv

\* A proxy still comes from a match of a key that was met when another match, if
\* any, was visited.
LEMMA FromKeyMatch ==
  ASSUME HeaderConfigTypeOK, ProxyFromKey, NEW from \in Id, ProxyMatch(from)
  PROVE  /\ key \in ProxyKeys \ todo /\ from \in matching /\ from \in key.matches
         /\ key' = key /\ todo' = todo /\ matching' = matching \ {from}
         /\ key.to \in Id /\ proxy \in [Id -> Id \cup {NULL}]
         /\ \A h \in Id : h # from => proxy'[h] = proxy[h]
         /\ ProxyFromKey'
<1> DEFINE to == key.to
<1>1. /\ key \in ProxyKeys \ todo /\ from \in matching /\ from \in key.matches
      /\ key' = key /\ todo' = todo /\ matching' = matching \ {from}
  BY DEF ProxyMatch, ProxyFromKey
<1>2. to \in Id /\ proxy \in [Id -> Id \cup {NULL}]
  BY <1>1, KeysAssumption DEF HeaderConfigTypeOK
<1>3. \A h \in Id : h # from => proxy'[h] = proxy[h]
  BY <1>2 DEF ProxyMatch, proxyVars
<1>4. ASSUME NEW h \in Id, proxy'[h] # NULL
      PROVE  \E k \in ProxyKeys \ todo' : h \in k.matches
                                          /\ (k = key' => h \notin matching')
  <2>1. CASE h = from
    BY <1>1, <2>1
  <2>2. CASE h # from
    BY <1>1, <1>3, <1>4, <2>2 DEF ProxyFromKey
  <2> QED
    BY <2>1, <2>2
<1>5. ProxyFromKey'
  BY <1>1, <1>4 DEF ProxyFromKey
<1> QED
  BY <1>1, <1>2, <1>3, <1>5

\* Nothing else gives an include file a proxy.
LEMMA FromKeyStep ==
  ASSUME HeaderConfigTypeOK, ProxyFromKey, [HeaderConfigStep]_headerConfigVars
  PROVE  ProxyFromKey'
<1>1. ASSUME UNCHANGED <<key, matching, proxy>>, todo' \subseteq todo
      PROVE  ProxyFromKey'
  BY <1>1 DEF ProxyFromKey
<1>2. ASSUME NEW k \in ProxyKeys, ProxyKey(k) PROVE ProxyFromKey'
  <2>1. key = NULL /\ k \in todo /\ todo' = todo \ {k} /\ proxy' = proxy
    BY <1>2 DEF ProxyKey, ParsingKeys, proxyVars
  <2>2. CASE k.to \in included
    <3>1. key' = k /\ matching' = k.matches \cap included
      BY <1>2, <2>2 DEF ProxyKey
    <3> QED
      BY <2>1, <3>1 DEF ProxyFromKey
  <2>3. CASE k.to \notin included
    BY <1>1, <1>2, <2>1, <2>3 DEF ProxyKey
  <2> QED
    BY <2>2, <2>3
<1>3. ASSUME NEW from \in Id, ProxyMatch(from) PROVE ProxyFromKey'
  BY <1>3, FromKeyMatch
<1>4. CASE ProxyKeyDone
  BY <1>4 DEF ProxyKeyDone, ProxyFromKey, proxyVars
<1>5. ASSUME NEW k \in HandleKeys, HandleKey(k) PROVE ProxyFromKey'
  BY <1>1, <1>5 DEF HandleKey, proxyVars
<1>6. ASSUME NEW k \in SymbolKeys, SymbolKey(k) PROVE ProxyFromKey'
  BY <1>1, <1>6 DEF SymbolKey, proxyVars
<1>7. ASSUME NEW k \in IgnoreKeys, IgnoreSymbol(k) \/ IgnoreSource(k)
      PROVE  ProxyFromKey'
  BY <1>1, <1>7 DEF IgnoreSymbol, IgnoreSource, ignores_symbol, proxyVars
<1>8. CASE \/ ConfigError \/ ConfigDone \/ UNCHANGED headerConfigVars
           \/ IncludesStep /\ UNCHANGED configVars
  BY <1>1, <1>8
  DEF ConfigError, ConfigDone, headerConfigVars, configVars, keyVars, proxyVars
<1> QED
  BY <1>2, <1>3, <1>4, <1>5, <1>6, <1>7, <1>8 DEF HeaderConfigStep, ConfigStep

LEMMA AcyclicStep ==
  ASSUME SafeKeys, AcyclicInv, [HeaderConfigStep]_headerConfigVars
  PROVE  AcyclicInv'
<1> USE DEF AcyclicInv
<1>1. HeaderConfigTypeOK' /\ ProxyFromKey'
  BY ConfigTypeStep, FromKeyStep
<1>2. ASSUME proxy' = proxy PROVE ProxyAcyclic'
  BY <1>2 DEF ProxyAcyclic
<1>3. CASE \E from \in Id : ProxyMatch(from)
  <2> PICK from \in Id : ProxyMatch(from)
    BY <1>3
  <2> DEFINE to == key.to
  <2>1. /\ key \in ProxyKeys \ todo /\ from \in matching /\ from \in key.matches
        /\ to \in Id /\ proxy \in [Id -> Id \cup {NULL}]
    BY FromKeyMatch
  <2>2. CASE proxy[from] # NULL
    <3>1. proxy' = proxy \/ proxy' = [proxy EXCEPT ![from] = to]
      BY <2>1, <2>2 DEF ProxyMatch
    <3>2. PICK k \in ProxyKeys \ todo : from \in k.matches /\ k # key
      BY <2>1, <2>2 DEF ProxyFromKey
    <3>3. \A j \in ProxyKeys : to \notin j.matches
      BY <2>1, <3>2 DEF SafeKeys
    <3>4. proxy[to] = NULL
      BY <2>1, <3>3 DEF ProxyFromKey
    <3> QED
      BY <1>1, <1>2, <2>1, <2>2, <3>1, <3>4, OverrideByRoot
  <2>3. CASE proxy[from] = NULL
    <3>1. \/ proxy' = proxy
          \/ /\ ~include_proxy_would_cycle(from, to)
             /\ proxy' = [proxy EXCEPT ![from] = to]
      BY <2>3 DEF ProxyMatch, proxyVars
    <3> QED
      BY <1>1, <1>2, <2>1, <3>1, NoCycleMade
  <2> QED
    BY <2>2, <2>3
<1>4. CASE ~\E from \in Id : ProxyMatch(from)
  <2>1. proxy' = proxy
    BY <1>4
    DEF HeaderConfigStep, ConfigStep, ProxyKey, ProxyKeyDone, HandleKey,
        SymbolKey, IgnoreSymbol, IgnoreSource, ConfigError, ConfigDone,
        headerConfigVars, configVars, proxyVars
  <2> QED
    BY <1>1, <1>2, <2>1
<1> QED
  BY <1>3, <1>4

\* The loops along explicit proxies end, whatever the order of the keys, in any
\* configuration where an include file that is given two proxies is not given a
\* proxy that has one itself.  That is where proxy_parse_string() replaces a
\* proxy without checking for a cycle.
THEOREM ProxiesAcyclic ==
  ASSUME SafeKeys
  PROVE  HeaderConfigSpec => []ProxyAcyclic
<1>1. AcyclicInv /\ [HeaderConfigStep]_headerConfigVars => AcyclicInv'
  BY AcyclicStep
<1>2. AcyclicInv => ProxyAcyclic
  BY DEF AcyclicInv
<1> QED
  BY <1>1, <1>2, AcyclicInit, PTL DEF HeaderConfigSpec

-----------------------------------------------------------------------------
(***************************************************************************)
(* Conflicting keys are noticed.                                           *)
(***************************************************************************)

Parsing == pc \in {"source_init", "includes_init"}

\* The include files that directives name have entries when keys are parsed.
SourceIncluded ==
  ~Parsing /\ pc # "exit" => \A h \in Id : FromSource(h) => h \in included

\* The keys wait until the include files are known.
KeysWait == Parsing => IncludesInv /\ HandleKeys \subseteq todo

\* Unless an error was found, the files that a key met so far matches are
\* handled as it says.
HandledAsSaid ==
  error_count \/
    \A k \in HandleKeys \ todo : \A h \in k.matches :
      FromSource(h) => handling[h] = k.handling

HandledInv ==
  /\ HeaderConfigTypeOK
  /\ SourceIncluded
  /\ KeysWait
  /\ HandledAsSaid
  /\ ConfigParsed => todo = {} /\ ~error_count

\* A key is of one kind.
LEMMA KeysDiffer ==
  ASSUME NEW k \in HandleKeys
  PROVE  k \notin ProxyKeys \cup SymbolKeys \cup IgnoreKeys
<1>1. DOMAIN k = {"handling", "matches"}
  BY KeysAssumption
<1>2. \A j \in ProxyKeys : DOMAIN j = {"to", "matches"}
  BY KeysAssumption
<1>3. \A j \in SymbolKeys : DOMAIN j = {"sym", "inc"}
  BY KeysAssumption
<1>4. \A j \in IgnoreKeys : DOMAIN j = {"ignore"}
  BY KeysAssumption
<1> QED
  BY <1>1, <1>2, <1>3, <1>4

LEMMA HandledInit == HeaderConfigInit => HandledInv
<1> SUFFICES ASSUME HeaderConfigInit PROVE HandledInv
  OBVIOUS
<1>1. pc = "source_init" /\ IncludesInv
  BY InvInit DEF HeaderConfigInit, IncludesInit
<1>2. HandleKeys \subseteq todo
  BY DEF HeaderConfigInit
<1> QED
  BY <1>1, <1>2, ConfigTypeInit
  DEF HandledInv, SourceIncluded, KeysWait, HandledAsSaid, Parsing, ConfigParsed

\* A key that is not about handling changes nothing of it.
LEMMA HandledKept ==
  ASSUME HandledInv, HeaderConfigTypeOK', pc = "config_init", pc' = pc,
         UNCHANGED <<tuVars, handling, error_count>>,
         included \subseteq included',
         HandleKeys \ todo' = HandleKeys \ todo
  PROVE  HandledInv'
<1>1. \A h : FromSource(h)' <=> FromSource(h)
  BY DEF FromSource, Names, tuVars
<1>2. SourceIncluded'
  BY <1>1 DEF HandledInv, SourceIncluded, Parsing
<1>3. HandledAsSaid'
  BY <1>1 DEF HandledInv, HandledAsSaid
<1> QED
  BY <1>2, <1>3 DEF HandledInv, KeysWait, Parsing, ConfigParsed

LEMMA HandledStep ==
  HandledInv /\ [HeaderConfigStep]_headerConfigVars => HandledInv'
<1> SUFFICES ASSUME HandledInv, [HeaderConfigStep]_headerConfigVars
             PROVE  HandledInv'
  OBVIOUS
<1>1. HeaderConfigTypeOK /\ HeaderConfigTypeOK'
  BY ConfigTypeStep DEF HandledInv
<1>2. CASE IncludesStep /\ UNCHANGED configVars
  <2>1. Parsing /\ IncludesInv /\ HandleKeys \subseteq todo
    <3>1. Parsing
      BY <1>2 DEF IncludesStep, Preprocess, ParseFails, ParseDone, MissingFile,
                  includes_init_visitor, NewInclude, DirectAgain, IndirectAgain,
                  Visiting, IncludesDone, Parsing
    <3> QED
      BY <3>1 DEF HandledInv, KeysWait
  <2>2. IncludesInv' /\ HandleKeys \subseteq todo'
    BY <1>2, <2>1, InvStep DEF configVars, keyVars
  <2>3. HandledAsSaid'
    BY <2>2 DEF HandledAsSaid
  <2>4. SourceIncluded'
    <3> SUFFICES ASSUME ~Parsing', pc' # "exit", NEW h \in Id, FromSource(h)'
                 PROVE  h \in included'
      BY DEF SourceIncluded
    <3>1. Visited' = 1..Len(tu')
      BY DEF Visited, Parsing
    <3>2. PICK i \in 1..Len(tu') : Names(i, h)'
      BY DEF FromSource
    <3> QED
      BY <2>2, <3>1, <3>2 DEF IncludesInv, VisitedIncluded, Names
  <2>5. ~ConfigParsed'
    BY <2>2 DEF IncludesInv, PhasesInOrder, ConfigParsed
  <2> QED
    BY <1>1, <2>2, <2>3, <2>4, <2>5 DEF HandledInv, KeysWait
<1>3. ASSUME NEW k \in ProxyKeys, ProxyKey(k) PROVE HandledInv'
  <2>1. HandleKeys \ todo' = HandleKeys \ todo
    BY <1>3, KeysDiffer DEF ProxyKey
  <2> QED
    BY <1>1, <1>3, <2>1, HandledKept DEF ProxyKey, ParsingKeys, includeVars, tableVars
<1>4. CASE ProxyKeyDone \/ \E from \in Id : ProxyMatch(from)
  BY <1>1, <1>4, HandledKept DEF ProxyKeyDone, ProxyMatch, includeVars, tableVars
<1>5. ASSUME NEW k \in HandleKeys, HandleKey(k) PROVE HandledInv'
  <2> DEFINE match == k.matches \cap included
  <2>1. /\ pc = "config_init" /\ pc' = pc
        /\ todo' = todo \ {k}
        /\ handling' = [h \in Id |-> IF h \in match /\ handling[h] = "DEFAULT"
                                     THEN k.handling ELSE handling[h]]
        /\ error_count' = (error_count \/ Conflicts(k, match))
        /\ UNCHANGED <<tuVars, includeVars>>
    BY <1>5 DEF HandleKey, ParsingKeys
  <2>2. \A h : FromSource(h)' <=> FromSource(h)
    BY <2>1 DEF FromSource, Names, tuVars
  <2>3. SourceIncluded'
    BY <2>1, <2>2 DEF HandledInv, SourceIncluded, Parsing, includeVars
  <2>4. HandledAsSaid'
    <3> SUFFICES ASSUME ~error_count', NEW j \in HandleKeys \ todo',
                        NEW h \in j.matches, FromSource(h)'
                 PROVE  handling'[h] = j.handling
      BY DEF HandledAsSaid
    <3>1. h \in Id /\ h \in included /\ j.handling \in {"ELIDE", "KEEP"}
      BY <2>1, <2>2, KeysAssumption DEF HandledInv, SourceIncluded, Parsing
    <3>2. ~error_count /\ ~Conflicts(k, match)
      BY <1>1, <2>1 DEF HeaderConfigTypeOK
    <3>3. handling'[h] = IF h \in match /\ handling[h] = "DEFAULT"
                         THEN k.handling ELSE handling[h]
      BY <2>1, <3>1
    <3>4. CASE j = k
      BY <3>1, <3>2, <3>3, <3>4 DEF Conflicts
    <3>5. CASE j # k
      <4>1. handling[h] = j.handling
        BY <2>1, <2>2, <3>2, <3>5 DEF HandledInv, HandledAsSaid
      <4> QED
        BY <3>1, <3>3, <4>1
    <3> QED
      BY <3>4, <3>5
  <2> QED
    BY <1>1, <2>1, <2>3, <2>4 DEF HandledInv, KeysWait, Parsing, ConfigParsed
<1>6. ASSUME NEW k \in SymbolKeys, SymbolKey(k) PROVE HandledInv'
  <2>1. HandleKeys \ todo' = HandleKeys \ todo
    BY <1>6, KeysDiffer DEF SymbolKey
  <2>2. included \subseteq included'
    BY <1>6 DEF SymbolKey
  <2> QED
    BY <1>1, <1>6, <2>1, <2>2, HandledKept DEF SymbolKey, ParsingKeys
<1>7. ASSUME NEW k \in IgnoreKeys, IgnoreSymbol(k) \/ IgnoreSource(k)
      PROVE  HandledInv'
  <2>1. HandleKeys \ todo' = HandleKeys \ todo
    BY <1>7, KeysDiffer DEF IgnoreSymbol, IgnoreSource
  <2> QED
    BY <1>1, <1>7, <2>1, HandledKept
    DEF IgnoreSymbol, IgnoreSource, ParsingKeys, includeVars
<1>8. CASE ConfigError
  BY <1>1, <1>8
  DEF ConfigError, ParsingKeys, HandledInv, SourceIncluded, KeysWait, Parsing,
      HandledAsSaid, ConfigParsed, FromSource, Names, configVars, keyVars, tableVars,
      tuVars, includeVars
<1>9. CASE ConfigDone
  <2>1. /\ pc = "config_init" /\ pc' \in {"tidy_status", "source_check_for_errors"}
        /\ todo = {} /\ ~error_count
        /\ UNCHANGED <<tuVars, includeVars, todo, handling, error_count>>
    BY <1>9 DEF ConfigDone, ParsingKeys, configVars, keyVars, tableVars
  <2>2. \A h : FromSource(h)' <=> FromSource(h)
    BY <2>1 DEF FromSource, Names, tuVars
  <2>3. SourceIncluded' /\ HandledAsSaid'
    BY <2>1, <2>2
    DEF HandledInv, SourceIncluded, HandledAsSaid, Parsing, includeVars
  <2> QED
    BY <1>1, <2>1, <2>3 DEF HandledInv, KeysWait, Parsing
<1>10. CASE UNCHANGED headerConfigVars
  BY <1>1, <1>10
  DEF headerConfigVars, includesVars, configVars, keyVars, tableVars, tuVars, includeVars,
      HandledInv, SourceIncluded, KeysWait, HandledAsSaid, ConfigParsed, Parsing,
      FromSource, Names, IncludesInv, IncludesTypeOK, OpenReported, ReportedInOrder,
      PhasesInOrder, VisitedIncluded, DepthZeroIsDirect, IncluderIncludes, Visited,
      is_direct
<1> QED
  BY <1>2, <1>3, <1>4, <1>5, <1>6, <1>7, <1>8, <1>9, <1>10
  DEF HeaderConfigStep, ConfigStep

\* keep and elide keys that disagree about a file that the source includes end the
\* program, whatever their order, their matches and the keys between them.
THEOREM ConflictsAreErrors == HeaderConfigSpec => []ConflictIsError
<1>1. HandledInv => ConflictIsError
  <2> SUFFICES ASSUME HandledInv, ConfigParsed,
                      NEW k1 \in HandleKeys, NEW k2 \in HandleKeys,
                      NEW h \in k1.matches \cap k2.matches, FromSource(h)
               PROVE  k1.handling = k2.handling
    BY DEF ConflictIsError
  <2> QED
    BY DEF HandledInv, HandledAsSaid
<1> QED
  BY <1>1, HandledInit, HandledStep, PTL DEF HeaderConfigSpec

-----------------------------------------------------------------------------
(***************************************************************************)
(* The most direct proxy is chosen.                                        *)
(***************************************************************************)

\* What key k was met for: from has a proxy, and one no deeper than the key's.
Served(k, from) == proxy[from] # NULL /\ depth[proxy[from]] <= depth[k.to]

DirectInv ==
  /\ HandledInv
  /\ ProxyFromKey
  /\ Parsing => ProxyKeys \subseteq todo /\ key = NULL
  /\ key # NULL => key.to \in included
  /\ \A h \in Id : proxy[h] # NULL => proxy[h] \in included
  /\ pc = "source_check_for_errors" => key = NULL
  /\ \A k \in ProxyKeys \ todo : \A from \in k.matches :
       /\ FromSource(k.to) /\ FromSource(from) /\ RootProxies(from)
       /\ k = key => from \notin matching
       => Served(k, from)

LEMMA DirectInit == HeaderConfigInit => DirectInv
<1> SUFFICES ASSUME HeaderConfigInit PROVE DirectInv
  OBVIOUS
<1>1. HandledInv /\ ProxyFromKey
  BY HandledInit, AcyclicInit DEF AcyclicInv
<1>2. /\ ProxyKeys \subseteq todo /\ key = NULL
      /\ \A h \in Id : proxy[h] = NULL
  BY DEF HeaderConfigInit
<1>3. pc = "source_init"
  BY DEF HeaderConfigInit, IncludesInit
<1> QED
  BY <1>1, <1>2, <1>3 DEF DirectInv

\* Steps that leave proxies alone and do not revise the depth of a known file.
LEMMA DirectKept ==
  ASSUME DirectInv, HandledInv', ProxyFromKey', ~Parsing,
         UNCHANGED <<key, matching, proxy, tu>>, todo' \subseteq todo,
         ProxyKeys \ todo' = ProxyKeys \ todo,
         included \subseteq included',
         \A h \in included : depth'[h] = depth[h],
         ~Parsing',
         pc' = "source_check_for_errors" => key = NULL,
         pc # "exit"
  PROVE  DirectInv'
<1>1. \A k \in ProxyKeys : FromSource(k.to) => k.to \in included
  BY KeysAssumption DEF DirectInv, HandledInv, SourceIncluded
<1>2. \A h : FromSource(h)' <=> FromSource(h)
  BY DEF FromSource, Names
<1>3. ASSUME NEW k \in ProxyKeys \ todo', NEW from \in k.matches,
             FromSource(k.to), FromSource(from), RootProxies(from),
             k = key => from \notin matching
      PROVE  Served(k, from)'
  <2>1. Served(k, from) /\ from \in Id
    BY <1>3, KeysAssumption DEF DirectInv
  <2>2. proxy[from] \in included /\ k.to \in included
    BY <1>1, <1>3, <2>1 DEF DirectInv, Served
  <2> QED
    BY <2>1, <2>2 DEF Served
<1> QED
  BY <1>2, <1>3 DEF DirectInv

\* A match is visited.
LEMMA DirectMatch ==
  ASSUME DirectInv, HandledInv', NEW from \in Id, ProxyMatch(from)
  PROVE  DirectInv'
<1> DEFINE to == key.to
<1>1. /\ key \in ProxyKeys \ todo /\ from \in matching /\ from \in key.matches
      /\ key' = key /\ todo' = todo /\ matching' = matching \ {from}
      /\ to \in Id /\ proxy \in [Id -> Id \cup {NULL}]
      /\ \A h \in Id : h # from => proxy'[h] = proxy[h]
      /\ ProxyFromKey'
  BY FromKeyMatch DEF DirectInv, HandledInv
<1>2. /\ UNCHANGED <<pc, tu, included, depth>> /\ pc = "config_init" /\ key # NULL
      /\ to \in included
  BY DEF ProxyMatch, tuVars, includeVars, DirectInv
<1>3. depth \in [Id -> Nat] /\ NULL \notin Id
  BY FileAssumption DEF DirectInv, HandledInv, HeaderConfigTypeOK, IncludesTypeOK
<1>4. \A h : FromSource(h)' <=> FromSource(h)
  BY <1>2 DEF FromSource, Names
<1>5. proxy'[from] \in {proxy[from], to}
  BY <1>1 DEF ProxyMatch, proxyVars
<1>6. ASSUME proxy[from] # NULL
      PROVE  /\ proxy'[from] # NULL
             /\ depth[proxy'[from]] <= depth[proxy[from]]
             /\ depth[proxy'[from]] <= depth[to]
  <2>1. proxy[from] \in Id
    BY <1>1, <1>6
  <2>2. proxy'[from] = IF depth[to] < depth[proxy[from]] THEN to ELSE proxy[from]
    BY <1>1, <1>6 DEF ProxyMatch, more_direct
  <2> QED
    BY <1>1, <1>3, <2>1, <2>2
<1>7. ASSUME proxy[from] = NULL, RootProxies(from)
      PROVE  proxy'[from] = to
  <2>1. \A j \in ProxyKeys : to \notin j.matches
    BY <1>1, <1>7 DEF RootProxies
  <2>2. proxy[to] = NULL /\ to # from
    BY <1>1, <2>1 DEF DirectInv, ProxyFromKey
  <2>3. ~include_proxy_would_cycle(from, to)
    <3>1. Closed({to}) /\ {to} \in SUBSET Id
      BY <1>1, <2>2 DEF Closed
    <3> QED
      BY <2>2, <3>1 DEF include_proxy_would_cycle, OnChain
  <2> QED
    BY <1>1, <1>7, <2>3 DEF ProxyMatch
<1>8. ASSUME NEW k \in ProxyKeys \ todo, NEW h \in k.matches,
             FromSource(k.to), FromSource(h), RootProxies(h),
             k = key => h \notin matching'
      PROVE  Served(k, h)'
  <2>1. h \in Id /\ k.to \in Id
    BY <1>8, KeysAssumption
  <2>2. CASE h # from
    BY <1>1, <1>2, <1>8, <2>1, <2>2 DEF DirectInv, Served
  <2>3. CASE h = from /\ k = key
    <3>1. CASE proxy[from] = NULL
      BY <1>1, <1>2, <1>3, <1>7, <1>8, <2>3, <3>1 DEF Served
    <3>2. CASE proxy[from] # NULL
      BY <1>2, <1>6, <2>3, <3>2 DEF Served
    <3> QED
      BY <3>1, <3>2
  <2>4. CASE h = from /\ k # key
    <3>1. proxy[from] # NULL /\ depth[proxy[from]] <= depth[k.to]
      BY <1>8, <2>4 DEF DirectInv, Served
    <3>2. /\ proxy'[from] # NULL
          /\ depth[proxy'[from]] <= depth[proxy[from]]
      BY <1>6, <3>1
    <3>3. /\ depth[proxy'[from]] \in Nat /\ depth[proxy[from]] \in Nat
          /\ depth[k.to] \in Nat
      BY <1>1, <1>3, <1>5, <2>1, <3>1
    <3> QED
      BY <1>2, <2>4, <3>1, <3>2, <3>3 DEF Served
  <2> QED
    BY <2>2, <2>3, <2>4
<1>9. \A h \in Id : proxy'[h] # NULL => proxy'[h] \in included'
  BY <1>1, <1>2, <1>5 DEF DirectInv
<1>10. ~Parsing'
  BY <1>2 DEF Parsing
<1>11. \A k \in ProxyKeys \ todo' : \A h \in k.matches :
         /\ FromSource(k.to)' /\ FromSource(h)' /\ RootProxies(h)
         /\ k = key' => h \notin matching'
         => Served(k, h)'
  BY <1>1, <1>4, <1>8
<1> QED
  BY <1>1, <1>2, <1>9, <1>10, <1>11 DEF DirectInv, RootProxies

LEMMA DirectStep == DirectInv /\ [HeaderConfigStep]_headerConfigVars => DirectInv'
<1> SUFFICES ASSUME DirectInv, [HeaderConfigStep]_headerConfigVars
             PROVE  DirectInv'
  OBVIOUS
<1>1. HeaderConfigTypeOK /\ HandledInv' /\ ProxyFromKey'
  BY HandledStep, FromKeyStep DEF DirectInv, HandledInv
<1>2. CASE IncludesStep /\ UNCHANGED configVars
  <2>1. Parsing
    BY <1>2 DEF IncludesStep, Preprocess, ParseFails, ParseDone, MissingFile,
                includes_init_visitor, NewInclude, DirectAgain, IndirectAgain,
                Visiting, IncludesDone, Parsing
  <2>2. ProxyKeys \subseteq todo' /\ key' = NULL /\ proxy' = proxy
    BY <1>2, <2>1 DEF DirectInv, configVars, keyVars, proxyVars
  <2>3. \A h \in Id : proxy'[h] = NULL
    BY <2>1, <2>2 DEF DirectInv, ProxyFromKey
  <2> QED
    BY <1>1, <2>2, <2>3 DEF DirectInv
<1>3. ASSUME NEW k \in ProxyKeys, ProxyKey(k) PROVE DirectInv'
  <2>1. /\ pc = "config_init" /\ key = NULL /\ k \in todo /\ todo' = todo \ {k}
        /\ UNCHANGED <<pc, tu, included, depth, proxy>>
    BY <1>3 DEF ProxyKey, ParsingKeys, tuVars, includeVars, proxyVars
  <2>2. \A h : FromSource(h)' <=> FromSource(h)
    BY <2>1 DEF FromSource, Names
  <2>3. k \in [to : Id, matches : SUBSET Id] /\ NULL \notin ProxyKeys
    BY KeysAssumption
  <2>4. FromSource(k.to) => k.to \in included
    BY <2>1, <2>3 DEF DirectInv, HandledInv, SourceIncluded, Parsing
  <2>5. \A h \in k.matches : FromSource(h) => h \in included
    BY <2>1, <2>3 DEF DirectInv, HandledInv, SourceIncluded, Parsing
  <2>6. k.to \in included => key' = k /\ matching' = k.matches \cap included
    BY <1>3 DEF ProxyKey
  <2>7. k.to \notin included => key' = key /\ matching' = matching
    BY <1>3 DEF ProxyKey
  <2>8. ASSUME NEW j \in ProxyKeys \ todo', NEW from \in j.matches,
               FromSource(j.to), FromSource(from), RootProxies(from),
               j = key' => from \notin matching'
        PROVE  Served(j, from)'
    <3>1. CASE j = k
      BY <2>4, <2>5, <2>6, <2>8, <3>1
    <3>2. CASE j # k
      BY <2>1, <2>3, <2>8, <3>2 DEF DirectInv, Served
    <3> QED
      BY <3>1, <3>2
  <2>9. ~Parsing' /\ pc' # "source_check_for_errors"
    BY <2>1 DEF Parsing
  <2>10. key' # NULL => key'.to \in included'
    BY <2>1, <2>6, <2>7
  <2>11. \A h \in Id : proxy'[h] # NULL => proxy'[h] \in included'
    BY <2>1 DEF DirectInv
  <2>12. \A j \in ProxyKeys \ todo' : \A from \in j.matches :
           /\ FromSource(j.to)' /\ FromSource(from)' /\ RootProxies(from)
           /\ j = key' => from \notin matching'
           => Served(j, from)'
    BY <2>2, <2>8
  <2> QED
    BY <1>1, <2>9, <2>10, <2>11, <2>12 DEF DirectInv, RootProxies
<1>4. ASSUME NEW from \in Id, ProxyMatch(from) PROVE DirectInv'
  BY <1>1, <1>4, DirectMatch
<1>5. CASE ProxyKeyDone
  <2>1. /\ pc = "config_init" /\ key' = NULL /\ matching = {}
        /\ UNCHANGED <<pc, tu, included, depth, proxy, todo, matching>>
    BY <1>5 DEF ProxyKeyDone, tuVars, includeVars, proxyVars
  <2>2. \A h : FromSource(h)' <=> FromSource(h)
    BY <2>1 DEF FromSource, Names
  <2>3. \A k \in ProxyKeys \ todo' : \A from \in k.matches :
          FromSource(k.to)' /\ FromSource(from)' /\ RootProxies(from) =>
            Served(k, from)'
    BY <2>1, <2>2 DEF DirectInv, Served
  <2> QED
    BY <1>1, <2>1, <2>3 DEF DirectInv, RootProxies, Parsing
<1>6. ASSUME NEW k \in HandleKeys, HandleKey(k) PROVE DirectInv'
  <2>1. /\ pc = "config_init" /\ todo' = todo \ {k}
        /\ UNCHANGED <<pc, tu, included, depth, proxy, key, matching>>
    BY <1>6 DEF HandleKey, ParsingKeys, tuVars, includeVars, proxyVars
  <2>2. ProxyKeys \ todo' = ProxyKeys \ todo
    BY <2>1, KeysDiffer
  <2> QED
    BY <1>1, <2>1, <2>2, DirectKept DEF Parsing
<1>7. ASSUME NEW k \in SymbolKeys, SymbolKey(k) PROVE DirectInv'
  <2> DEFINE h == FileID[k.inc]
  <2>1. /\ pc = "config_init" /\ todo' = todo \ {k}
        /\ UNCHANGED <<pc, tu, proxy, key, matching>>
    BY <1>7 DEF SymbolKey, ParsingKeys, tuVars, proxyVars
  <2>2. \/ UNCHANGED <<included, depth>>
        \/ /\ h \notin included /\ included' = included \cup {h}
           /\ depth' = [depth EXCEPT ![h] = depth_of_added]
    BY <1>7 DEF SymbolKey
  <2>3. depth \in [Id -> Nat] /\ included \subseteq Id
    BY <1>1 DEF HeaderConfigTypeOK, IncludesTypeOK
  <2>4. included \subseteq included' /\ \A g \in included : depth'[g] = depth[g]
    BY <2>2, <2>3
  <2>5. ProxyKeys \ todo' = ProxyKeys \ todo
    <3>1. DOMAIN k = {"sym", "inc"}
      BY KeysAssumption
    <3>2. \A j \in ProxyKeys : DOMAIN j = {"to", "matches"}
      BY KeysAssumption
    <3> QED
      BY <2>1, <3>1, <3>2
  <2> QED
    BY <1>1, <2>1, <2>4, <2>5, DirectKept DEF Parsing
<1>8. ASSUME NEW k \in IgnoreKeys, IgnoreSymbol(k) \/ IgnoreSource(k)
      PROVE  DirectInv'
  <2>1. /\ pc = "config_init" /\ todo' = todo \ {k}
        /\ UNCHANGED <<pc, tu, included, depth, proxy, key, matching>>
    BY <1>8 DEF IgnoreSymbol, IgnoreSource, ParsingKeys, tuVars, includeVars, proxyVars
  <2>2. ProxyKeys \ todo' = ProxyKeys \ todo
    <3>1. DOMAIN k = {"ignore"}
      BY KeysAssumption
    <3>2. \A j \in ProxyKeys : DOMAIN j = {"to", "matches"}
      BY KeysAssumption
    <3> QED
      BY <2>1, <3>1, <3>2
  <2> QED
    BY <1>1, <2>1, <2>2, DirectKept DEF Parsing
<1>9. CASE ConfigError \/ ConfigDone
  <2>1. /\ pc = "config_init" /\ key = NULL
        /\ pc' \in {"exit", "tidy_status", "source_check_for_errors"}
        /\ UNCHANGED <<tu, included, depth, proxy, key, matching, todo>>
    BY <1>9 DEF ConfigError, ConfigDone, ParsingKeys, tuVars, includeVars,
                configVars, proxyVars, keyVars
  <2> QED
    BY <1>1, <2>1, DirectKept DEF Parsing
<1>10. CASE UNCHANGED headerConfigVars
  <2>1. UNCHANGED <<pc, tu, included, depth, proxy, key, matching, todo>>
    BY <1>10 DEF headerConfigVars, includesVars, configVars, keyVars, proxyVars,
                 tuVars, includeVars
  <2>2. (Parsing' <=> Parsing) /\ \A h : FromSource(h)' <=> FromSource(h)
    BY <2>1 DEF Parsing, FromSource, Names
  <2>3. \A k, from : Served(k, from)' <=> Served(k, from)
    BY <2>1 DEF Served
  <2> QED
    BY <1>1, <2>1, <2>2, <2>3 DEF DirectInv, RootProxies
<1> QED
  BY <1>2, <1>3, <1>4, <1>5, <1>6, <1>7, <1>8, <1>9, <1>10
  DEF HeaderConfigStep, ConfigStep

\* Whatever the order of the keys and of their matches, of the proxies that keys
\* give an include file one that was included most directly is chosen, in every
\* configuration that gives those proxies none of their own.
THEOREM MostDirectIsChosen == HeaderConfigSpec => []MostDirectProxy
<1>1. DirectInv => MostDirectProxy
  <2> SUFFICES ASSUME DirectInv, pc = "source_check_for_errors",
                      NEW k \in ProxyKeys, NEW from \in k.matches,
                      FromSource(k.to), FromSource(from), RootProxies(from)
               PROVE  Served(k, from)
    BY DEF MostDirectProxy, Served
  <2>1. todo = {} /\ key = NULL
    BY DEF DirectInv, HandledInv, ConfigParsed
  <2>2. k # NULL
    BY KeysAssumption
  <2> QED
    BY <2>1, <2>2 DEF DirectInv
<1> QED
  BY <1>1, DirectInit, DirectStep, PTL DEF HeaderConfigSpec

-----------------------------------------------------------------------------
(***************************************************************************)
(* The inductive invariant.                                                *)
(***************************************************************************)

\* An include file that is not direct has an includer; the ones that the
\* configuration adds are the exception.
DeeperHasIncluder ==
  /\ Parsing => \A h \in included : depth[h] > 0 => includer[h] # NULL
  /\ ~Parsing /\ pc # "exit" =>
       \A h \in Id : FromSource(h) /\ depth[h] > 0 => includer[h] \in included

\* A directive that names no file ends the program.
DirectivesNameFiles ==
  ~Parsing /\ pc # "exit" => \A i \in 1..Len(tu) : tu[i].included # NULL

\* h is not one that somebody may be told to include who should not.
Hidden(h) ==
  depth[h] > 0 /\ ~is_local(h) /\ ~config_is_standard_include(h) /\ proxy[h] = NULL
  => is_local(includer[h])

\* The second visit hides the files it meets.
HiddenSoFar ==
  /\ pc = "implicit_proxies_init" =>
       \A i \in 1..Len(tu) : i < pos => Hidden(FileID[tu[i].included])
  /\ pc = "symbols_init" => \A h \in Id : FromSource(h) => Hidden(h)

ProxiesInv ==
  /\ HandledInv
  /\ DeeperHasIncluder
  /\ DirectivesNameFiles
  /\ HiddenSoFar

LEMMA ProxiesInit == HeaderConfigInit => ProxiesInv
<1> SUFFICES ASSUME HeaderConfigInit PROVE ProxiesInv
  OBVIOUS
<1>1. HandledInv
  BY HandledInit
<1>2. pc = "source_init" /\ included = {}
  BY DEF HeaderConfigInit, IncludesInit
<1> QED
  BY <1>1, <1>2
  DEF ProxiesInv, DeeperHasIncluder, DirectivesNameFiles, HiddenSoFar, Parsing

-----------------------------------------------------------------------------
(***************************************************************************)
(* Includers.                                                              *)
(***************************************************************************)

\* The entry of a file that a directive names is not revised after
\* includes_init().
LEMMA IncluderKept ==
  ASSUME ProxiesInv, HandledInv', ~Parsing, pc # "exit", ~Parsing', tu' = tu,
         included \subseteq included',
         \A h \in included : depth'[h] = depth[h] /\ includer'[h] = includer[h]
  PROVE  DeeperHasIncluder' /\ DirectivesNameFiles'
<1>1. \A h : FromSource(h)' <=> FromSource(h)
  BY DEF FromSource, Names
<1>2. \A h \in Id : FromSource(h) => h \in included
  BY DEF ProxiesInv, HandledInv, SourceIncluded
<1> QED
  BY <1>1, <1>2 DEF ProxiesInv, DeeperHasIncluder, DirectivesNameFiles

\* includes_init() gives an includer to every include file that is not direct.
LEMMA IncluderGiven ==
  ASSUME IncludesInv, IncludesInv', IncludesStep, Parsing, DeeperHasIncluder
  PROVE  \A h \in included' : depth'[h] > 0 => includer'[h] # NULL
<1> USE FileAssumption
<1>1. \A h \in included : depth[h] > 0 => includer[h] # NULL
  BY DEF DeeperHasIncluder
<1>2. /\ included \in SUBSET Id /\ depth \in [Id -> Nat]
      /\ includer \in [Id -> Id \cup {NULL}]
  BY DEF IncludesInv, IncludesTypeOK
<1>3. CASE NewInclude
  <2> DEFINE h == FileID[cursor.included]
             inr == IF is_direct(cursor) THEN NULL ELSE FileID[cursor.includer]
  <2>1. /\ included' = included \cup {h}
        /\ includer' = [includer EXCEPT ![h] = inr]
        /\ depth' = [depth EXCEPT ![h] = depth_of_new(inr)]
    BY <1>3 DEF NewInclude, include_insert
  <2>2. h \in Id /\ (inr = NULL => depth_of_new(inr) = 0)
    BY <1>3, CursorType DEF NewInclude, IncludesInv, depth_of_new
  <2> HIDE DEF h, inr
  <2>3. \A g \in included \ {h} : depth'[g] = depth[g] /\ includer'[g] = includer[g]
    BY <1>2, <2>1, <2>2
  <2>4. depth'[h] = depth_of_new(inr) /\ includer'[h] = inr
    BY <1>2, <2>1, <2>2
  <2> QED
    BY <1>1, <2>1, <2>2, <2>3, <2>4
<1>4. CASE DirectAgain
  BY <1>1, <1>2, <1>4 DEF DirectAgain, make_direct
<1>5. CASE IndirectAgain
  <2> DEFINE h == FileID[cursor.included]
             new == FileID[cursor.includer]
  <2>1. /\ included' = included /\ depth' = depth
        /\ includer' = [includer EXCEPT ![h] = includer_again(h, new)]
    BY <1>5 DEF IndirectAgain
  <2>2. new \in Id
    BY <1>5, CursorType DEF IndirectAgain, IncludesInv
  <2> QED
    BY <1>1, <1>2, <2>1, <2>2 DEF includer_again
<1>6. CASE UNCHANGED includeVars
  BY <1>1, <1>6 DEF includeVars
<1> QED
  BY <1>3, <1>4, <1>5, <1>6
  DEF IncludesStep, Preprocess, ParseFails, ParseDone, MissingFile,
      includes_init_visitor, IncludesDone

LEMMA IncluderStep ==
  ASSUME ProxiesInv, HandledInv', [HeaderConfigStep]_headerConfigVars
  PROVE  DeeperHasIncluder' /\ DirectivesNameFiles' /\ HiddenSoFar'
<1>1. CASE IncludesStep /\ UNCHANGED configVars
  <2>1. Parsing
    BY <1>1 DEF IncludesStep, Preprocess, ParseFails, ParseDone, MissingFile,
                includes_init_visitor, NewInclude, DirectAgain, IndirectAgain,
                Visiting, IncludesDone, Parsing
  <2>2. IncludesInv /\ IncludesInv'
    BY <1>1, <2>1, InvStep DEF ProxiesInv, HandledInv, KeysWait
  <2>3. \A h \in included' : depth'[h] > 0 => includer'[h] # NULL
    BY <1>1, <2>1, <2>2, IncluderGiven DEF ProxiesInv
  <2>4. ASSUME ~Parsing', pc' # "exit"
        PROVE  /\ \A i \in 1..Len(tu') : tu'[i].included # NULL
               /\ \A h \in Id : FromSource(h)' /\ depth'[h] > 0 =>
                                  includer'[h] \in included'
    <3>1. Visited' = 1..Len(tu')
      BY <2>4 DEF Visited, Parsing
    <3>2. \A i \in 1..Len(tu') : tu'[i].included # NULL
      BY <2>2, <2>4, <3>1 DEF IncludesInv, VisitedIncluded
    <3>3. \A h \in Id : FromSource(h)' => h \in included'
      BY <2>4 DEF HandledInv, SourceIncluded
    <3>4. \A h \in included' : includer'[h] # NULL => includer'[h] \in included'
      BY <2>2, <2>4 DEF IncludesInv, IncluderIncludes
    <3> QED
      BY <2>3, <3>2, <3>3, <3>4
  <2>5. pc' \notin {"implicit_proxies_init", "symbols_init"}
    BY <2>2 DEF IncludesInv, PhasesInOrder
  <2> QED
    BY <2>3, <2>4, <2>5 DEF DeeperHasIncluder, DirectivesNameFiles, HiddenSoFar
<1>2. CASE ConfigStep
  <2>1. /\ pc = "config_init" /\ tu' = tu
        /\ pc' \in {"config_init", "exit", "tidy_status", "source_check_for_errors"}
    BY <1>2 DEF ConfigStep, ProxyKey, ProxyMatch, ProxyKeyDone, HandleKey, SymbolKey,
                IgnoreSymbol, IgnoreSource, ConfigError, ConfigDone, ParsingKeys, tuVars
  <2>2. /\ included \subseteq included'
        /\ \A h \in included : depth'[h] = depth[h] /\ includer'[h] = includer[h]
    <3>1. ASSUME NEW k \in SymbolKeys, SymbolKey(k)
          PROVE  /\ included \subseteq included' /\ includer' = includer
                 /\ \A h \in included : depth'[h] = depth[h]
      <4>1. depth \in [Id -> Nat] /\ included \in SUBSET Id
        BY DEF ProxiesInv, HandledInv, HeaderConfigTypeOK, IncludesTypeOK
      <4>2. includer' = includer
        BY <3>1 DEF SymbolKey
      <4>3. \/ UNCHANGED <<included, depth>>
            \/ /\ FileID[k.inc] \notin included
               /\ included' = included \cup {FileID[k.inc]}
               /\ depth' = [depth EXCEPT ![FileID[k.inc]] = depth_of_added]
        BY <3>1 DEF SymbolKey
      <4> QED
        BY <4>1, <4>2, <4>3
    <3>2. CASE UNCHANGED includeVars
      BY <3>2 DEF includeVars
    <3> QED
      BY <1>2, <3>1, <3>2
      DEF ConfigStep, ProxyKey, ProxyMatch, ProxyKeyDone, HandleKey, IgnoreSymbol,
          IgnoreSource, ConfigError, ConfigDone
  <2>3. ~Parsing /\ ~Parsing' /\ pc # "exit"
    BY <2>1 DEF Parsing
  <2> QED
    BY <2>1, <2>2, <2>3, IncluderKept DEF HiddenSoFar
<1>3. CASE UNCHANGED headerConfigVars
  BY <1>3
  DEF ProxiesInv, DeeperHasIncluder, DirectivesNameFiles, HiddenSoFar, Hidden, Parsing,
      FromSource, Names, is_local, config_is_standard_include, headerConfigVars,
      includesVars, tuVars, includeVars, configVars, proxyVars
<1> QED
  BY <1>1, <1>2, <1>3 DEF HeaderConfigStep
-----------------------------------------------------------------------------
(***************************************************************************)
(* The second visit.                                                       *)
(***************************************************************************)

\* The loop of include_get_proxy() stops at an include file without a proxy.
LEMMA ProxyIsRoot ==
  ASSUME NEW x, ChainEnds(x)
  PROVE  include_get_proxy(x) \in Id /\ proxy[include_get_proxy(x)] = NULL
BY DEF ChainEnds, include_get_proxy, IsRoot

\* The steps of proxies.c and of source_check_for_errors() leave the entries and
\* the configuration alone, except for proxies.
LEMMA SecondVisitKeeps ==
  ASSUME ProxiesInv, ConfigParsed, proxy' \in [Id -> Id \cup {NULL}],
         pos' \in Nat \ {0}, ~Parsing', pc' # "config_init",
         UNCHANGED <<tuVars, includeVars, keyVars, is_proxy_explicit, tableVars>>
  PROVE  HandledInv' /\ DeeperHasIncluder' /\ DirectivesNameFiles'
<1>1. HeaderConfigTypeOK'
  BY DEF ProxiesInv, HandledInv, HeaderConfigTypeOK, IncludesTypeOK,
         tuVars, includeVars, keyVars, tableVars
<1>2. ~Parsing /\ pc # "exit"
  BY DEF ConfigParsed, Parsing
<1>3. \A h : FromSource(h)' <=> FromSource(h)
  BY DEF FromSource, Names, tuVars
<1>4. SourceIncluded' /\ HandledAsSaid'
  BY <1>2, <1>3 DEF ProxiesInv, HandledInv, SourceIncluded, HandledAsSaid,
                    includeVars, keyVars, tableVars
<1>5. HandledInv'
  BY <1>1, <1>4 DEF ProxiesInv, HandledInv, KeysWait, keyVars, tableVars
<1> QED
  BY <1>2, <1>5, IncluderKept DEF includeVars, tuVars

\* One call of the visitor leaves the include file it was called for hidden.
LEMMA VisitHides ==
  ASSUME ProxiesInv, implicit_proxies_visitor
  PROVE  ProxiesInv'
<1>0. PICK h : h = FileID[cursor.included]
  OBVIOUS
<1>1. /\ pc = "implicit_proxies_init" /\ pc' = pc
      /\ pos \in 1..Len(tu) /\ pos' = pos + 1
      /\ UNCHANGED <<tuVars, includeVars, keyVars, is_proxy_explicit, tableVars>>
      /\ IF SkipsImplicit(h) \/ ProxyCandidate(h) = NULL
           THEN UNCHANGED proxy
           ELSE /\ ChainEnds(ProxyCandidate(h))
                /\ proxy' = [proxy EXCEPT
                               ![h] = include_get_proxy(ProxyCandidate(h))]
  BY <1>0 DEF implicit_proxies_visitor
<1>2. /\ proxy \in [Id -> Id \cup {NULL}] /\ tu \in Seq(Directive) /\ NULL \notin Id
      /\ depth \in [Id -> Nat]
  BY FileAssumption DEF ProxiesInv, HandledInv, HeaderConfigTypeOK, IncludesTypeOK
<1>3. \A i \in 1..Len(tu) : tu[i].included \in File /\ FileID[tu[i].included] \in Id
  <2>1. \A i \in 1..Len(tu) : tu[i].included # NULL
    BY <1>1 DEF ProxiesInv, DirectivesNameFiles, Parsing
  <2>2. \A i \in 1..Len(tu) : tu[i] \in Directive
    BY <1>2
  <2>3. \A i \in 1..Len(tu) : tu[i].included \in File
    BY <2>1, <2>2 DEF Directive
  <2> QED
    BY <2>3, FileAssumption
<1>4. h \in Id
  BY <1>0, <1>1, <1>3 DEF cursor
<1>5. /\ proxy' \in [Id -> Id \cup {NULL}]
      /\ \A g \in Id : proxy[g] # NULL => proxy'[g] # NULL
  BY <1>1, <1>2, <1>4, ProxyIsRoot
<1>6. HandledInv' /\ DeeperHasIncluder' /\ DirectivesNameFiles'
  BY <1>1, <1>5, SecondVisitKeeps DEF ConfigParsed, Parsing
<1>7. \A g \in Id : Hidden(g) => Hidden(g)'
  BY <1>1, <1>5 DEF Hidden, is_local, config_is_standard_include, includeVars
<1>8. Hidden(h)'
  <2> SUFFICES ASSUME depth[h] > 0, ~is_local(h), ~config_is_standard_include(h),
                      proxy'[h] = NULL, ~is_local(includer[h])
               PROVE  FALSE
    BY <1>1 DEF Hidden, is_local, config_is_standard_include, includeVars
  <2>1. proxy[h] = NULL
    BY <1>4, <1>5
  <2>2. ~SkipsImplicit(h)
    BY <2>1 DEF SkipsImplicit
  <2>3. ProxyCandidate(h) = includer[h]
    BY DEF ProxyCandidate
  <2>4. includer[h] \in included /\ included \in SUBSET Id
    <3>1. FromSource(h)
      BY <1>0, <1>1, <1>3 DEF FromSource, Names, ProxiesInv, DirectivesNameFiles, Parsing, cursor
    <3> QED
      BY <1>1, <1>4, <3>1 DEF ProxiesInv, DeeperHasIncluder, Parsing, HandledInv,
                              HeaderConfigTypeOK, IncludesTypeOK
  <2>5. /\ ChainEnds(ProxyCandidate(h))
        /\ proxy' = [proxy EXCEPT ![h] = include_get_proxy(ProxyCandidate(h))]
    BY <1>1, <1>2, <2>2, <2>3, <2>4
  <2> QED
    BY <1>2, <1>4, <2>5, ProxyIsRoot
<1>9. HiddenSoFar'
  <2> SUFFICES ASSUME NEW i \in 1..Len(tu), i < pos + 1
               PROVE  Hidden(FileID[tu[i].included])'
    BY <1>1 DEF HiddenSoFar, tuVars
  <2>1. CASE i = pos
    BY <1>0, <1>1, <1>8, <2>1 DEF cursor, tuVars
  <2>2. CASE i < pos
    <3>1. Hidden(FileID[tu[i].included])
      BY <1>1, <2>2 DEF ProxiesInv, HiddenSoFar
    <3>2. FileID[tu[i].included] \in Id
      BY <1>3
    <3> QED
      BY <1>1, <1>7, <3>1, <3>2 DEF tuVars
  <2> QED
    BY <1>1, <2>1, <2>2
<1> QED
  BY <1>6, <1>9 DEF ProxiesInv

LEMMA ProxiesInvStep == ProxiesInv /\ [ProxiesStep]_proxiesVars => ProxiesInv'
<1> SUFFICES ASSUME ProxiesInv, [ProxiesStep]_proxiesVars PROVE ProxiesInv'
  OBVIOUS
<1>1. CASE [HeaderConfigStep]_headerConfigVars
  <2>1. HandledInv'
    BY <1>1, HandledStep DEF ProxiesInv
  <2> QED
    BY <1>1, <2>1, IncluderStep DEF ProxiesInv
<1>2. pos \in Nat \ {0} /\ proxy \in [Id -> Id \cup {NULL}]
  BY DEF ProxiesInv, HandledInv, HeaderConfigTypeOK, IncludesTypeOK
<1>3. CASE SourceHasErrors \/ SourceIsFine
  <2>1. /\ pc = "source_check_for_errors" /\ pc' \in {"exit", "implicit_proxies_init"}
        /\ pos' = pos \/ pos' = 1
        /\ pc' = "implicit_proxies_init" => pos' = 1
        /\ UNCHANGED <<tuVars, includeVars, configVars>>
    BY <1>3 DEF SourceHasErrors, SourceIsFine
  <2>2. HandledInv' /\ DeeperHasIncluder' /\ DirectivesNameFiles'
    BY <1>2, <2>1, SecondVisitKeeps DEF ConfigParsed, Parsing, configVars, proxyVars
  <2>3. HiddenSoFar'
    BY <2>1 DEF HiddenSoFar
  <2> QED
    BY <2>2, <2>3 DEF ProxiesInv
<1>4. CASE implicit_proxies_visitor
  BY <1>4, VisitHides
<1>5. CASE ImplicitDone
  <2>1. /\ pc = "implicit_proxies_init" /\ pc' = "symbols_init"
        /\ pos > Len(tu) /\ pos' = pos
        /\ UNCHANGED <<tuVars, includeVars, configVars>>
    BY <1>5 DEF ImplicitDone
  <2>2. HandledInv' /\ DeeperHasIncluder' /\ DirectivesNameFiles'
    BY <1>2, <2>1, SecondVisitKeeps DEF ConfigParsed, Parsing, configVars, proxyVars
  <2>3. ASSUME NEW h \in Id, FromSource(h) PROVE Hidden(h)
    <3>1. PICK i \in 1..Len(tu) : FileID[tu[i].included] = h
      BY <2>3 DEF FromSource, Names
    <3>2. i < pos
      BY <1>2, <2>1 DEF ProxiesInv, HandledInv, HeaderConfigTypeOK, IncludesTypeOK
    <3> QED
      BY <2>1, <3>1, <3>2 DEF ProxiesInv, HiddenSoFar
  <2>4. HiddenSoFar'
    BY <2>1, <2>3 DEF HiddenSoFar, Hidden, FromSource, Names, is_local,
       config_is_standard_include, tuVars, includeVars, configVars, proxyVars
  <2> QED
    BY <2>2, <2>4 DEF ProxiesInv
<1> QED
  BY <1>1, <1>3, <1>4, <1>5 DEF ProxiesStep, proxiesVars

\* The assertion of implicit_proxies_visitor() never fails: whatever include
\* files the configuration adds without an includer, the ones that the second
\* visit meets have one.
THEOREM VisitedIncluderKnown == ProxiesSpec => []VisitedHasIncluder
<1>1. ProxiesInv => VisitedHasIncluder
  <2> SUFFICES ASSUME ProxiesInv, pc = "implicit_proxies_init", pos \in 1..Len(tu)
               PROVE  LET h == FileID[cursor.included]
                      IN  h \in included /\ (depth[h] > 0 => includer[h] \in included)
    BY DEF VisitedHasIncluder
  <2> DEFINE h == FileID[cursor.included]
  <2>1. tu \in Seq(Directive) /\ tu[pos].included # NULL
    BY DEF ProxiesInv, DirectivesNameFiles, Parsing, HandledInv, HeaderConfigTypeOK,
           IncludesTypeOK
  <2>2. h \in Id
    <3>1. cursor \in Directive /\ cursor.included # NULL
      BY <2>1 DEF cursor
    <3> QED
      BY <3>1, FileAssumption DEF Directive
  <2>3. FromSource(h)
    BY <2>1 DEF FromSource, Names, cursor
  <2> QED
    BY <2>2, <2>3 DEF ProxiesInv, HandledInv, SourceIncluded, DeeperHasIncluder, Parsing
<1> QED
  BY <1>1, ProxiesInit, ProxiesInvStep, PTL DEF ProxiesSpec

\* Once the implicit proxies are set, no implementation header stands for
\* itself, unless a local file is what includes it: the order of the directives
\* and what the configuration did before do not matter.
THEOREM ImplementationIsHidden == ProxiesSpec => []ImplementationHidden
<1>1. ProxiesInv => ImplementationHidden
  BY DEF ProxiesInv, HandledInv, HeaderConfigTypeOK, IncludesTypeOK, HiddenSoFar, Hidden,
         ImplementationHidden
<1> QED
  BY <1>1, ProxiesInit, ProxiesInvStep, PTL DEF ProxiesSpec

-----------------------------------------------------------------------------
(***************************************************************************)
(* Includers make no cycle.                                                *)
(***************************************************************************)

\* Only an entry has an includer, and an entry is what it is.
IncludersInv ==
  /\ \A h \in Id : includer[h] # NULL => h \in included /\ includer[h] \in included
  /\ IncludersEnd

\* The directives visited are the first ones, and an includer was included before.
VisitsInOrder ==
  /\ ReportedInOrder
  /\ VisitedIncluded
  /\ \A i \in Visited : i \in 1..Len(tu) /\ \A j \in 1..(i - 1) : j \in Visited

LEMMA InOrder == IncludesInv => VisitsInOrder
<1> SUFFICES ASSUME IncludesInv PROVE VisitsInOrder
  OBVIOUS
<1>1. tu \in Seq(Directive) /\ pos \in Nat \ {0} /\ Len(tu) \in Nat
  BY DEF IncludesInv, IncludesTypeOK
<1>2. ReportedInOrder /\ VisitedIncluded
  BY DEF IncludesInv
<1>3. CASE pc = "source_init"
  BY <1>2, <1>3 DEF Visited, VisitsInOrder
<1>4. CASE pc = "includes_init"
  <2>1. pos <= Len(tu) + 1 /\ Visited = 1..(pos - 1)
    BY <1>4 DEF IncludesInv, PhasesInOrder, Visited
  <2> QED
    BY <1>1, <1>2, <2>1 DEF VisitsInOrder
<1>5. CASE pc \notin {"source_init", "includes_init"}
  <2>1. Visited = 1..Len(tu)
    BY <1>5 DEF Visited
  <2> QED
    BY <1>1, <1>2, <2>1 DEF VisitsInOrder
<1> QED
  BY <1>3, <1>4, <1>5

\* Both files of a directive that was visited have entries.
LEMMA VisitedKnown ==
  ASSUME VisitsInOrder, pc # "exit", NEW i \in Visited, NEW h, Names(i, h)
  PROVE  /\ h \in included
         /\ ~is_direct(tu[i]) => FileID[tu[i].includer] \in included
<1>1. h \in included
  BY DEF VisitsInOrder, VisitedIncluded, Names
<1>2. ASSUME ~is_direct(tu[i]) PROVE FileID[tu[i].includer] \in included
  <2>1. PICK j \in 1..(i - 1) : tu[j].included = tu[i].includer
    BY <1>2 DEF VisitsInOrder, ReportedInOrder, is_direct
  <2> QED
    BY <2>1 DEF VisitsInOrder, VisitedIncluded
<1> QED
  BY <1>1, <1>2

\* What includes what grows with the directives visited.
LEMMA IncludesMore ==
  ASSUME Visited \subseteq Visited', tu' = tu, NEW x, NEW y, Reaches(x, y)
  PROVE  Reaches(x, y)'
<1>1. \A i, h : Names(i, h)' <=> Names(i, h)
  BY DEF Names
<1>2. SUFFICES ASSUME NEW S \in SUBSET Id, x \in S,
                      \A i \in Visited' : \A h \in Id :
                        Names(i, h)' /\ ~is_direct(tu'[i]) /\ FileID[tu'[i].includer] \in S
                        => h \in S
               PROVE  y \in S
  BY DEF Reaches
<1>3. \A i \in Visited : \A h \in Id :
        Names(i, h) /\ ~is_direct(tu[i]) /\ FileID[tu[i].includer] \in S => h \in S
  BY <1>1, <1>2
<1> QED
  BY <1>2, <1>3 DEF Reaches

\* So namesakes that do not include each other did not before.
LEMMA ApartBefore ==
  ASSUME VisitsInOrder, pc # "exit", Visited \subseteq Visited', tu' = tu,
         \A g \in included : file'[g] = file[g], NamesakesApart'
  PROVE  NamesakesApart
<1> SUFFICES ASSUME NEW i \in Visited, NEW h \in Id, NEW inr, inr = FileID[tu[i].includer],
                    Names(i, h), ~is_direct(tu[i]),
                    Basename[file[h]] = Basename[file[inr]]
             PROVE  ~Reaches(h, inr)
  BY DEF NamesakesApart
<1>1. h \in included /\ inr \in included
  BY VisitedKnown
<1>2. i \in Visited' /\ Names(i, h)' /\ ~is_direct(tu'[i]) /\ inr = FileID[tu'[i].includer]
  BY DEF Names
<1>3. Basename[file'[h]] = Basename[file'[inr]]
  BY <1>1
<1>4. ~Reaches(h, inr)'
  BY <1>2, <1>3 DEF NamesakesApart
<1> QED
  BY <1>4, IncludesMore

\* A new entry is nobody's includer yet.
LEMMA NewEnds ==
  ASSUME IncludesTypeOK, IncluderAcyclic, NEW h \in Id, NEW inr \in Id \cup {NULL},
         \A g \in Id : includer[g] # h, inr # h,
         includer' = [includer EXCEPT ![h] = inr]
  PROVE  IncluderAcyclic'
<1> SUFFICES ASSUME NEW S \in SUBSET Id, S # {}, \A g \in S : includer'[g] \in S
             PROVE  FALSE
  BY DEF IncluderAcyclic
<1>1. includer'[h] = inr /\ \A g \in Id \ {h} : includer'[g] = includer[g]
  BY DEF IncludesTypeOK
<1>2. CASE S \ {h} = {}
  BY <1>1, <1>2
<1>3. CASE S \ {h} # {}
  <2>1. PICK g \in S \ {h} : includer[g] \notin S \ {h}
    BY <1>3 DEF IncluderAcyclic
  <2> QED
    BY <1>1, <2>1
<1> QED
  BY <1>2, <1>3

\* An includer may be replaced by one that the include file does not include.
LEMMA NamesakeEnds ==
  ASSUME IncludesTypeOK, IncluderAcyclic, NEW h \in Id, NEW inr \in Id,
         NEW T \in SUBSET Id, h \in T, inr \notin T,
         \A g \in Id : includer[g] \in T => g \in T,
         includer' = [includer EXCEPT ![h] = inr]
  PROVE  IncluderAcyclic'
<1> SUFFICES ASSUME NEW S \in SUBSET Id, S # {}, \A g \in S : includer'[g] \in S
             PROVE  FALSE
  BY DEF IncluderAcyclic
<1>1. includer'[h] = inr /\ \A g \in Id \ {h} : includer'[g] = includer[g]
  BY DEF IncludesTypeOK
<1>2. S \ T # {}
  <2>1. CASE h \in S
    BY <1>1, <2>1
  <2>2. CASE h \notin S
    <3>1. PICK g \in S : includer[g] \notin S
      BY DEF IncluderAcyclic
    <3> QED
      BY <1>1, <2>2, <3>1
  <2> QED
    BY <2>1, <2>2
<1>3. PICK g \in S \ T : includer[g] \notin S \ T
  BY <1>2 DEF IncluderAcyclic
<1> QED
  BY <1>1, <1>3

LEMMA IncludersStep ==
  ASSUME IncludesInv, IncludersInv, [IncludesStep]_includesVars
  PROVE  IncludersInv'
<1>1. IncludesTypeOK /\ IncludesInv'
  BY InvStep DEF IncludesInv
<1>2. /\ includer \in [Id -> Id \cup {NULL}] /\ included \in SUBSET Id /\ NULL \notin Id
      /\ \A h \in Id : includer[h] # NULL => h \in included /\ includer[h] \in included
  BY FileAssumption DEF IncludesInv, IncludesTypeOK, IncludersInv
<1>3. ASSUME UNCHANGED includeVars, pc' # "exit" /\ NamesakesApart' => IncludersEnd'
      PROVE  IncludersInv'
  BY <1>2, <1>3 DEF includeVars, IncludersInv, IncludersEnd
<1>4. ASSUME UNCHANGED includeVars, pc = "source_init"
      PROVE  IncludersInv'
  <2>1. included = {}
    BY <1>4 DEF IncludesInv, PhasesInOrder
  <2>2. \A S \in SUBSET Id : \A h \in S : includer[h] = NULL
    BY <1>2, <2>1
  <2>3. IncluderAcyclic'
    BY <1>2, <1>4, <2>2 DEF IncluderAcyclic, includeVars
  <2> QED
    BY <1>3, <1>4, <2>3 DEF IncludersEnd
<1>5. ASSUME Visiting, UNCHANGED <<pc, tu>>, pos' = pos + 1
      PROVE  /\ pc # "exit" /\ pc' # "exit" /\ pos \in Visited'
             /\ Visited \subseteq Visited'
             /\ tu'[pos] = cursor
  BY <1>1, <1>5, VisitedGrows DEF Visiting, cursor
<1>6. CASE NewInclude
  <2> DEFINE h == FileID[cursor.included]
             inr == IF is_direct(cursor) THEN NULL ELSE FileID[cursor.includer]
  <2>1. Visiting /\ h \notin included /\ pc' = pc /\ tu' = tu /\ pos' = pos + 1
    BY <1>6 DEF NewInclude, tuVars
  <2>2. /\ includer' = [includer EXCEPT ![h] = inr]
        /\ included' = included \cup {h}
        /\ file' = [file EXCEPT ![h] = cursor.included]
    BY <1>6 DEF NewInclude, include_insert
  <2>3. h \in Id /\ inr \in included \cup {NULL}
    BY <1>1, <2>1, CursorType, IncluderVisited DEF IncludesInv, IncluderKnown
  <2> HIDE DEF h, inr
  <2>4. \A g \in Id : includer'[g] # NULL => g \in included' /\ includer'[g] \in included'
    BY <1>2, <2>2, <2>3
  <2>5. ASSUME NamesakesApart' PROVE IncluderAcyclic'
    <3>1. \A g \in included : file'[g] = file[g]
      BY <2>1, <2>2, <1>1 DEF IncludesTypeOK
    <3>2. IncluderAcyclic
      BY <1>5, <2>1, <2>5, <3>1, InOrder, ApartBefore DEF IncludersInv, IncludersEnd
    <3> QED
      BY <1>1, <1>2, <2>1, <2>2, <2>3, <3>2, NewEnds
  <2> QED
    BY <2>4, <2>5 DEF IncludersInv, IncludersEnd
<1>7. CASE DirectAgain
  <2> DEFINE h == FileID[cursor.included]
  <2>1. Visiting /\ pc' = pc /\ tu' = tu /\ pos' = pos + 1 /\ included' = included
        /\ file' = file /\ includer' = [includer EXCEPT ![h] = NULL]
    BY <1>7 DEF DirectAgain, make_direct, tuVars
  <2>2. h \in Id
    BY <1>1, <2>1, CursorType
  <2> HIDE DEF h
  <2>3. \A g \in Id : includer'[g] # NULL => includer'[g] = includer[g]
    BY <1>2, <2>1, <2>2
  <2>4. ASSUME NamesakesApart' PROVE IncluderAcyclic'
    <3>1. IncluderAcyclic
      BY <1>5, <2>1, <2>4, InOrder, ApartBefore DEF IncludersInv, IncludersEnd
    <3>2. \A S \in SUBSET Id : \A g \in S : includer[g] \notin S => includer'[g] \notin S
      BY <1>2, <2>3
    <3> QED
      BY <3>1, <3>2 DEF IncluderAcyclic
  <2> QED
    BY <1>2, <2>1, <2>3, <2>4 DEF IncludersInv, IncludersEnd
<1>8. CASE IndirectAgain
  <2> PICK h : h = FileID[cursor.included]
    OBVIOUS
  <2> PICK new : new = FileID[cursor.includer]
    OBVIOUS
  <2> PICK here : here = pos
    OBVIOUS
  <2>1. Visiting /\ ~is_direct(cursor) /\ h \in included
        /\ pc' = pc /\ tu' = tu /\ pos' = pos + 1 /\ included' = included
        /\ file' = file /\ includer' = [includer EXCEPT ![h] = includer_again(h, new)]
    BY <1>8 DEF IndirectAgain, tuVars
  <2>2. h \in Id /\ new \in Id /\ new \in included
    BY <1>1, <2>1, CursorType, IncluderVisited DEF IncludesInv, IncluderKnown
  <2>3. /\ here \in Visited' /\ Names(here, h)' /\ ~is_direct(tu'[here])
        /\ FileID[tu'[here].includer] = new
    <3>1. here \in Visited' /\ tu'[here] = cursor /\ cursor.included # NULL
      BY <1>5, <2>1 DEF Visiting
    <3> QED
      BY <2>1, <3>1 DEF Names
  <2>4. \/ includer' = includer
        \/ /\ includer' = [includer EXCEPT ![h] = new]
           /\ Basename[file[h]] = Basename[file[new]]
    BY <1>2, <2>1, <2>2 DEF includer_again
  <2>5. \A g \in Id : includer'[g] # NULL => g \in included' /\ includer'[g] \in included'
    BY <1>2, <2>1, <2>2, <2>4
  <2>6. ASSUME NamesakesApart' PROVE IncluderAcyclic'
    <3>1. IncluderAcyclic
      BY <1>5, <2>1, <2>6, InOrder, ApartBefore DEF IncludersInv, IncludersEnd
    <3>2. CASE includer' = includer
      BY <3>1, <3>2 DEF IncluderAcyclic
    <3>3. CASE /\ includer' = [includer EXCEPT ![h] = new]
               /\ Basename[file[h]] = Basename[file[new]]
      <4>1. ~Reaches(h, new)'
        BY <2>1, <2>2, <2>3, <2>6, <3>3 DEF NamesakesApart
      <4>2. PICK T \in SUBSET Id :
              /\ h \in T /\ new \notin T
              /\ \A i \in Visited' : \A g \in Id :
                   Names(i, g)' /\ ~is_direct(tu'[i]) /\ FileID[tu'[i].includer] \in T
                   => g \in T
        BY <4>1 DEF Reaches
      <4>3. ASSUME NEW g \in Id, includer[g] \in T PROVE g \in T
        <5>1. g \in included /\ includer[g] # NULL
          BY <1>2, <4>3
        <5>2. PICK i \in Visited : /\ Names(i, g)
                                   /\ ~is_direct(tu[i])
                                   /\ FileID[tu[i].includer] = includer[g]
          BY <1>5, <2>1, <5>1 DEF IncludesInv, IncluderIncludes
        <5>3. i \in Visited' /\ Names(i, g)' /\ ~is_direct(tu'[i])
              /\ FileID[tu'[i].includer] \in T
          BY <1>5, <2>1, <4>3, <5>2 DEF Names
        <5> QED
          BY <4>2, <5>3
      <4> QED
        BY <1>1, <2>2, <3>1, <3>3, <4>2, <4>3, NamesakeEnds
    <3> QED
      BY <2>4, <3>2, <3>3
  <2> QED
    BY <2>5, <2>6 DEF IncludersInv, IncludersEnd
<1>9. CASE IncludesDone
  <2>1. pc = "includes_init" /\ pos > Len(tu) /\ pc' = "config_init" /\ tu' = tu
        /\ UNCHANGED includeVars
    BY <1>9 DEF IncludesDone, tuVars
  <2>2. Visited' = Visited
    BY <2>1, <1>1 DEF Visited, IncludesInv, PhasesInOrder, IncludesTypeOK
  <2>3. ASSUME NamesakesApart' PROVE IncluderAcyclic'
    <3>1. IncluderAcyclic
      BY <2>1, <2>2, <2>3, InOrder, ApartBefore DEF IncludersInv, IncludersEnd, includeVars
    <3> QED
      BY <2>1, <3>1 DEF IncluderAcyclic, includeVars
  <2> QED
    BY <1>3, <2>1, <2>3 DEF IncludersEnd
<1>10. CASE ParseFails \/ MissingFile
  BY <1>3, <1>10 DEF ParseFails, MissingFile, IncludersEnd
<1>11. CASE UNCHANGED includesVars
  <2>1. /\ UNCHANGED includeVars /\ pc' = pc /\ (NamesakesApart' <=> NamesakesApart)
        /\ (IncluderAcyclic' <=> IncluderAcyclic)
    BY <1>11 DEF includesVars, includeVars, tuVars, NamesakesApart, Reaches, Names, Visited,
                 IncluderAcyclic
  <2> QED
    BY <1>3, <2>1 DEF IncludersEnd, IncludersInv
<1> QED
  BY <1>4, <1>6, <1>7, <1>8, <1>9, <1>10, <1>11
  DEF IncludesStep, Preprocess, ParseDone, includes_init_visitor

\* The configuration and what comes after it give nobody another includer, and take
\* away no entry.
LEMMA IncludersLater ==
  ASSUME ProxiesInv, ReportedInOrder, IncludersInv, ~Parsing, pc # "exit", ~Parsing', tu' = tu,
         included \subseteq included', includer' = includer,
         \A g \in included : file'[g] = file[g]
  PROVE  IncludersInv'
<1>1. Visited = 1..Len(tu) /\ (pc' # "exit" => Visited' = Visited)
  BY DEF Visited, Parsing
<1>2. \A i \in Visited : tu[i].included \in File /\ FileID[tu[i].included] \in Id
  <2>1. tu \in Seq(Directive)
    BY DEF ProxiesInv, HandledInv, HeaderConfigTypeOK, IncludesTypeOK
  <2>2. \A i \in 1..Len(tu) : tu[i] \in Directive /\ tu[i].included # NULL
    BY <2>1 DEF ProxiesInv, DirectivesNameFiles
  <2> QED
    BY <1>1, <2>2, FileAssumption DEF Directive
<1>3. VisitedIncluded
  <2>1. \A i \in Visited : FromSource(FileID[tu[i].included])
    BY <1>1, <1>2 DEF FromSource, Names, ProxiesInv, DirectivesNameFiles
  <2>2. \A h \in Id : FromSource(h) => h \in included
    BY DEF ProxiesInv, HandledInv, SourceIncluded
  <2> QED
    BY <1>2, <2>1, <2>2, FileAssumption DEF VisitedIncluded
<1>4. VisitsInOrder
  <2>1. Len(tu) \in Nat
    BY DEF ProxiesInv, HandledInv, HeaderConfigTypeOK, IncludesTypeOK
  <2> QED
    BY <1>1, <1>3, <2>1 DEF VisitsInOrder
<1>5. ASSUME pc' # "exit", NamesakesApart' PROVE IncluderAcyclic'
  <2>1. NamesakesApart
    BY <1>1, <1>4, <1>5, ApartBefore
  <2> QED
    BY <2>1 DEF IncludersInv, IncludersEnd, IncluderAcyclic
<1> QED
  BY <1>5 DEF IncludersInv, IncludersEnd

LEMMA IncludersAnyStep ==
  ASSUME ProxiesInv, ProxiesInv', ReportedInOrder, IncludersInv, [ProxiesStep]_proxiesVars
  PROVE  ReportedInOrder' /\ IncludersInv'
<1>1. CASE IncludesStep
  <2>1. Parsing
    BY <1>1 DEF IncludesStep, Preprocess, ParseFails, ParseDone, MissingFile,
                includes_init_visitor, NewInclude, DirectAgain, IndirectAgain,
                Visiting, IncludesDone, Parsing
  <2>2. IncludesInv
    BY <2>1 DEF ProxiesInv, HandledInv, KeysWait
  <2> QED
    BY <1>1, <2>2, InvStep, IncludersStep DEF IncludesInv
<1>2. CASE ConfigStep
  <2>1. /\ pc = "config_init" /\ tu' = tu /\ includer' = includer
        /\ pc' \in {"config_init", "exit", "tidy_status", "source_check_for_errors"}
    BY <1>2 DEF ConfigStep, ProxyKey, ProxyMatch, ProxyKeyDone, HandleKey, SymbolKey,
                IgnoreSymbol, IgnoreSource, ConfigError, ConfigDone, ParsingKeys, tuVars,
                includeVars
  <2>2. included \subseteq included' /\ \A g \in included : file'[g] = file[g]
    <3>1. ASSUME NEW k \in SymbolKeys, SymbolKey(k)
          PROVE  included \subseteq included' /\ \A g \in included : file'[g] = file[g]
      <4>1. file \in [Id -> File \cup {NULL}] /\ included \in SUBSET Id
        BY DEF ProxiesInv, HandledInv, HeaderConfigTypeOK, IncludesTypeOK
      <4>2. \/ UNCHANGED <<included, file>>
            \/ /\ FileID[k.inc] \notin included
               /\ included' = included \cup {FileID[k.inc]}
               /\ file' = [file EXCEPT ![FileID[k.inc]] = k.inc]
        BY <3>1 DEF SymbolKey
      <4> QED
        BY <4>1, <4>2
    <3>2. CASE UNCHANGED includeVars
      BY <3>2 DEF includeVars
    <3> QED
      BY <1>2, <3>1, <3>2
      DEF ConfigStep, ProxyKey, ProxyMatch, ProxyKeyDone, HandleKey, IgnoreSymbol,
          IgnoreSource, ConfigError, ConfigDone
  <2> QED
    BY <2>1, <2>2, IncludersLater DEF Parsing, ReportedInOrder
<1>3. CASE \/ SourceHasErrors \/ SourceIsFine
           \/ implicit_proxies_visitor \/ ImplicitDone
  <2>1. /\ ~Parsing /\ pc # "exit" /\ ~Parsing' /\ UNCHANGED <<tuVars, includeVars>>
    BY <1>3 DEF SourceHasErrors, SourceIsFine, implicit_proxies_visitor, ImplicitDone, Parsing
  <2> QED
    BY <2>1, IncludersLater DEF tuVars, includeVars, ReportedInOrder
<1>4. CASE UNCHANGED proxiesVars
  <2>1. UNCHANGED includesVars
    BY <1>4 DEF proxiesVars, headerConfigVars
  <2>2. UNCHANGED <<pc, pos, tu, included, file, includer>>
    BY <2>1 DEF includesVars, tuVars, includeVars
  <2>3. (NamesakesApart' <=> NamesakesApart) /\ (IncluderAcyclic' <=> IncluderAcyclic)
    BY <2>2 DEF NamesakesApart, Reaches, Names, Visited, IncluderAcyclic
  <2> QED
    BY <2>2, <2>3 DEF IncludersInv, IncludersEnd, ReportedInOrder
<1> QED
  BY <1>1, <1>2, <1>3, <1>4
  DEF ProxiesStep, HeaderConfigStep, proxiesVars, headerConfigVars

\* Includers, which the implicit proxies are derived from, make no cycle, however
\* the files include each other and in whatever order, as long as none includes
\* itself or a namesake that includes it: when they are found and ever after.
THEOREM IncludersDoEnd == ProxiesSpec => []IncludersEnd
<1>1. HeaderConfigInit => ReportedInOrder /\ IncludersInv
  <2> SUFFICES ASSUME HeaderConfigInit PROVE ReportedInOrder /\ IncludersInv
    OBVIOUS
  <2>1. \A h \in Id : includer[h] = NULL
    BY DEF HeaderConfigInit, IncludesInit
  <2>2. ReportedInOrder
    BY DEF HeaderConfigInit, IncludesInit, ReportedInOrder
  <2> QED
    BY <2>1, <2>2, FileAssumption DEF IncludersInv, IncludersEnd, IncluderAcyclic
<1>2. IncludersInv => IncludersEnd
  BY DEF IncludersInv
<1> QED
  BY <1>1, <1>2, ProxiesInit, ProxiesInvStep, IncludersAnyStep, PTL DEF ProxiesSpec

-----------------------------------------------------------------------------
(***************************************************************************)
(* Implicit proxies make no cycle.                                         *)
(***************************************************************************)

\* y is x, or the includer of x, or its includer, and so on.
Above(x, y) ==
  \A S \in SUBSET Id :
    x \in S /\ (\A h \in S : includer[h] # NULL => includer[h] \in S) => y \in S

\* An implicit proxy is above the includer, unless the second visit gives it no
\* proxy at all.
ProxiesAbove ==
  \A h \in Id : proxy[h] # NULL /\ ~is_proxy_explicit[h] =>
    /\ ~Fixed(h) /\ includer[h] \in Id
    /\ Fixed(proxy[h]) \/ Above(includer[h], proxy[h])

\* What the configuration is when it was parsed.
ExplicitOnly == \A h \in Id : proxy[h] # NULL => is_proxy_explicit[h]

ChainsInv ==
  /\ ProxiesInv
  /\ \A h \in Id : is_proxy_explicit[h] => proxy[h] # NULL
  /\ pc \in {"source_init", "includes_init", "config_init"} => ExplicitOnly
  /\ ConfigParsed /\ ChainsAreSafe => ProxyAcyclic /\ ProxiesAbove

LEMMA AboveItself ==
  ASSUME NEW x \in Id
  PROVE  Above(x, x)
BY DEF Above

LEMMA AboveAbove ==
  ASSUME NEW x \in Id, NEW y \in Id, NEW z \in Id, Above(x, y), Above(y, z)
  PROVE  Above(x, z)
BY DEF Above

LEMMA IncluderAbove ==
  ASSUME NEW x \in Id, NEW y \in Id, Above(x, y), includer[y] \in Id
  PROVE  Above(x, includer[y])
BY FileAssumption DEF Above

\* Includers that make no cycle are not above themselves.
LEMMA NotAboveItself ==
  ASSUME IncludesTypeOK, IncluderAcyclic, NEW h \in Id, includer[h] \in Id
  PROVE  ~Above(includer[h], h)
<1> SUFFICES ASSUME Above(includer[h], h) PROVE FALSE
  OBVIOUS
<1> DEFINE D == {x \in Id : Above(x, h)}
<1>1. h \in D
  BY AboveItself
<1>2. ASSUME NEW x \in D PROVE includer[x] \in D
  <2>1. CASE x = h
    BY <2>1
  <2>2. CASE x # h
    <3>1. includer[x] \in Id
      <4> SUFFICES ASSUME includer[x] = NULL PROVE FALSE
        BY DEF IncludesTypeOK
      <4> DEFINE S == {x}
      <4>1. x \in S /\ S \in SUBSET Id /\ \A g \in S : includer[g] = NULL
        OBVIOUS
      <4>2. h \in S
        BY <4>1 DEF Above
      <4> QED
        BY <2>2, <4>2
    <3>2. ASSUME NEW S \in SUBSET Id, includer[x] \in S,
                 \A g \in S : includer[g] # NULL => includer[g] \in S
          PROVE  h \in S
      <4> DEFINE U == S \cup {x}
      <4>1. U \in SUBSET Id /\ x \in U /\ \A g \in U : includer[g] # NULL => includer[g] \in U
        BY <3>2
      <4>2. h \in U
        BY <4>1 DEF Above
      <4> QED
        BY <2>2, <4>2
    <3> QED
      BY <3>1, <3>2 DEF Above
  <2> QED
    BY <2>1, <2>2
<1> QED
  BY <1>1, <1>2 DEF IncluderAcyclic

\* A walk along proxies that make no cycle ends.
LEMMA WalkEnds ==
  ASSUME HeaderConfigTypeOK, ProxyAcyclic, NEW x \in Id
  PROVE  ChainEnds(x)
<1> DEFINE S == {y \in Id : OnChain(x, y)}
<1>1. x \in S
  BY DEF OnChain
<1>2. PICK h \in S : proxy[h] \notin S
  BY <1>1 DEF ProxyAcyclic
<1>3. ASSUME proxy[h] # NULL PROVE FALSE
  <2>1. proxy[h] \in Id
    BY <1>3 DEF HeaderConfigTypeOK
  <2>2. OnChain(x, proxy[h])
    BY <1>3 DEF OnChain, Closed
  <2> QED
    BY <1>2, <2>1, <2>2
<1> QED
  BY <1>3 DEF ChainEnds, IsRoot

\* Before the second visit there are only the proxies of the configuration.
LEMMA ExplicitOnlyEnd ==
  ASSUME ExplicitOnly', ChainsAreSafe'
  PROVE  ProxyAcyclic' /\ ProxiesAbove'
<1>1. ProxiesAbove'
  BY DEF ExplicitOnly, ProxiesAbove
<1>2. ASSUME NEW S \in SUBSET Id, S # {} PROVE \E h \in S : proxy'[h] \notin S
  <2>1. PICK h \in S : ~is_proxy_explicit'[h] \/ proxy'[h] \notin S
    BY <1>2 DEF ChainsAreSafe, ExplicitAcyclic
  <2> QED
    BY <2>1, FileAssumption DEF ExplicitOnly
<1> QED
  BY <1>1, <1>2 DEF ProxyAcyclic

\* The second visit changes nothing that decides who gets a proxy.
LEMMA SafeKept ==
  ASSUME UNCHANGED <<tuVars, includeVars, is_proxy_explicit>>,
         \A h \in Id : is_proxy_explicit[h] => proxy'[h] = proxy[h]
  PROVE  /\ \A h : Fixed(h)' <=> Fixed(h)
         /\ \A x, y : Above(x, y)' <=> Above(x, y)
         /\ ChainsAreSafe' <=> ChainsAreSafe
<1>1. \A h : /\ FromSource(h)' <=> FromSource(h)
             /\ is_local(h)' <=> is_local(h)
             /\ config_is_standard_include(h)' <=> config_is_standard_include(h)
  BY DEF FromSource, Names, is_local, config_is_standard_include, tuVars, includeVars
<1>2. UNCHANGED <<included, file, includer, depth, is_proxy_explicit>>
  BY DEF includeVars
<1>3. \A h : is_local(includer[h])' <=> is_local(includer[h])
  BY <1>2 DEF is_local
<1>4. \A h : Fixed(h)' <=> Fixed(h)
  BY <1>1, <1>2, <1>3 DEF Fixed
<1>5. \A x, y : Above(x, y)' <=> Above(x, y)
  BY <1>2 DEF Above
<1>6. IncluderAcyclic' <=> IncluderAcyclic
  BY <1>2 DEF IncluderAcyclic
<1>7. ExplicitAcyclic' <=> ExplicitAcyclic
  <2>1. \A S \in SUBSET Id : \A h \in S :
          (~is_proxy_explicit'[h] \/ proxy'[h] \notin S)
            <=> (~is_proxy_explicit[h] \/ proxy[h] \notin S)
    BY <1>2
  <2> QED
    BY <2>1 DEF ExplicitAcyclic
<1>8. FixedTargets' <=> FixedTargets
  <2>1. ASSUME NEW h \in Id, is_proxy_explicit[h]
        PROVE  Fixed(proxy[h])' <=> Fixed(proxy[h])
    <3>1. PICK p : p = proxy[h]
      OBVIOUS
    <3>2. p = proxy'[h]
      BY <2>1, <3>1
    <3>3. Fixed(p)' <=> Fixed(p)
      BY <1>4
    <3> QED
      BY <3>1, <3>2, <3>3 DEF Fixed
  <2>2. \A h : Fixed(PathFind[CxxHeader[file[h]]])' <=> Fixed(PathFind[CxxHeader[file[h]]])
    BY <1>1, <1>2, <1>3 DEF Fixed
  <2> QED
    BY <1>2, <2>1, <2>2 DEF FixedTargets
<1> QED
  BY <1>4, <1>5, <1>6, <1>7, <1>8 DEF ChainsAreSafe

LEMMA AboveKept ==
  ASSUME UNCHANGED <<tuVars, includeVars, is_proxy_explicit, proxy>>, ProxiesAbove
  PROVE  ProxiesAbove'
<1>1. /\ \A g : Fixed(g)' <=> Fixed(g)
      /\ \A x, y : Above(x, y)' <=> Above(x, y)
  BY SafeKept
<1>2. includer' = includer
  BY DEF includeVars
<1> SUFFICES ASSUME NEW g \in Id, proxy'[g] # NULL /\ ~is_proxy_explicit'[g]
             PROVE  /\ ~Fixed(g)' /\ includer'[g] \in Id
                    /\ Fixed(proxy[g])' \/ Above(includer[g], proxy[g])'
  BY DEF ProxiesAbove
<1> PICK p : p = proxy[g]
  OBVIOUS
<1> PICK i : i = includer[g]
  OBVIOUS
<1>3. ~Fixed(g) /\ i \in Id /\ (Fixed(p) \/ Above(i, p))
  BY <1>2 DEF ProxiesAbove
<1>4. ~Fixed(g)' /\ i \in Id /\ (Fixed(p)' \/ Above(i, p)')
  BY <1>1, <1>3
<1>5. Fixed(proxy[g])' <=> Fixed(p)'
  BY DEF Fixed
<1>6. Above(includer[g], proxy[g])' <=> Above(i, p)'
  BY <1>2 DEF Above
<1> QED
  BY <1>2, <1>4, <1>5, <1>6

\* One call of implicit_proxies_visitor() makes no cycle.
LEMMA VisitEnds ==
  ASSUME ChainsInv, implicit_proxies_visitor, ChainsAreSafe
  PROVE  ProxyAcyclic' /\ ProxiesAbove'
<1>0. PICK h : h = FileID[cursor.included]
  OBVIOUS
<1>1. /\ pc = "implicit_proxies_init" /\ pos \in 1..Len(tu)
      /\ UNCHANGED <<tuVars, includeVars, keyVars, is_proxy_explicit, tableVars>>
      /\ IF SkipsImplicit(h) \/ ProxyCandidate(h) = NULL
           THEN UNCHANGED proxy
           ELSE /\ ChainEnds(ProxyCandidate(h))
                /\ proxy' = [proxy EXCEPT
                               ![h] = include_get_proxy(ProxyCandidate(h))]
  BY <1>0 DEF implicit_proxies_visitor
<1>2. /\ HeaderConfigTypeOK /\ IncludesTypeOK /\ NULL \notin Id
      /\ proxy \in [Id -> Id \cup {NULL}] /\ depth \in [Id -> Nat]
      /\ included \in SUBSET Id
      /\ includer \in [Id -> Id \cup {NULL}]
  BY FileAssumption DEF ChainsInv, ProxiesInv, HandledInv, HeaderConfigTypeOK, IncludesTypeOK
<1>3. ProxyAcyclic /\ ProxiesAbove /\ IncluderAcyclic /\ FixedTargets
  BY <1>1 DEF ChainsInv, ConfigParsed, ChainsAreSafe
<1>4. h \in Id /\ FromSource(h) /\ h \in included
  <2>1. cursor \in Directive /\ cursor.included # NULL
    BY <1>1, <1>2 DEF IncludesTypeOK, ChainsInv, ProxiesInv, DirectivesNameFiles, Parsing, cursor
  <2>2. h \in Id
    BY <1>0, <2>1, FileAssumption DEF Directive
  <2>3. FromSource(h)
    BY <1>0, <1>1, <2>1 DEF FromSource, Names, cursor
  <2> QED
    BY <1>1, <2>2, <2>3 DEF ChainsInv, ProxiesInv, HandledInv, SourceIncluded, Parsing
<1>5. CASE UNCHANGED proxy
  <2>1. ProxiesAbove'
    BY <1>1, <1>3, <1>5, AboveKept
  <2> QED
    BY <1>3, <1>5, <2>1 DEF ProxyAcyclic
<1>6. CASE ~UNCHANGED proxy
  <2> PICK c : c = ProxyCandidate(h)
    OBVIOUS
  <2> PICK r : r = include_get_proxy(c)
    OBVIOUS
  <2> PICK i : i = includer[h]
    OBVIOUS
  <2>1. ~SkipsImplicit(h) /\ c # NULL /\ ChainEnds(c) /\ proxy' = [proxy EXCEPT ![h] = r]
    BY <1>1, <1>6
  <2>2. r \in Id /\ OnChain(c, r) /\ proxy[r] = NULL
    BY <2>1 DEF ChainEnds, include_get_proxy, IsRoot
  <2>3. proxy[h] = NULL /\ depth[h] # 0 /\ ~is_local(h) /\ ~is_local(i)
    BY <2>1 DEF SkipsImplicit
  <2>4. i \in Id
    BY <1>1, <1>2, <1>4, <2>3 DEF ChainsInv, ProxiesInv, DeeperHasIncluder, Parsing
  <2>5. ~is_proxy_explicit[h]
    BY <1>4, <2>3 DEF ChainsInv
  <2>6. ~Fixed(h)
    BY <1>4, <2>1, <2>3, <2>5 DEF Fixed, ProxyCandidate
  <2>7. c = i \/ (c \in Id /\ Fixed(c))
    <3>1. \/ c = i
          \/ CPlusPlus /\ CxxHeader[file[h]] # NULL /\ c = PathFind[CxxHeader[file[h]]]
             /\ c \in included
      BY <2>1 DEF ProxyCandidate, include_find_by_rel_path
    <3> QED
      BY <1>2, <1>3, <1>4, <3>1 DEF FixedTargets
  <2> DEFINE Z == {x \in Id : Fixed(x) \/ Above(i, x)}
  <2>8. c \in Z
    BY <2>4, <2>7, AboveItself
  <2>9. ASSUME NEW x \in Z, proxy[x] # NULL PROVE proxy[x] \in Z
    <3>1. proxy[x] \in Id
      BY <1>2, <2>9
    <3>2. CASE is_proxy_explicit[x]
      BY <1>3, <3>1, <3>2 DEF FixedTargets
    <3>3. CASE ~is_proxy_explicit[x]
      <4>1. /\ ~Fixed(x) /\ includer[x] \in Id
            /\ Fixed(proxy[x]) \/ Above(includer[x], proxy[x])
        BY <1>3, <2>9, <3>3 DEF ProxiesAbove
      <4>2. Above(i, includer[x])
        BY <2>4, <4>1, IncluderAbove
      <4> QED
        BY <2>4, <3>1, <4>1, <4>2, AboveAbove
    <3> QED
      BY <3>2, <3>3
  <2>10. r \in Z
    <3> HIDE DEF Z
    <3>1. Z \in SUBSET Id
      BY DEF Z
    <3> QED
      BY <2>2, <2>8, <2>9, <3>1 DEF OnChain, Closed
  <2>11. r # h
    <3>1. ~Above(i, h)
      BY <1>2, <1>3, <1>4, <2>4, NotAboveItself
    <3> QED
      BY <2>6, <2>10, <3>1
  <2>12. ProxyAcyclic'
    <3> DEFINE R == {r}
    <3>1. R \in SUBSET Id /\ r \in R /\ h \notin R /\ \A x \in R : proxy[x] = NULL
      BY <2>2, <2>11
    <3>2. ~include_proxy_would_cycle(h, r)
      BY <3>1 DEF include_proxy_would_cycle, OnChain, Closed
    <3> QED
      BY <1>2, <1>3, <1>4, <2>1, <2>2, <3>2, NoCycleMade
  <2>13. proxy'[h] = r /\ \A g \in Id \ {h} : proxy'[g] = proxy[g]
    BY <1>2, <1>4, <2>1
  <2>14. /\ \A g : Fixed(g)' <=> Fixed(g)
         /\ \A x, y : Above(x, y)' <=> Above(x, y)
         /\ includer' = includer /\ is_proxy_explicit' = is_proxy_explicit
    BY <1>1, <2>5, <2>13, SafeKept DEF includeVars
  <2>15. ProxiesAbove'
    <3> SUFFICES ASSUME NEW g \in Id, proxy'[g] # NULL /\ ~is_proxy_explicit'[g]
                 PROVE  /\ ~Fixed(g)' /\ includer'[g] \in Id
                        /\ Fixed(proxy[g])' \/ Above(includer[g], proxy[g])'
      BY DEF ProxiesAbove
    <3> PICK p : p = proxy'[g]
      OBVIOUS
    <3> PICK ig : ig = includer[g]
      OBVIOUS
    <3>1. ~Fixed(g) /\ ig \in Id /\ (Fixed(p) \/ Above(ig, p))
      <4>1. CASE g = h
        BY <2>4, <2>6, <2>10, <2>13, <4>1
      <4>2. CASE g # h
        BY <1>3, <2>13, <2>14, <4>2 DEF ProxiesAbove
      <4> QED
        BY <4>1, <4>2
    <3>2. ~Fixed(g)' /\ ig \in Id /\ (Fixed(p)' \/ Above(ig, p)')
      BY <2>14, <3>1
    <3>3. Fixed(proxy[g])' <=> Fixed(p)'
      BY DEF Fixed
    <3>4. Above(includer[g], proxy[g])' <=> Above(ig, p)'
      BY <2>14 DEF Above
    <3> QED
      BY <2>14, <3>2, <3>3, <3>4
  <2> QED
    BY <2>12, <2>15
<1> QED
  BY <1>5, <1>6

LEMMA ChainsInit == HeaderConfigInit => ChainsInv
<1> SUFFICES ASSUME HeaderConfigInit PROVE ChainsInv
  OBVIOUS
<1>1. /\ pc = "source_init" /\ proxy = [h \in Id |-> NULL]
      /\ is_proxy_explicit = [h \in Id |-> FALSE]
  BY DEF HeaderConfigInit, IncludesInit
<1> QED
  BY <1>1, ProxiesInit DEF ChainsInv, ExplicitOnly, ConfigParsed

\* The configuration gives explicit proxies only.
LEMMA ChainsConfig ==
  ASSUME ChainsInv, ProxiesInv', [HeaderConfigStep]_headerConfigVars
  PROVE  ChainsInv'
<1>1. HeaderConfigTypeOK /\ HeaderConfigTypeOK'
  BY DEF ChainsInv, ProxiesInv, HandledInv
<1>2. CASE UNCHANGED headerConfigVars
  <2>1. /\ pc' = pc
        /\ UNCHANGED <<tuVars, includeVars, proxy, is_proxy_explicit>>
    BY <1>2 DEF headerConfigVars, includesVars, configVars, proxyVars
  <2>2. /\ \A h : Fixed(h)' <=> Fixed(h)
        /\ \A x, y : Above(x, y)' <=> Above(x, y)
        /\ ChainsAreSafe' <=> ChainsAreSafe
    BY <2>1, SafeKept
  <2>3. (ProxyAcyclic' <=> ProxyAcyclic) /\ (ExplicitOnly' <=> ExplicitOnly)
        /\ (ConfigParsed' <=> ConfigParsed)
    BY <2>1 DEF ProxyAcyclic, ExplicitOnly, ConfigParsed
  <2>4. ProxiesAbove => ProxiesAbove'
    BY <2>1, <2>2, AboveKept
  <2> QED
    BY <2>1, <2>2, <2>3, <2>4 DEF ChainsInv
<1>3. CASE HeaderConfigStep
  <2>1. pc \in {"source_init", "includes_init", "config_init"}
    BY <1>3
    DEF HeaderConfigStep, IncludesStep, Preprocess, ParseFails, ParseDone, MissingFile,
        includes_init_visitor, NewInclude, DirectAgain, IndirectAgain, Visiting, IncludesDone,
        ConfigStep, ProxyKey, ProxyMatch, ProxyKeyDone, HandleKey, SymbolKey, IgnoreSymbol,
        IgnoreSource, ConfigError, ConfigDone, ParsingKeys
  <2>2. \A h \in Id : proxy[h] # NULL <=> is_proxy_explicit[h]
    BY <2>1 DEF ChainsInv, ExplicitOnly
  <2>3. \A h \in Id : proxy'[h] # NULL <=> is_proxy_explicit'[h]
    <3>1. CASE \E from \in Id : ProxyMatch(from)
      <4> PICK from \in Id : ProxyMatch(from)
        BY <3>1
      <4>1. /\ proxy \in [Id -> Id \cup {NULL}] /\ is_proxy_explicit \in [Id -> BOOLEAN]
            /\ NULL \notin Id
        BY <1>1, FileAssumption DEF HeaderConfigTypeOK
      <4>2. proxy[from] \in Id \cup {NULL} /\ proxy'[from] \in Id \cup {NULL}
        BY <1>1 DEF HeaderConfigTypeOK
      <4>3. key.to \in Id
        BY <1>1, KeysAssumption DEF HeaderConfigTypeOK, ProxyMatch
      <4>4. \/ /\ proxy[from] # NULL
               /\ proxy' = [proxy EXCEPT ![from] = IF more_direct(key.to, proxy[from])
                                                   THEN key.to ELSE proxy[from]]
               /\ UNCHANGED is_proxy_explicit
            \/ UNCHANGED <<proxy, is_proxy_explicit>>
            \/ /\ proxy' = [proxy EXCEPT ![from] = key.to]
               /\ is_proxy_explicit' = [is_proxy_explicit EXCEPT ![from] = TRUE]
        BY DEF ProxyMatch, proxyVars
      <4> QED
        BY <2>2, <4>1, <4>3, <4>4
    <3>2. CASE ~\E from \in Id : ProxyMatch(from)
      <4>1. UNCHANGED <<proxy, is_proxy_explicit>>
        BY <1>3, <3>2
        DEF HeaderConfigStep, ConfigStep, ProxyKey, ProxyKeyDone, HandleKey, SymbolKey,
            IgnoreSymbol, IgnoreSource, ConfigError, ConfigDone, configVars, proxyVars
      <4> QED
        BY <2>2, <4>1
    <3> QED
      BY <3>1, <3>2
  <2>4. ExplicitOnly'
    BY <2>3 DEF ExplicitOnly
  <2>5. ChainsAreSafe' => ProxyAcyclic' /\ ProxiesAbove'
    BY <2>4, ExplicitOnlyEnd
  <2> QED
    BY <2>3, <2>4, <2>5 DEF ChainsInv
<1> QED
  BY <1>2, <1>3

LEMMA ChainsStep == ChainsInv /\ [ProxiesStep]_proxiesVars => ChainsInv'
<1> SUFFICES ASSUME ChainsInv, [ProxiesStep]_proxiesVars PROVE ChainsInv'
  OBVIOUS
<1>1. ProxiesInv'
  BY ProxiesInvStep DEF ChainsInv
<1>2. CASE [HeaderConfigStep]_headerConfigVars
  BY <1>1, <1>2, ChainsConfig
<1>3. CASE SourceHasErrors \/ SourceIsFine \/ ImplicitDone
  <2>1. /\ ConfigParsed /\ pc' \in {"exit", "implicit_proxies_init", "symbols_init"}
        /\ UNCHANGED <<tuVars, includeVars, proxy, is_proxy_explicit>>
    BY <1>3 DEF SourceHasErrors, SourceIsFine, ImplicitDone, ConfigParsed, configVars, proxyVars
  <2>2. ChainsAreSafe' <=> ChainsAreSafe
    BY <2>1, SafeKept
  <2>3. (ProxyAcyclic' <=> ProxyAcyclic) /\ (ProxiesAbove => ProxiesAbove')
    BY <2>1, AboveKept DEF ProxyAcyclic
  <2> QED
    BY <1>1, <2>1, <2>2, <2>3 DEF ChainsInv
<1>4. CASE implicit_proxies_visitor
  <2>1. /\ ConfigParsed /\ pc' = "implicit_proxies_init"
        /\ UNCHANGED <<tuVars, includeVars, is_proxy_explicit>>
    BY <1>4 DEF implicit_proxies_visitor, ConfigParsed
  <2>2. \A h \in Id : proxy[h] # NULL => proxy'[h] = proxy[h]
    <3>1. proxy \in [Id -> Id \cup {NULL}]
      BY DEF ChainsInv, ProxiesInv, HandledInv, HeaderConfigTypeOK
    <3> PICK g : g = FileID[cursor.included]
      OBVIOUS
    <3>2. \/ proxy' = proxy
          \/ /\ proxy[g] = NULL
             /\ proxy' = [proxy EXCEPT ![g] = include_get_proxy(ProxyCandidate(g))]
      BY <1>4 DEF implicit_proxies_visitor, SkipsImplicit
    <3> QED
      BY <3>1, <3>2
  <2>3. ChainsAreSafe' <=> ChainsAreSafe
    BY <2>1, <2>2, SafeKept DEF ChainsInv
  <2>4. ChainsAreSafe' => ProxyAcyclic' /\ ProxiesAbove'
    BY <1>4, <2>3, VisitEnds
  <2> QED
    BY <1>1, <2>1, <2>2, <2>4 DEF ChainsInv
<1> QED
  BY <1>2, <1>3, <1>4 DEF ProxiesStep, proxiesVars

\* The implicit proxies make no cycle, though nothing checks it, unless includers or
\* explicit proxies make one, or an include file that stands for others is given an
\* implicit proxy: whatever the files, their order and the language.
THEOREM ImplicitProxiesEnd == ProxiesSpec => []ImplicitMakeNoCycle
<1>1. ChainsInv => ImplicitMakeNoCycle
  BY DEF ChainsInv, ImplicitMakeNoCycle
<1> QED
  BY <1>1, ChainsInit, ChainsStep, PTL DEF ProxiesSpec

-----------------------------------------------------------------------------
(***************************************************************************)
(* The include file a symbol needs.                                        *)
(***************************************************************************)

\* Of some numbered naturals there is a first that is least.
LEMMA FirstOfLeast ==
  ASSUME NEW S \in SUBSET Nat, S # {}, NEW f \in [S -> Nat]
  PROVE  \E i \in S : \A j \in S : f[i] < f[j] \/ (f[i] = f[j] /\ i <= j)
<1> DEFINE values == {f[i] : i \in S}
<1>1. values \in SUBSET Nat /\ values # {}
  OBVIOUS
<1>2. PICK v \in values : \A w \in values : v <= w
  <2> HIDE DEF values
  <2> QED
    BY <1>1, LeastNatural
<1> DEFINE those == {i \in S : f[i] = v}
<1>3. those \in SUBSET Nat /\ those # {}
  OBVIOUS
<1>4. PICK i \in those : \A j \in those : i <= j
  <2> HIDE DEF those
  <2> QED
    BY <1>3, LeastNatural
<1>5. i \in S /\ f[i] = v
  OBVIOUS
<1>6. ASSUME NEW j \in S PROVE f[i] < f[j] \/ (f[i] = f[j] /\ i <= j)
  <2>1. f[i] <= f[j] /\ f[i] \in Nat /\ f[j] \in Nat
    BY <1>2, <1>5
  <2>2. f[i] = f[j] => i <= j
    BY <1>4, <1>5
  <2> QED
    BY <2>1, <2>2
<1> QED
  BY <1>5, <1>6

\* h is where the loops of include_get_proxy() and config_symbol_get_include()
\* lead for s.
Chosen(s, h) == h = IncludeFor(s) /\ IncludeForEnds(s)

\* It is an include file that nothing is a proxy for; and a direct one if one of
\* the headers listed for s leads to a direct one, although the loop does not
\* look at all of them.
LEMMA ChosenIsBest ==
  ASSUME HeaderConfigTypeOK, NEW s \in Symbol, NEW h, Chosen(s, h)
  PROVE  /\ h \in Id /\ proxy[h] = NULL
         /\ \A i \in 1..Len(symbol_includes[s]) :
              depth[include_get_proxy(symbol_includes[s][i])] = 0 => depth[h] = 0
<1> DEFINE inc == symbol_includes[s]
           root(i) == include_get_proxy(inc[i])
           L == LookedAt(s)
           Direct(i) == ChainEnds(inc[i]) /\ depth[root(i)] = 0
<1>1. inc \in Seq(Id) /\ depth \in [Id -> Nat]
  BY DEF HeaderConfigTypeOK, IncludesTypeOK
<1>2. CASE inc = <<>>
  BY <1>1, <1>2, ProxyIsRoot DEF Chosen, IncludeFor, IncludeForEnds
<1>3. CASE inc # <<>>
  <2>1. L = {i \in 1..Len(inc) : \A j \in 1..(i - 1) : ~Direct(j)}
    BY DEF LookedAt
  <2>2. /\ L \in SUBSET Nat /\ L \subseteq 1..Len(inc)
        /\ 1 \in L
    <3>1. 1 \in 1..Len(inc)
      BY <1>1, <1>3
    <3>2. 1..(1 - 1) = {}
      OBVIOUS
    <3> HIDE DEF inc, Direct, L
    <3> QED
      BY <2>1, <3>1, <3>2
  <2>3. \A i \in L : /\ ChainEnds(inc[i])
                     /\ root(i) \in Id /\ proxy[root(i)] = NULL
                     /\ depth[root(i)] \in Nat
    BY <1>1, <1>3, ProxyIsRoot DEF Chosen, IncludeForEnds
  <2> DEFINE Best(i) == \A j \in L : depth[root(i)] < depth[root(j)]
                                     \/ (depth[root(i)] = depth[root(j)] /\ i <= j)
  <2>4. \E i \in L : Best(i)
    <3> DEFINE f == [i \in L |-> depth[root(i)]]
    <3>1. f \in [L -> Nat] /\ \A i \in L : f[i] = depth[root(i)]
      BY <2>3
    <3> HIDE DEF f, L, root
    <3>2. PICK i \in L : \A j \in L : f[i] < f[j] \/ (f[i] = f[j] /\ i <= j)
      BY <2>2, <3>1, FirstOfLeast
    <3> QED
      BY <3>1, <3>2
  <2>5. \E i \in L : h = root(i) /\ Best(i)
    <3> DEFINE r == ListedRoots(s)
               b == CHOOSE i \in L : \A j \in L :
                      depth[r[i]] < depth[r[j]] \/ (depth[r[i]] = depth[r[j]] /\ i <= j)
    <3>1. \A i \in L : r[i] = root(i)
      BY <2>2 DEF ListedRoots
    <3>2. h = r[b]
      BY <1>3 DEF Chosen, IncludeFor, config_symbol_get_include
    <3> HIDE DEF r, root, L
    <3>3. b \in L /\ Best(b)
      BY <2>4, <3>1
    <3> HIDE DEF b
    <3> QED
      BY <3>1, <3>2, <3>3
  <2>6. PICK b \in L : h = root(b) /\ Best(b)
    BY <2>5
  <2>7. ASSUME NEW i \in 1..Len(inc), depth[root(i)] = 0
        PROVE  depth[h] = 0
    <3> DEFINE D == {j \in 1..Len(inc) : Direct(j)}
    <3>1. D \in SUBSET Nat /\ D # {}
      <4>1. CASE i \in L
        BY <2>3, <2>7, <4>1
      <4>2. CASE i \notin L
        <5>1. PICK j \in 1..(i - 1) : Direct(j)
          BY <2>1, <4>2
        <5>2. j \in 1..Len(inc)
          BY <1>1, <5>1
        <5> QED
          BY <5>1, <5>2
      <4> QED
        BY <4>1, <4>2
    <3>2. PICK m \in D : \A j \in D : m <= j
      <4> HIDE DEF D
      <4> QED
        BY <3>1, LeastNatural
    <3>3. m \in 1..Len(inc) /\ Direct(m)
      BY <3>2
    <3>4. \A j \in 1..(m - 1) : ~Direct(j)
      <4> SUFFICES ASSUME NEW j \in 1..(m - 1), Direct(j) PROVE FALSE
        OBVIOUS
      <4>1. j \in D /\ ~(m <= j)
        BY <1>1, <3>3
      <4> QED
        BY <3>2, <4>1
    <3>5. m \in L
      BY <2>1, <3>3, <3>4
    <3> QED
      BY <2>3, <2>6, <3>3, <3>5
  <2> QED
    BY <2>3, <2>6, <2>7
<1> QED
  BY <1>2, <1>3
-----------------------------------------------------------------------------
(***************************************************************************)
(* The inductive invariant.                                                *)
(***************************************************************************)

\* Include files and configuration are final.
Settled ==
  pc \in {"symbols_init", "include_get_proxy", "includes_print", "tidy_status", "exit"}

\* Symbols wait until they are, and are in the set of the file chosen for them.
SymbolsAreChosen ==
  \A h \in Id : \A s \in symbol_set[h] : Settled /\ s \in Symbol /\ Chosen(s, h)

TidyInv ==
  /\ ProxiesInv
  /\ symbol_set \in [Id -> SUBSET Symbol]
  /\ SymbolsAreChosen

LEMMA TidyInvInit == TidyInit => TidyInv
BY ProxiesInit DEF TidyInit, TidyInv, SymbolsAreChosen

\* No step of the phases before symbols_init() is taken once they are over.
LEMMA SettledSteps ==
  ASSUME Settled
  PROVE  ~ProxiesStep
BY DEF Settled, ProxiesStep, HeaderConfigStep, IncludesStep, Preprocess, ParseFails,
       ParseDone, includes_init_visitor, MissingFile, NewInclude, DirectAgain,
       IndirectAgain, Visiting, IncludesDone, ConfigStep, ParsingKeys, ProxyKey,
       ProxyMatch, ProxyKeyDone, HandleKey, SymbolKey, IgnoreSymbol, IgnoreSource,
       ConfigError, ConfigDone, SourceHasErrors, SourceIsFine,
       implicit_proxies_visitor, ImplicitDone

\* What is chosen for a symbol does not change when nothing does that it is
\* chosen from.
LEMMA ChosenKept ==
  ASSUME UNCHANGED <<includeVars, configVars>>, NEW s
  PROVE  /\ IncludeFor(s)' = IncludeFor(s)
         /\ IncludeForEnds(s)' <=> IncludeForEnds(s)
         /\ \A h : Chosen(s, h)' <=> Chosen(s, h)
<1>1. UNCHANGED <<proxy, depth, symbol_includes>>
  BY DEF includeVars, configVars, proxyVars, tableVars
<1>2. \A x, r : IsRoot(x, r)' <=> IsRoot(x, r)
  BY <1>1 DEF IsRoot, OnChain, Closed
<1>3. \A x : /\ ChainEnds(x)' <=> ChainEnds(x)
             /\ include_get_proxy(x)' = include_get_proxy(x)
  BY <1>2 DEF ChainEnds, include_get_proxy
<1>4. LookedAt(s)' = LookedAt(s) /\ ListedRoots(s)' = ListedRoots(s)
  BY <1>1, <1>3 DEF LookedAt, ListedRoots
<1>5. config_symbol_get_include(s)' = config_symbol_get_include(s)
  BY <1>1, <1>4 DEF config_symbol_get_include
<1>6. /\ IncludeFor(s)' = IncludeFor(s)
      /\ IncludeForEnds(s)' <=> IncludeForEnds(s)
  BY <1>1, <1>3, <1>4, <1>5 DEF IncludeFor, IncludeForEnds
<1> QED
  BY <1>6 DEF Chosen

\* The steps of main() from symbols_init() on leave the include files alone.
LEMMA SettledKeeps ==
  ASSUME ProxiesInv, Settled, pc # "exit", Settled', pc' # "symbols_init" \/ pc' = pc,
         UNCHANGED <<pos, tuVars, includeVars, configVars>>
  PROVE  ProxiesInv'
<1>1. HandledInv' /\ DeeperHasIncluder' /\ DirectivesNameFiles'
  <2>1. pos' \in Nat \ {0} /\ proxy' \in [Id -> Id \cup {NULL}]
    BY DEF ProxiesInv, HandledInv, HeaderConfigTypeOK, IncludesTypeOK, configVars,
           proxyVars
  <2> QED
    BY <2>1, SecondVisitKeeps
    DEF Settled, ConfigParsed, Parsing, configVars, proxyVars
<1>2. HiddenSoFar'
  BY DEF ProxiesInv, HiddenSoFar, Hidden, FromSource, Names, is_local, Settled,
         config_is_standard_include, tuVars, includeVars, configVars, proxyVars
<1> QED
  BY <1>1, <1>2 DEF ProxiesInv

LEMMA TidyInvStep == TidyInv /\ [TidyNext]_tidyVars => TidyInv'
<1> SUFFICES ASSUME TidyInv, [TidyNext]_tidyVars PROVE TidyInv'
  OBVIOUS
<1>1. HeaderConfigTypeOK
  BY DEF TidyInv, ProxiesInv, HandledInv
<1>2. ASSUME [ProxiesStep]_proxiesVars, UNCHANGED symbolVars
      PROVE  TidyInv'
  <2>1. ProxiesInv'
    BY <1>2, ProxiesInvStep DEF TidyInv
  <2>2. symbol_set' = symbol_set
    BY <1>2 DEF symbolVars
  <2>3. ASSUME NEW h \in Id, NEW s \in symbol_set[h]
        PROVE  Settled' /\ s \in Symbol /\ Chosen(s, h)'
    <3>1. Settled /\ s \in Symbol /\ Chosen(s, h)
      BY DEF TidyInv, SymbolsAreChosen
    <3>2. UNCHANGED proxiesVars
      BY <1>2, <3>1, SettledSteps
    <3>3. UNCHANGED <<pc, includeVars, configVars>>
      BY <3>2 DEF proxiesVars, headerConfigVars, includesVars
    <3> QED
      BY <3>1, <3>3, ChosenKept DEF Settled
  <2> QED
    BY <2>1, <2>2, <2>3 DEF TidyInv, SymbolsAreChosen
<1>3. ASSUME Settled, pc # "exit", Settled', pc' # "symbols_init" \/ pc' = pc,
             UNCHANGED <<pos, tuVars, includeVars, configVars, symbol_set>>
      PROVE  TidyInv'
  <2>1. ProxiesInv'
    BY <1>3, SettledKeeps DEF TidyInv
  <2>2. \A h \in Id : \A s \in symbol_set[h] : s \in Symbol /\ Chosen(s, h)'
    BY <1>3, ChosenKept DEF TidyInv, SymbolsAreChosen
  <2> QED
    BY <1>3, <2>1, <2>2 DEF TidyInv, SymbolsAreChosen
<1>4. ASSUME NEW s \in Symbol, add_symbol(s) PROVE TidyInv'
  <2>1. /\ pc = "symbols_init" /\ pc' \in {"symbols_init", "include_get_proxy"}
        /\ UNCHANGED <<pos, tuVars, includeVars, configVars>>
    BY <1>4 DEF add_symbol
  <2>2. CASE ~IncludeForEnds(s)
    BY <1>3, <1>4, <2>1, <2>2 DEF add_symbol, Settled
  <2>3. CASE IncludeForEnds(s)
    <3>1. PICK h : h = IncludeFor(s)
      OBVIOUS
    <3>2. Chosen(s, h) /\ h \in Id
      BY <1>1, <2>3, <3>1, ChosenIsBest DEF Chosen
    <3>3. symbol_set' = [symbol_set EXCEPT ![h] = @ \cup {s}]
      BY <1>4, <2>3, <3>1 DEF add_symbol
    <3>4. symbol_set' \in [Id -> SUBSET Symbol]
      BY <3>2, <3>3 DEF TidyInv
    <3>5. ASSUME NEW g \in Id, NEW t \in symbol_set'[g]
          PROVE  t \in Symbol /\ Chosen(t, g)
      <4>1. t \in symbol_set[g] \/ (g = h /\ t = s)
        BY <3>2, <3>3, <3>5 DEF TidyInv
      <4> QED
        BY <3>2, <4>1 DEF TidyInv, SymbolsAreChosen
    <3>6. Settled /\ Settled'
      BY <2>1 DEF Settled
    <3>7. SymbolsAreChosen'
      BY <2>1, <3>5, <3>6, ChosenKept DEF SymbolsAreChosen
    <3>8. ProxiesInv'
      BY <2>1, <3>6, SettledKeeps DEF TidyInv
    <3> QED
      BY <3>4, <3>7, <3>8 DEF TidyInv
  <2> QED
    BY <2>2, <2>3
<1>5. CASE SymbolsDone
  BY <1>3, <1>5 DEF SymbolsDone, Settled, symbolVars
<1>6. CASE includes_print
  BY <1>3, <1>6 DEF includes_print, Settled
<1>7. CASE tidy_status
  BY <1>3, <1>7 DEF tidy_status, Settled, symbolVars
<1>8. CASE Stopped \/ UNCHANGED tidyVars
  BY <1>2, <1>8 DEF Stopped, tidyVars
<1> QED
  BY <1>2, <1>4, <1>5, <1>6, <1>7, <1>8 DEF TidyNext, TidyStep

-----------------------------------------------------------------------------
\* However often a symbol is referenced, and whatever the configuration says of it,
\* one include file is needed for it, and it is not one that has a proxy.
THEOREM OneIncludeForSymbol == TidySpec => []OneIncludePerSymbol
<1>1. TidyInv => OneIncludePerSymbol
  <2> SUFFICES ASSUME TidyInv, NEW s \in Symbol, NEW g \in Id, NEW h \in Id,
                      s \in symbol_set[g] \cap symbol_set[h]
               PROVE  g = h /\ proxy[h] = NULL
    BY DEF OneIncludePerSymbol
  <2>1. Chosen(s, g) /\ Chosen(s, h)
    BY DEF TidyInv, SymbolsAreChosen
  <2>2. HeaderConfigTypeOK
    BY DEF TidyInv, ProxiesInv, HandledInv
  <2> QED
    BY <2>1, <2>2, ChosenIsBest DEF Chosen
<1> QED
  BY <1>1, TidyInvInit, TidyInvStep, PTL DEF TidySpec

\* Where one of the headers that the configuration lists for a symbol is included,
\* the report never asks for another one on the symbol's account, whatever the
\* number of the headers, their order and the proxies between them.
THEOREM AnyOneIsEnough == TidySpec => []AnyOneSuffices
<1>1. TidyInv => AnyOneSuffices
  <2> SUFFICES ASSUME TidyInv, NEW s \in Used, NEW i \in 1..Len(symbol_includes[s]),
                      depth[include_get_proxy(symbol_includes[s][i])] = 0,
                      NEW h \in Id, s \in symbol_set[h]
               PROVE  depth[h] = 0
    BY DEF AnyOneSuffices
  <2>1. s \in Symbol /\ Chosen(s, h)
    BY DEF TidyInv, SymbolsAreChosen
  <2>2. HeaderConfigTypeOK
    BY DEF TidyInv, ProxiesInv, HandledInv
  <2> QED
    BY <2>1, <2>2, ChosenIsBest
<1> QED
  BY <1>1, TidyInvInit, TidyInvStep, PTL DEF TidySpec

-----------------------------------------------------------------------------
(***************************************************************************)
(* When following the report makes the source file tidy.                   *)
(***************************************************************************)

\* No two files are links to each other.  Otherwise the line on which the source
\* file includes one of them may be missing (see DirectHasLine).
NoLinks == \A f, g \in File : FileID[f] = FileID[g] => f = g

\* get_associated_header() has no choice.
OneAssociated == \A g, h \in Associated : g = h

-----------------------------------------------------------------------------
(***************************************************************************)
(* The lines of an include file are those it is direct by.                 *)
(***************************************************************************)

LinesAreDirect ==
  \A h \in included :
    /\ lines[h] # <<>> => depth[h] = 0
    /\ NoLinks /\ depth[h] = 0 => lines[h] # <<>>
    /\ \A i, j \in 1..Len(lines[h]) : i < j => lines[h][i] < lines[h][j]

LinesKnown ==
  /\ \A h \in Id \ included : lines[h] = <<>>
  /\ Parsing => LinesInv
  /\ ~Parsing /\ pc # "exit" => LinesAreDirect

\* An include file with a line is named by a directive of the source file.  Without
\* links, every such directive is on a line of it.
LEMMA DirectByLine ==
  IncludesInv /\ LinesInv /\ pc # "exit" => LinesAreDirect
<1> SUFFICES ASSUME IncludesInv, LinesInv, pc # "exit", NEW h \in included
             PROVE  /\ lines[h] # <<>> => depth[h] = 0
                    /\ NoLinks /\ depth[h] = 0 => lines[h] # <<>>
  BY DEF LinesAreDirect, LinesInv, LinesExact
<1>1. /\ h \in Id /\ tu \in Seq(Directive) /\ pos \in Nat \ {0}
      /\ lines[h] \in Seq(Nat) /\ Len(lines[h]) \in Nat
  BY DEF IncludesInv, IncludesTypeOK
<1>2. file[h] \in File /\ FileID[file[h]] = h
  BY DEF LinesInv
<1>3. {lines[h][i] : i \in 1..Len(lines[h])} =
        {n \in Visited : is_direct(tu[n]) /\ tu[n].included = file[h]}
  BY DEF LinesInv, LinesExact
<1>4. Visited \subseteq 1..Len(tu)
  BY <1>1 DEF Visited, IncludesInv, PhasesInOrder
<1>5. \A n \in Visited : /\ tu[n].included = file[h] => Names(n, h)
                         /\ NoLinks /\ Names(n, h) => tu[n].included = file[h]
  <2>1. \A n \in Visited : tu[n].included \in File \cup {NULL}
    <3>1. \A n \in Visited : tu[n] \in Directive
      BY <1>1, <1>4
    <3> QED
      BY <3>1 DEF Directive
  <2> QED
    BY <1>2, <2>1, FileAssumption DEF Names, NoLinks
<1>6. depth[h] = 0 <=> \E n \in Visited : is_direct(tu[n]) /\ Names(n, h)
  BY DEF IncludesInv, DepthZeroIsDirect
<1>7. lines[h] # <<>> <=> \E i \in 1..Len(lines[h]) : TRUE
  BY <1>1
<1> QED
  BY <1>3, <1>5, <1>6, <1>7

LEMMA LinesKnownInit == TidyInit => LinesKnown
BY LinesInit
DEF TidyInit, HeaderConfigInit, IncludesInit, LinesKnown, Parsing

LEMMA LinesKnownStep ==
  ASSUME TidyInv, TidyInv', LinesKnown, [TidyNext]_tidyVars
  PROVE  LinesKnown'
<1>1. CASE UNCHANGED includeVars /\ ~Parsing /\ ~Parsing' /\ (pc = "exit" => pc' = "exit")
  BY <1>1 DEF LinesKnown, LinesAreDirect, includeVars
<1>2. CASE UNCHANGED includesVars
  BY <1>2
  DEF LinesKnown, LinesAreDirect, LinesInv, LinesExact, Visited, Parsing, is_direct,
      includesVars, includeVars, tuVars
<1>3. CASE IncludesStep
  <2>1. Parsing
    BY <1>3 DEF IncludesStep, Preprocess, ParseFails, ParseDone, MissingFile,
                includes_init_visitor, NewInclude, DirectAgain, IndirectAgain,
                Visiting, IncludesDone, Parsing
  <2>2. IncludesInv /\ IncludesInv' /\ LinesInv'
    BY <1>3, <2>1, InvStep, LinesStep
    DEF TidyInv, ProxiesInv, HandledInv, KeysWait, LinesKnown
  <2>3. pc' # "exit" => LinesAreDirect'
    <3>1. (IncludesInv /\ LinesInv /\ pc # "exit" => LinesAreDirect)'
      BY DirectByLine, PTL
    <3> QED
      BY <2>2, <3>1
  <2> QED
    BY <2>2, <2>3 DEF LinesKnown, LinesInv
<1>4. ASSUME NEW k \in SymbolKeys, SymbolKey(k) PROVE LinesKnown'
  <2> DEFINE h == FileID[k.inc]
  <2>1. /\ pc = "config_init" /\ pc' = pc /\ lines' = lines
        /\ \/ UNCHANGED <<included, depth>>
           \/ /\ h \notin included
              /\ included' = included \cup {h}
              /\ depth' = [depth EXCEPT ![h] = 1]
    BY <1>4 DEF SymbolKey, ParsingKeys, depth_of_added
  <2>2. h \in Id /\ depth \in [Id -> Nat] /\ included \in SUBSET Id
    BY FileAssumption, KeysAssumption
    DEF TidyInv, ProxiesInv, HandledInv, HeaderConfigTypeOK, IncludesTypeOK
  <2>3. lines[h] = <<>> \/ h \in included
    BY <2>2 DEF LinesKnown
  <2> HIDE DEF h
  <2> QED
    BY <2>1, <2>2, <2>3 DEF LinesKnown, LinesAreDirect, Parsing
<1>5. ASSUME UNCHANGED includeVars,
             pc \notin {"source_init", "includes_init"},
             pc' \notin {"source_init", "includes_init"},
             pc = "exit" => pc' = "exit"
      PROVE  LinesKnown'
  BY <1>1, <1>5 DEF Parsing
<1>6. CASE ConfigStep /\ ~\E k \in SymbolKeys : SymbolKey(k)
  <2>1. UNCHANGED includeVars /\ pc = "config_init"
    BY <1>6 DEF ConfigStep, ProxyKey, ProxyMatch, ProxyKeyDone, HandleKey, IgnoreSymbol,
                IgnoreSource, ConfigError, ConfigDone, ParsingKeys, includeVars
  <2>2. pc' \in {"config_init", "exit", "tidy_status", "source_check_for_errors"}
    BY <1>6 DEF ConfigStep, ProxyKey, ProxyMatch, ProxyKeyDone, HandleKey, IgnoreSymbol,
                IgnoreSource, ConfigError, ConfigDone, ParsingKeys
  <2> QED
    BY <1>5, <2>1, <2>2
<1>7. CASE SourceHasErrors \/ SourceIsFine \/ implicit_proxies_visitor \/ ImplicitDone
  BY <1>5, <1>7 DEF SourceHasErrors, SourceIsFine, implicit_proxies_visitor, ImplicitDone
<1>8. CASE \/ \E s \in Symbol : add_symbol(s)
           \/ SymbolsDone
           \/ includes_print
           \/ tidy_status
  BY <1>5, <1>8 DEF add_symbol, SymbolsDone, includes_print, tidy_status
<1>9. CASE Stopped \/ UNCHANGED tidyVars
  BY <1>2, <1>9 DEF Stopped, tidyVars, proxiesVars, headerConfigVars
<1> QED
  BY <1>3, <1>4, <1>6, <1>7, <1>8, <1>9
  DEF TidyNext, TidyStep, ProxiesStep, HeaderConfigStep, ConfigStep

-----------------------------------------------------------------------------
(***************************************************************************)
(* What the report is printed from.                                        *)
(***************************************************************************)

\* The include files that used symbols need.
NeededByUse == {IncludeFor(s) : s \in Used}

NeededSoFar == \A h \in Id : is_needed[h] <=> h \in NeededByUse

ReportOf(needed) ==
  UNION {maybe_print_include(h, needed) :
           h \in {g \in included : should_print_include(g, needed)}}

\* Nothing is needed until symbols are visited; then it is what they need, and
\* after it was printed, the associated header too.
NeededKnown ==
  /\ ~Settled => /\ \A h \in Id : is_needed[h] = FALSE
                 /\ \A s \in Symbol : ref_count[s] = 0
  /\ pc \in {"symbols_init", "includes_print"} => NeededSoFar
  /\ Printed => \E assoc \in get_associated_header :
                  /\ \A h \in Id : is_needed[h] <=> h \in NeededByUse \cup assoc
                  /\ report = ReportOf(is_needed)

ReportInv ==
  /\ TidyInv
  /\ LinesKnown
  /\ is_needed \in [Id -> BOOLEAN]
  /\ ref_count \in [Symbol -> Nat]
  /\ NeededKnown

LEMMA ReportInit == TidyInit => ReportInv
BY TidyInvInit, LinesKnownInit
DEF TidyInit, HeaderConfigInit, IncludesInit, ReportInv, NeededKnown, Settled, Printed

\* The steps before symbols_init() print no report: tidy_status() is called early
\* only for a source file that is ignored.
LEMMA NotYetPrinted == ReportInv /\ ProxiesStep => ~Printed'
<1> SUFFICES ASSUME ReportInv, ProxiesStep PROVE ~Printed'
  OBVIOUS
<1>1. CASE pc' # "tidy_status"
  BY <1>1 DEF Printed
<1>2. CASE pc' = "tidy_status"
  <2>1. CASE IncludesStep
    <3>1. Parsing
      BY <2>1 DEF IncludesStep, Preprocess, ParseFails, ParseDone, MissingFile,
                  includes_init_visitor, NewInclude, DirectAgain, IndirectAgain,
                  Visiting, IncludesDone, Parsing
    <3>2. IncludesInv'
      BY <2>1, <3>1, InvStep DEF ReportInv, TidyInv, ProxiesInv, HandledInv, KeysWait
    <3> QED
      BY <1>2, <3>2 DEF IncludesInv, PhasesInOrder
  <2>2. CASE ConfigStep
    <3>1. CASE ConfigDone
      <4>1. is_ignored /\ is_ignored' = is_ignored
        BY <1>2, <3>1 DEF ConfigDone, configVars, tableVars
      <4> QED
        BY <4>1 DEF Printed
    <3>2. CASE ~ConfigDone
      <4>1. pc = "config_init" /\ pc' \in {pc, "exit"}
        BY <2>2, <3>2
        DEF ConfigStep, ProxyKey, ProxyMatch, ProxyKeyDone, HandleKey, SymbolKey,
            IgnoreSymbol, IgnoreSource, ConfigError, ParsingKeys
      <4> QED
        BY <1>2, <4>1
    <3> QED
      BY <3>1, <3>2
  <2>3. CASE SourceHasErrors \/ SourceIsFine \/ implicit_proxies_visitor \/ ImplicitDone
    BY <1>2, <2>3
    DEF SourceHasErrors, SourceIsFine, implicit_proxies_visitor, ImplicitDone
  <2> QED
    BY <2>1, <2>2, <2>3 DEF ProxiesStep, HeaderConfigStep
<1> QED
  BY <1>1, <1>2

\* The steps before symbols_init() count no symbol; the last of them starts with
\* none used.
LEMMA NothingNeededYet ==
  ASSUME ReportInv, ProxiesStep, UNCHANGED symbolVars
  PROVE  NeededKnown'
<1>1. ~Settled
  BY SettledSteps
<1>2. UNCHANGED <<is_needed, ref_count>>
  BY DEF symbolVars
<1>3. /\ \A h \in Id : is_needed'[h] = FALSE
      /\ \A s \in Symbol : ref_count'[s] = 0
  BY <1>1, <1>2 DEF ReportInv, NeededKnown
<1>4. Used' = {}
  BY <1>3 DEF Used
<1>5. NeededSoFar'
  BY <1>3, <1>4 DEF NeededSoFar, NeededByUse
<1>6. ~Printed'
  BY NotYetPrinted
<1> QED
  BY <1>3, <1>5, <1>6 DEF NeededKnown

\* A reference makes the include file chosen for its symbol needed.
LEMMA NeededGrows ==
  ASSUME ReportInv, NEW s \in Symbol, add_symbol(s)
  PROVE  /\ is_needed' \in [Id -> BOOLEAN] /\ ref_count' \in [Symbol -> Nat]
         /\ NeededKnown'
<1>1. /\ pc = "symbols_init" /\ pc' \in {"symbols_init", "include_get_proxy"}
      /\ UNCHANGED <<includeVars, configVars>>
      /\ ref_count' = [ref_count EXCEPT ![s] = @ + 1]
  BY DEF add_symbol
<1>2. /\ is_needed \in [Id -> BOOLEAN] /\ ref_count \in [Symbol -> Nat]
      /\ \A h \in Id : is_needed[h] <=> h \in NeededByUse
  BY <1>1 DEF ReportInv, NeededKnown, NeededSoFar
<1>3. ref_count' \in [Symbol -> Nat] /\ Used' = Used \cup {s}
  BY <1>1, <1>2 DEF Used
<1>4. CASE ~IncludeForEnds(s)
  BY <1>1, <1>2, <1>3, <1>4
  DEF add_symbol, NeededKnown, Settled, Printed
<1>5. CASE IncludeForEnds(s)
  <2>1. /\ pc' = pc
        /\ is_needed' = [is_needed EXCEPT ![IncludeFor(s)] = TRUE]
    BY <1>5 DEF add_symbol
  <2>2. IncludeFor(s) \in Id
    BY <1>5, ChosenIsBest
    DEF Chosen, ReportInv, TidyInv, ProxiesInv, HandledInv
  <2>3. is_needed' \in [Id -> BOOLEAN]
    BY <1>2, <2>1
  <2>4. NeededByUse' = NeededByUse \cup {IncludeFor(s)}
    <3>1. \A t : IncludeFor(t)' = IncludeFor(t)
      BY <1>1, ChosenKept
    <3> QED
      BY <1>3, <3>1 DEF NeededByUse
  <2>5. NeededSoFar'
    BY <1>2, <2>1, <2>2, <2>4 DEF NeededSoFar
  <2> QED
    BY <1>1, <1>3, <2>1, <2>3, <2>5 DEF NeededKnown, Settled, Printed
<1> QED
  BY <1>4, <1>5

LEMMA ReportInvStep ==
  ASSUME ReportInv, [TidyNext]_tidyVars
  PROVE  ReportInv'
<1>1. TidyInv'
  BY TidyInvStep DEF ReportInv
<1>2. LinesKnown'
  BY <1>1, LinesKnownStep DEF ReportInv
<1>3. SUFFICES /\ is_needed' \in [Id -> BOOLEAN]
               /\ ref_count' \in [Symbol -> Nat]
               /\ NeededKnown'
  BY <1>1, <1>2 DEF ReportInv
<1>4. is_needed \in [Id -> BOOLEAN] /\ ref_count \in [Symbol -> Nat]
  BY DEF ReportInv
<1>5. CASE ProxiesStep /\ UNCHANGED symbolVars
  BY <1>4, <1>5, NothingNeededYet DEF symbolVars
<1>6. ASSUME NEW s \in Symbol, add_symbol(s)
      PROVE  /\ is_needed' \in [Id -> BOOLEAN]
             /\ ref_count' \in [Symbol -> Nat]
             /\ NeededKnown'
  BY <1>6, NeededGrows
<1>7. ASSUME UNCHANGED <<includeVars, configVars, ref_count>>
      PROVE  NeededByUse' = NeededByUse
  <2>1. \A t : IncludeFor(t)' = IncludeFor(t)
    BY <1>7, ChosenKept
  <2> QED
    BY <1>7, <2>1 DEF NeededByUse, Used
<1>8. CASE SymbolsDone
  <2>1. /\ pc = "symbols_init" /\ pc' = "includes_print"
        /\ UNCHANGED <<includeVars, configVars, is_needed, ref_count>>
    BY <1>8 DEF SymbolsDone, symbolVars
  <2>2. NeededSoFar'
    BY <1>7, <2>1 DEF ReportInv, NeededKnown, NeededSoFar
  <2> QED
    BY <1>4, <2>1, <2>2 DEF NeededKnown, Settled, Printed
<1>9. CASE includes_print
  <2>1. /\ pc = "includes_print" /\ pc' = "tidy_status"
        /\ UNCHANGED <<includeVars, configVars, optVars, ref_count>>
    BY <1>9 DEF includes_print
  <2>2. PICK assoc \in get_associated_header :
          /\ is_needed' = [h \in Id |-> is_needed[h] \/ h \in assoc]
          /\ report' = ReportOf(is_needed')
    BY <1>9 DEF includes_print, ReportOf
  <2>3. \A h \in Id : is_needed'[h] <=> h \in NeededByUse \cup assoc
    BY <2>1, <2>2 DEF ReportInv, NeededKnown, NeededSoFar
  <2>4. is_needed' \in [Id -> BOOLEAN]
    BY <1>4, <2>2
  <2>5. NeededByUse' = NeededByUse
    BY <1>7, <2>1
  <2>6. assoc \in get_associated_header'
    BY <2>1 DEF get_associated_header, is_local, includeVars
  <2>7. (report = ReportOf(is_needed))'
    BY <2>1, <2>2
    DEF ReportOf, maybe_print_include, should_print_include, When, includeVars,
        configVars, tableVars, optVars
  <2>8. \E a \in get_associated_header' :
          /\ \A h \in Id : is_needed'[h] <=> h \in NeededByUse' \cup a
          /\ (report = ReportOf(is_needed))'
    BY <2>3, <2>5, <2>6, <2>7
  <2> QED
    BY <1>4, <2>1, <2>4, <2>8 DEF NeededKnown, Settled
<1>10. CASE tidy_status
  BY <1>4, <1>10 DEF tidy_status, symbolVars, NeededKnown, Settled, Printed
<1>11. CASE Stopped \/ UNCHANGED tidyVars
  <2>1. /\ UNCHANGED <<pc, includeVars, configVars, optVars, symbolVars, report>>
    BY <1>11 DEF Stopped, tidyVars, proxiesVars, headerConfigVars, includesVars, reportVars
  <2>2. NeededByUse' = NeededByUse /\ UNCHANGED <<is_needed, ref_count>>
    BY <1>7, <2>1 DEF symbolVars
  <2>3. get_associated_header' = get_associated_header
    BY <2>1 DEF get_associated_header, is_local, includeVars
  <2>4. ReportOf(is_needed)' = ReportOf(is_needed)
    BY <2>1, <2>2
    DEF ReportOf, maybe_print_include, should_print_include, When, includeVars,
        configVars, tableVars, optVars
  <2>5. is_ignored' = is_ignored /\ pc' = pc /\ report' = report
    BY <2>1 DEF configVars, tableVars
  <2> QED
    BY <1>4, <2>2, <2>3, <2>4, <2>5
    DEF ReportInv, NeededKnown, NeededSoFar, Settled, Printed
<1> QED
  BY <1>5, <1>6, <1>8, <1>9, <1>10, <1>11 DEF TidyNext, TidyStep

-----------------------------------------------------------------------------
(***************************************************************************)
(* What the report says of one include file.                               *)
(***************************************************************************)

\* The three kinds of line that maybe_print_include() prints, but for SHOW.
AddsLine(h, needed) == needed[h] /\ handling[h] # "KEEP" /\ depth[h] # 0

DeletesFirst(h, needed) == ~needed[h] /\ handling[h] # "KEEP" /\ depth[h] = 0

FirstLine(h) == IF lines[h] = <<>> THEN NULL ELSE lines[h][1]

RepeatedLines(h) == {lines[h][i] : i \in 2..Len(lines[h])}

LinesToDelete(h, needed) ==
  IF handling[h] = "KEEP" /\ ~opt_all_includes THEN {}
  ELSE RepeatedLines(h) \cup IF DeletesFirst(h, needed) THEN {FirstLine(h)} ELSE {}

LEMMA LinesOfOne ==
  ASSUME NEW h, NEW needed
  PROVE  /\ \A x \in maybe_print_include(h, needed) : x.inc = h
         /\ [print |-> "ADD", inc |-> h] \in maybe_print_include(h, needed)
              <=> AddsLine(h, needed)
         /\ {x.line : x \in {y \in maybe_print_include(h, needed) :
                                y.print = "DELETE"}}
              = LinesToDelete(h, needed)
<1> DEFINE show == [print |-> "SHOW", inc |-> h]
           add == [print |-> "ADD", inc |-> h]
           delete(line) == [print |-> "DELETE", inc |-> h, line |-> line]
           M == maybe_print_include(h, needed)
           K == handling[h] = "KEEP" /\ ~opt_all_includes
           S == (needed[h] \/ handling[h] = "KEEP")
                /\ (depth[h] = 0 \/ handling[h] = "KEEP") /\ opt_all_includes
           A == AddsLine(h, needed)
           D == DeletesFirst(h, needed)
<1>1. \A x : x \in M <=>
             /\ ~K
             /\ \/ S /\ x = show
                \/ A /\ x = add
                \/ D /\ x = delete(FirstLine(h))
                \/ \E i \in 2..Len(lines[h]) : x = delete(lines[h][i])
  BY DEF maybe_print_include, When, AddsLine, DeletesFirst, FirstLine
<1>2. /\ show.inc = h /\ show.print = "SHOW"
      /\ add.inc = h /\ add.print = "ADD"
      /\ \A n : /\ delete(n).inc = h /\ delete(n).print = "DELETE"
                /\ delete(n).line = n
  OBVIOUS
<1>3. A => ~K
  BY DEF AddsLine
<1> HIDE DEF M, K, S, A, D, show, add, delete
<1>4. \A x \in M : x.inc = h
  BY <1>1, <1>2
<1>5. add \in M <=> A
  <2>1. add # show /\ \A n : add # delete(n)
    BY <1>2
  <2> QED
    BY <1>1, <1>3, <2>1
<1>6. {x.line : x \in {y \in M : y.print = "DELETE"}} = LinesToDelete(h, needed)
  <2>1. \A x : x \in M /\ x.print = "DELETE" <=>
               /\ ~K
               /\ \/ D /\ x = delete(FirstLine(h))
                  \/ \E i \in 2..Len(lines[h]) : x = delete(lines[h][i])
    BY <1>1, <1>2
  <2>2. \A n : (\E x \in M : x.print = "DELETE" /\ n = x.line) <=>
               /\ ~K
               /\ \/ D /\ n = FirstLine(h)
                  \/ \E i \in 2..Len(lines[h]) : n = lines[h][i]
    BY <1>2, <2>1
  <2>3. \A n : n \in LinesToDelete(h, needed) <=>
               /\ ~K
               /\ \/ D /\ n = FirstLine(h)
                  \/ \E i \in 2..Len(lines[h]) : n = lines[h][i]
    BY DEF LinesToDelete, RepeatedLines, K, D
  <2> QED
    BY <2>2, <2>3
<1> QED
  BY <1>4, <1>5, <1>6 DEF M, A, add

LEMMA LinesOfReport ==
  ASSUME NEW needed, report = ReportOf(needed), NEW h \in included
  PROVE  /\ Added(h) <=> should_print_include(h, needed) /\ AddsLine(h, needed)
         /\ DeletedLines(h) = IF should_print_include(h, needed)
                              THEN LinesToDelete(h, needed) ELSE {}
<1>1. \A x : x \in report <=> \E g \in included : /\ should_print_include(g, needed)
                                               /\ x \in maybe_print_include(g, needed)
  BY DEF ReportOf
<1>2. \A x : x \in report /\ x.inc = h <=> /\ should_print_include(h, needed)
                                      /\ x \in maybe_print_include(h, needed)
  <2>1. \A g : \A x \in maybe_print_include(g, needed) : x.inc = g
    BY LinesOfOne
  <2> HIDE DEF maybe_print_include
  <2> QED
    BY <1>1, <2>1
<1>3. Added(h) <=> should_print_include(h, needed) /\ AddsLine(h, needed)
  <2>1. [print |-> "ADD", inc |-> h].inc = h
    OBVIOUS
  <2> QED
    BY <1>2, <2>1, LinesOfOne DEF Added
<1>4. CASE ~should_print_include(h, needed)
  BY <1>2, <1>3, <1>4 DEF DeletedLines
<1>5. CASE should_print_include(h, needed)
  <2>1. {x \in report : x.print = "DELETE" /\ x.inc = h}
          = {y \in maybe_print_include(h, needed) : y.print = "DELETE"}
    BY <1>2, <1>5
  <2>2. DeletedLines(h) = LinesToDelete(h, needed)
    BY <2>1, LinesOfOne DEF DeletedLines
  <2> QED
    BY <1>3, <1>5, <2>2
<1> QED
  BY <1>4, <1>5

-----------------------------------------------------------------------------
(***************************************************************************)
(* The source file is tidy once the report was followed.                   *)
(***************************************************************************)

\* The lines of an include file are its first one and those that repeat it.
LEMMA FirstAndRepeated ==
  ASSUME NoLinks, ReportInv, Printed, NEW h \in included
  PROVE  /\ depth[h] = 0 <=> lines[h] # <<>>
         /\ lines[h] = <<>> => /\ RepeatedLines(h) = {}
                              /\ {lines[h][i] : i \in 1..Len(lines[h])} = {}
         /\ lines[h] # <<>> =>
              /\ FirstLine(h) = lines[h][1]
              /\ FirstLine(h) \notin RepeatedLines(h)
              /\ {lines[h][i] : i \in 1..Len(lines[h])}
                   = RepeatedLines(h) \cup {FirstLine(h)}
         /\ Len(lines[h]) > 1 <=> RepeatedLines(h) # {}
<1>1. lines[h] \in Seq(Nat) /\ Len(lines[h]) \in Nat
  BY DEF ReportInv, TidyInv, ProxiesInv, HandledInv, HeaderConfigTypeOK, IncludesTypeOK
<1>2. /\ depth[h] = 0 <=> lines[h] # <<>>
      /\ \A i, j \in 1..Len(lines[h]) : i < j => lines[h][i] < lines[h][j]
  BY DEF ReportInv, LinesKnown, LinesAreDirect, Parsing, Printed
<1>3. CASE lines[h] = <<>>
  BY <1>2, <1>3 DEF RepeatedLines
<1>4. CASE lines[h] # <<>>
  <2>1. Len(lines[h]) >= 1
    BY <1>1, <1>4
  <2>2. 1..Len(lines[h]) = {1} \cup 2..Len(lines[h])
    BY <1>1, <2>1
  <2>3. FirstLine(h) = lines[h][1]
    BY <1>4 DEF FirstLine
  <2>4. \A i \in 2..Len(lines[h]) : lines[h][1] < lines[h][i] /\ lines[h][i] \in Nat
    BY <1>1, <1>2, <2>1
  <2>5. lines[h][1] \notin RepeatedLines(h)
    BY <1>1, <2>1, <2>4 DEF RepeatedLines
  <2>6. {lines[h][i] : i \in 1..Len(lines[h])} = RepeatedLines(h) \cup {lines[h][1]}
    BY <2>2 DEF RepeatedLines
  <2>7. Len(lines[h]) > 1 <=> RepeatedLines(h) # {}
    <3>1. Len(lines[h]) > 1 => lines[h][2] \in RepeatedLines(h)
      BY <1>1 DEF RepeatedLines
    <3>2. Len(lines[h]) <= 1 => 2..Len(lines[h]) = {}
      BY <1>1
    <3> QED
      <4>1. CASE Len(lines[h]) > 1
        BY <3>1, <4>1
      <4>2. CASE Len(lines[h]) <= 1
        BY <1>1, <3>2, <4>2 DEF RepeatedLines
      <4> QED
        BY <1>1, <4>1, <4>2
  <2> QED
    BY <1>2, <1>4, <2>3, <2>5, <2>6, <2>7
<1> QED
  BY <1>3, <1>4

LEMMA ReportMakesTidy == NoLinks /\ OneAssociated /\ ReportInv => ReportTidies
<1> SUFFICES ASSUME NoLinks, OneAssociated, ReportInv, Printed
             PROVE  NeededAreIncluded /\ HandledAreLeftAlone
  BY DEF ReportTidies
<1>1. PICK assoc \in get_associated_header :
        /\ \A h \in Id : is_needed[h] <=> h \in NeededByUse \cup assoc
        /\ report = ReportOf(is_needed)
  BY DEF ReportInv, NeededKnown
<1>2. assoc = {g \in Associated \cap included : is_local(g)}
  BY DEF get_associated_header, OneAssociated
<1>3. included \in SUBSET Id
  BY DEF ReportInv, TidyInv, ProxiesInv, HandledInv, HeaderConfigTypeOK, IncludesTypeOK
<1>4. ASSUME NEW h \in included
      PROVE  /\ Added(h) <=> should_print_include(h, is_needed) /\ AddsLine(h, is_needed)
             /\ DeletedLines(h) = IF should_print_include(h, is_needed)
                                  THEN LinesToDelete(h, is_needed) ELSE {}
  BY <1>1, LinesOfReport
<1>5. ASSUME NEW h \in included, handling[h] = "DEFAULT"
      PROVE  LET needed == h \in {IncludeFor(s) : s \in Used}
                                \cup {g \in Associated \cap included : is_local(g)}
                 kept   == {lines[h][i] : i \in 1..Len(lines[h])} \ DeletedLines(h)
             IN  IF needed THEN /\ Added(h) <=> kept = {}
                                /\ Cardinality(kept) <= 1
                           ELSE kept = {} /\ ~Added(h)
  <2> DEFINE needed == h \in {IncludeFor(s) : s \in Used}
                             \cup {g \in Associated \cap included : is_local(g)}
             all    == {lines[h][i] : i \in 1..Len(lines[h])}
             kept   == all \ DeletedLines(h)
  <2>1. needed <=> is_needed[h]
    BY <1>1, <1>2, <1>3 DEF NeededByUse
  <2>2. should_print_include(h, is_needed) <=>
          \/ RepeatedLines(h) # {}
          \/ opt_all_includes /\ is_needed[h]
          \/ is_needed[h] # (depth[h] = 0)
    BY <1>5, FirstAndRepeated DEF should_print_include
  <2>3. LinesToDelete(h, is_needed) =
          RepeatedLines(h) \cup
            IF ~is_needed[h] /\ depth[h] = 0 THEN {FirstLine(h)} ELSE {}
    BY <1>5 DEF LinesToDelete, DeletesFirst
  <2>4. is_needed[h] \in BOOLEAN
    BY <1>3 DEF ReportInv
  <2>5. CASE is_needed[h]
    <3>1. kept = IF depth[h] = 0 THEN {FirstLine(h)} ELSE {}
      <4>1. DeletedLines(h) = RepeatedLines(h)
        BY <1>4, <2>2, <2>3, <2>5
      <4>2. CASE depth[h] = 0
        BY <4>1, <4>2, FirstAndRepeated
      <4>3. CASE depth[h] # 0
        BY <4>1, <4>3, FirstAndRepeated
      <4> QED
        BY <4>2, <4>3
    <3>2. Cardinality(kept) <= 1
      <4> HIDE DEF kept
      <4>1. Cardinality({}) = 0 /\ Cardinality({FirstLine(h)}) = 1
        BY FS_EmptySet, FS_Singleton, Zenon
      <4> QED
        BY <3>1, <4>1
    <3>3. Added(h) <=> depth[h] # 0
      BY <1>4, <1>5, <2>2, <2>5 DEF AddsLine
    <3>4. Added(h) <=> kept = {}
      BY <3>1, <3>3
    <3> QED
      BY <2>1, <2>5, <3>2, <3>4
  <2>6. CASE ~is_needed[h]
    <3>1. kept = {}
      BY <1>4, <2>2, <2>3, <2>4, <2>6, FirstAndRepeated
    <3>2. ~Added(h)
      BY <1>4, <2>6 DEF AddsLine
    <3> QED
      BY <2>1, <2>6, <3>1, <3>2
  <2> QED
    BY <2>5, <2>6
<1>6. ASSUME NEW h \in included,
             handling[h] = "KEEP" \/ (handling[h] = "ELIDE" /\ is_needed[h])
      PROVE  ~Added(h) /\ \A n \in DeletedLines(h) : n # lines[h][1]
  <2>1. DeletedLines(h) \subseteq RepeatedLines(h)
    BY <1>4, <1>6 DEF LinesToDelete, DeletesFirst
  <2>2. \A n \in RepeatedLines(h) : n # lines[h][1]
    BY FirstAndRepeated
  <2>3. ~Added(h)
    <3>1. CASE handling[h] = "KEEP"
      BY <1>4, <3>1 DEF AddsLine
    <3>2. CASE handling[h] = "ELIDE" /\ is_needed[h]
      BY <1>4, <3>2, FirstAndRepeated DEF should_print_include, AddsLine
    <3> QED
      BY <1>6, <3>1, <3>2
  <2> QED
    BY <2>1, <2>2, <2>3
<1> QED
  BY <1>5, <1>6 DEF NeededAreIncluded, HandledAreLeftAlone

\* Following the report makes the source file tidy: of the include files whose
\* handling is the default one, exactly those that a used symbol needs, and the
\* associated header, are included afterwards, by one line each; those to be kept
\* or elided are left alone.
THEOREM ReportIsRight ==
  ASSUME NoLinks, OneAssociated
  PROVE  TidySpec => []ReportTidies
<1>1. ReportInv /\ [TidyNext]_tidyVars => ReportInv'
  BY ReportInvStep
<1>2. ReportInv => ReportTidies
  BY NoLinks, OneAssociated, ReportMakesTidy
<1> QED
  BY <1>1, <1>2, ReportInit, PTL DEF TidySpec

-----------------------------------------------------------------------------
(***************************************************************************)
(* The lines that repeat others, which includes_print() counts by adding   *)
(* up Duplicates().                                                        *)
(***************************************************************************)

\* The repeated lines of some include files, by their indices.
Repeats(S) == UNION {{h} \X (2..Len(lines[h])) : h \in S}

LEMMA DuplicatesCounted ==
  ASSUME NEW h, lines[h] \in Seq(Nat)
  PROVE  /\ IsFiniteSet({h} \X (2..Len(lines[h])))
         /\ Cardinality({h} \X (2..Len(lines[h]))) = Duplicates(h)
         /\ Duplicates(h) \in Nat
<1>1. Len(lines[h]) \in Nat
  OBVIOUS
<1> DEFINE n == Len(lines[h])
<1>2. 2 \in Int /\ n \in Int
  BY <1>1
<1>3. IsFiniteSet(2..n) /\ Cardinality(2..n) = IF 2 > n THEN 0 ELSE n - 2 + 1
  <2> HIDE DEF n
  <2> QED
    BY <1>2, FS_Interval
<1>4. IsFiniteSet({h}) /\ Cardinality({h}) = 1
  BY FS_Singleton
<1>5. /\ IsFiniteSet({h} \X (2..n))
      /\ Cardinality({h} \X (2..n)) = Cardinality({h}) * Cardinality(2..n)
  <2> HIDE DEF n
  <2> QED
    BY <1>3, <1>4, FS_Product
<1>6. Cardinality(2..n) = Duplicates(h) /\ Duplicates(h) \in Nat
  BY <1>1, <1>3 DEF Duplicates
<1>7. 1 * Duplicates(h) = Duplicates(h)
  BY <1>6
<1> QED
  BY <1>4, <1>5, <1>6, <1>7

\* One include file more.
LEMMA RepeatsGrow ==
  ASSUME NEW s, NEW x \in s, lines[x] \in Seq(Nat), IsFiniteSet(Repeats(s \ {x}))
  PROVE  /\ IsFiniteSet(Repeats(s))
         /\ Cardinality(Repeats(s)) = Duplicates(x) + Cardinality(Repeats(s \ {x}))
<1> DEFINE A == {x} \X (2..Len(lines[x]))
           B == Repeats(s \ {x})
<1>1. Repeats(s) = A \cup B
  BY DEF Repeats
<1>2. A \cap B = {}
  BY DEF Repeats
<1>3. IsFiniteSet(A) /\ Cardinality(A) = Duplicates(x) /\ Duplicates(x) \in Nat
  BY DuplicatesCounted
<1>4. Cardinality({}) = 0
  BY FS_EmptySet
<1> HIDE DEF A, B
<1>5. IsFiniteSet(B) /\ Cardinality(B) \in Nat
  BY FS_CardinalityType DEF B
<1>6. /\ IsFiniteSet(A \cup B)
      /\ Cardinality(A \cup B) = Cardinality(A) + Cardinality(B) - Cardinality(A \cap B)
  BY <1>3, <1>5, FS_Union
<1>7. Cardinality(A \cup B) = Duplicates(x) + Cardinality(B)
  <2>1. Cardinality(A \cup B) = Duplicates(x) + Cardinality(B) - 0
    BY <1>2, <1>3, <1>4, <1>6
  <2> QED
    BY <1>3, <1>5, <2>1
<1> QED
  BY <1>1, <1>6, <1>7 DEF B

\* Finitely many include files repeat finitely many lines.
LEMMA RepeatsFinite ==
  ASSUME NEW S, IsFiniteSet(S), \A h \in S : lines[h] \in Seq(Nat)
  PROVE  IsFiniteSet(Repeats(S))
<1> DEFINE T == {{h} \X (2..Len(lines[h])) : h \in S}
<1>1. IsFiniteSet(T)
  <2> DEFINE f == [h \in S |-> {h} \X (2..Len(lines[h]))]
  <2>1. f \in Surjection(S, T)
    BY DEF Surjection
  <2> HIDE DEF f, T
  <2> QED
    BY <2>1, FS_Surjection
<1>2. \A t \in T : IsFiniteSet(t)
  BY DuplicatesCounted
<1>3. Repeats(S) = UNION T
  BY DEF Repeats
<1> HIDE DEF T
<1> QED
  BY <1>1, <1>2, <1>3, FS_UNION

\* MapThenSumSet() adds up the lines that repeat others: it is one of those
\* recursive functions for which there is a solution, and only one.
LEMMA SumOfDuplicates ==
  ASSUME NEW S, IsFiniteSet(S), \A h \in S : lines[h] \in Seq(Nat)
  PROVE  MapThenSumSet(Duplicates, S) = Cardinality(Repeats(S))
<1> DEFINE one(s) == CHOOSE x \in s : TRUE
           Sums(f) == f = [s \in SUBSET S |->
                             IF s = {} THEN 0
                             ELSE Duplicates(one(s)) + f[s \ {one(s)}]]
           sum == CHOOSE f : Sums(f)
           count == [s \in SUBSET S |-> Cardinality(Repeats(s))]
<1>1. MapThenSumSet(Duplicates, S) = sum[S]
  BY DEF MapThenSumSet, MapThenFoldSet
<1> DEFINE Unfold(f, s) == IF s = {} THEN 0 ELSE Duplicates(one(s)) + f[s \ {one(s)}]
<1>2. \A s \in SUBSET S : s # {} => one(s) \in s /\ s \ {one(s)} \in SUBSET S
  OBVIOUS
<1>3. \A s \in SUBSET S : IsFiniteSet(s) /\ IsFiniteSet(Repeats(s))
  BY FS_Subset, RepeatsFinite
<1>4. Cardinality(Repeats({})) = 0
  <2>1. Repeats({}) = {}
    BY DEF Repeats
  <2> QED
    BY <2>1, FS_EmptySet
<1>5. \A s \in SUBSET S : count[s] = Unfold(count, s)
  <2> SUFFICES ASSUME NEW s \in SUBSET S, s # {}
               PROVE  count[s] = Duplicates(one(s)) + count[s \ {one(s)}]
    BY <1>4
  <2> DEFINE x == one(s)
  <2>1. x \in s /\ s \ {x} \in SUBSET S /\ lines[x] \in Seq(Nat)
    BY <1>2
  <2>2. IsFiniteSet(Repeats(s \ {x}))
    BY <1>3, <2>1
  <2> HIDE DEF x
  <2>3. Cardinality(Repeats(s)) = Duplicates(x) + Cardinality(Repeats(s \ {x}))
    BY <2>1, <2>2, RepeatsGrow
  <2> QED
    BY <2>1, <2>3 DEF x
<1>6. Sums(count)
  BY <1>5
<1>7. Sums(sum)
  <2> HIDE DEF Sums, count
  <2> QED
    BY <1>6
<1>8. \A s \in SUBSET S : sum[s] = Unfold(sum, s)
  <2> HIDE DEF sum
  <2> QED
    BY <1>7
<1> HIDE DEF sum, count, Sums
<1>9. \A s \in SUBSET S : sum[s] = count[s]
  <2> SUFFICES ASSUME NEW r \in SUBSET S, sum[r] # count[r] PROVE FALSE
    OBVIOUS
  <2> DEFINE Bad == {s \in SUBSET S : sum[s] # count[s]}
             Smaller == StrictSubsetOrdering(S)
  <2>1. IsWellFoundedOn(Smaller, SUBSET S)
    BY FS_StrictSubsetOrderingWellFounded, FS_FiniteSubsetsOfFinite
  <2>2. PICK s \in Bad : \A t \in Bad : <<t, s>> \notin Smaller
    <3>1. Bad \subseteq SUBSET S /\ Bad # {}
      OBVIOUS
    <3> HIDE DEF Bad, Smaller
    <3> QED
      BY <2>1, <3>1, WFMin
  <2>3. CASE s = {}
    BY <1>5, <1>8, <2>3
  <2>4. CASE s # {}
    <3> DEFINE x == one(s)
    <3>1. x \in s /\ s \ {x} \in SUBSET S
      BY <1>2, <2>4
    <3> HIDE DEF x
    <3>2. <<s \ {x}, s>> \in Smaller
      BY <3>1 DEF StrictSubsetOrdering
    <3>3. sum[s \ {x}] = count[s \ {x}]
      BY <2>2, <3>1, <3>2
    <3>4. sum[s] = Duplicates(x) + sum[s \ {x}] /\ count[s] = Duplicates(x) + count[s \ {x}]
      BY <1>5, <1>8, <2>4 DEF x
    <3> QED
      BY <3>3, <3>4
  <2> QED
    BY <2>3, <2>4
<1> QED
  BY <1>1, <1>9 DEF count

-----------------------------------------------------------------------------
(***************************************************************************)
(* The counters and the lines that are printed.                            *)
(***************************************************************************)

Shown(needed) == {h \in included : should_print_include(h, needed)}

\* Nothing is printed for them, even if they are shown.
Hushed == {h \in included : handling[h] = "KEEP" /\ ~opt_all_includes}

Missing(needed) ==
  {h \in Shown(needed) : handling[h] # "KEEP" /\ needed[h] /\ depth[h] > 0}

Unneeded(needed) == {h \in Shown(needed) : handling[h] # "KEEP" /\ ~needed[h]}

\* What includes_print() assigns.
CountedAndPrinted(needed) ==
  /\ includes_missing = Cardinality(Missing(needed))
  /\ includes_unnecessary =
       Cardinality(Unneeded(needed)) + MapThenSumSet(Duplicates, Shown(needed))
  /\ report = ReportOf(needed)

AddLine(h) == [print |-> "ADD", inc |-> h]

DeleteLine(h, n) == [print |-> "DELETE", inc |-> h, line |-> n]

\* Nothing is counted only if nothing is to be changed.
NoneCountedNoneAsked ==
  ~HasViolations => \A l \in report : l.print = "SHOW"

\* The lines of a report, one by one.
LEMMA LineIsOneOf ==
  ASSUME NEW needed, report = ReportOf(needed), NEW x
  PROVE  x \in report <=>
           \E h \in Shown(needed) \ Hushed :
             \/ /\ x = [print |-> "SHOW", inc |-> h]
                /\ needed[h] \/ handling[h] = "KEEP"
                /\ depth[h] = 0 \/ handling[h] = "KEEP"
                /\ opt_all_includes
             \/ x = AddLine(h) /\ AddsLine(h, needed)
             \/ x = DeleteLine(h, FirstLine(h)) /\ DeletesFirst(h, needed)
             \/ \E i \in 2..Len(lines[h]) : x = DeleteLine(h, lines[h][i])
<1>1. x \in report <=> \E h \in Shown(needed) : x \in maybe_print_include(h, needed)
  BY DEF ReportOf, Shown
<1>2. \A h : x \in maybe_print_include(h, needed) <=>
        /\ ~(handling[h] = "KEEP" /\ ~opt_all_includes)
        /\ \/ /\ x = [print |-> "SHOW", inc |-> h]
              /\ needed[h] \/ handling[h] = "KEEP"
              /\ depth[h] = 0 \/ handling[h] = "KEEP"
              /\ opt_all_includes
           \/ x = AddLine(h) /\ AddsLine(h, needed)
           \/ x = DeleteLine(h, FirstLine(h)) /\ DeletesFirst(h, needed)
           \/ \E i \in 2..Len(lines[h]) : x = DeleteLine(h, lines[h][i])
  BY DEF maybe_print_include, When, AddsLine, DeletesFirst, FirstLine, AddLine, DeleteLine
<1>3. Shown(needed) \ Hushed =
        {h \in Shown(needed) : ~(handling[h] = "KEEP" /\ ~opt_all_includes)}
  BY DEF Hushed, Shown
<1> QED
  BY <1>1, <1>2, <1>3

\* Giving every element of a set a name of its own keeps their number.
LEMMA NamedApart ==
  ASSUME NEW S, IsFiniteSet(S), NEW f, f = [x \in S |-> f[x]],
         \A x, y \in S : f[x] = f[y] => x = y
  PROVE  /\ IsFiniteSet({f[x] : x \in S})
         /\ Cardinality({f[x] : x \in S}) = Cardinality(S)
<1> DEFINE T == {f[x] : x \in S}
<1>1. f \in Bijection(S, T)
  <2>1. f \in [S -> T]
    OBVIOUS
  <2>2. f \in Injection(S, T)
    BY <2>1 DEF Injection, IsInjective
  <2>3. f \in Surjection(S, T)
    BY <2>1 DEF Surjection
  <2> QED
    BY <2>2, <2>3 DEF Bijection
<1>2. ExistsBijection(S, T)
  BY <1>1 DEF ExistsBijection
<1> HIDE DEF T
<1>3. IsFiniteSet(T) /\ Cardinality(T) = Cardinality(S)
  BY <1>2, FS_Bijection
<1> QED
  BY <1>3 DEF T

LEMMA CountsFollow ==
  ASSUME NEW needed, CountedAndPrinted(needed), LinesAreDirect, IsFiniteSet(included),
         \A h \in included : /\ lines[h] \in Seq(Nat) /\ depth[h] \in Nat
                             /\ needed[h] \in BOOLEAN
  PROVE  CountsAgree /\ NoneCountedNoneAsked
<1> DEFINE N == Shown(needed)
           P == Shown(needed) \ Hushed
           M == Missing(needed)
           U == Unneeded(needed)
           Adds == {l \in report : l.print = "ADD"}
           Deletes == {l \in report : l.print = "DELETE"}
           Firsts == {DeleteLine(h, FirstLine(h)) : h \in U}
           Others == {DeleteLine(p[1], lines[p[1]][p[2]]) : p \in Repeats(P)}
<1>1. /\ \A h \in P : h \in included /\ lines[h] \in Seq(Nat) /\ depth[h] \in Nat
      /\ IsFiniteSet(N) /\ IsFiniteSet(P) /\ IsFiniteSet(M) /\ IsFiniteSet(U)
      /\ IsFiniteSet(Hushed)
      /\ N \subseteq included /\ Hushed \subseteq included
  <2>1. /\ N \in SUBSET included /\ P \in SUBSET included /\ M \in SUBSET included
        /\ U \in SUBSET included /\ Hushed \in SUBSET included
    BY DEF Shown, Missing, Unneeded, Hushed
  <2> HIDE DEF N, P, M, U
  <2> QED
    BY <2>1, FS_Subset
<1>2. /\ \A h : AddLine(h).print = "ADD" /\ AddLine(h).inc = h
      /\ \A h, n : /\ DeleteLine(h, n).print = "DELETE"
                   /\ DeleteLine(h, n).inc = h /\ DeleteLine(h, n).line = n
      /\ \A h : [print |-> "SHOW", inc |-> h].print = "SHOW"
  BY DEF AddLine, DeleteLine
<1>3. \A x : x \in report =>
        \E h \in P : \/ x = [print |-> "SHOW", inc |-> h]
                     \/ x = AddLine(h) /\ AddsLine(h, needed)
                     \/ x = DeleteLine(h, FirstLine(h)) /\ DeletesFirst(h, needed)
                     \/ \E i \in 2..Len(lines[h]) : x = DeleteLine(h, lines[h][i])
  BY LineIsOneOf DEF CountedAndPrinted
<1>4. \A h \in P : /\ AddsLine(h, needed) => AddLine(h) \in report
                   /\ DeletesFirst(h, needed) => DeleteLine(h, FirstLine(h)) \in report
                   /\ \A i \in 2..Len(lines[h]) : DeleteLine(h, lines[h][i]) \in report
  BY LineIsOneOf DEF CountedAndPrinted
<1>5. M = {h \in P : AddsLine(h, needed)}
  BY <1>1 DEF Missing, AddsLine, Hushed
<1>6. U = {h \in P : DeletesFirst(h, needed)}
  <2>1. ASSUME NEW h \in U PROVE h \in P /\ depth[h] = 0
    <3>1. /\ h \in included /\ should_print_include(h, needed)
          /\ handling[h] # "KEEP" /\ ~needed[h] /\ needed[h] \in BOOLEAN
          /\ lines[h] \in Seq(Nat)
      BY DEF Unneeded, Shown
    <3>2. Len(lines[h]) > 1 \/ depth[h] = 0
      BY <3>1 DEF should_print_include
    <3>3. Len(lines[h]) > 1 => lines[h] # <<>>
      BY <3>1
    <3>4. depth[h] = 0
      BY <3>1, <3>2, <3>3 DEF LinesAreDirect
    <3> QED
      BY <3>1, <3>4 DEF Unneeded, Hushed
  <2>2. \A h \in P : DeletesFirst(h, needed) => h \in U
    BY DEF Unneeded, DeletesFirst
  <2>3. \A h \in U : depth[h] = 0 => DeletesFirst(h, needed)
    BY DEF Unneeded, DeletesFirst
  <2> QED
    BY <2>1, <2>2, <2>3
<1> HIDE DEF N, P, M, U
<1>7. Adds = {AddLine(h) : h \in M}
  BY <1>2, <1>3, <1>4, <1>5
<1>8. \A p : p \in Repeats(P) <=> \E h \in P : \E i \in 2..Len(lines[h]) : p = <<h, i>>
  BY DEF Repeats
<1>9. Deletes = Firsts \cup Others
  <2>1. ASSUME NEW x \in Deletes PROVE x \in Firsts \cup Others
    <3>1. PICK h \in P :
            \/ x = DeleteLine(h, FirstLine(h)) /\ DeletesFirst(h, needed)
            \/ \E i \in 2..Len(lines[h]) : x = DeleteLine(h, lines[h][i])
      BY <1>2, <1>3
    <3>2. CASE x = DeleteLine(h, FirstLine(h)) /\ DeletesFirst(h, needed)
      BY <1>6, <3>2
    <3>3. ASSUME NEW i \in 2..Len(lines[h]), x = DeleteLine(h, lines[h][i])
          PROVE  x \in Others
      <4>1. <<h, i>> \in Repeats(P)
        BY <1>8
      <4> QED
        BY <3>3, <4>1
    <3> QED
      BY <3>1, <3>2, <3>3
  <2>2. \A x \in Firsts : x \in Deletes
    BY <1>2, <1>4, <1>6
  <2>3. \A x \in Others : x \in Deletes
    BY <1>2, <1>4, <1>8
  <2> QED
    BY <2>1, <2>2, <2>3
<1>10. Cardinality(Adds) = Cardinality(M)
  <2> DEFINE f == [h \in M |-> AddLine(h)]
  <2>1. f = [h \in M |-> f[h]] /\ \A g, h \in M : f[g] = f[h] => g = h
    BY <1>2
  <2>2. {f[h] : h \in M} = Adds
    BY <1>7
  <2> HIDE DEF f
  <2>3. Cardinality({f[h] : h \in M}) = Cardinality(M)
    BY <1>1, <2>1, NamedApart
  <2> QED
    BY <2>2, <2>3
<1>11. IsFiniteSet(Firsts) /\ Cardinality(Firsts) = Cardinality(U)
  <2> DEFINE f == [h \in U |-> DeleteLine(h, FirstLine(h))]
  <2>1. f = [h \in U |-> f[h]] /\ \A g, h \in U : f[g] = f[h] => g = h
    BY <1>2
  <2>2. {f[h] : h \in U} = Firsts
    OBVIOUS
  <2> HIDE DEF f, Firsts
  <2>3. IsFiniteSet({f[h] : h \in U}) /\ Cardinality({f[h] : h \in U}) = Cardinality(U)
    BY <1>1, <2>1, NamedApart
  <2> QED
    BY <2>2, <2>3
<1>12. \A h \in P : \A i, j \in 1..Len(lines[h]) : i < j => lines[h][i] < lines[h][j]
  BY <1>1 DEF LinesAreDirect
<1>13. IsFiniteSet(Repeats(P)) /\ IsFiniteSet(Repeats(Hushed)) /\ IsFiniteSet(Repeats(N))
  BY <1>1, RepeatsFinite
<1>14. IsFiniteSet(Others) /\ Cardinality(Others) = Cardinality(Repeats(P))
  <2> DEFINE f == [p \in Repeats(P) |-> DeleteLine(p[1], lines[p[1]][p[2]])]
  <2>1. ASSUME NEW p \in Repeats(P), NEW q \in Repeats(P), f[p] = f[q] PROVE p = q
    <3>1. PICK h \in P : \E i \in 2..Len(lines[h]) : p = <<h, i>>
      BY <1>8
    <3>2. PICK i \in 2..Len(lines[h]) : p = <<h, i>>
      BY <3>1
    <3>3. PICK g \in P : \E j \in 2..Len(lines[g]) : q = <<g, j>>
      BY <1>8
    <3>4. PICK j \in 2..Len(lines[g]) : q = <<g, j>>
      BY <3>3
    <3>5. f[p] = DeleteLine(h, lines[h][i]) /\ f[q] = DeleteLine(g, lines[g][j])
      BY <3>2, <3>4
    <3>6. h = g /\ lines[h][i] = lines[h][j]
      BY <1>2, <2>1, <3>5
    <3>7. Len(lines[h]) \in Nat /\ lines[h] \in Seq(Nat)
      BY <1>1
    <3>8. /\ i \in 1..Len(lines[h]) /\ j \in 1..Len(lines[h])
          /\ lines[h][i] \in Nat /\ lines[h][j] \in Nat
      BY <3>6, <3>7
    <3>9. i = j
      BY <1>12, <3>6, <3>7, <3>8
    <3> QED
      BY <3>2, <3>4, <3>6, <3>9
  <2>2. f = [p \in Repeats(P) |-> f[p]]
    OBVIOUS
  <2>3. {f[p] : p \in Repeats(P)} = Others
    OBVIOUS
  <2> HIDE DEF f, Others
  <2>4. /\ IsFiniteSet({f[p] : p \in Repeats(P)})
        /\ Cardinality({f[p] : p \in Repeats(P)}) = Cardinality(Repeats(P))
    BY <1>13, <2>1, <2>2, NamedApart
  <2> QED
    BY <2>3, <2>4
<1>15. Firsts \cap Others = {}
  <2> SUFFICES ASSUME NEW h \in U, NEW p \in Repeats(P),
                      DeleteLine(h, FirstLine(h)) = DeleteLine(p[1], lines[p[1]][p[2]])
               PROVE  FALSE
    OBVIOUS
  <2>1. PICK g \in P : \E i \in 2..Len(lines[g]) : p = <<g, i>>
    BY <1>8
  <2>2. PICK i \in 2..Len(lines[g]) : p = <<g, i>>
    BY <2>1
  <2>3. h = g /\ FirstLine(h) = lines[h][i]
    BY <1>2, <2>2
  <2>4. lines[h] \in Seq(Nat) /\ Len(lines[h]) \in Nat
    BY <1>1, <2>3
  <2>5. lines[h] # <<>> /\ 1 \in 1..Len(lines[h]) /\ i \in 1..Len(lines[h]) /\ 1 < i
    BY <2>2, <2>3, <2>4
  <2>6. lines[h][1] < lines[h][i] /\ lines[h][1] \in Nat /\ lines[h][i] \in Nat
    BY <1>12, <2>3, <2>4, <2>5
  <2> QED
    BY <2>3, <2>5, <2>6 DEF FirstLine
<1>16. Cardinality(Deletes) = Cardinality(U) + Cardinality(Repeats(P))
  <2> HIDE DEF Firsts, Others, Deletes
  <2>1. Cardinality(Firsts \cup Others)
          = Cardinality(Firsts) + Cardinality(Others) - Cardinality(Firsts \cap Others)
    BY <1>11, <1>14, FS_Union
  <2>2. Cardinality(Firsts \cap Others) = 0
    BY <1>15, FS_EmptySet
  <2>3. Cardinality(U) \in Nat /\ Cardinality(Repeats(P)) \in Nat
    BY <1>1, <1>13, FS_CardinalityType
  <2> DEFINE a == Cardinality(U)
             b == Cardinality(Repeats(P))
  <2>4. Cardinality(Deletes) = a + b - 0
    BY <1>9, <1>11, <1>14, <2>1, <2>2
  <2>5. a \in Nat /\ b \in Nat
    BY <2>3
  <2> HIDE DEF a, b
  <2>6. Cardinality(Deletes) = a + b
    BY <2>4, <2>5
  <2> QED
    BY <2>6 DEF a, b
<1>17. Cardinality(Repeats(N)) = Cardinality(Repeats(P)) + Cardinality(Repeats(Hushed))
  <2>1. Repeats(N) = Repeats(P) \cup Repeats(Hushed)
    <3>1. \A h \in Hushed \ N : 2..Len(lines[h]) = {}
      BY <1>1 DEF Hushed, N, Shown, should_print_include
    <3>2. N \subseteq P \cup Hushed /\ P \subseteq N
      BY DEF P, N
    <3> QED
      BY <3>1, <3>2 DEF Repeats
  <2>2. Repeats(P) \cap Repeats(Hushed) = {}
    BY DEF Repeats, P
  <2>3. Cardinality(Repeats(N))
          = Cardinality(Repeats(P)) + Cardinality(Repeats(Hushed))
              - Cardinality(Repeats(P) \cap Repeats(Hushed))
    BY <1>13, <2>1, FS_Union
  <2>4. Cardinality(Repeats(P)) \in Nat /\ Cardinality(Repeats(Hushed)) \in Nat
    BY <1>13, FS_CardinalityType
  <2> DEFINE a == Cardinality(Repeats(P))
             b == Cardinality(Repeats(Hushed))
  <2>5. Cardinality(Repeats(N)) = a + b - 0
    BY <2>2, <2>3, FS_EmptySet
  <2>6. a \in Nat /\ b \in Nat
    BY <2>4
  <2> HIDE DEF a, b
  <2>7. Cardinality(Repeats(N)) = a + b
    BY <2>5, <2>6
  <2> QED
    BY <2>7 DEF a, b
<1>18. /\ MapThenSumSet(Duplicates, N) = Cardinality(Repeats(N))
       /\ MapThenSumSet(Duplicates, Hushed) = Cardinality(Repeats(Hushed))
  BY <1>1, SumOfDuplicates
<1>19. /\ Cardinality(U) \in Nat /\ Cardinality(Repeats(P)) \in Nat
       /\ Cardinality(Repeats(Hushed)) \in Nat
  BY <1>1, <1>13, FS_CardinalityType
<1>20. /\ includes_missing = Cardinality(M)
       /\ includes_unnecessary = Cardinality(U) + Cardinality(Repeats(N))
  BY <1>18 DEF CountedAndPrinted, M, U, N
<1>21. CountsAgree
  <2>1. includes_unnecessary = Cardinality(Deletes) + MapThenSumSet(Duplicates, Hushed)
    BY <1>16, <1>17, <1>18, <1>19, <1>20
  <2>2. includes_missing = Cardinality(Adds)
    BY <1>10, <1>20
  <2> QED
    BY <2>1, <2>2 DEF CountsAgree, Hushed
<1>22. ASSUME ~HasViolations, NEW l \in report
       PROVE  l.print = "SHOW"
  <2>1. Cardinality(M) = 0 /\ Cardinality(U) = 0 /\ Cardinality(Repeats(P)) = 0
    <3>1. Cardinality(M) \in Nat
      BY <1>1, FS_CardinalityType
    <3> QED
      BY <1>17, <1>19, <1>20, <1>22, <3>1 DEF HasViolations
  <2>2. M = {} /\ U = {} /\ Repeats(P) = {}
    BY <1>1, <1>13, <2>1, FS_EmptySet
  <2>3. Adds = {} /\ Deletes = {}
    BY <1>7, <1>9, <2>2
  <2> QED
    BY <1>2, <1>3, <2>3
<1> QED
  BY <1>21, <1>22 DEF NoneCountedNoneAsked

-----------------------------------------------------------------------------
(***************************************************************************)
(* The counters are right until the program exits.                         *)
(***************************************************************************)

\* Nothing is counted or printed before includes_print() is called, nor for a
\* source file that is ignored.
NothingPrinted == includes_missing = 0 /\ includes_unnecessary = 0 /\ report = {}

ViolationInv ==
  /\ ReportInv
  /\ IsFiniteSet(included)
  /\ pc \notin {"tidy_status", "exit"} => NothingPrinted
  /\ pc = "tidy_status" => \/ is_ignored /\ NothingPrinted
                           \/ CountedAndPrinted(is_needed)
  /\ ReportIsViolation

LEMMA ViolationInit == TidyInit => ViolationInv
<1> SUFFICES ASSUME TidyInit PROVE ViolationInv
  OBVIOUS
<1>1. ReportInv
  BY ReportInit
<1>2. /\ included = {} /\ pc \notin {"tidy_status", "exit"}
      /\ includes_missing = 0 /\ includes_unnecessary = 0 /\ report = {}
  BY DEF TidyInit, HeaderConfigInit, IncludesInit
<1>3. IsFiniteSet(included)
  BY <1>2, FS_EmptySet
<1> QED
  BY <1>1, <1>2, <1>3 DEF ViolationInv, NothingPrinted, ReportIsViolation

\* Include files are added one by one.
LEMMA IncludedStaysFinite ==
  ASSUME IsFiniteSet(included), [TidyNext]_tidyVars
  PROVE  IsFiniteSet(included')
<1>1. included' = included \/ \E h : included' = included \cup {h}
  <2>1. CASE IncludesStep
    <3>1. CASE NewInclude
      BY <3>1 DEF NewInclude, include_insert
    <3>2. CASE ~NewInclude
      BY <2>1, <3>2
      DEF IncludesStep, Preprocess, ParseFails, ParseDone, MissingFile,
          includes_init_visitor, DirectAgain, IndirectAgain, IncludesDone, includeVars
    <3> QED
      BY <3>1, <3>2
  <2>2. CASE ConfigStep
    BY <2>2 DEF ConfigStep, ProxyKey, ProxyMatch, ProxyKeyDone, HandleKey, SymbolKey,
                IgnoreSymbol, IgnoreSource, ConfigError, ConfigDone, includeVars
  <2>3. CASE SourceHasErrors \/ SourceIsFine \/ implicit_proxies_visitor \/ ImplicitDone
    BY <2>3 DEF SourceHasErrors, SourceIsFine, implicit_proxies_visitor, ImplicitDone,
                includeVars
  <2>4. CASE \/ \E s \in Symbol : add_symbol(s)
             \/ SymbolsDone \/ includes_print \/ tidy_status
    BY <2>4 DEF add_symbol, SymbolsDone, includes_print, tidy_status, includeVars
  <2>5. CASE Stopped \/ UNCHANGED tidyVars
    BY <2>5 DEF Stopped, tidyVars, proxiesVars, headerConfigVars, includesVars, includeVars
  <2> QED
    BY <2>1, <2>2, <2>3, <2>4, <2>5 DEF TidyNext, TidyStep, ProxiesStep, HeaderConfigStep
<1> QED
  BY <1>1, FS_AddElement

\* What tidy_status() reads is right.
LEMMA CountsRight ==
  ViolationInv /\ pc = "tidy_status" =>
    /\ ~is_ignored => CountsAgree
    /\ NoneCountedNoneAsked
<1> SUFFICES ASSUME ViolationInv, pc = "tidy_status"
             PROVE  /\ ~is_ignored => CountsAgree
                    /\ NoneCountedNoneAsked
  OBVIOUS
<1>1. CASE is_ignored /\ NothingPrinted
  BY <1>1 DEF NothingPrinted, NoneCountedNoneAsked
<1>2. CASE CountedAndPrinted(is_needed)
  <2>1. \A h \in included : /\ lines[h] \in Seq(Nat) /\ depth[h] \in Nat
                            /\ is_needed[h] \in BOOLEAN
    BY DEF ViolationInv, ReportInv, TidyInv, ProxiesInv, HandledInv, HeaderConfigTypeOK,
           IncludesTypeOK
  <2>2. LinesAreDirect
    BY DEF ViolationInv, ReportInv, LinesKnown, Parsing
  <2>3. IsFiniteSet(included)
    BY DEF ViolationInv
  <2> QED
    BY <1>2, <2>1, <2>2, <2>3, CountsFollow
<1> QED
  BY <1>1, <1>2 DEF ViolationInv

\* The steps that come before the report, and the errors main() exits with.
LEMMA NothingPrintedYet ==
  ASSUME ViolationInv, ProxiesStep, UNCHANGED <<optVars, symbolVars, reportVars>>
  PROVE  /\ pc' \notin {"tidy_status", "exit"} => NothingPrinted'
         /\ pc' = "tidy_status" => is_ignored' /\ NothingPrinted'
         /\ ReportIsViolation'
<1>1. pc \notin {"tidy_status", "exit"}
  BY DEF ProxiesStep, HeaderConfigStep, IncludesStep, Preprocess, ParseFails, ParseDone,
         MissingFile, includes_init_visitor, NewInclude, DirectAgain, IndirectAgain,
         Visiting, IncludesDone, ConfigStep, ProxyKey, ProxyMatch, ProxyKeyDone, HandleKey,
         SymbolKey, IgnoreSymbol, IgnoreSource, ConfigError, ConfigDone, ParsingKeys,
         SourceHasErrors, SourceIsFine, implicit_proxies_visitor, ImplicitDone
<1>2. NothingPrinted'
  BY <1>1 DEF ViolationInv, NothingPrinted, reportVars
<1>3. pc' = "tidy_status" => is_ignored'
  BY NotYetPrinted DEF ViolationInv, Printed
<1>4. pc' = "exit" => status' \in {"EX_UNAVAILABLE", "EX_SOFTWARE", "EX_NOINPUT",
                                   "EX_DATAERR", "EX_CONFIG"}
  <2>1. CASE IncludesStep
    BY <2>1 DEF IncludesStep, Preprocess, ParseFails, ParseDone, MissingFile,
                includes_init_visitor, NewInclude, DirectAgain, IndirectAgain,
                Visiting, IncludesDone
  <2>2. CASE ConfigStep
    BY <2>2 DEF ConfigStep, ProxyKey, ProxyMatch, ProxyKeyDone, HandleKey, SymbolKey,
                IgnoreSymbol, IgnoreSource, ConfigError, ConfigDone, ParsingKeys
  <2>3. CASE SourceHasErrors \/ SourceIsFine \/ implicit_proxies_visitor \/ ImplicitDone
    BY <2>3 DEF SourceHasErrors, SourceIsFine, implicit_proxies_visitor, ImplicitDone
  <2> QED
    BY <2>1, <2>2, <2>3 DEF ProxiesStep, HeaderConfigStep
<1> QED
  BY <1>2, <1>3, <1>4 DEF ReportIsViolation

LEMMA ViolationInvStep == ViolationInv /\ [TidyNext]_tidyVars => ViolationInv'
<1> SUFFICES ASSUME ViolationInv, [TidyNext]_tidyVars PROVE ViolationInv'
  OBVIOUS
<1>1. ReportInv'
  BY ReportInvStep DEF ViolationInv
<1>2. IsFiniteSet(included')
  BY IncludedStaysFinite DEF ViolationInv
<1> DEFINE Known == /\ pc \notin {"tidy_status", "exit"} => NothingPrinted
                    /\ pc = "tidy_status" => \/ is_ignored /\ NothingPrinted
                                             \/ CountedAndPrinted(is_needed)
                    /\ ReportIsViolation
<1>3. SUFFICES Known'
  BY <1>1, <1>2 DEF ViolationInv
<1>4. CASE ProxiesStep /\ UNCHANGED <<optVars, symbolVars, reportVars>>
  BY <1>4, NothingPrintedYet
<1>5. CASE (\E s \in Symbol : add_symbol(s)) \/ SymbolsDone
  <2>1. /\ pc = "symbols_init" /\ UNCHANGED reportVars
        /\ pc' \in {"symbols_init", "include_get_proxy", "includes_print"}
    BY <1>5 DEF add_symbol, SymbolsDone
  <2> QED
    BY <2>1 DEF ViolationInv, NothingPrinted, reportVars, ReportIsViolation
<1>6. CASE includes_print
  <2>1. /\ pc' = "tidy_status"
        /\ UNCHANGED <<includeVars, configVars, optVars>>
    BY <1>6 DEF includes_print
  <2>2. PICK assoc \in get_associated_header :
          LET needed == [h \in Id |-> is_needed[h] \/ h \in assoc]
              shown  == {h \in included : should_print_include(h, needed)}
          IN  /\ is_needed' = needed
              /\ includes_missing' =
                   Cardinality({h \in shown : /\ handling[h] # "KEEP"
                                              /\ needed[h]
                                              /\ depth[h] > 0})
              /\ includes_unnecessary' =
                   Cardinality({h \in shown : handling[h] # "KEEP" /\ ~needed[h]})
                   + MapThenSumSet(Duplicates, shown)
              /\ report' = UNION {maybe_print_include(h, needed) : h \in shown}
    BY <1>6 DEF includes_print
  <2>3. CountedAndPrinted(is_needed)'
    BY <2>1, <2>2
    DEF CountedAndPrinted, Missing, Unneeded, Shown, ReportOf, MapThenSumSet,
        MapThenFoldSet, Duplicates, maybe_print_include, should_print_include, When,
        includeVars, configVars, tableVars, optVars
  <2> QED
    BY <2>1, <2>3 DEF ReportIsViolation
<1>7. CASE tidy_status
  <2>1. /\ pc = "tidy_status" /\ pc' = "exit"
        /\ UNCHANGED <<includeVars, configVars, optVars, reportVars>>
        /\ status' = IF opt_error = "NEVER" THEN "EX_OK"
                     ELSE IF HasViolations THEN "TIDY_EX_VIOLATIONS"
                     ELSE IF opt_error = "ALWAYS" THEN "TIDY_EX_NO_VIOLATIONS_ERROR"
                     ELSE "EX_OK"
    BY <1>7 DEF tidy_status
  <2>2. (~is_ignored => CountsAgree) /\ NoneCountedNoneAsked
    BY <2>1, CountsRight
  <2>3. (~is_ignored => CountsAgree)'
    BY <2>1, <2>2
    DEF CountsAgree, MapThenSumSet, MapThenFoldSet, Duplicates, includeVars, configVars,
        tableVars, optVars, reportVars
  <2>4. status' = "TIDY_EX_VIOLATIONS" \/ opt_error' = "NEVER" \/ \A l \in report' : l.print = "SHOW"
    BY <2>1, <2>2 DEF NoneCountedNoneAsked, HasViolations, optVars, reportVars
  <2> QED
    BY <2>1, <2>3, <2>4 DEF ReportIsViolation
<1>8. CASE Stopped \/ UNCHANGED tidyVars
  <2>1. UNCHANGED <<pc, status, includeVars, configVars, optVars, symbolVars, reportVars>>
    BY <1>8 DEF Stopped, tidyVars, proxiesVars, headerConfigVars, includesVars
  <2>2. ReportIsViolation'
    BY <2>1
    DEF ViolationInv, ReportIsViolation, CountsAgree, MapThenSumSet, MapThenFoldSet,
        Duplicates, includeVars, configVars, tableVars, optVars, reportVars
  <2>3. (pc = "tidy_status" => \/ is_ignored /\ NothingPrinted
                               \/ CountedAndPrinted(is_needed))'
    BY <2>1
    DEF ViolationInv, NothingPrinted, CountedAndPrinted, Missing, Unneeded, Shown,
        ReportOf, MapThenSumSet, MapThenFoldSet, Duplicates, maybe_print_include,
        should_print_include, When, includeVars, configVars, tableVars, optVars,
        symbolVars, reportVars
  <2> QED
    BY <2>1, <2>2, <2>3 DEF ViolationInv, NothingPrinted, reportVars
<1> QED
  BY <1>4, <1>5, <1>6, <1>7, <1>8 DEF TidyNext, TidyStep

\* The exit status is that of a violation whenever the report asks for a change,
\* unless it is never to be, and the counters it is taken from are those of the
\* lines printed.
THEOREM ReportIsCounted == TidySpec => []ReportIsViolation
<1>1. ViolationInv => ReportIsViolation
  BY DEF ViolationInv
<1> QED
  BY <1>1, ViolationInit, ViolationInvStep, PTL DEF TidySpec

-----------------------------------------------------------------------------
(***************************************************************************)
(* Where the walks along proxies end.                                      *)
(***************************************************************************)

WalksInv == ChainsInv /\ WalksEnd

\* The loops over proxies that add_symbol() leads to end if proxies make no cycle.
LEMMA SymbolEnds ==
  ASSUME HeaderConfigTypeOK, ProxyAcyclic, NEW s \in Symbol, Declares[s] # MAIN
  PROVE  IncludeForEnds(s)
<1>1. FileID[Declares[s]] \in Id
  BY TidyAssumption, FileAssumption
<1>2. \A i \in 1..Len(symbol_includes[s]) : symbol_includes[s][i] \in Id
  <2>1. symbol_includes[s] \in Seq(Id)
    BY DEF HeaderConfigTypeOK
  <2> QED
    BY <2>1
<1>3. LookedAt(s) \subseteq 1..Len(symbol_includes[s])
  BY DEF LookedAt
<1> QED
  BY <1>1, <1>2, <1>3, WalkEnds DEF IncludeForEnds

LEMMA WalksStep ==
  ASSUME TidyInv', WalksInv, [TidyNext]_tidyVars
  PROVE  WalksInv'
<1>1. ProxiesInv'
  BY DEF TidyInv
<1>2. ASSUME [ProxiesStep]_proxiesVars PROVE WalksInv'
  <2>1. ChainsInv'
    BY <1>2, ChainsStep DEF WalksInv
  <2>2. CASE ProxiesStep
    <3>1. ~Settled
      BY <2>2, SettledSteps
    <3>2. pc' # "include_get_proxy"
      BY <2>2, <3>1
      DEF Settled, ProxiesStep, HeaderConfigStep, IncludesStep, Preprocess, ParseFails,
          ParseDone, includes_init_visitor, MissingFile, NewInclude, DirectAgain,
          IndirectAgain, IncludesDone, ConfigStep, ProxyKey, ProxyMatch, ProxyKeyDone,
          HandleKey, SymbolKey, IgnoreSymbol, IgnoreSource, ConfigError, ConfigDone,
          SourceHasErrors, SourceIsFine, implicit_proxies_visitor, ImplicitDone
    <3> QED
      BY <2>1, <3>2 DEF WalksInv, WalksEnd
  <2>3. CASE UNCHANGED proxiesVars
    <3>1. UNCHANGED <<pc, tuVars, includeVars, proxy, is_proxy_explicit>>
      BY <2>3 DEF proxiesVars, headerConfigVars, includesVars, configVars, proxyVars
    <3>2. ChainsAreSafe' <=> ChainsAreSafe
      BY <3>1, SafeKept
    <3> QED
      BY <2>1, <3>1, <3>2 DEF WalksInv, WalksEnd
  <2> QED
    BY <1>2, <2>2, <2>3
<1>3. ASSUME Settled, pc # "exit", Settled',
             UNCHANGED <<tuVars, includeVars, configVars>>,
             pc' = "include_get_proxy" => ~ChainsAreSafe
      PROVE  WalksInv'
  <2>1. UNCHANGED <<tuVars, includeVars, proxy, is_proxy_explicit>>
    BY <1>3 DEF configVars, proxyVars
  <2>2. ChainsAreSafe' <=> ChainsAreSafe
    BY <2>1, SafeKept
  <2>3. ConfigParsed /\ pc' \notin {"source_init", "includes_init", "config_init"}
    BY <1>3 DEF Settled, ConfigParsed
  <2>4. ChainsAreSafe' => ProxyAcyclic' /\ ProxiesAbove'
    <3>1. ChainsAreSafe => ProxyAcyclic /\ ProxiesAbove
      BY <2>3 DEF WalksInv, ChainsInv
    <3>2. ProxiesAbove => ProxiesAbove'
      BY <2>1, AboveKept
    <3>3. ProxyAcyclic => ProxyAcyclic'
      BY <2>1 DEF ProxyAcyclic
    <3> QED
      BY <2>2, <3>1, <3>2, <3>3
  <2> QED
    BY <1>1, <1>3, <2>1, <2>2, <2>3, <2>4 DEF WalksInv, WalksEnd, ChainsInv
<1>4. ASSUME NEW s \in Symbol, add_symbol(s) PROVE WalksInv'
  <2>1. /\ pc = "symbols_init" /\ pc' \in {"symbols_init", "include_get_proxy"}
        /\ UNCHANGED <<tuVars, includeVars, configVars>> /\ Declares[s] # MAIN
        /\ IncludeForEnds(s) => pc' = pc
    BY <1>4 DEF add_symbol
  <2>2. ChainsAreSafe => IncludeForEnds(s)
    <3>1. HeaderConfigTypeOK /\ (ChainsAreSafe => ProxyAcyclic)
      BY <2>1 DEF WalksInv, ChainsInv, ConfigParsed, ProxiesInv, HandledInv
    <3> QED
      BY <2>1, <3>1, SymbolEnds
  <2> QED
    BY <1>3, <2>1, <2>2 DEF Settled
<1>5. CASE SymbolsDone \/ includes_print \/ tidy_status
  BY <1>3, <1>5 DEF SymbolsDone, includes_print, tidy_status, Settled
<1>6. CASE Stopped \/ UNCHANGED tidyVars
  BY <1>2, <1>6 DEF Stopped, tidyVars
<1> QED
  BY <1>2, <1>4, <1>5, <1>6 DEF TidyNext, TidyStep

\* The program is not lost in a cycle of proxies, whatever symbols the source file
\* references, unless the configuration makes one, makes an include file that gets an
\* implicit proxy stand for another, or an include file includes itself or a namesake.
THEOREM WalksDoEnd == TidySpec => []WalksEnd
<1>1. TidyInit => WalksInv
  BY ChainsInit DEF TidyInit, WalksInv, WalksEnd, HeaderConfigInit, IncludesInit
<1>2. WalksInv => WalksEnd
  BY DEF WalksInv
<1> QED
  BY <1>1, <1>2, TidyInvInit, TidyInvStep, WalksStep, PTL DEF TidySpec
=============================================================================
