------------------------------ MODULE Comments ------------------------------
(***************************************************************************)
(* The comments after the #include directives the program prints:          *)
(* maybe_print_include() decides which one, make_symbols_comment() lists   *)
(* the symbols, and print_include() aligns it.                             *)
(*                                                                         *)
(* A name is a number, in the order of strcmp(); of text only the length   *)
(* counts.  The groups includes_print() prints in only give the order, and *)
(* here include files are printed in any order.                            *)
(***************************************************************************)
EXTENDS Integers, SequencesExt, FiniteSetsExt

CONSTANTS
  NameLen,        \* the length of each name
  Shown,          \* the include files should_print_include() chose
  AlignColumns,   \* of --align-column
  LineLengths     \* of --line-length

ASSUME CommentsAssumption ==
  /\ \A n \in DOMAIN NameLen : n \in Nat \ {0} /\ NameLen[n] \in Nat \ {0}
  /\ AlignColumns \subseteq Nat /\ LineLengths \subseteq Nat
  /\ \A inc \in Shown :
       /\ inc.depth = 0 => inc.lines > 0
       /\ inc.raw_len \in Nat
       /\ inc.symbols \in Seq([name : DOMAIN NameLen, ref_count : Nat])

\* What starts and ends a comment: "// " is "line", "/* " and " */" are "block".
Style(start, end) == [start |-> start, end |-> end]

CommentStyles == {Style("none", "none"), Style("line", "none"), Style("block", "block")}
CommentSymbols == {"ALPHA", "LENGTH", "REF_COUNT", "MOST_REF"}

VARIABLES
  print_lang,             \* tidy_source::lang
  show_all,               \* opt_all_includes
  opt_align_column,
  opt_line_length,
  opt_comment_style,
  opt_comment_symbols,
  style_wanted,           \* history: the style the user chose
  printed,                \* history: the lines printed for the last include file
  print_pc                \* "printing", or "undefined" for undefined behaviour

commentOptions == <<print_lang, show_all, opt_align_column, opt_line_length,
                    opt_comment_symbols, style_wanted>>

commentsVars ==
  <<commentOptions, opt_comment_style, printed, print_pc>>

CommentsInit ==
  /\ print_lang \in {"C", "CPlusPlus"}
  /\ show_all \in BOOLEAN
  /\ opt_align_column \in AlignColumns
  /\ opt_line_length \in LineLengths
  /\ opt_comment_style \in CommentStyles
  /\ opt_comment_symbols \in CommentSymbols
  /\ style_wanted = opt_comment_style
  /\ printed = {}
  /\ print_pc = "printing"

-----------------------------------------------------------------------------
(* make_symbols_comment().                                                 *)

symbol_cmp_by_name(x, y) == x.name < y.name

symbol_cmp_by_name_length(x, y) ==
  \/ NameLen[x.name] < NameLen[y.name]
  \/ NameLen[x.name] = NameLen[y.name] /\ x.name < y.name

symbol_cmp_by_ref_count(x, y) ==
  x.ref_count > y.ref_count \/ (x.ref_count = y.ref_count /\ x.name < y.name)

\* The references of all symbols called n.
ref_counts(symbols, n) ==
  SumFunctionOnSet([i \in DOMAIN symbols |-> symbols[i].ref_count],
                   {i \in DOMAIN symbols : symbols[i].name = n})

Ascending(names) ==
  CHOOSE s \in [1..Cardinality(names) -> names] :
    \A i, j \in DOMAIN s : i < j => s[i] < s[j]

\* array_qsort() and array_merge() with symbol_merge_by_name() (module Arrays).
merge_by_name(symbols) ==
  LET names == Ascending({s.name : s \in ToSet(symbols)})
  IN  [i \in DOMAIN names |->
         [name |-> names[i], ref_count |-> ref_counts(symbols, names[i])]]

symbol_array(symbols) ==
  IF print_lang = "CPlusPlus" THEN merge_by_name(symbols) ELSE symbols

\* The first of those with the most references.
most_ref_sym(a) ==
  a[Min({i \in DOMAIN a : \A j \in DOMAIN a : a[j].ref_count <= a[i].ref_count})]

symbol_cmp(x, y) ==
  CASE opt_comment_symbols = "ALPHA" -> symbol_cmp_by_name(x, y)
    [] opt_comment_symbols = "LENGTH" -> symbol_cmp_by_name_length(x, y)
    [] opt_comment_symbols = "REF_COUNT" -> symbol_cmp_by_ref_count(x, y)

\* Symbols that compare equal have the same name.
sorted(a) ==
  LET arranged(p) == [i \in DOMAIN a |-> a[p[i]]]
      is_sorted(s) == \A i, j \in DOMAIN a : i < j => ~symbol_cmp(s[j], s[i])
  IN  arranged(CHOOSE p \in Injection(DOMAIN a, DOMAIN a) : is_sorted(arranged(p)))

\* A comment is the sequence of its names, the last of which may be "...".
Ellipsis == 0

name_len(n) == IF n = Ellipsis THEN 3 ELSE NameLen[n]

delim_len(d) == IF d = "none" THEN 0 ELSE 3

\* With ", " between the names.
comment_len(names) ==
  SumFunction([i \in DOMAIN names |-> name_len(names[i])])
  + IF names = <<>> THEN 0 ELSE 2 * (Len(names) - 1)

\* Mutant of fixed_len: without what ends the comment.
fixed_len_start == opt_align_column + delim_len(opt_comment_style.start)

fixed_len ==
  opt_align_column + delim_len(opt_comment_style.start) + delim_len(opt_comment_style.end)

\* The first name is put in however long it is.
fits(names, n) ==
  names = <<>> \/ fixed_len + comment_len(Append(names, n)) <= opt_line_length

add_name(comment, sym) ==
  LET names == comment.names IN
  IF comment.is_done THEN comment
  ELSE IF fits(names, sym.name) THEN [comment EXCEPT !.names = Append(names, sym.name)]
  ELSE [names |-> IF fits(names, Ellipsis) THEN Append(names, Ellipsis) ELSE names,
        is_done |-> TRUE]

make_symbols_comment(symbols) ==
  LET a == symbol_array(symbols)
  IN  IF opt_comment_symbols = "MOST_REF" THEN <<most_ref_sym(a).name>>
      ELSE FoldLeft(add_name, [names |-> <<>>, is_done |-> FALSE], sorted(a)).names

-----------------------------------------------------------------------------
(* maybe_print_include() and print_include().                              *)

kept(inc) == inc.handling = "KEEP"

prints_symbols(inc) ==
  /\ inc.is_needed \/ kept(inc)
  /\ (inc.depth = 0 \/ kept(inc)) => show_all

prints_delete(inc) == ~inc.is_needed /\ ~kept(inc) /\ inc.depth = 0

\* array_front_nc() is called for an empty array.
reads_no_front(inc) ==
  /\ prints_symbols(inc) /\ opt_comment_style.start # "none"
  /\ opt_comment_symbols = "MOST_REF"
  /\ inc.symbols = <<>>

\* A comment that says what to delete needs a style.
sets_style(inc) ==
  opt_comment_style.start = "none" /\ (prints_delete(inc) \/ inc.lines > 1)

delete_style(inc) ==
  IF sets_style(inc) THEN [opt_comment_style EXCEPT !.start = "line"] ELSE opt_comment_style

PrintedLine(inc, comment, names, style) ==
  [inc |-> inc, comment |-> comment, names |-> names, style |-> style]

first_line(inc) ==
  IF prints_symbols(inc)
    THEN {IF opt_comment_style.start = "none"
          THEN PrintedLine(inc, "none", <<>>, opt_comment_style)
          ELSE PrintedLine(inc, "symbols", make_symbols_comment(inc.symbols),
                           opt_comment_style)}
  ELSE IF prints_delete(inc)
    THEN {PrintedLine(inc, "delete", <<>>, delete_style(inc))}
  ELSE {}

\* One for each line after the first.
repeated_lines(inc) ==
  IF inc.lines > 1 THEN {PrintedLine(inc, "delete", <<>>, delete_style(inc))} ELSE {}

\* Mutant of style_after: it is not reset.
style_after_set(inc) == delete_style(inc)

style_after(inc) ==
  IF sets_style(inc) THEN [opt_comment_style EXCEPT !.start = "none"] ELSE opt_comment_style

maybe_print_include(inc) ==
  /\ print_pc = "printing"
  /\ kept(inc) => show_all
  /\ IF reads_no_front(inc)
       THEN print_pc' = "undefined" /\ printed' = {} /\ UNCHANGED opt_comment_style
       ELSE /\ printed' = first_line(inc) \cup repeated_lines(inc)
            /\ opt_comment_style' = style_after(inc)
            /\ UNCHANGED print_pc
  /\ UNCHANGED commentOptions

CommentsNext == \E inc \in Shown : maybe_print_include(inc)

CommentsSpec == CommentsInit /\ [][CommentsNext]_commentsVars

-----------------------------------------------------------------------------
(* Properties.                                                             *)

\* print_include(): how long a line with a comment gets.
printed_len(l) ==
  (IF l.inc.raw_len + 1 < opt_align_column THEN opt_align_column - 1 ELSE l.inc.raw_len)
  + delim_len(l.style.start) + comment_len(l.names) + delim_len(l.style.end)

\* Is the symbol called m to be listed before the one called n?
ListedBefore(m, n, symbols) ==
  LET count(k) == ref_counts(symbols, k)
  IN  CASE opt_comment_symbols = "ALPHA" -> m < n
        [] opt_comment_symbols = "LENGTH" -> NameLen[m] < NameLen[n]
        [] opt_comment_symbols = "REF_COUNT" -> count(m) > count(n)
        [] opt_comment_symbols = "MOST_REF" -> count(m) > count(n)

\* Nothing merges the symbols that have the same name in C, as a structure and a
\* function may.
NamesDiffer(inc) == Cardinality({s.name : s \in ToSet(inc.symbols)}) = Len(inc.symbols)

\* Without "..." at the end.
Uncut(names) ==
  IF names # <<>> /\ Last(names) = Ellipsis THEN Front(names) ELSE names

ListsAsManyAsFit(l) ==
  LET used  == {s.name : s \in ToSet(l.inc.symbols)}
      names == Uncut(l.names)
      left  == used \ ToSet(names)
      more(n) == printed_len([l EXCEPT !.names = Append(names, n)])
  IN  /\ ToSet(names) \subseteq used
      /\ \A i, j \in DOMAIN names :
           i < j => ~ListedBefore(names[j], names[i], l.inc.symbols)
      /\ \A n \in left, m \in ToSet(names) : ~ListedBefore(n, m, l.inc.symbols)
      /\ print_lang = "CPlusPlus" => Cardinality(ToSet(names)) = Len(names)
      /\ printed_len(l) > opt_line_length =>
           Len(l.names) <= 1 \/ l.inc.raw_len > opt_align_column
      /\ opt_comment_symbols # "MOST_REF" /\ left # {} =>
           /\ \E n \in left : more(n) >= opt_line_length
           /\ l.names = names => more(Ellipsis) >= opt_line_length

\* A comment lists as many symbols as fit into the line in the order asked for, and
\* no more unless the #include or the first symbol alone is too long.  The last
\* column is never used, as the comment starts in opt_align_column and not after it.
AsManyAsFit ==
  \A l \in printed :
    l.comment = "symbols" /\ (print_lang = "CPlusPlus" \/ NamesDiffer(l.inc)) =>
      ListsAsManyAsFit(l)

\* With no comments asked for, only the lines to delete have one, and these always
\* do, whatever was printed before ("Comments for unnecessary headers are always
\* printed").
NoneIsNone ==
  \A l \in printed :
    /\ l.comment = "delete" => l.style.start # "none"
    /\ style_wanted.start = "none" /\ l.comment # "delete" => l.style.start = "none"

\* Only arrays that have a first element are asked for it ("array is not checked to
\* ensure it's not empty").
FrontIsThere == print_pc # "undefined"

=============================================================================
