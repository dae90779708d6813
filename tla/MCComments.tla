----------------------------- MODULE MCComments -----------------------------
(* Comments for TLC: three names, of which one is short and one occurs twice *)
(* (overloaded functions), in paths that end before the comments and after.  *)
EXTENDS Comments

Sym(name, count) == [name |-> name, ref_count |-> count]

SymbolLists ==
  {<<>>, <<Sym(2, 1)>>, <<Sym(3, 2), Sym(2, 1)>>, <<Sym(3, 1), Sym(1, 1), Sym(2, 2)>>,
   <<Sym(2, 1), Sym(1, 2), Sym(3, 2)>>, <<Sym(2, 1), Sym(3, 1), Sym(1, 1), Sym(2, 1)>>}

Needed(symbols, depth, path_len) ==
  [is_needed |-> TRUE, handling |-> "DEFAULT", depth |-> depth, lines |-> 1 - depth,
   symbols |-> symbols, raw_len |-> path_len]

MCShown ==
  LET direct == {Needed(s, 0, l) : s \in SymbolLists, l \in {8, 10, 12}}
      other(inc) == {[inc EXCEPT !.is_needed = FALSE], [inc EXCEPT !.handling = "KEEP"],
                     [inc EXCEPT !.lines = 2],
                     [inc EXCEPT !.is_needed = FALSE, !.lines = 2]}
  IN  direct \cup {[inc EXCEPT !.depth = 1, !.lines = 0] : inc \in direct}
             \cup other(Needed(<<>>, 0, 8)) \cup other(Needed(<<Sym(2, 1)>>, 0, 8))

MCNameLen == <<3, 2, 5>>

\* One of the initial states.
NoComments ==
  /\ print_lang = "C" /\ show_all = FALSE
  /\ opt_align_column = 10 /\ opt_line_length = 0
  /\ opt_comment_style = Style("none", "none") /\ style_wanted = opt_comment_style
  /\ opt_comment_symbols = "ALPHA"
  /\ printed = {} /\ print_pc = "printing"
=============================================================================
