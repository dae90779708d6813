------------------------------ MODULE TomlLite ------------------------------
(***************************************************************************)
(* The TOML reader of toml_lite.c.  A file is a sequence of characters;    *)
(* toml_table_next() reads its next table, and stops for good at an error. *)
(*                                                                         *)
(* The functions of the reader are operators on a record of the file's     *)
(* state and text, which also carries what a function returns: c, the      *)
(* character of toml_getc(), ok, its success, and out, its result          *)
(* parameter.                                                              *)
(***************************************************************************)
EXTENDS Integers, SequencesExt

CONSTANTS
  MaxDigits,   \* TOML_INT_DIGITS_MAX
  MaxLong      \* LONG_MAX

ASSUME TomlAssumption == MaxDigits \in Nat \ {0} /\ MaxLong \in Nat

EOF == "EOF"
INVALID == "INVALID"                  \* any character TOML does not allow
PENDING_NEWLINE == "PENDING_NEWLINE"
UNNAMED == <<"NULL">>                 \* the name of a table without a header

Digits == <<"0", "1", "2", "3", "4", "5", "6", "7", "8", "9",
            "a", "b", "c", "d", "e", "f">>
DigitsOf(base) == {Digits[i] : i \in 1..base}
ValueOf(digit) == CHOOSE i \in 0..15 : Digits[i + 1] = digit

Letters == {"a", "b", "c", "d", "e", "f", "i", "k", "l", "n", "o", "r", "s",
            "t", "u", "x", "U"}
is_ident(c) == c \in Letters \cup DigitsOf(10) \cup {"_"}
IsBareKeyChar(c) == is_ident(c) \/ c = "-"
IntEnds == {"#", ",", "]", " ", "\n", "\r", "\t"}

-----------------------------------------------------------------------------
(* Characters and locations *)

fgetc(r) ==
  IF r.pos <= Len(r.text) THEN [r EXCEPT !.c = r.text[r.pos], !.pos = @ + 1]
                        ELSE [r EXCEPT !.c = EOF]

toml_col_inc(r) == [r EXCEPT !.col_prev = r.col, !.col = @ + 1]

\* Mutant: the column is not reset.
toml_newline_column(r) == [r EXCEPT !.line = @ + 1, !.col_prev = r.col]
toml_newline(r) == [r EXCEPT !.line = @ + 1, !.col_prev = r.col, !.col = 0]

\* g.c, which has been read; was_pending: after a newline not counted yet.
CharCounted(g, was_pending) ==
  IF g.c = EOF THEN [g EXCEPT !.c_last = EOF]
  ELSE toml_col_inc(
         [(IF was_pending THEN toml_newline(g) ELSE g)
            EXCEPT !.c_last = IF g.c = "\n" THEN PENDING_NEWLINE ELSE EOF])

toml_getc(r) ==
  CharCounted(IF r.c_last \in {PENDING_NEWLINE, EOF} THEN fgetc(r)
              ELSE [r EXCEPT !.c = r.c_last],
              r.c_last = PENDING_NEWLINE)

\* Mutant: the column stays where it is.
toml_ungetc_column(r) == [r EXCEPT !.c_last = r.c]
toml_ungetc(r) == [r EXCEPT !.c_last = r.c, !.col = r.col_prev]

PutBack(g) == IF g.c = EOF THEN g ELSE toml_ungetc(g)
toml_peekc(r) == PutBack(toml_getc(r))

Return(r, out) == [r EXCEPT !.ok = TRUE, !.out = out]
Fail(r, error) == [r EXCEPT !.ok = FALSE, !.error = error]
FailAt(r, loc, error) ==
  [Fail(r, error) EXCEPT !.line = loc.line, !.col = loc.col]

\* The next function is called only if the one before succeeded.
Then(r, Parse(_)) == IF r.ok THEN Parse(r) ELSE r

RECURSIVE toml_comment_parse(_)
toml_comment_parse(r) ==
  LET g == fgetc(r)
  IN  CASE g.c = EOF -> g
        [] g.c = "\n" -> toml_newline(g)
        [] OTHER -> toml_comment_parse(g)

\* Space from g.c on, which has been read.
RECURSIVE SpaceSkipped(_)
SpaceSkipped(g) ==
  CASE g.c = INVALID -> Fail(g, "INVALID_CHAR")
    [] g.c \in {" ", "\t", "\n"} -> SpaceSkipped(toml_getc(g))
    [] OTHER -> Return(PutBack(g), <<>>)
toml_space_skip(r) == SpaceSkipped(toml_getc(r))

RECURSIVE toml_space_comments_skip(_)
CommentSkipped(g) ==
  IF g.c = "#" THEN toml_space_comments_skip(toml_comment_parse(g)) ELSE PutBack(g)
toml_space_comments_skip(r) ==
  Then(toml_space_skip(r), LAMBDA s : CommentSkipped(toml_getc(s)))

\* Mutant: the end of the file is no error.
char_expected_quiet(g, want) ==
  CASE g.c = want -> g
    [] g.c = EOF -> [g EXCEPT !.ok = FALSE]
    [] OTHER -> Fail(g, "UNEXPECTED_CHAR")
char_expected(g, want) ==
  CASE g.c = want -> g
    [] g.c = EOF -> Fail(g, "UNEXPECTED_EOF")
    [] OTHER -> Fail(g, "UNEXPECTED_CHAR")

\* A character expected after space; an invalid one has been refused there.
toml_char_parse(r, want) ==
  Then(toml_space_comments_skip(r), LAMBDA s : char_expected(toml_getc(s), want))

RECURSIVE Recovered(_)
Recovered(g) ==
  IF g.c \in {EOF, "=", "["} \cup IntEnds THEN PutBack(g) ELSE Recovered(toml_getc(g))
toml_recover(r) == Recovered(toml_getc(r))

-----------------------------------------------------------------------------
(* Values *)

Is(g, c) == [g EXCEPT !.ok = g.c = c]
NextIs(r, c) == IF r.ok THEN Is(toml_getc(r), c) ELSE r

\* end: the word's last character and the one after it have been looked at.  The
\* location of an error is the one of the first character.
BoolAt(first, end) ==
  IF end.ok /\ ~is_ident(end.c) THEN end
  ELSE toml_col_inc(FailAt(toml_recover(end),
         [line |-> first.line, col |-> first.col - 1], "UNEXPECTED_CHAR"))

toml_bool_parse(r) ==
  LET rest == IF r.c = "t" THEN <<"r", "u", "e">> ELSE <<"a", "l", "s", "e">>
  IN  BoolAt(r, Then(FoldLeft(NextIs, Return(r, r.c = "t"), rest), toml_peekc))

\* strtol() of the digits, which stops at what is none; overflow is an error.
strtol(digits, base, negative) ==
  LET value == FoldLeft(LAMBDA n, d : n * base + ValueOf(d), 0, digits)
  IN  IF negative THEN -value ELSE value

IntError(r) == FailAt(toml_recover(r), r, "INVALID_INT")

IntRead(r, value, prev) ==
  IF prev = "_" \/ value > MaxLong \/ value < -MaxLong - 1 THEN IntError(r)
  ELSE Return(r, value)

\* The characters of an integer from g.c on, which has been read: len is that of
\* buf, which counts the sign, and prev the character before.
RECURSIVE IntDigits(_, _, _, _, _)
IntDigits(g, base, negative, digits, prev) ==
  LET len == Len(digits) + IF negative THEN 1 ELSE 0
  IN  CASE g.c \in {EOF} \cup IntEnds ->
             IntRead(PutBack(g), strtol(digits, base, negative), prev)
        [] g.c = INVALID -> Fail(g, "INVALID_CHAR")
        [] g.c = "_" /\ prev \notin {"+", "-", "_", "b", "o", "x"} ->
             IntDigits(toml_getc(g), base, negative, digits, "_")
        [] g.c \in DigitsOf(base) /\ len + 1 # MaxDigits ->
             IntDigits(toml_getc(g), base, negative, Append(digits, g.c), g.c)
        [] OTHER -> IntError(g)

Bases == [b |-> 2, o |-> 8, x |-> 16]

AfterZero(g) ==
  CASE g.c \in DOMAIN Bases -> IntDigits(toml_getc(g), Bases[g.c], FALSE, <<>>, g.c)
    [] g.c \in {EOF} \cup IntEnds -> Return(PutBack(g), 0)
    [] OTHER -> Fail(g, "INVALID_INT")

toml_int_parse(r) ==
  CASE r.c \in {"+", "-"} -> IntDigits(toml_getc(r), 10, r.c = "-", <<>>, r.c)
    [] r.c = "0" -> AfterZero(toml_getc(r))
    [] OTHER -> IntDigits(toml_getc(toml_ungetc(r)), 10, FALSE, <<>>, r.c)

\* A code-point <<high, low>> is high * 2^16 + low.
CodePoint(digits, first_low) ==
  <<strtol(SubSeq(digits, 1, first_low - 1), 16, FALSE),
    strtol(SubSeq(digits, first_low, Len(digits)), 16, FALSE)>>

\* No surrogate, and at most 10FFFF.
cp_is_valid(cp) ==
  \/ cp[1] = 0 /\ cp[2] \notin 55296..57343
  \/ cp[1] \in 1..16

CodePointRead(r, cp, escape) ==
  IF cp_is_valid(cp) THEN Return(r, Append(r.out, cp))
  ELSE FailAt(r, [line |-> escape.line, col |-> escape.col - 1], "INVALID_UNICODE")

\* The n digits after \x, \u or \U; out is the string so far.
RECURSIVE toml_unicode_parse(_, _, _, _)
DigitRead(g, n, digits, escape) ==
  CASE g.c = EOF -> Fail(g, "UNEXPECTED_EOF")
    [] g.c \in DigitsOf(16) -> toml_unicode_parse(g, n, Append(digits, g.c), escape)
    [] OTHER -> Fail(g, "INVALID_STRING")
toml_unicode_parse(r, n, digits, escape) ==
  IF Len(digits) < n THEN DigitRead(toml_getc(r), n, digits, escape)
  ELSE CodePointRead(r, CodePoint(digits, (IF n > 4 THEN n - 4 ELSE 0) + 1), escape)

Escapes == [c \in {"b", "e", "f", "n", "r", "t"} |-> <<"escape", c>>]
CodePointDigits == [x |-> 2, u |-> 4, U |-> 8]

\* e.c follows a backslash.
EscapeAt(e) ==
  CASE e.c \in {"\"", "\\"} -> Return(e, Append(e.out, e.c))
    [] e.c \in DOMAIN Escapes -> Return(e, Append(e.out, Escapes[e.c]))
    [] e.c \in DOMAIN CodePointDigits ->
         toml_unicode_parse(e, CodePointDigits[e.c], <<>>, e)
    [] e.c = EOF -> Fail(e, "UNEXPECTED_EOF")
    [] e.c = INVALID -> Fail(e, "INVALID_CHAR")
    [] OTHER -> Fail(e, "INVALID_STRING")

\* r.out is the string so far.
RECURSIVE toml_string_parse(_, _)
StringAt(g, quote) ==
  CASE g.c = EOF -> Fail(g, "UNEXPECTED_EOF")
    [] g.c = INVALID -> Fail(g, "INVALID_CHAR")
    [] g.c \in {"\r", "\n"} -> Fail(g, "INVALID_STRING")
    [] g.c = quote -> Return(g, g.out)
    [] g.c = "\\" /\ quote # "'" ->
         Then(EscapeAt(toml_getc(g)), LAMBDA e : toml_string_parse(e, quote))
    [] OTHER -> toml_string_parse([g EXCEPT !.out = Append(@, g.c)], quote)
toml_string_parse(r, quote) == StringAt(toml_getc(r), quote)

RECURSIVE toml_array_parse(_, _, _)
Typed(v, type, loc) ==
  IF v.ok
  THEN [v EXCEPT !.out = [type |-> type, v |-> @, line |-> loc.line, col |-> loc.col]]
  ELSE v
ValueAt(g) ==
  CASE g.c \in {"\"", "'"} ->
         Typed(toml_string_parse([g EXCEPT !.out = <<>>], g.c), "string", g)
    [] g.c \in {"+", "-"} \cup DigitsOf(10) -> Typed(toml_int_parse(g), "int", g)
    [] g.c \in {"f", "t"} -> Typed(toml_bool_parse(g), "bool", g)
    [] g.c = "[" -> Typed(toml_array_parse(g, <<>>, FALSE), "array", g)
    [] OTHER -> Fail(g, "UNEXPECTED_CHAR")
toml_value_parse(r) == ValueAt(toml_getc(r))

\* The rest of an array after values, the last of them without a comma yet?
ElementAt(g, values, need_comma) ==
  CASE g.c = "]" -> Return(g, values)
    [] g.c = EOF -> Fail(g, "UNEXPECTED_EOF")
    [] g.c = "," /\ need_comma -> toml_array_parse(g, values, FALSE)
    [] g.c \notin {"]", EOF} /\ (g.c = ",") # need_comma -> Fail(g, "UNEXPECTED_CHAR")
    [] OTHER ->
         Then(toml_value_parse(toml_ungetc(g)),
              LAMBDA v : toml_array_parse(v, Append(values, v.out), TRUE))
toml_array_parse(r, values, need_comma) ==
  Then(toml_space_comments_skip(r),
       LAMBDA s : ElementAt(toml_getc(s), values, need_comma))

-----------------------------------------------------------------------------
(* Keys and tables *)

\* The rest of a segment of a bare key, from g.c on, which has been read.  An
\* invalid character ends it: the reader fails, and there is no error.
RECURSIVE BareKeyChars(_, _)
BareKeyChars(g, buf) ==
  CASE g.c = INVALID -> [g EXCEPT !.ok = FALSE]
    [] IsBareKeyChar(g.c) -> BareKeyChars(toml_getc(g), Append(buf, g.c))
    [] OTHER -> Return(g, buf)

\* The rest of a key, from g.c on.  is_dot_allowed: a segment of it has just
\* ended.
RECURSIVE KeySegments(_, _, _, _)
KeySegments(g, buf, is_dot_allowed, first_col) ==
  CASE g.c \in {" ", "\t"} ->
         Then(toml_space_comments_skip(g),
              LAMBDA s : KeySegments(toml_getc(s), buf, is_dot_allowed, first_col))
    [] g.c = "." /\ is_dot_allowed ->
         KeySegments(toml_getc(g), Append(buf, "."), FALSE, first_col)
    [] g.c \in {"\"", "'"} /\ ~is_dot_allowed ->
         Then(toml_string_parse([g EXCEPT !.out = buf], g.c),
              LAMBDA string : KeySegments(toml_getc(string), string.out, TRUE, first_col))
    [] IsBareKeyChar(g.c) /\ ~is_dot_allowed ->
         Then(BareKeyChars(toml_getc(g), Append(buf, g.c)),
              LAMBDA rest : KeySegments(rest, rest.out, TRUE, first_col))
    [] OTHER ->
         IF buf = <<>> \/ g.c = "." THEN Fail(g, "INVALID_KEY")
         ELSE IF is_dot_allowed THEN Return(PutBack(g), buf)
         ELSE FailAt(g, [line |-> g.line, col |-> first_col + Len(buf) - 1],
                     "INVALID_KEY")

\* No key, and no error, at the end of the file.
KeyAt(g, line) ==
  IF g.c = EOF THEN [g EXCEPT !.ok = FALSE]
  ELSE Then(KeySegments(g, <<>>, FALSE, g.col),
            LAMBDA k : Return(k, [name |-> k.out, line |-> line, col |-> g.col]))
toml_key_parse(r) == KeyAt(toml_getc(r), r.line)

toml_key_value_parse(r) ==
  Then(toml_key_parse(r), LAMBDA k :
  Then(toml_char_parse(k, "="), LAMBDA eq :
  Then(toml_space_comments_skip(eq), LAMBDA s :
  Then(toml_value_parse(s), LAMBDA v :
    Return(v, [name |-> k.out.name, line |-> k.out.line, col |-> k.out.col,
               value |-> v.out])))))

\* "[" has been read; the end of the file is an error here.
HeaderKey(k) == IF ~k.ok /\ k.error = "NONE" THEN Fail(k, "UNEXPECTED_EOF") ELSE k
toml_table_header_parse(r) ==
  Then(toml_space_comments_skip(r), LAMBDA s :
  Then(HeaderKey(toml_key_parse(s)), LAMBDA k :
  Then(toml_char_parse(k, "]"), LAMBDA e : Return(e, k.out))))

\* The keys of a table after kvs; out is all of them.
RECURSIVE TableKeys(_, _)
KeyAdded(kv, kvs) ==
  IF \E i \in DOMAIN kvs : kvs[i].name = kv.out.name
  THEN FailAt(kv, kv.out, "DUPLICATE_KEY")
  ELSE TableKeys(kv, Append(kvs, kv.out))
KeysAt(g, kvs) ==
  IF g.c \in {EOF, "["} THEN Return(g, kvs)
  ELSE Then(toml_key_value_parse(g), LAMBDA kv : KeyAdded(kv, kvs))
TableKeys(r, kvs) ==
  Then(toml_space_comments_skip(r), LAMBDA s : KeysAt(toml_peekc(s), kvs))

toml_file_init(text) ==
  [text |-> text, pos |-> 1, c_last |-> EOF, line |-> 1, col |-> 0, col_prev |-> 0,
   error |-> "NONE", table_names |-> {}, c |-> EOF, ok |-> TRUE, out |-> <<>>]

\* The name is remembered even if the keys of the table are refused.
NameInserted(h) ==
  IF h.out.name \in h.table_names
  THEN FailAt(h, [line |-> h.line, col |-> h.out.col], "DUPLICATE_TABLE")
  ELSE [h EXCEPT !.table_names = @ \cup {h.out.name}]

\* Keys before the first header are in a table without a name.
HeaderAt(g) ==
  IF g.c = "[" THEN Then(toml_table_header_parse(g), NameInserted)
  ELSE Return(toml_ungetc(g), [name |-> UNNAMED])

\* A table that begins at g, the location of its header being loc.
TableAt(g, loc) ==
  IF g.c = EOF THEN [g EXCEPT !.ok = FALSE]
  ELSE Then(HeaderAt(g), LAMBDA h :
       Then(TableKeys(h, <<>>), LAMBDA k :
         Return(k, [name |-> h.out.name, line |-> loc.line, col |-> loc.col,
                    kvs |-> k.out])))

\* The next table is in out; none, and ok is FALSE, at the end of the file and
\* at an error.
toml_table_next(r) ==
  Then(toml_space_comments_skip(r), LAMBDA s : TableAt(toml_getc(s), s))

=============================================================================
