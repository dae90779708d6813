----------------------------- MODULE ConfigDocs -----------------------------
(***************************************************************************)
(* Configuration files as they are written, and what TomlLite and          *)
(* ConfigFiles promise to make of them.                                    *)
(*                                                                         *)
(* A file is a document, tables of keys and values, laid out as characters *)
(* in one of several ways, and may be cut: it ends early, or one of its    *)
(* characters is replaced by one that TOML does not allow.                 *)
(***************************************************************************)
EXTENDS ConfigFiles, TomlLite

\* A value as it is written: its characters, or of an array its elements.
Scalar(type, chars, v) == [type |-> type, chars |-> chars, v |-> v]
ArrayOf(items) == [type |-> "array", items |-> items]

RECURSIVE Written(_, _), Meaning(_), Plain(_)
Written(v, layout) ==
  IF v.type = "array"
  THEN LET last == Len(v.items)
           items == [i \in 1..last |->
             layout.inside \o Written(v.items[i], layout)
               \o IF i < last \/ layout.last_comma THEN <<",">> ELSE <<>>]
       IN  <<"[">> \o FlattenSeq(items) \o layout.inside \o <<"]">>
  ELSE v.chars

\* What a value says, and what was read without where it was read.
Meaning(v) ==
  [type |-> v.type,
   v |-> IF v.type = "array" THEN [i \in DOMAIN v.items |-> Meaning(v.items[i])] ELSE v.v]
Plain(v) ==
  [type |-> v.type,
   v |-> IF v.type = "array" THEN [i \in DOMAIN v.v |-> Plain(v.v[i])] ELSE v.v]

-----------------------------------------------------------------------------
(* Layout: the pieces of a document, each with what it is. *)

Piece(tag, chars) == [tag |-> tag, chars |-> chars]
Space(chars) == Piece("space", chars)

\* A name with other characters than those of a bare key is quoted.
WrittenName(name) ==
  IF \A i \in DOMAIN name : IsBareKeyChar(name[i]) \/ name[i] = "." THEN name
  ELSE <<"'">> \o name \o <<"'">>

HeaderPieces(name, layout) ==
  IF name = NoName THEN <<>>
  ELSE <<Piece("open", <<"[">>), Space(layout.space), Piece("name", WrittenName(name)),
         Space(layout.space), Piece("close", <<"]">>), Space(layout.end)>>

KeyPieces(kv, layout) ==
  <<Piece("key", WrittenName(kv.name)), Space(layout.space), Piece("equals", <<"=">>),
    Space(layout.space), Piece("value", Written(kv.value, layout)), Space(layout.end)>>

Pieces(file) ==
  FlattenSeq([i \in DOMAIN file.tables |->
    HeaderPieces(file.tables[i].name, file.layout)
      \o FlattenSeq([j \in DOMAIN file.tables[i].kvs |->
           KeyPieces(file.tables[i].kvs[j], file.layout)])])

WholeText(file) ==
  LET ps == Pieces(file) IN FlattenSeq([i \in DOMAIN ps |-> ps[i].chars])

\* A file that is no document: its characters are given.
IsDocument(file) == file.access = "OK" /\ file.chars = <<>>
IsWhole(file) == IsDocument(file) /\ file.cut.kind = "none"

FileText(file) ==
  IF ~IsDocument(file) THEN file.chars
  ELSE CASE file.cut.kind = "none" -> WholeText(file)
         [] file.cut.kind = "end" -> SubSeq(WholeText(file), 1, file.cut.at)
         [] file.cut.kind = "bad" ->
              [WholeText(file) EXCEPT ![file.cut.at] = INVALID]
FileAccess(file) == file.access

\* Where the pieces with a tag begin.
Starts(file, tag) ==
  LET ps == Pieces(file)
      start[i \in 1..Len(ps) + 1] ==
        IF i = 1 THEN 1 ELSE start[i - 1] + Len(ps[i - 1].chars)
      all == [i \in DOMAIN ps |-> [tag |-> ps[i].tag, at |-> start[i]]]
      tagged == SelectSeq(all, LAMBDA p : p.tag = tag)
  IN  [i \in DOMAIN tagged |-> tagged[i].at]

LocAt(t, i) ==
  LET newlines == {j \in 1..i - 1 : t[j] = "\n"}
  IN  [line |-> 1 + Cardinality(newlines), col |-> i - Max(newlines \cup {0})]
Loc(x) == [line |-> x.line, col |-> x.col]

-----------------------------------------------------------------------------
(* What a document says *)

File == files[config_path]
\* Nothing is read while the keys of a table are parsed.
IsReading == config_path # "none" /\ pc # "keys"
IsRead == pc # "parse" /\ IsReading

\* All the keys of a document, and those read, in order.
Keys(ts) == FlattenSeq([i \in DOMAIN ts |-> ts[i].kvs])

\* The keys read are those written first, at the places they are written; of the
\* last one the file may end in the middle of its number.
IsKeyRead(kv, written, key_at, value_at) ==
  LET t == WholeText(File)
  IN  /\ kv.name = written.name
      /\ Loc(kv) = LocAt(t, key_at) /\ Loc(kv.value) = LocAt(t, value_at)
      /\ \/ Plain(kv.value) = Meaning(written.value)
         \/ /\ File.cut.kind = "end" /\ written.value.type = "int"
            /\ File.cut.at < value_at + Len(written.value.chars) - 1

\* The tables toml_table_next() returns are those of the file from the first on,
\* with all their keys and values in order, each with its line and column; only
\* the last one may lack keys, if the file is cut.
TablesAsWritten ==
  IsReading /\ IsDocument(File) =>
    LET read == Keys(tables)
        written == Keys(File.tables)
        key_at == Starts(File, "key")
        value_at == Starts(File, "value")
    IN  /\ Len(tables) <= Len(File.tables) /\ Len(read) <= Len(written)
        /\ \A i \in DOMAIN tables :
             /\ tables[i].name = File.tables[i].name
             /\ i < Len(tables) \/ File.cut.kind = "none" =>
                  Len(tables[i].kvs) = Len(File.tables[i].kvs)
        /\ \A k \in DOMAIN read :
             IsKeyRead(read[k], written[k], key_at[k], value_at[k])

\* Where the reader stops without an error is the end of the file, and nothing
\* that begins in it is left unread: not a table, nor a key.
StopsAtEnd == IsRead /\ toml.error = "NONE" => toml.pos > Len(toml.text)

Begun(tag) == {i \in DOMAIN Starts(File, tag) : Starts(File, tag)[i] <= Len(toml.text)}
NothingDropped ==
  /\ StopsAtEnd
  /\ IsRead /\ IsDocument(File) /\ toml.error = "NONE" =>
       /\ Len(tables) >= Cardinality(Begun("open"))
       /\ Len(Keys(tables)) = Cardinality(Begun("key"))

\* What is read is what is written, and, unless there is an error, all of it.
ReadAsWritten == TablesAreLists /\ TablesAsWritten /\ NothingDropped

\* What is refused, if the file is not cut: a key of a table, or a table, again.
DuplicateKeys ==
  LET number(i, j) == Len(Keys(SubSeq(File.tables, 1, i - 1))) + j
      Again(i, j) == \E k \in 1..j - 1 :
                       File.tables[i].kvs[k].name = File.tables[i].kvs[j].name
  IN  UNION {{Starts(File, "key")[number(i, j)] :
                j \in {j \in DOMAIN File.tables[i].kvs : Again(i, j)}} :
              i \in DOMAIN File.tables}
Names(ts) ==
  LET named == SelectSeq(ts, LAMBDA t : t.name # NoName)
  IN  [i \in DOMAIN named |-> named[i].name]
DuplicateTables ==
  LET names == Names(File.tables)
  IN  {Starts(File, "name")[i] :
         i \in {i \in DOMAIN names : \E k \in 1..i - 1 : names[k] = names[i]}}
Duplicates == DuplicateKeys \cup DuplicateTables

\* The error is located at the first thing the file repeats; or else, if the file
\* is cut, in the table header or key and value that the cut is in, and at an
\* invalid character itself, or at the first one of the word it is in.
ErrorLocated ==
  IsRead /\ IsDocument(File) /\ toml.error # "NONE" =>
    LET t == WholeText(File)
        at == File.cut.at
        begun == {i \in DOMAIN t : /\ i <= at
                                    /\ i \in Range(Starts(File, "open"))
                                               \cup Range(Starts(File, "key"))}
        words == {i \in DOMAIN t : \/ IsPrefix(<<"t", "r", "u", "e">>, SubSeq(t, i, Len(t)))
                                  \/ IsPrefix(<<"f", "a", "l", "s", "e">>, SubSeq(t, i, Len(t)))}
    IN  CASE toml.error \in {"DUPLICATE_KEY", "DUPLICATE_TABLE"} ->
               Loc(toml) = LocAt(t, Min(Duplicates))
          [] File.cut.kind = "end" /\ toml.error \notin {"DUPLICATE_KEY", "DUPLICATE_TABLE"} ->
               \E i \in Max(begun)..at : \/ Loc(toml) = LocAt(t, i)
                                         \/ /\ t[i] = "\n" /\ toml.col = 0
                                            /\ toml.line = LocAt(t, i).line + 1
          [] File.cut.kind = "bad" /\ toml.error \notin {"DUPLICATE_KEY", "DUPLICATE_TABLE"} ->
               \/ Loc(toml) = LocAt(t, at)
               \/ \E i \in words : i \in at - 4..at /\ Loc(toml) = LocAt(t, i)
          [] OTHER -> FALSE

=============================================================================
