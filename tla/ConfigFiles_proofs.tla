------------------------- MODULE ConfigFiles_proofs -------------------------
(***************************************************************************)
(* Proofs about the configuration files: that those that can be read are   *)
(* read in the order of their places, that a file is refused if and only   *)
(* if something in it is wrong, and that who is first to set an option     *)
(* does.  They are for any reader that returns tables, any files and any   *)
(* command line.                                                           *)
(***************************************************************************)
EXTENDS ConfigFiles, Facts

-----------------------------------------------------------------------------
(***************************************************************************)
(* Lists.                                                                  *)
(***************************************************************************)

LEMMA ListSeq ==
  ASSUME NEW s, IsList(s)
  PROVE  /\ s \in Seq({s[i] : i \in DOMAIN s})
         /\ Len(s) \in Nat /\ DOMAIN s = 1..Len(s)
         /\ IsFiniteSet(DOMAIN s)
<1>1. Len(s) \in Nat /\ DOMAIN s = 1..Len(s) /\ s \in Seq({s[i] : i \in DOMAIN s})
  BY DEF IsList
<1>2. IsFiniteSet(1..Len(s))
  BY <1>1, FS_Interval
<1> QED
  BY <1>1, <1>2

LEMMA SeqList ==
  ASSUME NEW S, NEW s \in Seq(S)
  PROVE  IsList(s)
BY DEF IsList

LEMMA ListAppend ==
  ASSUME NEW s, NEW x, IsList(s)
  PROVE  /\ IsList(Append(s, x)) /\ Append(s, x) # <<>>
         /\ Len(Append(s, x)) = Len(s) + 1
         /\ Append(s, x)[Len(s) + 1] = x
         /\ \A i \in 1..Len(s) : Append(s, x)[i] = s[i]
<1>1. PICK S : S = {s[i] : i \in DOMAIN s} \cup {x}
  OBVIOUS
<1>2. s \in Seq(S) /\ x \in S
  <2>1. s \in Seq({s[i] : i \in DOMAIN s})
    BY ListSeq
  <2> QED
    BY <1>1, <2>1
<1>3. Append(s, x) \in Seq(S)
  BY <1>2
<1>4. IsList(Append(s, x))
  BY <1>3, SeqList
<1>5. /\ Len(Append(s, x)) = Len(s) + 1 /\ Append(s, x)[Len(s) + 1] = x
      /\ \A i \in 1..Len(s) : Append(s, x)[i] = s[i]
      /\ Append(s, x) # <<>>
  BY <1>2
<1> QED
  BY <1>4, <1>5

\* What a list has after another is put behind it.
LEMMA ListConcat ==
  ASSUME NEW s, NEW t, IsList(s), IsList(t)
  PROVE  /\ IsList(s \o t)
         /\ Range(s \o t) = Range(s) \cup Range(t)
         /\ s # <<>> => s \o t # <<>>
<1>1. PICK S : S = {s[i] : i \in DOMAIN s} \cup {t[i] : i \in DOMAIN t}
  OBVIOUS
<1>2. s \in Seq(S) /\ t \in Seq(S)
  <2>1. s \in Seq({s[i] : i \in DOMAIN s}) /\ t \in Seq({t[i] : i \in DOMAIN t})
    BY ListSeq
  <2> QED
    BY <1>1, <2>1
<1>3. s \o t \in Seq(S)
  BY <1>2
<1>4. IsList(s \o t)
  BY <1>3, SeqList
<1>5. PICK m \in Nat, n \in Nat : m = Len(s) /\ n = Len(t)
  BY <1>2
<1>6. /\ DOMAIN s = 1..m /\ DOMAIN t = 1..n /\ DOMAIN (s \o t) = 1..(m + n)
      /\ \A i \in 1..m : (s \o t)[i] = s[i]
      /\ \A i \in (m + 1)..(m + n) : (s \o t)[i] = t[i - m]
  BY <1>2, <1>5
<1>7. \A x \in Range(s \o t) : x \in Range(s) \cup Range(t)
  <2>1. ASSUME NEW i \in 1..(m + n) PROVE (s \o t)[i] \in Range(s) \cup Range(t)
    <3>1. CASE i \in 1..m
      BY <1>6, <3>1 DEF Range
    <3>2. CASE i \notin 1..m
      <4>1. i - m \in 1..n /\ i \in (m + 1)..(m + n)
        BY <1>5, <3>2
      <4> QED
        BY <1>6, <4>1 DEF Range
    <3> QED
      BY <3>1, <3>2
  <2> QED
    BY <1>6, <2>1 DEF Range
<1>8. \A x \in Range(s) : x \in Range(s \o t)
  <2>1. ASSUME NEW i \in 1..m PROVE s[i] \in Range(s \o t)
    <3>1. i \in 1..(m + n)
      BY <1>5
    <3> QED
      BY <1>6, <3>1 DEF Range
  <2> QED
    BY <1>6, <2>1 DEF Range
<1>9. \A x \in Range(t) : x \in Range(s \o t)
  <2>1. ASSUME NEW i \in 1..n PROVE t[i] \in Range(s \o t)
    <3>1. i + m \in (m + 1)..(m + n) /\ (i + m) - m = i /\ i + m \in 1..(m + n)
      BY <1>5
    <3>2. (s \o t)[i + m] = t[i]
      BY <1>6, <3>1
    <3> QED
      BY <1>6, <3>1, <3>2 DEF Range
  <2> QED
    BY <1>6, <2>1 DEF Range
<1>10. s # <<>> => s \o t # <<>>
  <2>1. s # <<>> => m # 0
    BY <1>2, <1>5
  <2>2. s \o t = <<>> => Len(s \o t) = 0
    OBVIOUS
  <2>3. Len(s \o t) = m + n
    BY <1>2, <1>5
  <2> QED
    BY <1>5, <2>1, <2>2, <2>3
<1> QED
  BY <1>4, <1>7, <1>8, <1>9, <1>10

-----------------------------------------------------------------------------
(***************************************************************************)
(* The files that are read.                                                *)
(***************************************************************************)

LEMMA LeastIs ==
  ASSUME NEW S \in SUBSET Nat, S # {}
  PROVE  Min(S) \in S /\ \A x \in S : Min(S) <= x
BY LeastNatural DEF Min

\* The places are in the order of the cases of config_file_find().
LEMMA PlacesInOrder ==
  /\ Len(Places) = 6 /\ DOMAIN Places = 1..6
  /\ Place = {"option", "source", "cwd", "home", "xdg1", "xdg2"}
  /\ \A i \in 1..6 : Places[i] \in Place /\ CaseOf[Places[i]] \in 1..5
  /\ \A i, j \in 1..6 : Places[i] = Places[j] => i = j
  /\ \A i, j \in 1..6 : i < j =>
       \/ CaseOf[Places[i]] < CaseOf[Places[j]]
       \/ Places[i] = "xdg1" /\ Places[j] = "xdg2"
  /\ CaseOf["xdg1"] = 5 /\ CaseOf["xdg2"] = 5
<1>1. Len(Places) = 6 /\ DOMAIN Places = 1..6
  BY DEF Places
<1>2. /\ Places[1] = "option" /\ Places[2] = "source" /\ Places[3] = "cwd"
      /\ Places[4] = "home" /\ Places[5] = "xdg1" /\ Places[6] = "xdg2"
  BY DEF Places
<1>3. \A i \in 1..6 : i = 1 \/ i = 2 \/ i = 3 \/ i = 4 \/ i = 5 \/ i = 6
  OBVIOUS
<1>4. Place = {"option", "source", "cwd", "home", "xdg1", "xdg2"}
  BY <1>1, <1>2, <1>3 DEF Place
<1>5. /\ CaseOf["option"] = 1 /\ CaseOf["source"] = 2 /\ CaseOf["cwd"] = 3
      /\ CaseOf["home"] = 4 /\ CaseOf["xdg1"] = 5 /\ CaseOf["xdg2"] = 5
  BY DEF CaseOf
<1>6. \A i \in 1..6 : Places[i] \in Place /\ CaseOf[Places[i]] \in 1..5
  BY <1>2, <1>3, <1>4, <1>5
<1>7. \A i, j \in 1..6 : Places[i] = Places[j] => i = j
  BY <1>2, <1>3
<1>8. \A i, j \in 1..6 : i < j =>
        \/ CaseOf[Places[i]] < CaseOf[Places[j]]
        \/ Places[i] = "xdg1" /\ Places[j] = "xdg2"
  <2>1. \A i \in 1..6 : CaseOf[Places[i]] = IF i = 6 THEN 5 ELSE i
    BY <1>2, <1>3, <1>5
  <2>2. ASSUME NEW i \in 1..6, NEW j \in 1..6, i < j
        PROVE  \/ CaseOf[Places[i]] < CaseOf[Places[j]]
               \/ Places[i] = "xdg1" /\ Places[j] = "xdg2"
    <3>1. CASE j = 6 /\ i = 5
      BY <3>1, <1>2
    <3>2. CASE ~(j = 6 /\ i = 5)
      BY <2>1, <2>2, <3>2
    <3> QED
      BY <3>1, <3>2
  <2> QED
    BY <2>2
<1> QED
  BY <1>1, <1>4, <1>5, <1>6, <1>7, <1>8

LEMMA BeforeIs ==
  ASSUME NEW i \in 1..6, NEW j \in 1..6
  PROVE  Before(Places[i], Places[j]) <=> i < j
BY PlacesInOrder DEF Before

\* The option was given before the one that comes next.
GivenSoFar(option) == \E i \in 1..(optind - 1) : argv[i].option = option

\* A file that has no case left was read, if it can be.
Tried(p) == CaseOf[p] < case_num

SearchInv ==
  /\ pc \in {"cli", "find", "parse", "keys", "done", "exit"}
  /\ IsList(argv) /\ optind \in 1..(Len(argv) + 1)
  /\ pc = "cli" => /\ layers = ~GivenSoFar("no_config_layers")
                   /\ places_read = <<>> /\ ~found_at_least_1
  /\ pc \notin {"cli", "exit"} => layers = ~Given("no_config_layers")
  /\ layers \in BOOLEAN /\ found_at_least_1 \in BOOLEAN
  /\ case_num \in 1..6 /\ places_read \in Seq(Place)
  /\ \A p \in Place : (Tried(p) /\ Readable(p)) <=> p \in Range(places_read)
  /\ pc = "find" => (found_at_least_1 <=> places_read # <<>>)
  /\ pc \in {"parse", "keys"} => places_read # <<>>
  /\ exit_status = "EX_CONFIG" => pc = "exit"
  /\ FilesInOrder


LEMMA SearchInit == ConfigInit => SearchInv
<1> SUFFICES ASSUME ConfigInit PROVE SearchInv
  OBVIOUS
<1>1. IsList(argv)
  BY ConfigAssumption DEF ConfigInit
<1>2. Len(argv) \in Nat /\ optind = 1 /\ 1..(optind - 1) = {}
  BY <1>1 DEF ConfigInit
<1>3. places_read = <<>> /\ Range(places_read) = {} /\ Len(places_read) = 0
  BY DEF ConfigInit, Range
<1>4. \A p \in Place : ~Tried(p)
  <2>1. \A p \in Place : CaseOf[p] \in 1..5
    BY PlacesInOrder DEF Place
  <2> QED
    BY <2>1 DEF ConfigInit, Tried
<1>5. FilesInOrder
  BY <1>3 DEF ConfigInit, FilesInOrder
<1>6. pc = "cli" /\ layers = TRUE /\ found_at_least_1 = FALSE /\ case_num = 1
      /\ exit_status = "none"
  BY DEF ConfigInit
<1>7. ~GivenSoFar("no_config_layers")
  BY <1>2 DEF GivenSoFar
<1>8. optind \in 1..(Len(argv) + 1) /\ places_read \in Seq(Place)
  BY <1>2, <1>3
<1>9. \A p \in Place : (Tried(p) /\ Readable(p)) <=> p \in Range(places_read)
  BY <1>3, <1>4
<1>10. /\ pc \in {"cli", "find", "parse", "keys", "done", "exit"}
       /\ pc = "cli" => /\ layers = ~GivenSoFar("no_config_layers")
                        /\ places_read = <<>> /\ ~found_at_least_1
       /\ pc \notin {"cli", "exit"} => layers = ~Given("no_config_layers")
  BY <1>3, <1>6, <1>7
<1>11. /\ layers \in BOOLEAN /\ found_at_least_1 \in BOOLEAN
       /\ pc = "find" => (found_at_least_1 <=> places_read # <<>>)
       /\ pc \in {"parse", "keys"} => places_read # <<>>
       /\ exit_status = "EX_CONFIG" => pc = "exit"
  BY <1>6
<1>12. case_num \in 1..6
  BY <1>6
<1> QED
  BY <1>1, <1>5, <1>8, <1>9, <1>10, <1>11, <1>12 DEF SearchInv

\* What can be read was read, or can be opened now.
LEMMA ReadOrOpens ==
  ASSUME SearchInv, NEW i \in 1..6, Readable(Places[i])
  PROVE  Places[i] \in Range(places_read) \/ Opens(i)
<1>1. Places[i] \in Place /\ CaseOf[Places[i]] \in 1..5 /\ case_num \in 1..6
  BY PlacesInOrder DEF SearchInv
<1>2. CASE Tried(Places[i])
  BY <1>1, <1>2 DEF SearchInv
<1>3. CASE ~Tried(Places[i])
  BY <1>1, <1>3 DEF Tried, Opens, IsTried, Readable
<1> QED
  BY <1>2, <1>3

LEMMA FirstIsLeast ==
  /\ FirstOpened \in 1..7
  /\ FirstOpened \in DOMAIN Places => Opens(FirstOpened)
  /\ \A i \in 1..6 : Opens(i) => FirstOpened \in DOMAIN Places /\ FirstOpened <= i
<1> DEFINE S == {i \in DOMAIN Places : Opens(i)} \cup {Len(Places) + 1}
<1>1. S \in SUBSET (1..7) /\ 7 \in S /\ DOMAIN Places = 1..6 /\ Len(Places) + 1 = 7
  BY PlacesInOrder
<1>2. FirstOpened = Min(S)
  BY DEF FirstOpened
<1>3. \A i \in S : i = 7 \/ (i \in 1..6 /\ Opens(i))
  BY <1>1
<1>4. \A i \in 1..6 : Opens(i) => i \in S
  BY <1>1
<1> HIDE DEF S
<1>5. S \in SUBSET Nat /\ S # {}
  BY <1>1
<1>6. Min(S) \in S /\ \A x \in S : Min(S) <= x
  BY <1>5, LeastIs
<1>7. FirstOpened \in 1..7
  BY <1>1, <1>2, <1>6
<1>8. ASSUME FirstOpened \in DOMAIN Places PROVE Opens(FirstOpened)
  <2>1. FirstOpened # 7 /\ FirstOpened \in S
    BY <1>1, <1>2, <1>6, <1>8
  <2> QED
    BY <2>1, <1>3
<1>9. ASSUME NEW i \in 1..6, Opens(i)
      PROVE  FirstOpened \in DOMAIN Places /\ FirstOpened <= i
  <2>1. FirstOpened <= i
    BY <1>2, <1>4, <1>6, <1>9
  <2> QED
    BY <2>1, <1>1, <1>7
<1> QED
  BY <1>7, <1>8, <1>9

LEMMA OpensReadable ==
  ASSUME SearchInv, FirstOpened \in DOMAIN Places
  PROVE  Readable(Places[FirstOpened])
<1>1. FirstOpened \in 1..6 /\ Opens(FirstOpened)
  BY FirstIsLeast, PlacesInOrder
<1>2. ASSUME Places[FirstOpened] = "xdg2" PROVE Access(files["xdg1"]) # "OK"
  <2>1. Places[5] = "xdg1" /\ Places[6] = "xdg2" /\ FirstOpened = 6
    <3>1. Places[5] = "xdg1" /\ Places[6] = "xdg2"
      BY DEF Places
    <3> QED
      BY <3>1, <1>1, <1>2, PlacesInOrder
  <2>2. ~Opens(5)
    BY <2>1, FirstIsLeast
  <2>3. IsTried(5)
    BY <1>1, <2>1, PlacesInOrder DEF Opens, IsTried
  <2> QED
    BY <2>1, <2>2, <2>3 DEF Opens
<1> QED
  BY <1>1, <1>2 DEF Opens, IsTried, Readable

\* What can be read and has a case up to that of the file opened was read before, or
\* is that file.
LEMMA UpToOpened ==
  ASSUME SearchInv, FirstOpened \in DOMAIN Places, NEW p \in Place
  PROVE  CaseOf[p] <= CaseOf[Places[FirstOpened]] /\ Readable(p)
           <=> p \in Range(places_read) \/ p = Places[FirstOpened]
<1> DEFINE first == FirstOpened
<1>1. first \in 1..6 /\ Opens(first) /\ case_num \in 1..6
  BY FirstIsLeast, PlacesInOrder DEF SearchInv
<1>2. PICK i \in 1..6 : p = Places[i]
  BY PlacesInOrder DEF Place
<1>3. CaseOf[p] \in 1..5 /\ CaseOf[Places[first]] \in 1..5
      /\ case_num <= CaseOf[Places[first]]
  BY <1>1, <1>2, PlacesInOrder DEF Opens, IsTried
<1>4. ASSUME p \in Range(places_read) PROVE CaseOf[p] <= CaseOf[Places[first]] /\ Readable(p)
  <2>1. Tried(p) /\ Readable(p)
    BY <1>4 DEF SearchInv
  <2> QED
    BY <2>1, <1>1, <1>3 DEF Tried
<1>5. ASSUME CaseOf[p] <= CaseOf[Places[first]], Readable(p), p \notin Range(places_read)
      PROVE  p = Places[first]
  <2>1. Opens(i) /\ first <= i
    BY <1>2, <1>5, ReadOrOpens, FirstIsLeast
  <2>2. CASE i = first
    BY <2>2, <1>2
  <2>3. CASE first < i
    <3>1. Places[first] = "xdg1" /\ p = "xdg2"
      BY <1>1, <1>2, <1>3, <1>5, <2>3, PlacesInOrder
    <3> QED
      BY <3>1, <1>1, <1>5 DEF Opens, Readable
  <2> QED
    BY <1>1, <2>1, <2>2, <2>3
<1>6. p = Places[first] => CaseOf[p] <= CaseOf[Places[first]] /\ Readable(p)
  BY <1>3, OpensReadable
<1> QED
  BY <1>4, <1>5, <1>6

LEMMA FilesKept ==
  ASSUME SearchInv, UNCHANGED <<environment, searchVars>>, pc' # "done"
  PROVE  /\ FilesInOrder'
         /\ \A p \in Place : (Tried(p) /\ Readable(p))' <=> p \in Range(places_read')
<1>1. UNCHANGED <<argv, files, same_dir, places_read, case_num>>
  BY DEF environment, searchVars
<1>2. \A option : Given(option)' <=> Given(option)
  BY <1>1 DEF Given
<1>3. \A p : (Readable(p))' <=> Readable(p)
  BY <1>1, <1>2 DEF Readable
<1>4. \A p : Tried(p)' <=> Tried(p)
  BY <1>1 DEF Tried
<1>5. FilesInOrder'
  BY <1>1, <1>2, <1>3 DEF SearchInv, FilesInOrder
<1>6. \A p \in Place : (Tried(p) /\ Readable(p))' <=> p \in Range(places_read')
  BY <1>1, <1>3, <1>4 DEF SearchInv
<1> QED
  BY <1>5, <1>6

\* A step that leaves the search and the command line alone.
LEMMA SearchKept ==
  ASSUME SearchInv, UNCHANGED <<environment, optind, layers, searchVars>>,
         pc \notin {"cli", "exit"},
         \/ pc' = "exit"
         \/ pc' \in {"parse", "keys"} /\ pc \in {"parse", "keys"} /\ UNCHANGED exit_status
  PROVE  SearchInv'
<1>1. UNCHANGED <<argv, case_num, places_read, found_at_least_1, layers, optind>>
  BY DEF environment, searchVars
<1>2. /\ FilesInOrder'
      /\ \A p \in Place : (Tried(p) /\ Readable(p))' <=> p \in Range(places_read')
  BY FilesKept
<1>3. (IsList(argv))' /\ (optind \in 1..(Len(argv) + 1))'
      /\ Given("no_config_layers")' = Given("no_config_layers")
  BY <1>1 DEF SearchInv, Given
<1>4. /\ pc' \in {"cli", "find", "parse", "keys", "done", "exit"} /\ pc' # "cli"
      /\ pc' # "find"
      /\ pc' \notin {"cli", "exit"} => layers' = ~Given("no_config_layers")'
      /\ exit_status' = "EX_CONFIG" => pc' = "exit"
      /\ pc' \in {"parse", "keys"} => places_read' # <<>>
  BY <1>1, <1>3 DEF SearchInv
<1>5. /\ layers' \in BOOLEAN /\ found_at_least_1' \in BOOLEAN
      /\ case_num' \in 1..6 /\ places_read' \in Seq(Place)
  BY <1>1 DEF SearchInv
<1> QED
  BY <1>2, <1>3, <1>4, <1>5 DEF SearchInv

LEMMA SearchParse ==
  ASSUME SearchInv, TableBegins \/ ConfigKeyValue \/ ConfigFatal
  PROVE  SearchInv'
<1>1. CASE TableBegins
  BY <1>1, SearchKept DEF TableBegins
<1>2. CASE ConfigKeyValue
  BY <1>2, SearchKept DEF ConfigKeyValue
<1>3. CASE ConfigFatal
  BY <1>3, SearchKept DEF ConfigFatal, exit
<1> QED
  BY <1>1, <1>2, <1>3

LEMMA SearchParseEnds ==
  ASSUME SearchInv, ParseEnds
  PROVE  SearchInv'
<1>1. CASE pc' = "exit"
  <2>1. UNCHANGED found_at_least_1
    BY <1>1 DEF ParseEnds, exit
  <2>2. UNCHANGED <<environment, optind, layers, searchVars>> /\ pc \notin {"cli", "exit"}
    BY <2>1 DEF ParseEnds, searchVars
  <2> QED
    BY <1>1, <2>2, SearchKept
<1>2. CASE pc' # "exit"
  <2>1. /\ pc = "parse" /\ pc' = "find" /\ found_at_least_1' = TRUE
        /\ UNCHANGED <<environment, optind, layers, case_num, places_read, exit_status>>
    BY <1>2 DEF ParseEnds, exit
  <2>2. UNCHANGED <<argv, files, same_dir, case_num, places_read, layers, optind>>
    BY <2>1 DEF environment
  <2>3. \A option : Given(option)' <=> Given(option)
    BY <2>2 DEF Given
  <2>4. \A q : (Readable(q))' <=> Readable(q)
    BY <2>2, <2>3 DEF Readable
  <2>5. FilesInOrder'
    BY <2>1, <2>2, <2>3, <2>4 DEF SearchInv, FilesInOrder
  <2>6. \A q \in Place : (Tried(q) /\ Readable(q))' <=> q \in Range(places_read')
    BY <2>2, <2>4 DEF SearchInv, Tried
  <2>7. (IsList(argv))' /\ (optind \in 1..(Len(argv) + 1))'
        /\ Given("no_config_layers")' = Given("no_config_layers")
    BY <2>2, <2>3 DEF SearchInv, Given
  <2>8. /\ places_read' # <<>> /\ exit_status' # "EX_CONFIG"
        /\ pc' = "find" => (found_at_least_1' <=> places_read' # <<>>)
    BY <2>1, <2>2 DEF SearchInv
  <2>9. /\ layers' \in BOOLEAN /\ found_at_least_1' \in BOOLEAN
        /\ case_num' \in 1..6 /\ places_read' \in Seq(Place)
    BY <2>1, <2>2 DEF SearchInv
  <2>10. pc' \notin {"cli", "exit"} => layers' = ~Given("no_config_layers")'
    BY <2>1, <2>2, <2>3 DEF SearchInv
  <2> QED
    BY <2>1, <2>5, <2>6, <2>7, <2>8, <2>9, <2>10 DEF SearchInv
<1> QED
  BY <1>1, <1>2

LEMMA SearchCli ==
  ASSUME SearchInv, CliOption \/ CliDone
  PROVE  SearchInv'
<1>1. /\ pc = "cli" /\ UNCHANGED <<environment, searchVars>>
      /\ places_read = <<>> /\ found_at_least_1 = FALSE
      /\ layers = ~GivenSoFar("no_config_layers")
  BY DEF CliOption, CliDone, SearchInv
<1>2. UNCHANGED <<argv, files, same_dir, case_num, places_read, found_at_least_1>>
  BY <1>1 DEF environment, searchVars
<1>3. /\ IsList(argv) /\ Len(argv) \in Nat
      /\ DOMAIN argv = 1..Len(argv) /\ optind \in 1..(Len(argv) + 1)
      /\ (IsList(argv))'
  BY <1>2 DEF SearchInv, IsList
<1>4. \A option : Given(option)' <=> Given(option)
  BY <1>2 DEF Given
<1>5. pc' \in {"cli", "exit", "find"} /\ (pc' # "exit" => exit_status' = exit_status)
  <2>1. CASE CliOption
    BY <1>1, <2>1 DEF CliOption, exit
  <2>2. CASE CliDone
    BY <2>2 DEF CliDone, exit
  <2> QED
    BY <2>1, <2>2
<1>6. /\ FilesInOrder'
      /\ \A p \in Place : (Tried(p) /\ Readable(p))' <=> p \in Range(places_read')
  BY <1>1, <1>5, FilesKept
<1>7. /\ (optind \in 1..(Len(argv) + 1))'
      /\ layers' \in BOOLEAN
      /\ pc' = "cli" => layers' = ~GivenSoFar("no_config_layers")'
  <2>1. CASE CliOption
    <3>1. optind <= Len(argv) /\ optind' = optind + 1
      BY <2>1 DEF CliOption
    <3>2. (optind' - 1) = optind /\ optind \in 1..Len(argv)
      BY <1>3, <3>1
    <3>3. GivenSoFar("no_config_layers")' <=>
            \/ GivenSoFar("no_config_layers")
            \/ argv[optind].option = "no_config_layers"
      <4>1. GivenSoFar("no_config_layers")' <=>
              \E i \in 1..optind : argv[i].option = "no_config_layers"
        BY <1>2, <3>2 DEF GivenSoFar
      <4>2. \A i : i \in 1..optind <=> i \in 1..(optind - 1) \/ i = optind
        BY <3>2
      <4> QED
        BY <4>1, <4>2 DEF GivenSoFar
    <3>4. layers' = layers \/ layers' = (layers /\ argv[optind].option # "no_config_layers")
      BY <2>1 DEF CliOption
    <3>5. pc' = "cli" => layers' = (layers /\ argv[optind].option # "no_config_layers")
      BY <1>1, <2>1 DEF CliOption, exit
    <3>6. layers' \in BOOLEAN
      BY <3>4 DEF SearchInv
    <3>7. (optind \in 1..(Len(argv) + 1))'
      BY <1>2, <1>3, <3>1, <3>2
    <3>8. pc' = "cli" => layers' = ~GivenSoFar("no_config_layers")'
      BY <1>1, <3>3, <3>5
    <3> QED
      BY <3>6, <3>7, <3>8
  <2>2. CASE CliDone
    <3>1. pc' # "cli" /\ UNCHANGED <<optind, layers>>
      BY <1>1, <2>2 DEF CliDone, exit
    <3> QED
      BY <3>1, <1>2, <1>3 DEF SearchInv
  <2> QED
    BY <2>1, <2>2
<1>8. pc' = "find" => layers' = ~Given("no_config_layers")'
  <2> SUFFICES ASSUME pc' = "find" PROVE layers' = ~Given("no_config_layers")'
    OBVIOUS
  <2>1. CliDone
    BY <1>1 DEF CliOption, exit
  <2>2. optind = Len(argv) + 1 /\ layers' = layers
    BY <1>3, <2>1 DEF CliDone
  <2>3. GivenSoFar("no_config_layers") <=> Given("no_config_layers")
    BY <1>3, <2>2 DEF GivenSoFar, Given
  <2> QED
    BY <1>1, <1>4, <2>2, <2>3
<1>9. /\ found_at_least_1' = FALSE /\ places_read' = <<>>
      /\ case_num' \in 1..6 /\ places_read' \in Seq(Place)
      /\ exit_status' = "EX_CONFIG" => pc' = "exit"
  BY <1>1, <1>2, <1>5 DEF SearchInv
<1>10. /\ pc' \in {"cli", "find", "parse", "keys", "done", "exit"}
       /\ pc' \notin {"parse", "keys"}
  BY <1>5
<1>11. pc' \notin {"cli", "exit"} => layers' = ~Given("no_config_layers")'
  BY <1>5, <1>8
<1>12. pc' = "cli" => /\ layers' = ~GivenSoFar("no_config_layers")'
                      /\ places_read' = <<>> /\ ~found_at_least_1'
  BY <1>7, <1>9
<1>13. /\ pc' = "find" => (found_at_least_1' <=> places_read' # <<>>)
       /\ found_at_least_1' \in BOOLEAN
  BY <1>9
<1>14. layers' \in BOOLEAN /\ (optind \in 1..(Len(argv) + 1))'
  BY <1>7
<1>15. /\ pc' \in {"parse", "keys"} => places_read' # <<>>
       /\ exit_status' = "EX_CONFIG" => pc' = "exit"
  BY <1>9, <1>10
<1>16. case_num' \in 1..6 /\ places_read' \in Seq(Place)
  BY <1>9
<1> QED
  BY <1>3, <1>6, <1>10, <1>11, <1>12, <1>13, <1>14, <1>15, <1>16, Zenon DEF SearchInv

LEMMA SearchFind ==
  ASSUME SearchInv, ConfigFind
  PROVE  SearchInv'
<1> DEFINE first == FirstOpened
           place == Places[first]
<1>1. /\ pc = "find" /\ pc' = "parse" /\ LooksFor /\ first \in DOMAIN Places
      /\ case_num' = CaseOf[place] + 1 /\ config_path' = place
      /\ places_read' = Append(places_read, place)
      /\ UNCHANGED <<environment, optind, layers, found_at_least_1, exit_status>>
  BY DEF ConfigFind, config_file_find
<1>2. UNCHANGED <<argv, files, same_dir>>
  BY <1>1 DEF environment
<1>3. \A option : Given(option)' <=> Given(option)
  BY <1>2 DEF Given
<1>4. \A p : (Readable(p))' <=> Readable(p)
  BY <1>2, <1>3 DEF Readable
<1>5. first \in 1..6 /\ place \in Place /\ CaseOf[place] \in 1..5 /\ Opens(first)
  BY <1>1, PlacesInOrder, FirstIsLeast
<1>6. Readable(place)
  BY <1>1, OpensReadable
<1>7. PICK n \in Nat : n = Len(places_read)
  BY DEF SearchInv
<1>8. /\ places_read \in Seq(Place) /\ places_read' \in Seq(Place)
      /\ Len(places_read') = n + 1 /\ places_read'[n + 1] = place
      /\ \A i \in 1..n : places_read'[i] = places_read[i]
      /\ DOMAIN places_read' = 1..(n + 1) /\ DOMAIN places_read = 1..n
      /\ places_read' # <<>>
  <2> HIDE DEF place
  <2>1. places_read \in Seq(Place)
    BY DEF SearchInv
  <2> QED
    BY <1>1, <1>5, <1>7, <2>1
<1>9. Range(places_read') = Range(places_read) \cup {place}
  <2> HIDE DEF place
  <2>1. \A i : i \in 1..(n + 1) <=> i \in 1..n \/ i = n + 1
    BY <1>7
  <2> QED
    BY <1>8, <2>1 DEF Range
<1>10. ASSUME NEW p \in Place
       PROVE  (Tried(p) /\ Readable(p))' <=> p \in Range(places_read')
  <2>1. CaseOf[p] \in 1..5
    BY PlacesInOrder DEF Place
  <2>2. Tried(p)' <=> CaseOf[p] <= CaseOf[place]
    BY <1>1, <1>5, <2>1 DEF Tried
  <2>3. CaseOf[p] <= CaseOf[place] /\ Readable(p) <=> p \in Range(places_read) \/ p = place
    BY <1>1, UpToOpened
  <2> QED
    BY <1>4, <1>9, <2>2, <2>3
<1>11. Given("no_config_layers") => n = 0
  <2> SUFFICES ASSUME Given("no_config_layers") PROVE n = 0
    OBVIOUS
  <2>1. ~layers /\ ~found_at_least_1
    BY <1>1 DEF LooksFor, SearchInv
  <2>2. places_read = <<>>
    BY <1>1, <2>1 DEF SearchInv
  <2> QED
    BY <1>7, <2>2
<1>12. ASSUME NEW p \in Place, Readable(p), Before(p, place)
       PROVE  \E j \in 1..n : places_read[j] = p
  <2>1. PICK i \in 1..6 : p = Places[i]
    BY PlacesInOrder DEF Place
  <2>2. i < first
    BY <1>5, <1>12, <2>1, BeforeIs
  <2>3. ~Opens(i)
    BY <1>5, <2>1, <2>2, FirstIsLeast
  <2>4. p \in Range(places_read)
    BY <1>12, <2>1, <2>3, ReadOrOpens
  <2> QED
    BY <1>8, <2>4 DEF Range
<1>13. ASSUME NEW j \in 1..n PROVE Before(places_read[j], place)
  <2>1. places_read[j] \in Place /\ places_read[j] \in Range(places_read)
    BY <1>8 DEF Range
  <2>2. Tried(places_read[j]) /\ case_num \in 1..6
    BY <2>1 DEF SearchInv
  <2>3. PICK i \in 1..6 : places_read[j] = Places[i]
    BY <2>1, PlacesInOrder DEF Place
  <2>4. CaseOf[places_read[j]] < CaseOf[place]
    BY <1>5, <2>2, <2>3, PlacesInOrder DEF Opens, IsTried, Tried
  <2>5. i < first
    <3>1. CASE i = first
      BY <1>5, <2>3, <2>4, <3>1
    <3>2. CASE first < i
      BY <1>5, <2>3, <2>4, <3>2, PlacesInOrder
    <3> QED
      BY <1>5, <3>1, <3>2
  <2> QED
    BY <1>5, <2>3, <2>5, BeforeIs
<1>14. FilesInOrder'
  <2>1. ASSUME NEW i \in 1..(n + 1)
        PROVE  /\ Readable(places_read'[i])
               /\ \A j \in 1..i - 1 : Before(places_read'[j], places_read'[i])
               /\ \A p \in Place : Readable(p) /\ Before(p, places_read'[i]) =>
                    \E j \in 1..i - 1 : places_read'[j] = p
    <3>1. CASE i = n + 1
      <4>1. i - 1 = n
        BY <1>7, <3>1
      <4> HIDE DEF place
      <4> QED
        BY <1>6, <1>8, <1>12, <1>13, <3>1, <4>1
    <3>2. CASE i \in 1..n
      <4>1. \A j \in 1..i - 1 : j \in 1..n
        BY <1>7, <3>2
      <4>2. FilesInOrder
        BY DEF SearchInv
      <4>3. /\ Readable(places_read[i])
            /\ \A j \in 1..i - 1 : Before(places_read[j], places_read[i])
            /\ \A p \in Place : Readable(p) /\ Before(p, places_read[i]) =>
                 \E j \in 1..i - 1 : places_read[j] = p
        <5>1. i \in DOMAIN places_read
          BY <1>8, <3>2
        <5> QED
          BY <4>2, <5>1, Zenon DEF FilesInOrder
      <4>4. places_read'[i] = places_read[i]
        BY <1>8, <3>2
      <4>5. \A j \in 1..i - 1 : places_read'[j] = places_read[j]
        BY <1>8, <4>1
      <4> HIDE DEF place
      <4> QED
        BY <4>3, <4>4, <4>5, Zenon
    <3> QED
      BY <1>7, <3>1, <3>2
  <2>2. Given("no_config_layers") => Len(places_read') <= 1
    BY <1>7, <1>8, <1>11
  <2> HIDE DEF place, first
  <2> QED
    BY <1>1, <1>3, <1>4, <1>8, <2>1, <2>2 DEF FilesInOrder, Before
<1>15. (IsList(argv))' /\ (optind \in 1..(Len(argv) + 1))'
      /\ layers' = ~Given("no_config_layers")'
  BY <1>1, <1>2, <1>3 DEF SearchInv
<1>16. /\ layers' \in BOOLEAN /\ found_at_least_1' \in BOOLEAN /\ case_num' \in 1..6
       /\ exit_status' # "EX_CONFIG"
  BY <1>1, <1>5 DEF SearchInv
<1> QED
  BY <1>1, <1>8, <1>10, <1>14, <1>15, <1>16 DEF SearchInv

LEMMA SearchFound ==
  ASSUME SearchInv, ConfigFound
  PROVE  SearchInv'
<1>1. /\ pc = "find" /\ UNCHANGED <<environment, optind, layers, searchVars>>
      /\ ~LooksFor \/ FirstOpened \notin DOMAIN Places
  BY DEF ConfigFound
<1>2. CASE found_at_least_1
  <2>1. pc' = "done" /\ exit_status' = exit_status
    BY <1>2 DEF ConfigFound
  <2>2. UNCHANGED <<argv, files, same_dir, case_num, places_read, layers, optind,
                    found_at_least_1>>
    BY <1>1 DEF environment, searchVars
  <2>3. \A option : Given(option)' <=> Given(option)
    BY <2>2 DEF Given
  <2>4. \A p : (Readable(p))' <=> Readable(p)
    BY <2>2, <2>3 DEF Readable
  <2>5. places_read # <<>>
    BY <1>1, <1>2 DEF SearchInv
  <2>6. \/ Given("no_config_layers")
        \/ \A p \in Place : Readable(p) => p \in Range(places_read)
    <3>1. CASE ~LooksFor
      BY <1>1, <3>1 DEF LooksFor, SearchInv
    <3>2. CASE FirstOpened \notin DOMAIN Places
      <4>1. \A i \in 1..6 : ~Opens(i)
        BY <3>2, FirstIsLeast
      <4>2. ASSUME NEW p \in Place, Readable(p) PROVE p \in Range(places_read)
        <5>1. PICK i \in 1..6 : p = Places[i]
          BY PlacesInOrder DEF Place
        <5> QED
          BY <4>1, <4>2, <5>1, ReadOrOpens
      <4> QED
        BY <4>2
    <3> QED
      BY <1>1, <3>1, <3>2
  <2>7. FilesInOrder'
    BY <2>2, <2>3, <2>4, <2>5, <2>6 DEF SearchInv, FilesInOrder
  <2>8. \A p \in Place : (Tried(p) /\ Readable(p))' <=> p \in Range(places_read')
    BY <2>2, <2>4 DEF SearchInv, Tried
  <2>9. (IsList(argv))' /\ (optind \in 1..(Len(argv) + 1))'
        /\ layers' = ~Given("no_config_layers")'
    BY <1>1, <2>2, <2>3 DEF SearchInv
  <2>10. /\ layers' \in BOOLEAN /\ found_at_least_1' \in BOOLEAN
         /\ case_num' \in 1..6 /\ places_read' \in Seq(Place)
    BY <2>2 DEF SearchInv
  <2>11. exit_status' # "EX_CONFIG"
    BY <1>1, <2>1 DEF SearchInv
  <2> QED
    BY <2>1, <2>7, <2>8, <2>9, <2>10, <2>11 DEF SearchInv
<1>3. CASE ~found_at_least_1
  BY <1>1, <1>3, SearchKept DEF ConfigFound, exit
<1> QED
  BY <1>2, <1>3

\* Where the program ends with EX_CONFIG before any file, there is none.
LEMMA NoneReadable ==
  ASSUME SearchInv, ConfigFound, ~found_at_least_1
  PROVE  places_read = <<>> /\ \A p \in Place : ~Readable(p)
<1>1. pc = "find" /\ places_read = <<>> /\ FirstOpened \notin DOMAIN Places
  BY DEF ConfigFound, LooksFor, SearchInv
<1>2. \A i \in 1..6 : ~Opens(i)
  BY <1>1, FirstIsLeast
<1>3. Range(places_read) = {}
  BY <1>1 DEF Range
<1> QED
  BY <1>1, <1>2, <1>3, PlacesInOrder, ReadOrOpens DEF Place

LEMMA SearchStep ==
  ASSUME SearchInv, [ConfigNext]_configVars
  PROVE  SearchInv'
<1>1. CASE ConfigNext
  BY <1>1, SearchCli, SearchFind, SearchFound, SearchParse, SearchParseEnds DEF ConfigNext
<1>2. CASE UNCHANGED configVars
  <2>1. UNCHANGED <<argv, files, same_dir, case_num, places_read, layers, optind,
                    found_at_least_1, pc, exit_status>>
    BY <1>2 DEF configVars, environment, searchVars
  <2>2. \A option : Given(option)' <=> Given(option)
    BY <2>1 DEF Given
  <2>3. \A p : (Readable(p))' <=> Readable(p)
    BY <2>1, <2>2 DEF Readable
  <2>4. FilesInOrder'
    BY <2>1, <2>2, <2>3 DEF SearchInv, FilesInOrder
  <2>5. \A p \in Place : (Tried(p) /\ Readable(p))' <=> p \in Range(places_read')
    BY <2>1, <2>3 DEF SearchInv, Tried
  <2>6. (IsList(argv))' /\ (optind \in 1..(Len(argv) + 1))'
        /\ Given("no_config_layers")' = Given("no_config_layers")
        /\ GivenSoFar("no_config_layers")' = GivenSoFar("no_config_layers")
    BY <2>1, <2>2 DEF SearchInv, Given, GivenSoFar
  <2>7. /\ pc' \in {"cli", "find", "parse", "keys", "done", "exit"}
        /\ pc' = "cli" => /\ layers' = ~GivenSoFar("no_config_layers")'
                          /\ places_read' = <<>> /\ ~found_at_least_1'
        /\ pc' \notin {"cli", "exit"} => layers' = ~Given("no_config_layers")'
    BY <2>1, <2>6 DEF SearchInv
  <2>8. /\ layers' \in BOOLEAN /\ found_at_least_1' \in BOOLEAN
        /\ case_num' \in 1..6 /\ places_read' \in Seq(Place)
        /\ pc' = "find" => (found_at_least_1' <=> places_read' # <<>>)
        /\ pc' \in {"parse", "keys"} => places_read' # <<>>
        /\ exit_status' = "EX_CONFIG" => pc' = "exit"
    BY <2>1 DEF SearchInv
  <2> QED
    BY <2>4, <2>5, <2>6, <2>7, <2>8 DEF SearchInv
<1> QED
  BY <1>1, <1>2

LEMMA SearchAlways == ConfigSpec => []SearchInv
<1>1. ConfigInit => SearchInv
  BY SearchInit
<1>2. SearchInv /\ [ConfigNext]_configVars => SearchInv'
  BY SearchStep
<1> QED
  BY <1>1, <1>2, PTL DEF ConfigSpec

\* The readable files are read in the order config_file_find() tries their places
\* in, none twice and none left out before another; of those of XDG_CONFIG_DIRS
\* only one is read, without layers only the first of all.
THEOREM FilesAreInOrder == ConfigSpec => []FilesInOrder
<1>1. SearchInv => FilesInOrder
  BY DEF SearchInv
<1> QED
  BY <1>1, SearchAlways, PTL

-----------------------------------------------------------------------------
(***************************************************************************)
(* What the functions that parse the values of keys do to the options and  *)
(* to the number of errors.                                                *)
(***************************************************************************)

AreOptions(o) ==
  /\ o = [value |-> o.value, set |-> o.set, std_c_includes |-> o.std_c_includes]
  /\ o.value = [x \in Option |-> o.value[x]]
  /\ IsList(o.std_c_includes)

\* As Hidden, of any options.
HiddenIn(o) ==
  {option \in WordOption : IsSet(o, option)}
    \cup {key \in {"std_c_includes"} : o.std_c_includes # <<>>}

KeyNames == {k.key : k \in CONFIG_KEYS}

\* What a key without an error adds to the list of standard includes.
ListsAs(o, key, v, p) ==
  /\ key = "add_c_includes" =>
       Range(p.std_c_includes) = Range(o.std_c_includes) \cup StringsOf(v)
  /\ key = "std_c_includes" /\ o.std_c_includes = <<>> =>
       Range(p.std_c_includes) = StringsOf(v)
  /\ key \notin {"add_c_includes", "std_c_includes"} =>
       p.std_c_includes = o.std_c_includes
  /\ key = "std_c_includes" /\ o.std_c_includes # <<>> =>
       p.std_c_includes = o.std_c_includes

\* An error is made for a value that is wrong, unless nobody looks at it; without
\* one the key sets its option, if it is not set.
ParsedAs(o, e, key, v, r) ==
  /\ r.errors \in Nat /\ r.errors >= e /\ AreOptions(r.opts)
  /\ HiddenIn(o) \subseteq HiddenIn(r.opts)
  /\ r.errors > e => ~IsValue(key, v)
  /\ r.errors = e =>
       /\ IsValue(key, v) \/ key \in HiddenIn(o)
       /\ r.opts.set = o.set \cup ({key} \cap Option)
       /\ \A x \in Option :
            r.opts.value[x] = IF x = key /\ ~IsSet(o, key) THEN v.v ELSE o.value[x]
       /\ ListsAs(o, key, v, r.opts)

LEMMA Marked ==
  ASSUME NEW o, AreOptions(o), NEW option
  PROVE  /\ AreOptions(MarkSet(o, option))
         /\ MarkSet(o, option).value = o.value
         /\ MarkSet(o, option).set = o.set \cup {option}
         /\ MarkSet(o, option).std_c_includes = o.std_c_includes
<1>1. MarkSet(o, option) = [value |-> o.value, set |-> o.set \cup {option},
                            std_c_includes |-> o.std_c_includes]
  BY DEF MarkSet, AreOptions
<1> QED
  BY <1>1 DEF AreOptions

LEMMA OptionSet ==
  ASSUME NEW o, AreOptions(o), NEW option \in Option, NEW v
  PROVE  /\ AreOptions(SetOption(o, option, v))
         /\ SetOption(o, option, v).set = o.set
         /\ SetOption(o, option, v).std_c_includes = o.std_c_includes
         /\ SetOption(o, option, v).value[option] = v
         /\ \A x \in Option : x # option => SetOption(o, option, v).value[x] = o.value[x]
<1>1. SetOption(o, option, v) =
        [value |-> [o.value EXCEPT ![option] = v], set |-> o.set,
         std_c_includes |-> o.std_c_includes]
  BY DEF SetOption, AreOptions
<1>2. [o.value EXCEPT ![option] = v] =
        [x \in Option |-> IF x = option THEN v ELSE o.value[x]]
  BY DEF AreOptions
<1> QED
  BY <1>1, <1>2 DEF AreOptions

LEMMA HiddenKept ==
  ASSUME NEW o, NEW p, o.set \subseteq p.set,
         o.std_c_includes # <<>> => p.std_c_includes # <<>>
  PROVE  HiddenIn(o) \subseteq HiddenIn(p)
BY DEF HiddenIn, IsSet

\* A key that is right.
LEMMA RightIs ==
  ASSUME NEW o, NEW e \in Nat, NEW key, NEW v, NEW p, AreOptions(p),
         HiddenIn(o) \subseteq HiddenIn(p), IsValue(key, v) \/ key \in HiddenIn(o),
         p.set = o.set \cup ({key} \cap Option), ListsAs(o, key, v, p),
         \A x \in Option : p.value[x] = IF x = key /\ ~IsSet(o, key) THEN v.v ELSE o.value[x]
  PROVE  ParsedAs(o, e, key, v, [opts |-> p, errors |-> e])
<1>1. PICK r : r = [opts |-> p, errors |-> e]
  OBVIOUS
<1>2. r.opts = p /\ r.errors = e
  BY <1>1
<1>3. e \in Nat /\ e >= e /\ ~(e > e)
  OBVIOUS
<1>4. ParsedAs(o, e, key, v, r)
  BY <1>2, <1>3, Zenon DEF ParsedAs
<1> QED
  BY <1>1, <1>4

\* A key of an option.
LEMMA SetIfUnsetIs ==
  ASSUME NEW o, AreOptions(o), NEW e \in Nat, NEW option \in Option, NEW v,
         IsValue(option, v) \/ option \in HiddenIn(o)
  PROVE  ParsedAs(o, e, option, v, SetIfUnset([opts |-> o, errors |-> e], option, v.v))
<1> DEFINE r == SetIfUnset([opts |-> o, errors |-> e], option, v.v)
<1>1. CASE IsSet(o, option)
  <2>1. r = [opts |-> o, errors |-> e]
    BY <1>1 DEF SetIfUnset
  <2>2. option \in o.set
    BY <1>1 DEF IsSet
  <2>3. ListsAs(o, option, v, o)
    BY DEF ListsAs, Option, WordOption
  <2>4. o.set = o.set \cup ({option} \cap Option)
    BY <2>2
  <2>5. \A x \in Option :
          o.value[x] = IF x = option /\ ~IsSet(o, option) THEN v.v ELSE o.value[x]
    BY <1>1
  <2> HIDE DEF r
  <2>6. ParsedAs(o, e, option, v, r)
    BY <2>1, <2>3, <2>4, <2>5, RightIs
  <2> QED
    BY <2>6 DEF r
<1>2. CASE ~IsSet(o, option)
  <2>1. r = [opts |-> MarkSet(SetOption(o, option, v.v), option), errors |-> e]
    BY <1>2 DEF SetIfUnset
  <2>2. /\ AreOptions(SetOption(o, option, v.v))
        /\ SetOption(o, option, v.v).set = o.set
        /\ SetOption(o, option, v.v).std_c_includes = o.std_c_includes
        /\ SetOption(o, option, v.v).value[option] = v.v
        /\ \A x \in Option : x # option => SetOption(o, option, v.v).value[x] = o.value[x]
    BY OptionSet
  <2>3. /\ AreOptions(r.opts) /\ r.opts.value = SetOption(o, option, v.v).value
        /\ r.opts.set = o.set \cup {option} /\ r.opts.std_c_includes = o.std_c_includes
        /\ r.errors = e
    BY <2>1, <2>2, Marked
  <2> HIDE DEF r
  <2>4. HiddenIn(o) \subseteq HiddenIn(r.opts)
    BY <2>3, HiddenKept
  <2>5. ListsAs(o, option, v, r.opts)
    BY <2>3 DEF ListsAs, Option, WordOption
  <2>6. r.opts.set = o.set \cup ({option} \cap Option)
    BY <2>3
  <2>7. \A x \in Option :
          r.opts.value[x] = IF x = option /\ ~IsSet(o, option) THEN v.v ELSE o.value[x]
    BY <1>2, <2>2, <2>3
  <2>8. r = [opts |-> r.opts, errors |-> e]
    BY <2>1 DEF r
  <2>9. ParsedAs(o, e, option, v, [opts |-> r.opts, errors |-> e])
    BY <2>3, <2>4, <2>5, <2>6, <2>7, RightIs
  <2>10. ParsedAs(o, e, option, v, r)
    BY <2>8, <2>9
  <2> QED
    BY <2>10 DEF r
<1> QED
  BY <1>1, <1>2

\* A wrong value.
LEMMA ErrorIs ==
  ASSUME NEW o, AreOptions(o), NEW e \in Nat, NEW n \in Nat, n > 0, NEW key, NEW v,
         ~IsValue(key, v)
  PROVE  ParsedAs(o, e, key, v, Error([opts |-> o, errors |-> e], n))
<1>1. Error([opts |-> o, errors |-> e], n) = [opts |-> o, errors |-> e + n]
  BY DEF Error
<1>2. e + n \in Nat /\ e + n > e
  OBVIOUS
<1> QED
  BY <1>1, <1>2 DEF ParsedAs

LEMMA WordIs ==
  ASSUME NEW o, AreOptions(o), NEW e \in Nat, NEW option \in WordOption, NEW v
  PROVE  ParsedAs(o, e, option, v, word_parse([opts |-> o, errors |-> e], option, v))
<1> DEFINE acc == [opts |-> o, errors |-> e]
           r == word_parse(acc, option, v)
<1>1. option \in Option /\ acc.opts = o
  BY DEF Option
<1>2. IsValue(option, v) <=> v.type = "string" /\ v.v \in Words[option]
  BY DEF IsValue, WordOption
<1>3. CASE v.type # "string"
  <2>1. r = Error(acc, 1)
    BY <1>3 DEF word_parse
  <2> QED
    BY <1>2, <1>3, <2>1, ErrorIs
<1>4. CASE v.type = "string" /\ (IsSet(o, option) \/ v.v \in Words[option])
  <2>1. r = SetIfUnset(acc, option, v.v)
    BY <1>1, <1>4 DEF word_parse
  <2>2. IsValue(option, v) \/ option \in HiddenIn(o)
    BY <1>2, <1>4 DEF HiddenIn
  <2> QED
    BY <1>1, <2>1, <2>2, SetIfUnsetIs
<1>5. CASE v.type = "string" /\ ~(IsSet(o, option) \/ v.v \in Words[option])
  <2>1. ~IsValue(option, v)
    BY <1>2, <1>5
  <2>2. CASE option # "error"
    <3>1. r = Error(acc, 1)
      BY <1>1, <1>5, <2>2 DEF word_parse
    <3> QED
      BY <2>1, <3>1, ErrorIs
  <2>3. CASE option = "error"
    <3>1. r = Error([acc EXCEPT !.opts = MarkSet(@, option)], 1)
      BY <1>1, <1>5, <2>3 DEF word_parse
    <3>2. r = [opts |-> MarkSet(o, option), errors |-> e + 1]
      BY <3>1 DEF Error
    <3>3. /\ AreOptions(MarkSet(o, option))
          /\ MarkSet(o, option).set = o.set \cup {option}
          /\ MarkSet(o, option).std_c_includes = o.std_c_includes
      BY Marked
    <3>4. HiddenIn(o) \subseteq HiddenIn(MarkSet(o, option))
      BY <3>3, HiddenKept
    <3>5. e + 1 \in Nat /\ e + 1 > e
      OBVIOUS
    <3> HIDE DEF r
    <3>6. PICK p : p = MarkSet(o, option)
      OBVIOUS
    <3>7. r.opts = p /\ r.errors = e + 1
      BY <3>2, <3>6
    <3>8. ParsedAs(o, e, option, v, r)
      BY <2>1, <3>3, <3>4, <3>5, <3>6, <3>7 DEF ParsedAs
    <3> QED
      BY <3>8 DEF r
  <2> QED
    BY <2>2, <2>3
<1> QED
  BY <1>3, <1>4, <1>5

\* There is an error for a list, unless it is an array of strings.
LEMMA StringErrorsIs ==
  ASSUME NEW v, v.type = "array" => IsList(v.v),
         NEW key \in {"std_c_includes", "add_c_includes"}
  PROVE  StringErrors(v) \in Nat /\ (StringErrors(v) = 0 <=> IsValue(key, v))
<1>1. IsValue(key, v) <=> v.type = "array" /\ \A i \in DOMAIN v.v : v.v[i].type = "string"
  BY DEF IsValue, WordOption
<1>2. CASE v.type # "array"
  BY <1>1, <1>2 DEF StringErrors
<1>3. CASE v.type = "array"
  <2> DEFINE S == {i \in DOMAIN v.v : v.v[i].type # "string"}
  <2>1. StringErrors(v) = Cardinality(S)
    BY <1>3 DEF StringErrors
  <2>2. IsFiniteSet(DOMAIN v.v)
    BY <1>3, ListSeq
  <2>3. IsFiniteSet(S)
    BY <2>2, FS_Subset
  <2>4. Cardinality(S) \in Nat /\ (Cardinality(S) = 0 <=> S = {})
    BY <2>3, FS_CardinalityType, FS_EmptySet
  <2> QED
    BY <1>1, <1>3, <2>1, <2>4
<1> QED
  BY <1>2, <1>3

LEMMA PushBackIs ==
  ASSUME NEW o, AreOptions(o), NEW e \in Nat, NEW v, v.type = "array" => IsList(v.v),
         NEW key \in {"std_c_includes", "add_c_includes"},
         key = "std_c_includes" => o.std_c_includes = <<>>
  PROVE  ParsedAs(o, e, key, v, PushBack([opts |-> o, errors |-> e], v))
<1> DEFINE acc == [opts |-> o, errors |-> e]
           r == PushBack(acc, v)
<1>1. StringErrors(v) \in Nat /\ (StringErrors(v) = 0 <=> IsValue(key, v))
  BY StringErrorsIs
<1>2. CASE StringErrors(v) > 0
  <2>1. r = Error(acc, StringErrors(v)) /\ ~IsValue(key, v)
    BY <1>1, <1>2 DEF PushBack
  <2> QED
    BY <1>1, <1>2, <2>1, ErrorIs
<1>3. CASE StringErrors(v) = 0
  <2> DEFINE std == o.std_c_includes
  <2>1. PICK more : more = std \o Strings(v)
    OBVIOUS
  <2>2. PICK p : p = [value |-> o.value, set |-> o.set, std_c_includes |-> more]
    OBVIOUS
  <2>3. /\ r = [opts |-> p, errors |-> e]
        /\ p.value = o.value /\ p.set = o.set /\ p.std_c_includes = std \o Strings(v)
    <3>1. r = [acc EXCEPT !.opts.std_c_includes = more]
      BY <1>3, <2>1 DEF PushBack
    <3>2. r = [opts |-> [o EXCEPT !.std_c_includes = more], errors |-> e]
      BY <3>1
    <3>3. [o EXCEPT !.std_c_includes = more] = p
      BY <2>2 DEF AreOptions
    <3> HIDE DEF r
    <3> QED
      BY <2>1, <2>2, <3>2, <3>3
  <2>4. /\ IsList(v.v) /\ v.type = "array" /\ IsList(std)
        /\ \A i \in DOMAIN v.v : v.v[i].type = "string"
    BY <1>1, <1>3 DEF IsValue, WordOption, AreOptions
  <2>5. IsList(Strings(v)) /\ DOMAIN Strings(v) = DOMAIN v.v
    <3>1. DOMAIN v.v = 1..Len(v.v) /\ Len(v.v) \in Nat
      BY <2>4, ListSeq
    <3>2. Strings(v) \in Seq({v.v[i].v : i \in DOMAIN v.v})
      BY <3>1 DEF Strings
    <3> QED
      BY <3>2, SeqList DEF Strings
  <2>6. Range(Strings(v)) = StringsOf(v)
    BY <2>4, <2>5 DEF Range, Strings, StringsOf
  <2>7. /\ IsList(std \o Strings(v))
        /\ Range(std \o Strings(v)) = Range(std) \cup StringsOf(v)
        /\ std # <<>> => std \o Strings(v) # <<>>
    BY <2>4, <2>5, <2>6, ListConcat
  <2>8. std = <<>> => Range(std) = {}
    BY DEF Range
  <2>9. AreOptions(p)
    BY <2>1, <2>2, <2>3, <2>7 DEF AreOptions
  <2>10. HiddenIn(o) \subseteq HiddenIn(p)
    BY <2>3, <2>7, HiddenKept
  <2>11. ListsAs(o, key, v, p)
    BY <2>3, <2>7, <2>8 DEF ListsAs
  <2>12. key \notin Option
    BY DEF Option, WordOption
  <2>13. IsValue(key, v)
    BY <1>1, <1>3
  <2> HIDE DEF r
  <2>14. /\ p.set = o.set \cup ({key} \cap Option)
         /\ \A x \in Option : p.value[x] = IF x = key /\ ~IsSet(o, key) THEN v.v ELSE o.value[x]
    BY <2>3, <2>12
  <2>15. ParsedAs(o, e, key, v, r)
    BY <2>3, <2>9, <2>10, <2>11, <2>13, <2>14, RightIs
  <2> QED
    BY <2>15 DEF r
<1> QED
  BY <1>1, <1>2, <1>3

LEMMA ParseKeyIs ==
  ASSUME NEW o, AreOptions(o), NEW e \in Nat, NEW v, v.type = "array" => IsList(v.v),
         NEW key \in KeyNames
  PROVE  ParsedAs(o, e, key, v, ParseKey([opts |-> o, errors |-> e], key, v))
<1> DEFINE acc == [opts |-> o, errors |-> e]
           r == ParseKey(acc, key, v)
<1>1. CASE key = "align_column"
  <2>1. r = align_column_parse(acc, v) /\ key \in Option
    BY <1>1 DEF ParseKey, Option, WordOption
  <2>2. IsValue(key, v) <=> v.type = "int" /\ v.v \in 0..MaxColumn
    BY <1>1 DEF IsValue, WordOption
  <2>3. CASE IsValue(key, v)
    BY <1>1, <2>1, <2>2, <2>3, SetIfUnsetIs DEF align_column_parse
  <2>4. CASE ~IsValue(key, v)
    BY <1>1, <2>1, <2>2, <2>4, ErrorIs DEF align_column_parse
  <2> QED
    BY <2>3, <2>4
<1>2. CASE key = "all_includes"
  <2>1. r = all_includes_parse(acc, v) /\ key \in Option
    BY <1>2 DEF ParseKey, Option, WordOption
  <2>2. IsValue(key, v) <=> v.type = "bool"
    BY <1>2 DEF IsValue, WordOption
  <2>3. CASE IsValue(key, v)
    BY <1>2, <2>1, <2>2, <2>3, SetIfUnsetIs DEF all_includes_parse
  <2>4. CASE ~IsValue(key, v)
    BY <1>2, <2>1, <2>2, <2>4, ErrorIs DEF all_includes_parse
  <2> QED
    BY <2>3, <2>4
<1>3. CASE key \in WordOption
  BY <1>3, WordIs DEF ParseKey, WordOption
<1>4. CASE key = "std_c_includes"
  <2>1. r = std_c_includes_parse(acc, v)
    BY <1>4 DEF ParseKey, WordOption
  <2>2. CASE o.std_c_includes = <<>>
    <3>1. r = PushBack(acc, v)
      BY <2>1, <2>2 DEF std_c_includes_parse
    <3> QED
      BY <1>4, <2>2, <3>1, PushBackIs
  <2>3. CASE o.std_c_includes # <<>>
    <3>1. r = acc
      BY <2>1, <2>3 DEF std_c_includes_parse
    <3>2. key \in HiddenIn(o) /\ key \notin Option
      BY <1>4, <2>3 DEF HiddenIn, Option, WordOption
    <3>3. ListsAs(o, key, v, o)
      BY <1>4, <2>3 DEF ListsAs
    <3>4. /\ o.set = o.set \cup ({key} \cap Option)
          /\ \A x \in Option : o.value[x] = IF x = key /\ ~IsSet(o, key) THEN v.v ELSE o.value[x]
      BY <3>2
    <3> HIDE DEF r
    <3>5. ParsedAs(o, e, key, v, r)
      BY <3>1, <3>2, <3>3, <3>4, RightIs
    <3> QED
      BY <3>5 DEF r
  <2> QED
    BY <2>2, <2>3
<1>5. CASE key = "add_c_includes"
  <2>1. r = PushBack(acc, v)
    BY <1>5 DEF ParseKey, WordOption, add_c_includes_parse
  <2> QED
    BY <1>5, <2>1, PushBackIs
<1>6. CASE key \notin {"align_column", "all_includes", "std_c_includes", "add_c_includes"}
                        \cup WordOption
  <2>1. r = acc
    BY <1>6 DEF ParseKey
  <2>2. IsValue(key, v)
    BY <1>6 DEF IsValue
  <2>3. key \notin Option
    BY <1>6 DEF Option
  <2>4. ListsAs(o, key, v, o)
    BY <1>6 DEF ListsAs
  <2>5. /\ o.set = o.set \cup ({key} \cap Option)
        /\ \A x \in Option : o.value[x] = IF x = key /\ ~IsSet(o, key) THEN v.v ELSE o.value[x]
    BY <2>3
  <2> HIDE DEF r
  <2>6. ParsedAs(o, e, key, v, r)
    BY <2>1, <2>2, <2>4, <2>5, RightIs
  <2> QED
    BY <2>6 DEF r
<1> QED
  BY <1>1, <1>2, <1>3, <1>4, <1>5, <1>6

-----------------------------------------------------------------------------
(***************************************************************************)
(* The kinds that a table can be.                                          *)
(***************************************************************************)

Kinds == {"include-tidy", "header", "source", "symbol"}
KindSets == {{"include-tidy"}, {"header"}, {"header", "source"}, {"source"}, {"symbol"}}

LEMMA KeysDiffer ==
  /\ \A k \in CONFIG_KEYS : k.kinds \in KindSets /\ k.key \in KeyNames
  /\ \A k, l \in CONFIG_KEYS : k.name = l.name => k = l
  /\ \A k, l \in CONFIG_KEYS : k.key = l.key => k = l
<1>1. \A k \in CONFIG_KEYS : k.kinds \in KindSets /\ k.key \in KeyNames
  BY DEF CONFIG_KEYS, ConfigKey, KindSets, KeyNames
<1>2. \A k, l \in CONFIG_KEYS : k.name[1] = l.name[1] => k = l
  BY DEF CONFIG_KEYS, ConfigKey
<1>3. \A k, l \in CONFIG_KEYS : k.key = l.key => k = l
  BY DEF CONFIG_KEYS, ConfigKey
<1> QED
  BY <1>1, <1>2, <1>3

\* A key has one entry, or none.
LEMMA FoundIs ==
  ASSUME NEW name, config_key_find(name) # {}
  PROVE  LET key == CHOOSE k \in config_key_find(name) : TRUE
         IN  key \in CONFIG_KEYS /\ config_key_find(name) = {key}
<1> DEFINE found == config_key_find(name)
           key == CHOOSE k \in found : TRUE
<1>1. key \in found
  OBVIOUS
<1>2. \A k \in found : k \in CONFIG_KEYS /\ k.name = name
  BY DEF config_key_find
<1>3. \A k \in found : k = key
  BY <1>1, <1>2, KeysDiffer
<1> QED
  BY <1>1, <1>2, <1>3

\* Two sets of kinds that overlap are one in the other.
LEMMA Narrowing ==
  ASSUME NEW K \in KindSets, NEW key \in CONFIG_KEYS, K \cap key.kinds # {}
  PROVE  narrowed(K, key) = K \cap key.kinds /\ narrowed(K, key) \in KindSets
<1>1. PICK L \in KindSets : L = key.kinds
  BY KeysDiffer
<1>2. K # {}
  BY DEF KindSets
<1>3. K \subseteq L \/ L \subseteq K
  BY <1>1 DEF KindSets
<1>4. narrowed(K, key) = IF L \subseteq K THEN L ELSE K
  BY <1>1, <1>2 DEF narrowed
<1>5. CASE L \subseteq K
  <2>1. K \cap L = L
    BY <1>5
  <2> QED
    BY <1>1, <1>4, <1>5, <2>1
<1>6. CASE ~(L \subseteq K)
  <2>1. K \cap L = K
    BY <1>3, <1>6
  <2> QED
    BY <1>1, <1>4, <1>6, <2>1
<1> QED
  BY <1>5, <1>6

\* The table can be of this kind by its name and its first n keys.
Fits(kind, t, n) ==
  /\ t.name = INCLUDE_TIDY_NAME => kind = "include-tidy"
  /\ \A i \in 1..n : \E k \in config_key_find(t.kvs[i].name) : kind \in k.kinds

KindsOf(t, n) == {kind \in Kinds : Fits(kind, t, n)}

\* What ok_table_kinds says of the first n keys of a table.
KindsAgree(t, n, K) ==
  \/ K = {} /\ n = 0 /\ t.name # INCLUDE_TIDY_NAME
  \/ K = KindsOf(t, n) /\ K \in KindSets

LEMMA KindsBegin ==
  ASSUME NEW t
  PROVE  KindsAgree(t, 0, InitialKinds(t))
<1>1. CASE t.name = INCLUDE_TIDY_NAME
  <2>1. KindsOf(t, 0) = {"include-tidy"}
    BY <1>1 DEF KindsOf, Fits, Kinds
  <2> QED
    BY <1>1, <2>1 DEF KindsAgree, InitialKinds, KindSets
<1>2. CASE t.name # INCLUDE_TIDY_NAME
  BY <1>2 DEF KindsAgree, InitialKinds
<1> QED
  BY <1>1, <1>2

LEMMA FitsMore ==
  ASSUME NEW t, NEW n \in Nat, NEW kind
  PROVE  Fits(kind, t, n + 1) <=>
           /\ Fits(kind, t, n)
           /\ \E k \in config_key_find(t.kvs[n + 1].name) : kind \in k.kinds
<1>1. \A i : i \in 1..(n + 1) <=> i \in 1..n \/ i = n + 1
  OBVIOUS
<1> QED
  BY <1>1 DEF Fits

\* A key that has no kind in common with those so far makes the table no table; another
\* one narrows them to those in common.
LEMMA KindsGoOn ==
  ASSUME NEW t, NEW n \in Nat, NEW K, KindsAgree(t, n, K)
  PROVE  LET found == config_key_find(t.kvs[n + 1].name)
             key == CHOOSE k \in found : TRUE
             wrong == found = {} \/ (K # {} /\ K \cap key.kinds = {})
         IN  /\ wrong => \A kind \in Kinds : ~Fits(kind, t, n + 1)
             /\ ~wrong => KindsAgree(t, n + 1, narrowed(K, key))
<1> DEFINE found == config_key_find(t.kvs[n + 1].name)
           key == CHOOSE k \in found : TRUE
<1>1. CASE found = {}
  BY <1>1, FitsMore
<1>2. CASE found # {}
  <2>1. key \in CONFIG_KEYS /\ found = {key} /\ key.kinds \in KindSets
    BY <1>2, FoundIs, KeysDiffer
  <2>2. \A kind : Fits(kind, t, n + 1) <=> Fits(kind, t, n) /\ kind \in key.kinds
    BY <2>1, FitsMore
  <2>3. \A S \in KindSets : S # {} /\ S \subseteq Kinds
    BY DEF KindSets, Kinds
  <2> HIDE DEF found, key
  <2>4. CASE K = {} /\ n = 0 /\ t.name # INCLUDE_TIDY_NAME
    <3>1. \A kind : Fits(kind, t, 0)
      BY <2>4 DEF Fits
    <3>2. KindsOf(t, n + 1) = key.kinds
      BY <2>1, <2>2, <2>3, <2>4, <3>1 DEF KindsOf
    <3>3. narrowed(K, key) = key.kinds
      BY <2>4 DEF narrowed
    <3>4. KindsAgree(t, n + 1, narrowed(K, key))
      BY <2>1, <3>2, <3>3 DEF KindsAgree
    <3> QED
      BY <1>2, <2>4, <3>4 DEF found, key
  <2>5. CASE K = KindsOf(t, n) /\ K \in KindSets
    <3>1. K # {}
      BY <2>3, <2>5
    <3>2. KindsOf(t, n + 1) = K \cap key.kinds
      BY <2>2, <2>5 DEF KindsOf
    <3>3. CASE K \cap key.kinds = {}
      <4>1. \A kind \in Kinds : ~Fits(kind, t, n + 1)
        BY <3>2, <3>3 DEF KindsOf
      <4> QED
        BY <3>1, <3>3, <4>1 DEF found, key
    <3>4. CASE K \cap key.kinds # {}
      <4>1. KindsAgree(t, n + 1, narrowed(K, key))
        BY <2>1, <2>5, <3>2, <3>4, Narrowing DEF KindsAgree
      <4> QED
        BY <1>2, <3>4, <4>1 DEF found, key
    <3> QED
      BY <3>3, <3>4
  <2> QED
    BY <2>4, <2>5 DEF KindsAgree
<1> QED
  BY <1>1, <1>2

\* A table is one if a kind fits all of its keys.
LEMMA TableIs ==
  ASSUME NEW t, IsList(t.kvs), t.name # NoName
  PROVE  IsTable(t) <=> \E kind \in Kinds : Fits(kind, t, Len(t.kvs))
<1>1. DOMAIN t.kvs = 1..Len(t.kvs)
  BY ListSeq
<1> QED
  BY <1>1 DEF IsTable, Fits, Kinds

\* The kinds of all keys agree, so it is a table.
LEMMA KindsEnd ==
  ASSUME NEW t, IsList(t.kvs), t.name # NoName, NEW K, KindsAgree(t, Len(t.kvs), K)
  PROVE  IsTable(t)
<1>1. \E kind \in Kinds : Fits(kind, t, Len(t.kvs))
  <2>1. CASE K = {} /\ Len(t.kvs) = 0 /\ t.name # INCLUDE_TIDY_NAME
    BY <2>1 DEF Fits, Kinds
  <2>2. CASE K = KindsOf(t, Len(t.kvs)) /\ K \in KindSets
    <3>1. K # {}
      BY <2>2 DEF KindSets
    <3> QED
      BY <2>2, <3>1 DEF KindsOf
  <2> QED
    BY <2>1, <2>2 DEF KindsAgree
<1> QED
  BY <1>1, TableIs

\* Fewer keys fit whatever more keys fit.
LEMMA FitsFewer ==
  ASSUME NEW t, NEW n \in Nat, NEW m \in 0..n, NEW kind, Fits(kind, t, n)
  PROVE  Fits(kind, t, m)
<1>1. \A i \in 1..m : i \in 1..n
  OBVIOUS
<1> QED
  BY <1>1 DEF Fits

\* What is right stays so when more is hidden.
LEMMA RightStays ==
  ASSUME NEW t, NEW h, NEW g, h \subseteq g, IsRight(t, h)
  PROVE  IsRight(t, g)
BY DEF IsRight

-----------------------------------------------------------------------------
(***************************************************************************)
(* What is refused.                                                        *)
(***************************************************************************)

\* The values of the first n keys are right, or hidden.
ValuesRight(t, n, hidden) ==
  \A i \in 1..n : \A k \in config_key_find(t.kvs[i].name) :
    IsValue(k.key, t.kvs[i].value) \/ k.key \in hidden

KeysInv ==
  pc = "keys" =>
    /\ tables # <<>> /\ toml.out = tables[Len(tables)] /\ toml.out.name # NoName
    /\ next_key \in 1..Len(toml.out.kvs)
    /\ error_count = 0 =>
         /\ KindsAgree(toml.out, next_key - 1, ok_table_kinds)
         /\ ValuesRight(toml.out, next_key - 1, HiddenIn(opts))

\* The tables before the one whose keys are being parsed.
TablesInv ==
  pc \notin {"cli", "exit"} /\ error_count = 0 =>
    \A i \in DOMAIN tables :
      (pc = "keys" /\ i = Len(tables)) \/ IsRight(tables[i], HiddenIn(opts))

SomeWrong == \E i \in DOMAIN tables : ~IsRight(tables[i], {})

ExitInv ==
  exit_status = "EX_CONFIG" =>
    \/ places_read = <<>> /\ \A p \in Place : ~Readable(p)
    \/ toml.error # "NONE"
    \/ SomeWrong

ParseInv ==
  /\ error_count \in Nat /\ IsList(tables) /\ AreOptions(opts)
  /\ pc \in {"cli", "find", "done"} => error_count = 0
  /\ pc = "cli" => tables = <<>>
  /\ KeysInv
  /\ TablesInv
  /\ pc \in {"parse", "keys"} /\ error_count > 0 => SomeWrong
  /\ ExitInv

LEMMA ParseInit == ConfigInit => ParseInv
<1> SUFFICES ASSUME ConfigInit PROVE ParseInv
  OBVIOUS
<1>1. /\ pc = "cli" /\ error_count = 0 /\ tables = <<>> /\ exit_status = "none"
      /\ opts = [value |-> DefaultOptions, set |-> {}, std_c_includes |-> <<>>]
  BY DEF ConfigInit
<1>2. AreOptions(opts)
  <2>1. DefaultOptions = [x \in Option |-> DefaultOptions[x]]
    BY DEF DefaultOptions, Option, WordOption
  <2> QED
    BY <1>1, <2>1 DEF AreOptions, IsList
<1>3. IsList(tables)
  BY <1>1 DEF IsList
<1> QED
  BY <1>1, <1>2, <1>3 DEF ParseInv, KeysInv, TablesInv, ExitInv

\* One option of the command line.
LEMMA CliOptionIs ==
  ASSUME NEW o, AreOptions(o), NEW arg
  PROVE  AreOptions(MarkSet(ParseOption(o, arg), arg.option))
<1>1. AreOptions(ParseOption(o, arg))
  <2>1. CASE arg.option \notin Option
    BY <2>1 DEF ParseOption, Option, WordOption
  <2>2. CASE arg.option \in Option
    <3> DEFINE set == SetOption(o, arg.option, ArgValue(arg))
    <3>1. AreOptions(set)
      BY <2>2, OptionSet
    <3>2. AreOptions(SetOption(set, "all_includes", TRUE))
      <4> HIDE DEF set
      <4>1. "all_includes" \in Option
        BY DEF Option
      <4> QED
        BY <3>1, <4>1, OptionSet
    <3>3. ParseOption(o, arg) = set \/ ParseOption(o, arg) = SetOption(set, "all_includes", TRUE)
      BY <2>2 DEF ParseOption
    <3> QED
      BY <3>1, <3>2, <3>3
  <2> QED
    BY <2>1, <2>2
<1> QED
  BY <1>1, Marked

LEMMA ParseCli ==
  ASSUME SearchInv, ParseInv, CliOption \/ CliDone
  PROVE  ParseInv'
<1>1. /\ pc = "cli" /\ tables = <<>> /\ error_count = 0 /\ exit_status # "EX_CONFIG"
      /\ pc' \in {"cli", "exit", "find"} /\ exit_status' # "EX_CONFIG"
      /\ UNCHANGED <<tables, error_count>>
  <2>1. pc = "cli" /\ exit_status # "EX_CONFIG"
    BY DEF CliOption, CliDone, SearchInv
  <2>2. UNCHANGED <<tables, error_count>>
    BY DEF CliOption, CliDone, parseVars
  <2>3. pc' \in {"cli", "exit", "find"} /\ exit_status' # "EX_CONFIG"
    <3>1. CASE CliOption
      BY <2>1, <3>1 DEF CliOption, exit
    <3>2. CASE CliDone
      BY <2>1, <3>2 DEF CliDone, exit
    <3> QED
      BY <3>1, <3>2
  <2> QED
    BY <2>1, <2>2, <2>3 DEF ParseInv
<1>2. AreOptions(opts')
  <2>1. opts' = opts \/ opts' = MarkSet(ParseOption(opts, argv[optind]), argv[optind].option)
    BY DEF CliOption, CliDone
  <2> QED
    BY <2>1, CliOptionIs DEF ParseInv
<1>3. IsList(tables') /\ error_count' = 0 /\ tables' = <<>> /\ DOMAIN tables' = {}
  BY <1>1 DEF ParseInv
<1> QED
  BY <1>1, <1>2, <1>3 DEF ParseInv, KeysInv, TablesInv, ExitInv

LEMMA ParseFind ==
  ASSUME SearchInv, ParseInv, ConfigFind
  PROVE  ParseInv'
<1>1. /\ pc = "find" /\ pc' = "parse" /\ tables' = <<>>
      /\ UNCHANGED <<opts, error_count, exit_status>>
  BY DEF ConfigFind
<1>2. error_count' = 0 /\ AreOptions(opts') /\ exit_status' # "EX_CONFIG"
  BY <1>1 DEF ParseInv, SearchInv
<1>3. IsList(tables') /\ DOMAIN tables' = {}
  BY <1>1 DEF IsList
<1> QED
  BY <1>1, <1>2, <1>3 DEF ParseInv, KeysInv, TablesInv, ExitInv

LEMMA ParseFound ==
  ASSUME SearchInv, ParseInv, ConfigFound \/ ConfigFatal
  PROVE  ParseInv'
<1>1. /\ pc = "find" /\ pc' \in {"done", "exit"} /\ error_count = 0
      /\ UNCHANGED <<environment, searchVars, parseVars, opts, error_count>>
  BY DEF ConfigFound, ConfigFatal, exit, ParseInv
<1>2. UNCHANGED <<argv, files, same_dir, places_read, tables, toml, opts, error_count>>
  BY <1>1 DEF environment, searchVars, parseVars
<1>3. \A option : Given(option)' <=> Given(option)
  BY <1>2 DEF Given
<1>4. \A p : (Readable(p))' <=> Readable(p)
  BY <1>2, <1>3 DEF Readable
<1>5. ExitInv'
  <2> SUFFICES ASSUME exit_status' = "EX_CONFIG"
               PROVE  places_read' = <<>> /\ \A p \in Place : ~(Readable(p))'
    BY DEF ExitInv
  <2>1. exit_status # "EX_CONFIG"
    BY <1>1 DEF SearchInv
  <2>2. ConfigFound /\ ~found_at_least_1
    BY <2>1 DEF ConfigFound, ConfigFatal, exit
  <2> QED
    BY <1>2, <1>4, <2>2, NoneReadable
<1>6. TablesInv'
  BY <1>1, <1>2 DEF ParseInv, TablesInv
<1> QED
  BY <1>1, <1>2, <1>5, <1>6 DEF ParseInv, KeysInv

LEMMA ParseTable ==
  ASSUME SearchInv, ParseInv, TablesAreLists', TableBegins
  PROVE  ParseInv'
<1> DEFINE t == toml'.out
<1>1. PICK n \in Nat : n = Len(tables)
  BY ListSeq DEF ParseInv
<1>2. /\ pc = "parse" /\ tables' = Append(tables, t) /\ next_key' = 1
      /\ ok_table_kinds' = InitialKinds(t)
      /\ UNCHANGED <<opts, exit_status>>
  BY DEF TableBegins
<1>3. /\ t.name = NoName => error_count' = error_count + 1 /\ pc' = "parse"
      /\ t.name # NoName => error_count' = error_count
      /\ t.name # NoName /\ t.kvs = <<>> => pc' = "parse"
      /\ t.name # NoName /\ t.kvs # <<>> => pc' = "keys"
  BY DEF TableBegins, ParseInv
<1> HIDE DEF t
<1>4. /\ IsList(tables') /\ Len(tables') = n + 1 /\ tables'[n + 1] = t
      /\ \A i \in 1..n : tables'[i] = tables[i]
      /\ DOMAIN tables' = 1..(n + 1) /\ DOMAIN tables = 1..n /\ tables' # <<>>
  <2>1. IsList(tables)
    BY DEF ParseInv
  <2> QED
    BY <1>1, <1>2, <2>1, ListAppend, ListSeq
<1>5. error_count \in Nat /\ error_count' \in Nat
  BY <1>3 DEF ParseInv
<1>6. IsList(t.kvs) /\ Len(t.kvs) \in Nat /\ (t.kvs # <<>> => Len(t.kvs) > 0)
  <2>1. n + 1 \in DOMAIN tables'
    BY <1>1, <1>4
  <2>2. IsList(tables'[n + 1].kvs)
    BY <2>1 DEF TablesAreLists
  <2>3. IsList(t.kvs) /\ t.kvs \in Seq({t.kvs[i] : i \in DOMAIN t.kvs})
    BY <1>4, <2>2, ListSeq
  <2> QED
    BY <2>3
<1>7. t.kvs = <<>> /\ t.name # NoName => IsRight(t, HiddenIn(opts))
  <2> SUFFICES ASSUME t.kvs = <<>>, t.name # NoName PROVE IsRight(t, HiddenIn(opts))
    OBVIOUS
  <2>1. KindsAgree(t, Len(t.kvs), InitialKinds(t))
    BY KindsBegin
  <2>2. IsTable(t)
    BY <1>6, <2>1, KindsEnd
  <2> QED
    BY <2>2 DEF IsRight
<1>8. KeysInv'
  <2>1. KindsAgree(t, 0, InitialKinds(t))
    BY KindsBegin
  <2>2. ValuesRight(t, 0, HiddenIn(opts))
    BY DEF ValuesRight
  <2>3. pc' = "keys" =>
          /\ tables' # <<>> /\ toml'.out = tables'[Len(tables')] /\ toml'.out.name # NoName
          /\ next_key' \in 1..Len(toml'.out.kvs)
    BY <1>2, <1>3, <1>4, <1>6 DEF t
  <2>4. next_key' - 1 = 0
    BY <1>2
  <2> QED
    BY <1>2, <2>1, <2>2, <2>3, <2>4 DEF KeysInv, t
<1>9. TablesInv'
  <2> SUFFICES ASSUME error_count' = 0, NEW i \in 1..(n + 1)
               PROVE  (pc' = "keys" /\ i = n + 1) \/ IsRight(tables'[i], HiddenIn(opts))
    BY <1>2, <1>4 DEF TablesInv
  <2>1. CASE i \in 1..n
    <3>1. IsRight(tables[i], HiddenIn(opts))
      BY <1>2, <1>3, <1>4, <1>5, <2>1 DEF ParseInv, TablesInv
    <3> QED
      BY <1>4, <2>1, <3>1
  <2>2. CASE i = n + 1
    BY <1>3, <1>4, <1>5, <1>7, <2>2
  <2> QED
    BY <1>1, <2>1, <2>2
<1>10. pc' \in {"parse", "keys"} /\ error_count' > 0 => SomeWrong'
  <2>1. CASE t.name = NoName
    <3>1. ~IsRight(tables'[n + 1], {})
      BY <1>4, <2>1 DEF IsRight, IsTable
    <3> QED
      BY <1>1, <1>4, <3>1 DEF SomeWrong
  <2>2. CASE t.name # NoName /\ error_count > 0
    <3>1. PICK i \in DOMAIN tables : ~IsRight(tables[i], {})
      BY <1>2, <2>2 DEF ParseInv, SomeWrong
    <3>2. i \in DOMAIN tables' /\ tables'[i] = tables[i]
      BY <1>1, <1>4
    <3> QED
      BY <3>1, <3>2 DEF SomeWrong
  <2> QED
    BY <1>3, <1>5, <2>1, <2>2
<1>11. ExitInv' /\ AreOptions(opts')
  BY <1>2 DEF ExitInv, ParseInv, SearchInv
<1>12. pc' \notin {"cli", "find", "done"}
  BY <1>3
<1> QED
  BY <1>4, <1>5, <1>8, <1>9, <1>10, <1>11, <1>12 DEF ParseInv

LEMMA ParseEnd ==
  ASSUME SearchInv, ParseInv, ParseEnds
  PROVE  ParseInv'
<1>1. /\ pc = "parse" /\ UNCHANGED <<opts, tables>>
      /\ error_count' = error_count + IF toml'.error = "NONE" THEN 0 ELSE 1
      /\ IF error_count' > 0 THEN pc' = "exit" ELSE pc' = "find" /\ exit_status' = exit_status
  BY DEF ParseEnds, exit
<1>2. error_count \in Nat /\ error_count' \in Nat
  BY <1>1 DEF ParseInv
<1>3. ExitInv'
  <2> SUFFICES ASSUME exit_status' = "EX_CONFIG", toml'.error = "NONE" PROVE SomeWrong'
    BY DEF ExitInv
  <2>1. error_count > 0
    BY <1>1, <1>2 DEF SearchInv
  <2>2. SomeWrong
    BY <1>1, <2>1 DEF ParseInv
  <2> QED
    BY <1>1, <2>2 DEF SomeWrong
<1>4. TablesInv'
  BY <1>1, <1>2 DEF ParseInv, TablesInv
<1>5. pc' = "find" => error_count' = 0
  BY <1>1, <1>2
<1> QED
  BY <1>1, <1>2, <1>3, <1>4, <1>5 DEF ParseInv, KeysInv

\* What one key does, if it is wrong in this table or has no entry, and if not.
LEMMA KeyIs ==
  ASSUME ParseInv, TablesAreLists, ConfigKeyValue
  PROVE  LET kv == toml.out.kvs[next_key]
             found == config_key_find(kv.name)
             key == CHOOSE k \in found : TRUE
             wrong == found = {} \/ (ok_table_kinds # {} /\ ok_table_kinds \cap key.kinds = {})
         IN  /\ wrong => /\ opts' = opts /\ error_count' = error_count + 1
                         /\ ok_table_kinds' = ok_table_kinds
             /\ ~wrong => /\ \E r : /\ ParsedAs(opts, error_count, key.key, kv.value, r)
                                    /\ opts' = r.opts /\ error_count' = r.errors
                          /\ key \in CONFIG_KEYS /\ found = {key}
                          /\ ok_table_kinds' = narrowed(ok_table_kinds, key)
<1> DEFINE kv == toml.out.kvs[next_key]
           found == config_key_find(kv.name)
           key == CHOOSE k \in found : TRUE
           wrong == found = {} \/ (ok_table_kinds # {} /\ ok_table_kinds \cap key.kinds = {})
           acc == [opts |-> opts, errors |-> error_count]
           parsed == IF wrong THEN Error(acc, 1) ELSE ParseKey(acc, key.key, kv.value)
<1>1. /\ opts' = parsed.opts /\ error_count' = parsed.errors
      /\ ok_table_kinds' = IF wrong THEN ok_table_kinds ELSE narrowed(ok_table_kinds, key)
  BY DEF ConfigKeyValue
<1>2. CASE wrong
  <2>1. parsed = Error(acc, 1)
    BY <1>2
  <2>2. Error(acc, 1) = [opts |-> opts, errors |-> error_count + 1]
    BY DEF Error
  <2>3. opts' = opts /\ error_count' = error_count + 1 /\ ok_table_kinds' = ok_table_kinds
    <3> HIDE DEF parsed, wrong
    <3> QED
      BY <1>1, <1>2, <2>1, <2>2
  <2> HIDE DEF parsed
  <2> QED
    BY <1>2, <2>3
<1>3. CASE ~wrong
  <2>1. parsed = ParseKey(acc, key.key, kv.value)
    BY <1>3
  <2>2. found # {}
    BY <1>3
  <2>3. key \in CONFIG_KEYS /\ found = {key} /\ key.key \in KeyNames
    <3>1. key \in CONFIG_KEYS /\ found = {key}
      BY <2>2, FoundIs
    <3> QED
      BY <3>1, KeysDiffer
  <2>4. kv.value.type = "array" => IsList(kv.value.v)
    <3>1. /\ pc = "keys" /\ tables # <<>> /\ toml.out = tables[Len(tables)]
          /\ next_key \in 1..Len(toml.out.kvs) /\ IsList(tables)
      BY DEF ConfigKeyValue, ParseInv, KeysInv
    <3>2. Len(tables) \in DOMAIN tables
      <4>1. Len(tables) \in Nat /\ DOMAIN tables = 1..Len(tables)
            /\ tables \in Seq({tables[i] : i \in DOMAIN tables})
        BY <3>1, ListSeq
      <4>2. Len(tables) # 0
        BY <3>1, <4>1
      <4> QED
        BY <4>1, <4>2
    <3>3. /\ IsList(toml.out.kvs)
          /\ \A k \in DOMAIN toml.out.kvs : toml.out.kvs[k].value.type = "array" =>
               IsList(toml.out.kvs[k].value.v)
      BY <3>1, <3>2 DEF TablesAreLists
    <3>4. next_key \in DOMAIN toml.out.kvs
      BY <3>1, <3>3, ListSeq
    <3> QED
      BY <3>3, <3>4
  <2>5. ParsedAs(opts, error_count, key.key, kv.value, ParseKey(acc, key.key, kv.value))
    <3>1. AreOptions(opts) /\ error_count \in Nat
      BY DEF ParseInv
    <3> HIDE DEF key, kv
    <3> QED
      BY <2>3, <2>4, <3>1, ParseKeyIs
  <2>6. \E r : /\ ParsedAs(opts, error_count, key.key, kv.value, r)
               /\ opts' = r.opts /\ error_count' = r.errors
    <3> HIDE DEF parsed, key, kv, acc
    <3> QED
      BY <1>1, <2>1, <2>5
  <2>7. ok_table_kinds' = narrowed(ok_table_kinds, key)
    <3> HIDE DEF wrong, key
    <3> QED
      BY <1>1, <1>3
  <2> QED
    BY <1>3, <2>3, <2>6, <2>7
<1> QED
  BY <1>2, <1>3

LEMMA ParseValue ==
  ASSUME SearchInv, ParseInv, TablesAreLists, ConfigKeyValue
  PROVE  ParseInv'
<1> DEFINE t == toml.out
           kv == t.kvs[next_key]
           found == config_key_find(kv.name)
           key == CHOOSE k \in found : TRUE
           wrong == found = {} \/ (ok_table_kinds # {} /\ ok_table_kinds \cap key.kinds = {})
<1>1. /\ pc = "keys" /\ tables # <<>> /\ t = tables[Len(tables)] /\ t.name # NoName
      /\ next_key \in 1..Len(t.kvs) /\ IsList(tables) /\ error_count \in Nat
      /\ error_count = 0 =>
           /\ KindsAgree(t, next_key - 1, ok_table_kinds)
           /\ ValuesRight(t, next_key - 1, HiddenIn(opts))
  BY DEF ConfigKeyValue, ParseInv, KeysInv
<1>2. /\ UNCHANGED <<tables, toml, exit_status>> /\ next_key' = next_key + 1
      /\ pc' = IF next_key < Len(t.kvs) THEN "keys" ELSE "parse"
  BY DEF ConfigKeyValue
<1>3. /\ wrong => /\ opts' = opts /\ error_count' = error_count + 1
                  /\ ok_table_kinds' = ok_table_kinds
      /\ ~wrong => /\ \E r : /\ ParsedAs(opts, error_count, key.key, kv.value, r)
                             /\ opts' = r.opts /\ error_count' = r.errors
                   /\ key \in CONFIG_KEYS /\ found = {key}
                   /\ ok_table_kinds' = narrowed(ok_table_kinds, key)
  BY KeyIs
<1>4. PICK n \in Nat : n = next_key - 1 /\ next_key = n + 1 /\ n + 1 <= Len(t.kvs)
  BY <1>1
<1>5. PICK m \in Nat : m = Len(tables) /\ DOMAIN tables = 1..m /\ m \in DOMAIN tables
  <2>1. Len(tables) \in Nat /\ DOMAIN tables = 1..Len(tables)
        /\ tables \in Seq({tables[i] : i \in DOMAIN tables})
    BY <1>1, ListSeq
  <2>2. Len(tables) # 0
    BY <1>1, <2>1
  <2>3. Len(tables) \in DOMAIN tables
    BY <2>1, <2>2
  <2> QED
    BY <2>1, <2>3, Zenon
<1>6. IsList(t.kvs) /\ Len(t.kvs) \in Nat /\ DOMAIN t.kvs = 1..Len(t.kvs)
  <2>1. IsList(t.kvs)
    BY <1>1, <1>5 DEF TablesAreLists
  <2> QED
    BY <2>1, ListSeq
<1>7. error_count = 0 =>
        /\ wrong => \A kind \in Kinds : ~Fits(kind, t, n + 1)
        /\ ~wrong => KindsAgree(t, n + 1, narrowed(ok_table_kinds, key))
  <2> SUFFICES ASSUME error_count = 0
               PROVE  /\ wrong => \A kind \in Kinds : ~Fits(kind, t, n + 1)
                      /\ ~wrong => KindsAgree(t, n + 1, narrowed(ok_table_kinds, key))
    OBVIOUS
  <2>1. KindsAgree(t, n, ok_table_kinds)
    BY <1>1, <1>4
  <2>2. kv = t.kvs[n + 1]
    BY <1>4
  <2>3. LET f == config_key_find(t.kvs[n + 1].name)
            k == CHOOSE k \in f : TRUE
            w == f = {} \/ (ok_table_kinds # {} /\ ok_table_kinds \cap k.kinds = {})
        IN  /\ w => \A kind \in Kinds : ~Fits(kind, t, n + 1)
            /\ ~w => KindsAgree(t, n + 1, narrowed(ok_table_kinds, k))
    <3> HIDE DEF t
    <3> QED
      BY <2>1, KindsGoOn
  <2> HIDE DEF t
  <2> QED
    BY <2>2, <2>3
<1>8. kv = t.kvs[n + 1]
  BY <1>4
<1> HIDE DEF wrong, key, found, kv
<1>9. /\ error_count' \in Nat /\ error_count' >= error_count /\ AreOptions(opts')
      /\ HiddenIn(opts) \subseteq HiddenIn(opts')
      /\ ~wrong /\ error_count' > error_count => ~IsValue(key.key, kv.value)
      /\ error_count' = error_count =>
           /\ ~wrong
           /\ IsValue(key.key, kv.value) \/ key.key \in HiddenIn(opts)
  <2>1. CASE wrong
    BY <1>1, <1>3, <2>1 DEF ParseInv
  <2>2. CASE ~wrong
    <3>1. PICK r : /\ ParsedAs(opts, error_count, key.key, kv.value, r)
                   /\ opts' = r.opts /\ error_count' = r.errors
      BY <1>3, <2>2
    <3> QED
      BY <2>2, <3>1 DEF ParsedAs
  <2> QED
    BY <2>1, <2>2
<1>10. ASSUME error_count' = 0
       PROVE  /\ error_count = 0
              /\ KindsAgree(t, n + 1, ok_table_kinds')
              /\ ValuesRight(t, n + 1, HiddenIn(opts'))
  <2>1. error_count = 0 /\ error_count' = error_count
    BY <1>1, <1>9, <1>10
  <2>2. ~wrong /\ found = {key} /\ (IsValue(key.key, kv.value) \/ key.key \in HiddenIn(opts'))
    BY <1>3, <1>9, <2>1
  <2>3. KindsAgree(t, n + 1, ok_table_kinds')
    BY <1>3, <1>7, <2>1, <2>2
  <2>4. ValuesRight(t, n, HiddenIn(opts))
    BY <1>1, <1>4, <2>1
  <2>5. ASSUME NEW i \in 1..(n + 1), NEW k \in config_key_find(t.kvs[i].name)
        PROVE  IsValue(k.key, t.kvs[i].value) \/ k.key \in HiddenIn(opts')
    <3>1. CASE i \in 1..n
      BY <1>9, <2>4, <2>5, <3>1 DEF ValuesRight
    <3>2. CASE i = n + 1
      <4>1. k = key
        BY <1>8, <2>2, <2>5, <3>2 DEF found
      <4> QED
        BY <1>8, <2>2, <3>2, <4>1
    <3> QED
      BY <3>1, <3>2
  <2>6. ValuesRight(t, n + 1, HiddenIn(opts'))
    BY <2>5 DEF ValuesRight
  <2> QED
    BY <2>1, <2>3, <2>6
<1>11. ASSUME error_count = 0, error_count' > 0 PROVE ~IsRight(t, {})
  <2>1. CASE wrong
    <3>1. \A kind \in Kinds : ~Fits(kind, t, Len(t.kvs))
      <4>1. n + 1 \in 0..Len(t.kvs)
        BY <1>4, <1>6
      <4> QED
        BY <1>6, <1>7, <1>11, <2>1, <4>1, FitsFewer
    <3> QED
      BY <1>1, <1>6, <3>1, TableIs DEF IsRight
  <2>2. CASE ~wrong
    <3>1. ~IsValue(key.key, kv.value) /\ found = {key}
      BY <1>3, <1>9, <1>11, <2>2
    <3>2. key \in config_key_find(t.kvs[n + 1].name) /\ n + 1 \in DOMAIN t.kvs
      BY <1>4, <1>6, <1>8, <3>1 DEF found
    <3> QED
      BY <1>8, <3>1, <3>2 DEF IsRight
  <2> QED
    BY <2>1, <2>2
<1>12. KeysInv'
  <2> SUFFICES ASSUME pc' = "keys"
               PROVE  /\ next_key' \in 1..Len(t.kvs)
                      /\ error_count' = 0 =>
                           /\ KindsAgree(t, next_key' - 1, ok_table_kinds')
                           /\ ValuesRight(t, next_key' - 1, HiddenIn(opts'))
    BY <1>1, <1>2 DEF KeysInv
  <2>1. next_key < Len(t.kvs) /\ next_key' - 1 = n + 1
    BY <1>2, <1>4
  <2>2. next_key' \in 1..Len(t.kvs)
    BY <1>2, <1>4, <1>6, <2>1
  <2> QED
    BY <1>10, <2>1, <2>2
<1>13. TablesInv'
  <2> SUFFICES ASSUME error_count' = 0, NEW i \in 1..m
               PROVE  (pc' = "keys" /\ i = m) \/ IsRight(tables[i], HiddenIn(opts'))
    BY <1>2, <1>5 DEF TablesInv
  <2>1. CASE i # m
    <3>1. IsRight(tables[i], HiddenIn(opts))
      BY <1>1, <1>5, <1>10, <2>1 DEF ParseInv, TablesInv
    <3> QED
      BY <1>9, <3>1, RightStays
  <2>2. CASE i = m /\ pc' # "keys"
    <3>1. n + 1 = Len(t.kvs)
      BY <1>2, <1>4, <1>6, <2>2
    <3>2. KindsAgree(t, Len(t.kvs), ok_table_kinds') /\ ValuesRight(t, Len(t.kvs), HiddenIn(opts'))
      BY <1>10, <3>1
    <3>3. IsTable(t)
      BY <1>1, <1>6, <3>2, KindsEnd
    <3>4. IsRight(t, HiddenIn(opts'))
      BY <1>6, <3>2, <3>3 DEF IsRight, ValuesRight
    <3> QED
      BY <1>1, <1>5, <2>2, <3>4
  <2> QED
    BY <2>1, <2>2
<1>14. error_count' > 0 => SomeWrong'
  <2> SUFFICES ASSUME error_count' > 0 PROVE SomeWrong
    BY <1>2 DEF SomeWrong
  <2>1. CASE error_count = 0
    BY <1>1, <1>5, <1>11, <2>1 DEF SomeWrong
  <2>2. CASE error_count > 0
    BY <1>1, <2>2 DEF ParseInv
  <2> QED
    BY <1>1, <2>1, <2>2
<1>15. ExitInv'
  BY <1>1, <1>2 DEF SearchInv, ExitInv
<1>16. pc' \notin {"cli", "find", "done"}
  BY <1>2
<1> QED
  BY <1>1, <1>2, <1>9, <1>12, <1>13, <1>14, <1>15, <1>16 DEF ParseInv

LEMMA ParseStep ==
  ASSUME SearchInv, ParseInv, TablesAreLists, TablesAreLists', [ConfigNext]_configVars
  PROVE  ParseInv'
<1>1. CASE ConfigNext
  BY <1>1, ParseCli, ParseFind, ParseFound, ParseTable, ParseEnd, ParseValue DEF ConfigNext
<1>2. CASE UNCHANGED configVars
  <2>1. UNCHANGED <<argv, files, same_dir, places_read, pc, opts, tables, toml, error_count,
                    exit_status, next_key, ok_table_kinds>>
    BY <1>2 DEF configVars, environment, searchVars, parseVars
  <2>2. \A option : Given(option)' <=> Given(option)
    BY <2>1 DEF Given
  <2>3. \A p : (Readable(p))' <=> Readable(p)
    BY <2>1, <2>2 DEF Readable
  <2>4. SomeWrong' <=> SomeWrong
    BY <2>1 DEF SomeWrong
  <2>5. ExitInv'
    BY <2>1, <2>3, <2>4 DEF ParseInv, ExitInv
  <2>6. KeysInv' /\ TablesInv'
    BY <2>1 DEF ParseInv, KeysInv, TablesInv
  <2> QED
    BY <2>1, <2>4, <2>5, <2>6 DEF ParseInv
<1> QED
  BY <1>1, <1>2

LEMMA ParseAlways == ConfigSpec /\ []TablesAreLists => []ParseInv
<1>1. ConfigInit => ParseInv
  BY ParseInit
<1>2. SearchInv /\ ParseInv /\ TablesAreLists /\ TablesAreLists' /\ [ConfigNext]_configVars
        => ParseInv'
  BY ParseStep
<1> QED
  BY <1>1, <1>2, SearchAlways, PTL DEF ConfigSpec

LEMMA HiddenIs == Hidden = HiddenIn(opts)
BY DEF Hidden, HiddenIn

\* As long as the reader returns lists, a file is refused if and only if a key of it
\* has no entry, is not allowed in its table or has a wrong value that no setting
\* before hides, and no file is read after it.
THEOREM RefusedIfWrong == ConfigSpec /\ []TablesAreLists => []ExitAgrees
<1>1. SearchInv /\ ParseInv => ExitAgrees
  <2> SUFFICES ASSUME SearchInv, ParseInv PROVE ExitAgrees
    OBVIOUS
  <2>1. ASSUME pc \in {"parse", "find", "done"}, error_count = 0
        PROVE  \A i \in DOMAIN tables : IsRight(tables[i], Hidden)
    BY <2>1, HiddenIs DEF ParseInv, TablesInv
  <2>2. ASSUME pc \in {"parse", "find", "done"}, error_count # 0
        PROVE  pc = "parse" /\ SomeWrong
    BY <2>2 DEF ParseInv
  <2> QED
    BY <2>1, <2>2 DEF ExitAgrees, ParseInv, ExitInv, SomeWrong
<1> QED
  BY <1>1, SearchAlways, ParseAlways, PTL

-----------------------------------------------------------------------------
(***************************************************************************)
(* Who sets an option.                                                     *)
(***************************************************************************)

\* What the first n options of the command line set this one to.
CliValue(o, option, n) ==
  /\ \A i \in 1..n :
       argv[i].option = option /\ (\A j \in 1..n : j > i => argv[j].option # option)
         => o.value[option] = ArgValue(argv[i])
  /\ (\A i \in 1..n : argv[i].option # option) =>
       o.value[option] =
         IF option = "all_includes" /\ (\E i \in 1..n : argv[i].option = "comment_style")
         THEN TRUE ELSE DefaultOptions[option]

CliInv ==
  pc = "cli" =>
    /\ keys_read = <<>> /\ opts.std_c_includes = <<>>
    /\ \A option \in Option : /\ CliValue(opts, option, optind - 1)
                              /\ IsSet(opts, option) <=> GivenSoFar(option)

SetBySome == \A option \in Option : IsSet(opts, option) <=> Given(option) \/ Setters(option) # {}

OptionsInv ==
  /\ IsList(keys_read)
  /\ CliInv
  /\ pc \notin {"cli", "exit"} /\ error_count = 0 =>
       /\ SetBySome
       /\ \A option \in Option : EarlierPrevails(option)
       /\ AddsAccumulate

LEMMA OptionsInit == ConfigInit => OptionsInv
<1> SUFFICES ASSUME ConfigInit PROVE OptionsInv
  OBVIOUS
<1>1. /\ pc = "cli" /\ keys_read = <<>> /\ 1..(optind - 1) = {}
      /\ opts = [value |-> DefaultOptions, set |-> {}, std_c_includes |-> <<>>]
  BY DEF ConfigInit
<1>2. IsList(keys_read)
  BY <1>1 DEF IsList
<1>3. ASSUME NEW option \in Option
      PROVE  /\ CliValue(opts, option, optind - 1)
             /\ IsSet(opts, option) <=> GivenSoFar(option)
  BY <1>1 DEF CliValue, IsSet, GivenSoFar
<1> QED
  BY <1>1, <1>2, <1>3 DEF OptionsInv, CliInv

\* The values after one more option of the command line.
LEMMA CliValueIs ==
  ASSUME NEW o, AreOptions(o), NEW n \in Nat, NEW option \in Option,
         CliValue(o, option, n)
  PROVE  LET p == MarkSet(ParseOption(o, argv[n + 1]), argv[n + 1].option)
         IN  /\ CliValue(p, option, n + 1)
             /\ p.set = o.set \cup {argv[n + 1].option}
             /\ p.std_c_includes = o.std_c_includes
<1> DEFINE arg == argv[n + 1]
           set == SetOption(o, arg.option, ArgValue(arg))
           both == SetOption(set, "all_includes", TRUE)
           parsed == ParseOption(o, arg)
           p == MarkSet(parsed, arg.option)
<1>1. "all_includes" \in Option /\ "comment_style" \in Option
      /\ "all_includes" # "comment_style"
  BY DEF Option, WordOption
<1>2. arg.option \in Option =>
        /\ AreOptions(set) /\ set.set = o.set /\ set.std_c_includes = o.std_c_includes
        /\ set.value[arg.option] = ArgValue(arg)
        /\ \A x \in Option : x # arg.option => set.value[x] = o.value[x]
  BY OptionSet
<1>3. arg.option \in Option =>
        /\ AreOptions(both) /\ both.set = set.set
        /\ both.std_c_includes = set.std_c_includes
        /\ both.value["all_includes"] = TRUE
        /\ \A x \in Option : x # "all_includes" => both.value[x] = set.value[x]
  <2>1. PICK v : v = TRUE
    OBVIOUS
  <2>2. both = SetOption(set, "all_includes", v)
    BY <2>1
  <2> HIDE DEF set, both
  <2>3. arg.option \in Option =>
          /\ AreOptions(both) /\ both.set = set.set
          /\ both.std_c_includes = set.std_c_includes
          /\ both.value["all_includes"] = v
          /\ \A x \in Option : x # "all_includes" => both.value[x] = set.value[x]
    BY <1>1, <1>2, <2>2, OptionSet
  <2> QED
    BY <2>1, <2>3
<1>4. /\ arg.option \notin Option => parsed = o
      /\ arg.option = "comment_style" => parsed = both
      /\ arg.option \in Option /\ arg.option # "comment_style" => parsed = set
  BY <1>1 DEF ParseOption
<1> HIDE DEF set, both, parsed
<1>5. /\ AreOptions(parsed) /\ parsed.set = o.set
      /\ parsed.std_c_includes = o.std_c_includes
      /\ arg.option = option => parsed.value[option] = ArgValue(arg)
      /\ arg.option = "comment_style" => parsed.value["all_includes"] = TRUE
      /\ arg.option # option /\ ~(option = "all_includes" /\ arg.option = "comment_style") =>
           parsed.value[option] = o.value[option]
  <2>1. CASE arg.option \notin Option
    BY <1>1, <1>4, <2>1
  <2>2. CASE arg.option = "comment_style"
    BY <1>1, <1>2, <1>3, <1>4, <2>2
  <2>3. CASE arg.option \in Option /\ arg.option # "comment_style"
    BY <1>1, <1>2, <1>4, <2>3
  <2> QED
    BY <2>1, <2>2, <2>3
<1>6. /\ p.value = parsed.value /\ p.set = o.set \cup {arg.option}
      /\ p.std_c_includes = o.std_c_includes
  BY <1>5, Marked
<1> HIDE DEF p
<1>7. \A i : i \in 1..(n + 1) <=> i \in 1..n \/ i = n + 1
  OBVIOUS
<1>8. \A i \in 1..n : n + 1 > i
  OBVIOUS
<1>9. CliValue(p, option, n + 1)
  <2>1. CASE arg.option = option
    <3>1. p.value[option] = ArgValue(arg) /\ n + 1 \in 1..(n + 1)
      BY <1>5, <1>6, <2>1
    <3>2. ASSUME NEW i \in 1..(n + 1), \A j \in 1..(n + 1) : j > i => argv[j].option # option
          PROVE  i = n + 1
      BY <1>7, <1>8, <2>1, <3>1, <3>2
    <3> QED
      BY <2>1, <3>1, <3>2 DEF CliValue
  <2>2. CASE arg.option # option /\ option = "all_includes" /\ arg.option = "comment_style"
    <3>1. p.value[option] = TRUE
      BY <1>5, <1>6, <2>2
    <3>2. \A i \in 1..(n + 1) : argv[i].option = option => ArgValue(argv[i]) = TRUE
      BY <2>2 DEF ArgValue
    <3>3. n + 1 \in 1..(n + 1)
      BY <1>7
    <3> QED
      BY <2>2, <3>1, <3>2, <3>3 DEF CliValue
  <2>3. CASE arg.option # option /\ ~(option = "all_includes" /\ arg.option = "comment_style")
    <3>1. p.value[option] = o.value[option]
      BY <1>5, <1>6, <2>3
    <3>2. ASSUME NEW i \in 1..(n + 1), argv[i].option = option,
                 \A j \in 1..(n + 1) : j > i => argv[j].option # option
          PROVE  p.value[option] = ArgValue(argv[i])
      <4>1. i \in 1..n /\ \A j \in 1..n : j > i => argv[j].option # option
        BY <1>7, <2>3, <3>2
      <4> QED
        BY <3>1, <3>2, <4>1 DEF CliValue
    <3>3. ASSUME \A i \in 1..(n + 1) : argv[i].option # option
          PROVE  p.value[option] =
                   IF option = "all_includes"
                        /\ (\E i \in 1..(n + 1) : argv[i].option = "comment_style")
                   THEN TRUE ELSE DefaultOptions[option]
      <4>1. \A i \in 1..n : argv[i].option # option
        BY <1>7, <3>3
      <4>2. option = "all_includes" =>
              ((\E i \in 1..(n + 1) : argv[i].option = "comment_style")
                 <=> \E i \in 1..n : argv[i].option = "comment_style")
        BY <1>7, <2>3
      <4>3. CASE option = "all_includes"
        BY <3>1, <4>1, <4>2, <4>3 DEF CliValue
      <4>4. CASE option # "all_includes"
        BY <3>1, <4>1, <4>4 DEF CliValue
      <4> QED
        BY <4>3, <4>4
    <3> QED
      BY <3>2, <3>3 DEF CliValue
  <2> QED
    BY <2>1, <2>2, <2>3
<1> QED
  BY <1>6, <1>9 DEF p, parsed

\* A step that changes neither the options nor what was read.
LEMMA OptionsKept ==
  ASSUME ParseInv, OptionsInv, UNCHANGED <<argv, opts, keys_read>>,
         pc' # "cli", pc # "cli",
         pc' # "exit" => pc # "exit", error_count' = 0 => error_count = 0
  PROVE  OptionsInv'
<1>1. \A option : Given(option)' <=> Given(option)
  BY DEF Given
<1>2. \A key : Setters(key)' = Setters(key)
  BY DEF Setters
<1>3. (IsList(keys_read))'
  BY DEF OptionsInv
<1>4. SetBySome => SetBySome'
  BY <1>1, <1>2 DEF SetBySome
<1>5. \A option : EarlierPrevails(option) => EarlierPrevails(option)'
  BY <1>1, <1>2 DEF EarlierPrevails
<1>6. AddsAccumulate => AddsAccumulate'
  BY <1>2 DEF AddsAccumulate, Said
<1> QED
  BY <1>3, <1>4, <1>5, <1>6 DEF OptionsInv, CliInv

LEMMA OptionsCliOption ==
  ASSUME SearchInv, ParseInv, OptionsInv, CliOption
  PROVE  OptionsInv'
<1>1. /\ pc = "cli" /\ optind <= Len(argv) /\ optind' = optind + 1
      /\ argv' = argv /\ keys_read' = keys_read /\ pc' \in {"cli", "exit"}
  BY DEF CliOption, environment, parseVars, exit
<1>2. /\ keys_read = <<>> /\ opts.std_c_includes = <<>> /\ AreOptions(opts)
      /\ \A option \in Option : /\ CliValue(opts, option, optind - 1)
                                /\ IsSet(opts, option) <=> GivenSoFar(option)
  BY <1>1 DEF OptionsInv, CliInv, ParseInv
<1>3. PICK n \in Nat : optind - 1 = n /\ optind = n + 1 /\ optind' - 1 = n + 1
  <2>1. optind \in 1..(Len(argv) + 1) /\ Len(argv) \in Nat
    BY DEF SearchInv, IsList
  <2>2. optind - 1 \in Nat /\ optind = (optind - 1) + 1 /\ optind' - 1 = (optind - 1) + 1
    BY <1>1, <2>1
  <2> QED
    BY <2>2
<1>4. IsList(keys_read')
  BY <1>1 DEF OptionsInv
<1>5. CliInv'
  <2> SUFFICES ASSUME pc' = "cli"
               PROVE  /\ opts'.std_c_includes = <<>>
                      /\ \A option \in Option :
                           /\ CliValue(opts, option, optind - 1)'
                           /\ IsSet(opts, option)' <=> GivenSoFar(option)'
    BY <1>1, <1>2 DEF CliInv
  <2>1. opts' = MarkSet(ParseOption(opts, argv[n + 1]), argv[n + 1].option)
    BY <1>1, <1>3 DEF CliOption, exit
  <2>2. PICK o : o = opts
    OBVIOUS
  <2>3. ASSUME NEW option \in Option
        PROVE  /\ CliValue(opts', option, n + 1)
               /\ opts'.set = opts.set \cup {argv[n + 1].option}
               /\ opts'.std_c_includes = opts.std_c_includes
    BY <1>2, <1>3, <2>1, CliValueIs
  <2>4. ASSUME NEW option \in Option PROVE CliValue(opts, option, optind - 1)'
    <3>1. CliValue(opts', option, n + 1) /\ argv' = argv /\ optind' - 1 = n + 1
      BY <1>1, <1>3, <2>3
    <3> QED
      BY <3>1, Zenon DEF CliValue
  <2>5. \A option : GivenSoFar(option)' <=> GivenSoFar(option) \/ argv[n + 1].option = option
    <3>1. \A i : i \in 1..(n + 1) <=> i \in 1..n \/ i = n + 1
      OBVIOUS
    <3> QED
      BY <1>1, <1>3, <3>1 DEF GivenSoFar
  <2>6. "align_column" \in Option
    BY DEF Option
  <2> QED
    BY <1>2, <2>3, <2>4, <2>5, <2>6 DEF IsSet
<1> QED
  BY <1>1, <1>4, <1>5 DEF OptionsInv

LEMMA OptionsCliDone ==
  ASSUME SearchInv, ParseInv, OptionsInv, CliDone
  PROVE  OptionsInv'
<1>1. /\ pc = "cli" /\ optind > Len(argv) /\ UNCHANGED <<optind, opts>>
      /\ argv' = argv /\ keys_read' = keys_read /\ pc' \in {"find", "exit"}
  BY DEF CliDone, environment, parseVars, exit
<1>2. /\ keys_read = <<>> /\ opts.std_c_includes = <<>>
      /\ \A option \in Option : /\ CliValue(opts, option, optind - 1)
                                /\ IsSet(opts, option) <=> GivenSoFar(option)
  BY <1>1 DEF OptionsInv, CliInv
<1>3. optind - 1 = Len(argv) /\ DOMAIN argv = 1..Len(argv) /\ Len(argv) \in Nat
  <2>1. optind \in 1..(Len(argv) + 1) /\ Len(argv) \in Nat /\ DOMAIN argv = 1..Len(argv)
    BY ListSeq DEF SearchInv
  <2> QED
    BY <1>1, <2>1
<1>4. PICK D : D = DOMAIN argv /\ D = 1..(optind - 1)
  BY <1>3
<1>5. \A option : Given(option) <=> GivenSoFar(option)
  BY <1>4 DEF Given, GivenSoFar
<1>6. \A key : Setters(key) = {} /\ Said(key) = {}
  BY <1>2 DEF Setters, Said
<1>7. \A option : Given(option)' <=> Given(option)
  BY <1>1 DEF Given
<1>8. \A key : Setters(key)' = {} /\ Said(key)' = {}
  BY <1>1, <1>2 DEF Setters, Said
<1>9. SetBySome'
  BY <1>1, <1>2, <1>5, <1>7, <1>8 DEF SetBySome
<1>10. ASSUME NEW option \in Option PROVE EarlierPrevails(option)'
  <2>1. CliValue(opts, option, optind - 1)
    BY <1>2
  <2>2. ASSUME NEW i \in D, argv[i].option = option,
               \A j \in D : j > i => argv[j].option # option
        PROVE  opts.value[option] = ArgValue(argv[i])
    BY <1>4, <2>1, <2>2 DEF CliValue
  <2>3. ~Given(option) =>
          opts.value[option] =
            IF option = "all_includes" /\ Given("comment_style") THEN TRUE
            ELSE DefaultOptions[option]
    BY <1>4, <2>1 DEF CliValue, Given
  <2> QED
    BY <1>1, <1>4, <1>7, <1>8, <2>2, <2>3 DEF EarlierPrevails
<1>11. AddsAccumulate'
  <2>1. Range(opts'.std_c_includes) = {}
    BY <1>1, <1>2 DEF Range
  <2> QED
    BY <1>8, <2>1 DEF AddsAccumulate
<1>12. IsList(keys_read')
  BY <1>1 DEF OptionsInv
<1> QED
  BY <1>1, <1>9, <1>10, <1>11, <1>12 DEF OptionsInv, CliInv

\* The setters of a key once another key was read.
LEMMA SettersAre ==
  ASSUME IsList(keys_read), NEW kv, keys_read' = Append(keys_read, kv), NEW key,
         NEW n \in Nat, n = Len(keys_read)
  PROVE  /\ Setters(key) \in SUBSET (1..n)
         /\ Setters(key)' = Setters(key) \cup (IF IsKeyOf(kv.name, key) THEN {n + 1} ELSE {})
         /\ \A i \in Setters(key) : keys_read'[i] = keys_read[i]
         /\ keys_read'[n + 1] = kv
<1>1. /\ DOMAIN keys_read = 1..n /\ DOMAIN keys_read' = 1..(n + 1)
      /\ \A i \in 1..n : keys_read'[i] = keys_read[i]
      /\ keys_read'[n + 1] = kv
  BY ListAppend, ListSeq
<1>2. \A i : i \in 1..(n + 1) <=> i \in 1..n \/ i = n + 1
  OBVIOUS
<1> QED
  BY <1>1, <1>2 DEF Setters

\* A later setter is not the first one, unless it is the only one.
LEMMA FirstSetter ==
  ASSUME NEW n \in Nat, NEW S \in SUBSET (1..n)
  PROVE  /\ S # {} => Min(S \cup {n + 1}) = Min(S) /\ Min(S) \in S
         /\ S = {} => Min(S \cup {n + 1}) = n + 1
<1> DEFINE T == S \cup {n + 1}
<1>1. Min(T) \in T /\ \A x \in T : Min(T) <= x
  BY LeastIs
<1>2. CASE S = {}
  BY <1>1, <1>2
<1>3. CASE S # {}
  <2>1. Min(S) \in S /\ \A x \in S : Min(S) <= x
    BY <1>3, LeastIs
  <2>2. S \subseteq T /\ \A x \in T : x \in S \/ x = n + 1
    OBVIOUS
  <2> HIDE DEF T
  <2>3. Min(S) \in 1..n /\ Min(S) \in T
    BY <2>1, <2>2
  <2>4. Min(T) <= Min(S) /\ Min(T) \in S
    <3>1. Min(T) <= Min(S)
      BY <1>1, <2>3
    <3>2. Min(T) # n + 1
      BY <2>3, <3>1
    <3> QED
      BY <1>1, <2>2, <3>1, <3>2
  <2>5. Min(T) = Min(S)
    <3>1. Min(S) <= Min(T) /\ Min(T) \in 1..n
      BY <2>1, <2>4
    <3> QED
      BY <2>3, <2>4, <3>1
  <2> QED
    BY <1>3, <2>1, <2>5 DEF T
<1> QED
  BY <1>2, <1>3

LEMMA OptionsValue ==
  ASSUME SearchInv, ParseInv, ParseInv', OptionsInv, TablesAreLists, ConfigKeyValue
  PROVE  OptionsInv'
<1> DEFINE kv == toml.out.kvs[next_key]
           found == config_key_find(kv.name)
           key == CHOOSE k \in found : TRUE
           wrong == found = {} \/ (ok_table_kinds # {} /\ ok_table_kinds \cap key.kinds = {})
<1>1. /\ pc = "keys" /\ pc' \in {"keys", "parse"} /\ argv' = argv
      /\ keys_read' = Append(keys_read, kv)
  BY DEF ConfigKeyValue, environment
<1>2. /\ wrong => error_count' = error_count + 1
      /\ ~wrong => /\ \E r : /\ ParsedAs(opts, error_count, key.key, kv.value, r)
                             /\ opts' = r.opts /\ error_count' = r.errors
                   /\ key \in CONFIG_KEYS /\ found = {key}
  BY KeyIs
<1>3. kv = toml.out.kvs[next_key] /\ found = config_key_find(kv.name)
  OBVIOUS
<1> HIDE DEF wrong, key, found, kv
<1>4. IsList(keys_read) /\ IsList(keys_read')
  BY <1>1, ListAppend DEF OptionsInv
<1>5. CliInv'
  BY <1>1 DEF CliInv
<1> SUFFICES ASSUME error_count' = 0
             PROVE  /\ SetBySome'
                    /\ \A option \in Option : EarlierPrevails(option)'
                    /\ AddsAccumulate'
  BY <1>4, <1>5 DEF OptionsInv
<1>6. error_count = 0 /\ error_count' = error_count /\ ~wrong
  <2>1. error_count \in Nat
    BY DEF ParseInv
  <2>2. CASE wrong
    BY <1>2, <2>1, <2>2
  <2>3. CASE ~wrong
    BY <1>2, <2>1, <2>3 DEF ParsedAs
  <2> QED
    BY <2>2, <2>3
<1>7. PICK name, v : name = key.key /\ v = kv.value
  OBVIOUS
<1>8. /\ opts'.set = opts.set \cup ({name} \cap Option)
      /\ \A x \in Option :
           opts'.value[x] = IF x = name /\ ~IsSet(opts, name) THEN v.v ELSE opts.value[x]
      /\ ListsAs(opts, name, v, opts')
  BY <1>2, <1>6, <1>7 DEF ParsedAs
<1>9. /\ SetBySome
      /\ \A option \in Option : EarlierPrevails(option)
      /\ AddsAccumulate
  BY <1>1, <1>6 DEF OptionsInv
<1>10. \A k : IsKeyOf(kv.name, k) <=> k = name
  BY <1>2, <1>3, <1>6, <1>7 DEF IsKeyOf
<1>11. PICK n \in Nat : n = Len(keys_read)
  BY <1>4, ListSeq
<1>12. /\ \A k : /\ Setters(k) \in SUBSET (1..n)
                 /\ Setters(k)' = Setters(k) \cup (IF k = name THEN {n + 1} ELSE {})
                 /\ \A i \in Setters(k) : keys_read'[i] = keys_read[i]
       /\ keys_read'[n + 1] = kv
  BY <1>1, <1>4, <1>10, <1>11, SettersAre
<1>13. \A option : Given(option)' <=> Given(option)
  BY <1>1 DEF Given
<1>14. SetBySome'
  <2>1. ASSUME NEW option \in Option
        PROVE  IsSet(opts, option)' <=> Given(option)' \/ Setters(option)' # {}
    <3>1. IsSet(opts, option)' <=> IsSet(opts, option) \/ option = name
      BY <1>8 DEF IsSet
    <3>2. Setters(option)' # {} <=> Setters(option) # {} \/ option = name
      BY <1>12
    <3>3. IsSet(opts, option) <=> Given(option) \/ Setters(option) # {}
      BY <1>9 DEF SetBySome
    <3> QED
      BY <1>13, <3>1, <3>2, <3>3
  <2> QED
    BY <2>1 DEF SetBySome
<1>15. ASSUME NEW option \in Option PROVE EarlierPrevails(option)'
  <2>1. EarlierPrevails(option) /\ (IsSet(opts, option) <=> Given(option) \/ Setters(option) # {})
    BY <1>9 DEF SetBySome
  <2>2. CASE option = name /\ ~IsSet(opts, option)
    <3>1. ~Given(option) /\ Setters(option) = {} /\ Setters(option)' = {n + 1}
      BY <1>12, <2>1, <2>2
    <3>2. Min({n + 1}) = n + 1
      <4>1. Min({n + 1}) \in {n + 1}
        BY LeastIs
      <4> QED
        BY <4>1
    <3>3. opts'.value[option] = keys_read'[n + 1].value.v
      BY <1>7, <1>8, <1>12, <2>2
    <3>4. ~Given(option)' /\ \A i \in DOMAIN argv' : argv'[i].option # option
      BY <1>1, <1>13, <3>1 DEF Given
    <3> QED
      BY <3>1, <3>2, <3>3, <3>4 DEF EarlierPrevails
  <2>3. CASE ~(option = name /\ ~IsSet(opts, option))
    <3>1. opts'.value[option] = opts.value[option]
      BY <1>8, <2>3
    <3>2. ASSUME ~Given(option)
          PROVE  \/ /\ Setters(option)' # {}
                    /\ opts.value[option] = keys_read'[Min(Setters(option)')].value.v
                 \/ /\ Setters(option)' = {}
                    /\ opts.value[option] =
                         IF option = "all_includes" /\ Given("comment_style") THEN TRUE
                         ELSE DefaultOptions[option]
      <4>1. CASE Setters(option) = {}
        <5>1. Setters(option)' = {}
          BY <1>12, <2>1, <2>3, <3>2, <4>1
        <5> QED
          BY <2>1, <3>2, <4>1, <5>1 DEF EarlierPrevails
      <4>2. CASE Setters(option) # {}
        <5>1. opts.value[option] = keys_read[Min(Setters(option))].value.v
          BY <2>1, <3>2, <4>2 DEF EarlierPrevails
        <5>2. Min(Setters(option)') = Min(Setters(option)) /\ Min(Setters(option)) \in Setters(option)
          <6>1. Setters(option) \in SUBSET (1..n)
            BY <1>12
          <6>2. Setters(option)' = Setters(option) \/ Setters(option)' = Setters(option) \cup {n + 1}
            BY <1>12
          <6>3. Min(Setters(option)) \in Setters(option)
            BY <4>2, <6>1, LeastIs
          <6> QED
            BY <4>2, <6>1, <6>2, <6>3, FirstSetter
        <5>3. Setters(option)' # {} /\ keys_read'[Min(Setters(option))] = keys_read[Min(Setters(option))]
          BY <1>12, <4>2, <5>2
        <5> QED
          BY <5>1, <5>2, <5>3
      <4> QED
        BY <4>1, <4>2
    <3>3. ASSUME NEW i \in DOMAIN argv, argv[i].option = option,
                 \A j \in DOMAIN argv : j > i => argv[j].option # option
          PROVE  opts.value[option] = ArgValue(argv[i])
      BY <2>1, <3>3 DEF EarlierPrevails
    <3> QED
      BY <1>1, <1>13, <3>1, <3>2, <3>3 DEF EarlierPrevails
  <2> QED
    BY <2>2, <2>3
<1>16. \A k : Said(k)' = Said(k) \cup (IF k = name THEN StringsOf(v) ELSE {})
  <2> SUFFICES ASSUME NEW k
               PROVE  Said(k)' = Said(k) \cup (IF k = name THEN StringsOf(v) ELSE {})
    OBVIOUS
  <2>1. \A i \in Setters(k) : StringsOf(keys_read'[i].value) = StringsOf(keys_read[i].value)
    BY <1>12
  <2>2. StringsOf(keys_read'[n + 1].value) = StringsOf(v)
    BY <1>7, <1>12
  <2>3. Said(k)' = UNION {StringsOf(keys_read'[i].value) : i \in Setters(k)'}
    BY DEF Said
  <2>4. Said(k) = UNION {StringsOf(keys_read[i].value) : i \in Setters(k)}
    BY DEF Said
  <2>5. CASE k = name
    <3>1. Setters(k)' = Setters(k) \cup {n + 1}
      BY <1>12, <2>5
    <3> QED
      BY <2>1, <2>2, <2>3, <2>4, <2>5, <3>1
  <2>6. CASE k # name
    <3>1. Setters(k)' = Setters(k)
      BY <1>12, <2>6
    <3> QED
      BY <2>1, <2>3, <2>4, <2>6, <3>1
  <2> QED
    BY <2>5, <2>6
<1>17. AddsAccumulate'
  <2> DEFINE old == Range(opts.std_c_includes)
             new == Range(opts'.std_c_includes)
             add == Said("add_c_includes")
             std == Said("std_c_includes")
  <2>1. add \subseteq old /\ old \subseteq add \cup std
    BY <1>9 DEF AddsAccumulate
  <2>2. opts.std_c_includes = <<>> => old = {}
    BY DEF Range
  <2>3. /\ name = "add_c_includes" => new = old \cup StringsOf(v)
        /\ name = "std_c_includes" /\ opts.std_c_includes = <<>> => new = StringsOf(v)
        /\ name # "add_c_includes" /\ name # "std_c_includes" => new = old
        /\ name = "std_c_includes" /\ opts.std_c_includes # <<>> => new = old
    BY <1>8 DEF ListsAs
  <2>4. /\ add' = add \cup (IF name = "add_c_includes" THEN StringsOf(v) ELSE {})
        /\ std' = std \cup (IF name = "std_c_includes" THEN StringsOf(v) ELSE {})
    BY <1>16
  <2>5. add' \subseteq new /\ new \subseteq add' \cup std'
    <3> HIDE DEF add, std, old, new
    <3>1. CASE name = "add_c_includes"
      BY <2>1, <2>3, <2>4, <3>1
    <3>2. CASE name = "std_c_includes" /\ opts.std_c_includes = <<>>
      BY <2>1, <2>2, <2>3, <2>4, <3>2
    <3>3. CASE name = "std_c_includes" /\ opts.std_c_includes # <<>>
      BY <2>1, <2>3, <2>4, <3>3
    <3>4. CASE name # "add_c_includes" /\ name # "std_c_includes"
      BY <2>1, <2>3, <2>4, <3>4
    <3> QED
      BY <3>1, <3>2, <3>3, <3>4
  <2> QED
    BY <2>5 DEF AddsAccumulate
<1> QED
  BY <1>14, <1>15, <1>17

LEMMA OptionsStep ==
  ASSUME SearchInv, ParseInv, ParseInv', OptionsInv, TablesAreLists,
         [ConfigNext]_configVars
  PROVE  OptionsInv'
<1>1. CASE CliOption
  BY <1>1, OptionsCliOption
<1>2. CASE CliDone
  BY <1>2, OptionsCliDone
<1>3. CASE ConfigKeyValue
  BY <1>3, OptionsValue
<1>4. CASE ConfigFatal \/ ConfigFind \/ ConfigFound
  <2>1. /\ pc = "find" /\ pc' \in {"exit", "parse", "done"} /\ error_count' = error_count
        /\ UNCHANGED <<argv, opts, keys_read>>
    BY <1>4 DEF ConfigFatal, ConfigFind, ConfigFound, environment, parseVars, exit
  <2> QED
    BY <2>1, OptionsKept
<1>5. CASE TableBegins
  <2>1. /\ pc = "parse" /\ pc' \in {"parse", "keys"} /\ UNCHANGED <<argv, opts, keys_read>>
        /\ \/ error_count' = error_count + 1
           \/ error_count' = error_count + 0
    BY <1>5 DEF TableBegins, environment
  <2>2. error_count' = 0 => error_count = 0
    BY <2>1 DEF ParseInv
  <2> QED
    BY <2>1, <2>2, OptionsKept
<1>6. CASE ParseEnds
  <2>1. /\ pc = "parse" /\ pc' \in {"find", "exit"} /\ UNCHANGED <<argv, opts, keys_read>>
        /\ \/ error_count' = error_count + 1
           \/ error_count' = error_count + 0
    BY <1>6 DEF ParseEnds, environment, exit
  <2>2. error_count' = 0 => error_count = 0
    BY <2>1 DEF ParseInv
  <2> QED
    BY <2>1, <2>2, OptionsKept
<1>7. CASE UNCHANGED configVars
  <2>1. UNCHANGED <<argv, opts, keys_read, pc, error_count, optind>>
    BY <1>7 DEF configVars, environment, parseVars
  <2>2. CASE pc = "cli"
    <3>1. \A option : CliValue(opts, option, optind - 1)' <=> CliValue(opts, option, optind - 1)
      BY <2>1 DEF CliValue
    <3>2. \A option : GivenSoFar(option)' <=> GivenSoFar(option)
      BY <2>1 DEF GivenSoFar
    <3>3. CliInv'
      BY <2>1, <2>2, <3>1, <3>2 DEF OptionsInv, CliInv, IsSet
    <3> QED
      BY <2>1, <2>2, <3>3 DEF OptionsInv
  <2>3. CASE pc # "cli"
    BY <2>1, <2>3, OptionsKept
  <2> QED
    BY <2>2, <2>3
<1> QED
  BY <1>1, <1>2, <1>3, <1>4, <1>5, <1>6, <1>7 DEF ConfigNext

\* As long as the reader returns lists and nothing is wrong, the command line
\* prevails over the files, the last one given there, a file over later ones and a
\* key over later ones, and what is added to the list of standard includes stays.
THEOREM EarlierSettingPrevails == ConfigSpec /\ []TablesAreLists => []OptionsAsSet
<1>1. ConfigInit => OptionsInv
  BY OptionsInit
<1>2. SearchInv /\ ParseInv /\ ParseInv' /\ OptionsInv /\ TablesAreLists
        /\ [ConfigNext]_configVars => OptionsInv'
  BY OptionsStep
<1>3. OptionsInv => OptionsAsSet
  BY DEF OptionsInv, OptionsAsSet
<1> QED
  BY <1>1, <1>2, <1>3, SearchAlways, ParseAlways, PTL DEF ConfigSpec

=============================================================================
