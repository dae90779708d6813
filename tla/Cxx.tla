-------------------------------- MODULE Cxx ---------------------------------
(***************************************************************************)
(* The exceptions of cxx.c to "include what you use": a symbol does not ask *)
(* for its header if a header that is needed anyway is sure to include it. *)
(* Whether it is, is found out from what libclang says of the classes, with *)
(* the help of clang_util.c.                                               *)
(*                                                                         *)
(* The declarations of the headers are handed out one at a time (Declare), *)
(* and with them which headers must include which; the functions that      *)
(* decide the exceptions only ask.                                         *)
(***************************************************************************)
EXTENDS Integers, Sequences, FiniteSets, FiniteSetsExt

CONSTANTS
  Header,     \* numbered as their declarations are read: 1..n
  Proxy,      \* of a header: include_get_proxy(), or itself
  MaxDecs     \* bound: declarations

ASSUME CxxAssumption ==
  /\ Header \subseteq Nat \ {0} /\ IsFiniteSet(Header)
  /\ Proxy \in [Header -> Header]
  /\ \A h \in Header : Proxy[Proxy[h]] = Proxy[h]

VARIABLES
  decs,          \* the declarations; 0 stands for the translation unit
  included,      \* of a header: itself and those it includes, directly or not
  shows_bases    \* does libclang list bases also for the first of several
                 \* declarations of a class?

cxxVars == <<decs, included, shows_bases>>

\* A FieldDecl also stands for a member function, and its type for what that returns.
DeclarationKinds == {"ClassDecl", "ClassTemplate", "TypedefDecl", "FieldDecl"}

NoOrHeader == {0} \cup Header

Declaration(n) == [
  kind     : DeclarationKinds,
  parent   : 0..n,                   \* clang_getCursorSemanticParent()
  file     : Header,                 \* of its definition, if it has one
  forward  : NoOrHeader,     \* where it is declared before, if it is
  bases    : SUBSET (1..n),
  template : 0..n,                   \* clang_getSpecializedCursorTemplate()
  type     : 0..n,                   \* what a typedef, function or field has
  from     : NoOrHeader]     \* where that type is known from

CxxTypeOK ==
  /\ decs \in Seq(Declaration(Len(decs)))
  /\ included \in [Header -> SUBSET Header]
  /\ shows_bases \in BOOLEAN

\* A proxy includes what it is a proxy for.
CxxInit ==
  /\ decs = <<>>
  /\ included = [h \in Header |-> {h} \cup {g \in Header : Proxy[g] = h}]
  /\ shows_bases \in BOOLEAN

Decs == DOMAIN decs
IsNull(d) == d = 0

\* tidy_Cursor_isClassDecl()
isClassDecl(d) == d \in Decs /\ decs[d].kind \in {"ClassDecl", "ClassTemplate"}
IsAlias(d) == d \in Decs /\ decs[d].kind = "TypedefDecl"

-----------------------------------------------------------------------------
(* What a header can declare.  It includes what it needs the definition of, *)
(* or for a type that is only named, a declaration; by its proxy, unless   *)
(* both are parts of the same.                                             *)

IncludeFor(h, needed) == IF Proxy[needed] = Proxy[h] THEN needed ELSE Proxy[needed]

Class(kind, parent, template, file, forward, bases) ==
  [kind |-> kind, parent |-> parent, file |-> file, forward |-> forward, bases |-> bases,
   template |-> template, type |-> 0, from |-> 0]

\* A specialization nobody wrote: it is where the template is.
IsImplicit(d) == decs[d].template # 0 /\ decs[d].file = decs[decs[d].template].file

\* The next declaration that is written is in no earlier header.
NextFile == {h \in Header : \A e \in Decs : IsImplicit(e) \/ decs[e].file <= h}

IsBase(b) ==
  \/ isClassDecl(b) /\ decs[b].kind # "ClassTemplate"
  \/ IsAlias(b) /\ isClassDecl(decs[b].type)

NewClasses ==
  {Class(kind, 0, 0, file, forward, bases) :
     kind \in {"ClassDecl", "ClassTemplate"}, file \in NextFile,
     forward \in {0} \cup {h \in Header : \E file \in NextFile : h < file},
     bases \in {B \in SUBSET Decs : Cardinality(B) <= 2 /\ \A b \in B : IsBase(b)}}
NestedClasses ==
  {Class("ClassDecl", parent, 0, file, 0, {}) :
     parent \in {c \in Decs : isClassDecl(c) /\ ~IsImplicit(c)}, file \in NextFile}

\* Of a template, implicit or explicit.
Specializations ==
  UNION {{Class("ClassDecl", decs[t].parent, t, file, 0, {}) :
            file \in {decs[t].file} \cup NextFile} :
         t \in {t \in Decs : decs[t].kind = "ClassTemplate"}}

Named(kind, type, parent, file) ==
  {[kind |-> kind, parent |-> parent, file |-> file, forward |-> 0, bases |-> {},
    template |-> 0, type |-> type, from |-> from] :
     from \in {decs[type].file, decs[type].forward} \ {0}}
Aliases == UNION {Named("TypedefDecl", type, 0, file) : type \in Decs, file \in NextFile}
Members ==
  UNION {Named(kind, type, parent, decs[parent].file) :
           kind \in {"TypedefDecl", "FieldDecl"}, type \in Decs,
           parent \in {c \in Decs : isClassDecl(c) /\ ~IsImplicit(c) /\ decs[c].file \in NextFile}}

IsType(d) == isClassDecl(d) \/ IsAlias(d)

\* Declarations that do not need each other come in one order only.
Needs(d) == d.bases \cup {d.parent, d.template, d.type}
Rank(d) ==
  CASE d.kind = "ClassTemplate" -> 0
    [] d.kind = "ClassDecl" -> IF d.template # 0 THEN 1 ELSE IF d.parent # 0 THEN 2 ELSE 3
    [] d.kind = "TypedefDecl" -> 4
    [] OTHER -> 5
InOrder(d) ==
  decs # <<>> =>
    LET last == decs[Len(decs)] IN
    \/ Len(decs) \in Needs(d)
    \/ last.file < d.file
    \/ last.file = d.file /\ Rank(last) <= Rank(d)

Declare(d) ==
  /\ Len(decs) < MaxDecs
  /\ InOrder(d)
  /\ d.forward # 0 => d.forward < d.file
  /\ d.kind = "ClassTemplate" => d.bases = {}
  /\ d.type # 0 => IsType(d.type)
  /\ decs' = Append(decs, d)
  /\ LET needed == {decs[e].file : e \in d.bases \cup ({d.parent, d.template} \ {0})}
                     \cup ({d.from} \ {0})
         more == UNION {included[IncludeFor(d.file, n)] : n \in needed \ {d.file}}
     IN  included' = [h \in Header |->
                        IF d.file \in included[h] THEN included[h] \cup more ELSE included[h]]
  /\ UNCHANGED shows_bases

CxxNext ==
  \E d \in NewClasses \cup NestedClasses \cup Specializations \cup Aliases \cup Members :
    Declare(d)

CxxSpec == CxxInit /\ [][CxxNext]_cxxVars

-----------------------------------------------------------------------------
(* Cursors for a declaration: that of its definition and, if it is declared *)
(* before, that of the first, which is the canonical one.                  *)

CXCursor(d, first) == [dec |-> d, first |-> first]
Defined(d) == CXCursor(d, FALSE)
Canonical(d) == CXCursor(d, d # 0 /\ decs[d].forward # 0)

BasesAt(cursor) ==
  IF cursor.first /\ ~shows_bases THEN {} ELSE decs[cursor.dec].bases

isTemplateSpecializationOf(cursor, d) ==
  d # 0 /\ decs[d].template # 0 /\ cursor = Canonical(decs[d].template)

isInheritable(d) == d # 0 /\ decs[d].kind \in {"FieldDecl", "TypedefDecl"}

\* Mutant: only the bases that are named.
isInheritedFrom_direct(d, base) ==
  /\ isClassDecl(d)
  /\ \E b \in BasesAt(Defined(d)) : b = IF isInheritable(base) THEN decs[base].parent ELSE base

\* The bases of a class and of those around it, and theirs.
isInheritedFrom(d, base) ==
  LET of == IF isInheritable(base) THEN decs[base].parent ELSE base
      base_csr == Canonical(of)
      inherits[c \in [dec : 0..Len(decs), first : BOOLEAN]] ==
        /\ ~IsNull(c.dec)
        /\ \/ isClassDecl(c.dec) /\ isTemplateSpecializationOf(base_csr, c.dec)
           \/ \E b \in BasesAt(c) :
                \/ Canonical(b) = base_csr
                \/ inherits[Canonical(b)]
                \/ isTemplateSpecializationOf(base_csr, b)
           \/ inherits[Defined(decs[c.dec].parent)]
  IN  isClassDecl(of) /\ inherits[Defined(d)]

\* The outermost class that d is or is declared in, or 0.
getOutermostClass(d) ==
  LET outermost[e \in 0..Len(decs)] ==
        IF IsNull(e) THEN 0
        ELSE IF ~IsNull(outermost[decs[e].parent]) THEN outermost[decs[e].parent]
        ELSE IF isClassDecl(e) THEN e ELSE 0
  IN  outermost[d]

\* clang_getCanonicalType(), as its declaration
CanonicalType(d) ==
  LET canonical[e \in 1..Len(decs)] ==
        IF IsAlias(e) THEN canonical[decs[e].type] ELSE e
  IN  canonical[d]
OrTemplate(d) == IF decs[d].template # 0 THEN decs[d].template ELSE d

isTypeAliasOf(alias, underlying) ==
  /\ IsAlias(alias)
  /\ \/ CanonicalType(alias) = CanonicalType(underlying)
     \/ OrTemplate(CanonicalType(alias)) = OrTemplate(underlying)

-----------------------------------------------------------------------------
(* The exceptions. *)

\* Mutant: the function may be in any header.
is_cxx_arg_iwyu_exc_anywhere(fn_file, par, arg_cls) ==
  LET par_ocls == getOutermostClass(par)
      arg_ocls == getOutermostClass(arg_cls)
  IN  /\ ~IsNull(par_ocls)
      /\ \/ isTypeAliasOf(arg_cls, par)
         \/ isInheritedFrom(arg_ocls, par_ocls)
         \/ isTemplateSpecializationOf(Defined(arg_ocls), par_ocls)

\* is_cxx_fn_iwyu_exc() for one of the parameters, with the type par, and its
\* argument, with the class or alias arg_cls, as it is written.
is_cxx_arg_iwyu_exc(fn_file, par, arg_cls) ==
  LET par_ocls == getOutermostClass(par)
      arg_ocls == getOutermostClass(arg_cls)
  IN  /\ ~IsNull(par_ocls)
      /\ Proxy[decs[par_ocls].file] = Proxy[fn_file]
      /\ \/ isTypeAliasOf(arg_cls, par)
         \/ isInheritedFrom(arg_ocls, par_ocls)
         \/ isTemplateSpecializationOf(Defined(arg_ocls), par_ocls)

\* For a declaration that is mentioned where the class scope is in scope.
is_cxx_mbr_or_base_iwyu_exc(d, scope) ==
  /\ isClassDecl(scope)
  /\ \/ scope = d \/ isInheritedFrom(scope, d)
     \/ scope = decs[d].parent \/ isInheritedFrom(scope, decs[d].parent)

\* For a member of what d is, if it is a field.
is_cxx_mbr_ref_iwyu_exc(d) ==
  \/ isClassDecl(decs[decs[d].type].parent)
  \/ decs[d].kind = "FieldDecl"

-----------------------------------------------------------------------------
(* Properties *)

\* All that a class inherits from, as C++ has it.
BasesOf(c) ==
  {CanonicalType(b) : b \in decs[c].bases}
    \cup (IF decs[c].template # 0 THEN {decs[c].template} ELSE {})
Ancestors(c) ==
  LET above[n \in 0..Len(decs)] ==
        IF n = 0 THEN {c} ELSE above[n - 1] \cup UNION {BasesOf(b) : b \in above[n - 1]}
  IN  above[Len(decs)] \ {c}

\* Classes whose bases libclang lists under their own names.
IsListed(c) ==
  /\ decs[c].bases \cap {b \in Decs : IsAlias(b)} = {}
  /\ decs[c].forward # 0 => shows_bases
  /\ decs[c].template # 0 => decs[decs[c].template].bases = {}

\* Where a class is in scope, neither it nor any class it inherits from, however
\* far up, nor a member of one of them asks for its header.
BasesExempt ==
  \A c \in {c \in Decs : isClassDecl(c)} :
    (\A b \in {c} \cup Ancestors(c) : IsListed(b)) =>
      \A d \in Decs : {d, decs[d].parent} \cap ({c} \cup Ancestors(c)) # {} =>
                      is_cxx_mbr_or_base_iwyu_exc(d, c)

\* The headers that come with another, as they would be asked for.
Provided(h) == {Proxy[g] : g \in included[h]}

\* Four cases in which the comments of cxx.c promise more than C++ does.  An alias
\* of a class that its header only declares:
NamesIncomplete(alias) ==
  /\ IsAlias(alias)
  /\ Proxy[decs[getOutermostClass(CanonicalType(alias))].file] \notin Provided(decs[alias].file)
\* a parameter of a specialization that is not where its template is:
IsExplicit(par) ==
  LET cls == getOutermostClass(par)
  IN  cls # 0 /\ decs[cls].template # 0 /\ ~IsImplicit(cls)
\* a parameter whose type is named by an alias that is a member of a class:
IsMemberAlias(par) == IsAlias(par) /\ decs[par].parent # 0
\* and a class that is not defined inside of the class it is a member of.
IsOutside(d) == decs[d].parent # 0 /\ decs[d].file # decs[decs[d].parent].file

\* A header that is not asked for by an exception comes with the header of the
\* argument's class as it is written, or of the class in scope.
ExceptionsSufficient ==
  /\ \A fn_file \in Header, par \in {d \in Decs : IsType(d)}, arg_cls \in {d \in Decs : IsType(d)} :
       /\ is_cxx_arg_iwyu_exc(fn_file, par, arg_cls)
       /\ ~NamesIncomplete(arg_cls) /\ ~IsExplicit(par) /\ ~IsMemberAlias(par)
       => Proxy[fn_file] \in Provided(decs[arg_cls].file)
  /\ \A d \in Decs, scope \in Decs :
       is_cxx_mbr_or_base_iwyu_exc(d, scope) /\ ~IsOutside(d) =>
         Proxy[decs[d].file] \in Provided(decs[scope].file)

\* What is not asked for to use a member of what a class's member is or returns,
\* comes with the header of the class.
MemberRefSufficient ==
  \A d \in {d \in Decs : decs[d].kind = "FieldDecl"} :
    is_cxx_mbr_ref_iwyu_exc(d) =>
      Proxy[decs[CanonicalType(decs[d].type)].file] \in Provided(decs[d].file)

=============================================================================
