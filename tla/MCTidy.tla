------------------------------- MODULE MCTidy -------------------------------
(***************************************************************************)
(* Instances of Tidy for TLC.  The headers: "l" is local and the source    *)
(* file's associated header; "s" is a standard header and "i" an           *)
(* implementation header it includes, "c" the C++ header <cs> that wraps   *)
(* <s.h>, and "x" one of a library.                                        *)
(***************************************************************************)
EXTENDS Tidy

MCFile == {"l", "s", "i", "c", "x"}

MCFileID == [f \in MCFile |-> f]

MCRelPath == MCFileID

MCBasename == MCFileID

MCIsLocal == [f \in MCFile |-> f = "l"]

MCStandard == {"s", "c"}

MCCxxHeader == [f \in MCFile |-> IF f = "s" THEN "c" ELSE NULL]

MCPathFind == MCFileID

MCMayInclude == {<<MAIN, "l">>, <<MAIN, "x">>, <<MAIN, "s">>, <<MAIN, NULL>>,
                 <<"l", "s">>, <<"s", "i">>, <<"x", "c">>, <<"c", "s">>}

MCSymbol == {"fi", "fx", "fs"}

MCDeclares == [f \in MCSymbol |-> IF f = "fi" THEN "i" ELSE
                                  IF f = "fx" THEN "x" ELSE "s"]

Proxy(to, matches) == [to |-> to, matches |-> matches]

Handle(handle, matches) == [handling |-> handle, matches |-> matches]

\* The library header is a proxy for the C++ header and the implementation
\* header, and kept; the standard one is elided; "fs" is declared in two headers, and "fx" may be ignored.
MCProxyKeys == {Proxy("x", {"c", "i"})}

MCHandleKeys == {Handle("ELIDE", {"s"}), Handle("KEEP", {"x"})}

MCSymbolKeys == {[sym |-> "fs", inc |-> "s"], [sym |-> "fs", inc |-> "x"]}

MCIgnoreKeys == {[ignore |-> "fx"]}

\* An implementation header includes itself.
MCSelfInclude == {<<MAIN, "x">>, <<"x", "i">>, <<"i", "i">>}

=============================================================================
