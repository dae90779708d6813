-------------------------------- MODULE MCCxx -------------------------------
(* Cxx for TLC: the second header is the proxy for the first, the others   *)
(* stand by themselves.                                                    *)
EXTENDS Cxx

ProxyOf == [h \in Header |-> IF h = 1 THEN 2 ELSE h]

=============================================================================
