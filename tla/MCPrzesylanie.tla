--------------------------- MODULE MCPrzesylanie ---------------------------
(* Input files for the run of Przesylanie: all their bytes are different.  *)
EXTENDS Przesylanie

CONSTANT Dlugosci   \* lengths of the input files

MCBajt == Nat
MCPliki == {[i \in 1..n |-> i] : n \in Dlugosci}
=============================================================================
