------------------------ MODULE MCProducentKonsument ------------------------
(* Input files for the runs of ProducentKonsument.  The bytes of a file    *)
(* differ from each other, so that any loss, repetition or exchange shows. *)
EXTENDS ProducentKonsument

CONSTANT MaxPlik   \* longest input file

MCBajt == 0..MaxPlik
Tekst(n) == [i \in 1..n |-> i]

(* Files without '\0'; their lengths take every residue modulo NELE.       *)
TekstPliki == {Tekst(n) : n \in 0..MaxPlik}

(* The same with one byte replaced by '\0', anywhere in the file.          *)
ZeroPliki == {[Tekst(n) EXCEPT ![k] = 0] : n \in {MaxPlik}, k \in 1..MaxPlik}

MCPliki == TekstPliki \cup ZeroPliki
=============================================================================
