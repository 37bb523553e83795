------------------------- MODULE KolejkaOgraniczona -------------------------
(***************************************************************************)
(* What the shared buffer of Zad_7 promises: a bounded first-in first-out  *)
(* queue.  Whatever is dropped was the head, and the consumer had seen it. *)
(***************************************************************************)
EXTENDS Naturals, Sequences

CONSTANTS Element, Pojemnosc

VARIABLES kolejka,  \* elements put and not yet dropped, oldest first
          wziety    \* the consumer's private copy of an element

abstrakcyjne == <<kolejka, wziety>>

Init == kolejka = <<>> /\ wziety \in Element

Put(e) == /\ Len(kolejka) < Pojemnosc
          /\ kolejka' = Append(kolejka, e)
          /\ UNCHANGED wziety

Peek == /\ kolejka # <<>>
        /\ wziety' = Head(kolejka)
        /\ UNCHANGED kolejka

Drop == /\ kolejka # <<>>
        /\ wziety = Head(kolejka)
        /\ kolejka' = Tail(kolejka)
        /\ UNCHANGED wziety

Next == (\E e \in Element : Put(e)) \/ Peek \/ Drop

Spec == Init /\ [][Next]_abstrakcyjne

=============================================================================
