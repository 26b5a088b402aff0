------------------------------- MODULE MCJVar -------------------------------
(***************************************************************************)
(* Instances of JVar for TLC.                                              *)
(***************************************************************************)
EXTENDS JVar

\* Two sound heaps with the same tree differ only in the addresses of their objects, on
\* which nothing depends, and in what nobody can reach any more.
View == IF Defined /\ TypeOK /\ OneOwner /\ NoLeak
        THEN <<TreeOf(heap), Cardinality(DOMAIN heap), knotted>>
        ELSE IF Defined THEN <<heap>> ELSE << "undefined" >>
=============================================================================
