------------------------------ MODULE MCRules -------------------------------
(***************************************************************************)
(* Four suits, alike but for trumps, and hands of six cards to which two   *)
(* wild cards make the eight that Baseball can deal: two suits that each   *)
(* become a flush, two sets of trips, and a straight next to pairs.        *)
(***************************************************************************)
EXTENDS Rules, TLC

CONSTANTS c, d, h, s

MCMaxCards == (3 :> 6) @@ (5 :> 6)
Hand(card) == {[rank |-> k[1], suit |-> k[2]] : k \in card}

TwoFlushes == Hand({<<13, s>>, <<4, s>>, <<2, s>>, <<12, h>>, <<11, h>>, <<10, h>>})
TwoTrips == Hand({<<6, s>>, <<6, h>>, <<6, d>>, <<4, s>>, <<4, h>>, <<4, c>>})
StraightAndPairs == Hand({<<5, s>>, <<5, h>>, <<4, s>>, <<3, d>>, <<14, c>>, <<14, h>>})

\* In all suits, as the symmetry asks.
MCLargeHands ==
  {{[k EXCEPT !.suit = p[@]] : k \in large} :
     large \in {TwoFlushes, TwoTrips, StraightAndPairs}, p \in Permutations(Suits)}

Symmetry == Permutations(Suits)
=============================================================================
