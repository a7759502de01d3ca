---------------------------- MODULE MCAceyDeucey ----------------------------
(* Instances of AceyDeucey for TLC: neighbours, a gap of one card, aces.    *)
EXTENDS AceyDeucey

\* 2 and 3 are neighbours, 2 and 4 have a gap of one, as have a low ace and 3.
MCRanks == {2, 3, 4, Ace}

\* Whole quarters, and an ante that leaves odd cents in the pot.
MCAntes == {50, 60}

\* The least bet, a lot, an amount that is no multiple of 25, and one
\* below zero.
MCAmounts == {-30, 0, 25, 30, 100}
=============================================================================
