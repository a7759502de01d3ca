------------------------------ MODULE MCLittleL -----------------------------
(* Instances of LittleL for TLC: three players, or four with two stakes.    *)
EXTENDS LittleL

\* All-in on the ante, on the first bet, and on a raise.
MCStakes == {1, 2, 4}

\* Two players who are all-in on the ante, and two who bet over them.
MCTwoStakes == {1, 3}

\* How many cards are traded does not touch the chips.
MCTradeIns == {2}
=============================================================================
