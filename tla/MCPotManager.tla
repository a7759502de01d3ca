---------------------------- MODULE MCPotManager ----------------------------
(* Instances of PotManager for TLC: three players and few, unequal stakes.  *)
EXTENDS PotManager

\* A chip is two cents.  After the ante of one cent the players have 5, 6 or 8 left:
\* enough for the blinds, a raise, all-ins for three different amounts, some of which
\* are no whole chips, and a bet that is no all-in in the round after one.
MCStakes == {6, 7, 9}

\* Short and deep stacks, to see who shares a side pot.
MCTwoStakes == {2, 3}
=============================================================================
