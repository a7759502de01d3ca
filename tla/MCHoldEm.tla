------------------------------ MODULE MCHoldEm ------------------------------
(* Instances of HoldEm for TLC: three players, short and unequal stacks.    *)
EXTENDS HoldEm

\* After an ante of one chip the players have three chips, or three and a half, left:
\* the big blind of two, a raise, all-ins for two different amounts, on the same street
\* or on two, and a cent more than a chip in the pots.
MCStakes == {8, 9}
=============================================================================
