------------------------------ MODULE MCDealer ------------------------------
(* Dealer on a small table: two web clients, or one that is there while    *)
(* two games come and go.                                                  *)
EXTENDS Dealer, TLC

CONSTANTS c1, c2

Symmetry == Permutations({c1, c2})

OneGame  == <<3>>
TwoGames == <<3, 0-2>>
NoGames  == <<>>
=============================================================================
