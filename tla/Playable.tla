------------------------------ MODULE Playable ------------------------------
(***************************************************************************)
(* What the room's dealer takes for granted of a game (playable.Playable   *)
(* and playable.Tickable, src/pkg/playable/playable.go): the specification *)
(* the games are shown to implement.                                       *)
(*                                                                         *)
(* The dealer settles a game once, with the adjustments it reads when the  *)
(* game says it is over; the table's balances stay right only if those     *)
(* adjustments add up to nothing and do not change afterwards.  And it     *)
(* does nothing but tick: a game that stops moving by itself, and asks     *)
(* nobody to act, keeps the table busy for ever.                           *)
(***************************************************************************)
EXTENDS Sums

CONSTANT N  \* the number of players dealt in

VARIABLES
  adjustment, \* what each player has won (or lost) so far, 0 .. N-1 -> Int
  table,      \* the chips on the table, nobody's yet
  status      \* "waits" for a player, "deals" by itself, or "over"

vars == <<adjustment, table, status>>

\* What the players have lost lies on the table, and the table owes nobody.
Balanced == table >= 0 /\ Sum(adjustment, N) + table = 0

Init == status \in {"waits", "deals"} /\ Balanced

\* A player acts, or the game moves by itself: Action, Tick.
Move ==
  /\ status # "over"
  /\ status' \in {"waits", "deals"}
  /\ Balanced'

\* The game is over, and everything on the table has gone to somebody:
\* GetEndOfGameDetails.
End ==
  /\ status # "over"
  /\ status' = "over"
  /\ table' = 0
  /\ Balanced'

Next == Move \/ End

SafeSpec == Init /\ [][Next]_vars

\* A game does not deal for ever: it comes to wait for a player, or to its end.
Comes == []<>(status # "deals")

Spec == SafeSpec /\ Comes
=============================================================================
