------------------------------- MODULE Tricks -------------------------------
(***************************************************************************)
(* The cards of a trick in Bourré (src/pkg/playable/bourre/bourre.go):     *)
(* which ones may be played, and which one is winning.                     *)
(***************************************************************************)
EXTENDS Integers, Sequences

\* Whether a hand holds a card of the suit, and one that beats the winning card in its suit.
Holds(hand, suit) == \E c \in hand : c.suit = suit
Beats(card, winning) == card.suit = winning.suit /\ card.rank > winning.rank

\* mutant of CanPlayerPlayCard: no need to head a trick that has been trumped
CanPlayerPlayCardAnyTrump(hand, card, played, winning, trump) ==
  played # <<>> =>
    LET lead == played[1].suit
    IN  CASE card.suit = lead ->
               card.suit = winning.suit /\ card.rank < winning.rank
                 => ~\E c \in hand : Beats(c, winning)
          [] card.suit # lead /\ card.suit = trump -> ~Holds(hand, lead)
          [] OTHER -> ~Holds(hand, lead) /\ ~Holds(hand, trump)

\* canPlayerPlayCard
CanPlayerPlayCard(hand, card, played, winning, trump) ==
  played # <<>> =>
    LET lead == played[1].suit
        low == card.suit = winning.suit /\ card.rank < winning.rank
        headed == \E c \in hand : Beats(c, winning)
    IN  CASE card.suit = lead -> ~(low /\ headed)
          [] card.suit # lead /\ card.suit = trump -> ~Holds(hand, lead) /\ ~(low /\ headed)
          [] OTHER -> ~Holds(hand, lead) /\ ~Holds(hand, trump)

\* playerDidPlayCard: the card that is winning once this one is played.
WinningCardPlayed(card, played, winning, trump) ==
  IF \/ played = <<>>
     \/ Beats(card, winning)
     \/ card.suit = trump /\ winning.suit # trump
  THEN card
  ELSE winning
=============================================================================
