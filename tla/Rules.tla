------------------------------- MODULE Rules --------------------------------
(***************************************************************************)
(* The rules of the cards, against what a card player would say they are:  *)
(* what a poker hand is worth (HandAnalyzer), and which card takes a trick *)
(* of Bourré (Tricks).                                                     *)
(*                                                                         *)
(* Cards are dealt one at a time into a hand, some of them wild, and the   *)
(* hand is analyzed after every card; or they are dealt to the players of  *)
(* a trick, who play one each.                                             *)
(***************************************************************************)
EXTENDS HandAnalyzer, Tricks

CONSTANTS
  Suits,
  Ranks,       \* the ranks dealt into poker hands without wild cards
  WildRanks,   \* and into those with wild cards
  TrickRanks,  \* and into the hands of a trick
  MaxCards,    \* bound: the cards of a hand, by the size it is played with
  MaxWild,     \* bound: the cards of a hand with wild cards, when each is dealt
  LargeHands,  \* larger hands, dealt at once, to which only wild cards are dealt
  MaxHeld,     \* bound: the cards held by who plays to a trick
  Players      \* the players of a trick

ASSUME RulesAssumption ==
  /\ Ranks \cup WildRanks \cup TrickRanks \subseteq 2 .. Ace
  /\ MaxCards \in [{3, 5} -> Nat]
  /\ {MaxWild, MaxHeld, Players} \subseteq Nat
  /\ LargeHands \subseteq SUBSET [rank : 2 .. Ace, suit : Suits]

VARIABLES
  size,     \* HandAnalyzer.size, or 0 at a trick
  hand,     \* the cards that are not wild; at a trick, the hand of who plays next
  wilds,    \* the wild cards
  trump,    \* the suit of Game.trumpCard
  played,   \* Game.cardsPlayed
  winning   \* Game.winningCardPlayed

vars == <<size, hand, wilds, trump, played, winning>>

Cards(ranks) == [rank : ranks, suit : Suits]
NoCard == [rank |-> 0, suit |-> "none"]

Init ==
  /\ size \in {0, 3, 5}
  /\ hand \in {{}} \cup (IF size = 5 THEN LargeHands ELSE {})
  /\ wilds = {}
  /\ trump \in IF size = 0 THEN Suits ELSE {"none"}
  /\ played = <<>>
  /\ winning = NoCard

\* A card is dealt into a poker hand.
Deal(card) ==
  /\ size # 0
  /\ wilds = {} /\ Cardinality(hand) < MaxCards[size]
  /\ card \notin hand
  /\ hand' = hand \cup {card}
  /\ UNCHANGED <<size, wilds, trump, played, winning>>

\* A card is dealt that is wild, or becomes it; only Seven-Card has such cards, and its
\* hands are of five.
DealWild(card) ==
  /\ size = 5
  /\ Cardinality(wilds) < 2
  /\ \/ hand \in LargeHands
     \/ hand \subseteq Cards(WildRanks) /\ Cardinality(hand) + Cardinality(wilds) < MaxWild
  /\ card \notin hand \cup wilds
  /\ wilds' = wilds \cup {card}
  /\ UNCHANGED <<size, hand, trump, played, winning>>

\* What the next player to play holds.
Hold(card) ==
  /\ size = 0
  /\ Cardinality(hand) < MaxHeld
  /\ card \notin hand
  /\ \A i \in 1 .. Len(played) : played[i] # card
  /\ hand' = hand \cup {card}
  /\ UNCHANGED <<size, wilds, trump, played, winning>>

\* playerDidPlayCard
PlayCard(card) ==
  /\ size = 0
  /\ Len(played) < Players
  /\ card \in hand
  /\ CanPlayerPlayCard(hand, card, played, winning, trump)
  /\ winning' = WinningCardPlayed(card, played, winning, trump)
  /\ played' = Append(played, card)
  /\ hand' = {}
  /\ UNCHANGED <<size, wilds, trump>>

Next ==
  \/ \E card \in Cards(Ranks) : Deal(card)
  \/ \E card \in Cards(WildRanks) : DealWild(card)
  \/ \E card \in Cards(TrickRanks) : Hold(card)
  \/ \E card \in hand : PlayCard(card)

Spec == Init /\ [][Next]_vars

-----------------------------------------------------------------------------
(* What a poker hand is worth: of all hands of `size' of the cards, the    *)
(* best; hands compare by what they make, then by their ranks, those that  *)
(* come more often first.                                                  *)

\* Cards that stand for several wilds may be alike, so a card has an identity.
Count(cards, rank) == Cardinality({c \in cards : c.rank = rank})

IsStraight(cards, n) ==
  LET ranks == RanksOf(cards)
  IN  Cardinality(ranks) = n /\ (\/ \E low \in ranks : ranks = low .. low + n - 1
                                 \/ ranks = {Ace} \cup 2 .. n)

StraightTop(cards, n) ==
  IF RanksOf(cards) = {Ace} \cup 2 .. n THEN n ELSE Top(RanksOf(cards))

Category(cards, n) ==
  LET counts == {Count(cards, r) : r \in RanksOf(cards)}
      full == Cardinality(cards) = n
      flush == full /\ Cardinality(SuitsOf(cards)) = 1
      straight == full /\ IsStraight(cards, n)
      pairs == {r \in RanksOf(cards) : Count(cards, r) = 2}
  IN  CASE flush /\ straight /\ StraightTop(cards, n) = Ace -> RoyalFlush
        [] flush /\ straight /\ StraightTop(cards, n) # Ace -> StraightFlush
        [] OTHER -> Top({0} \cup
             {k \in HighCard .. FourOfAKind :
                \/ k = FourOfAKind /\ n = 5 /\ \E q \in counts : q >= 4
                \/ k = FullHouse /\ counts = {2, 3}
                \/ k = ThreeCardPokerThreeOfAKind /\ n = 3 /\ 3 \in counts
                \/ k = ThreeCardPokerStraight /\ n = 3 /\ straight
                \/ k = FlushHand /\ flush
                \/ k = StraightHand /\ n = 5 /\ straight
                \/ k = ThreeOfAKind /\ n = 5 /\ 3 \in counts
                \/ k = TwoPair /\ Cardinality(pairs) = 2
                \/ k = OnePair /\ pairs # {}})

\* The ranks of a hand, those that come more often first, then the higher.
InOrder(cards) ==
  LET keys == {15 * Count(cards, r) + r : r \in RanksOf(cards)}
  IN  [i \in 1 .. Cardinality(keys) |->
         (CHOOSE k \in keys : Cardinality({j \in keys : j >= k}) = i) % 15]

Value(cards, n) ==
  LET category == Category(cards, n)
  IN  CalculateStrength(category,
        CASE category = RoyalFlush -> <<>>
          [] category \in {StraightFlush, StraightHand, ThreeCardPokerStraight} ->
               <<StraightTop(cards, n)>>
          [] category = FlushHand -> Kickers(cards, n)
          [] OTHER -> InOrder(cards))

BestValue(cards, n) ==
  Top({Value(best, n) : best \in
         {b \in SUBSET cards : Cardinality(b) = IF Cardinality(cards) < n
                                                THEN Cardinality(cards) ELSE n}})

\* What a wild card may stand for: any rank of its suit, or its rank in any suit (but
\* not in a suit where that card is already there).  `for' tells two stand-ins apart
\* that are alike.
StandIn(rank, suit, for) == [rank |-> rank, suit |-> suit, for |-> for]

StandIns(wild) ==
  {StandIn(r, wild.suit, {wild}) : r \in 2 .. Ace} \cup {StandIn(wild.rank, s, {wild}) : s \in Suits}

Natural(cards) == {StandIn(c.rank, c.suit, {}) : c \in cards}

\* The same card twice is only allowed to a wild card that keeps its suit.
Allowed(cards) ==
  \A c, d \in cards :
    c # d /\ c.rank = d.rank /\ c.suit = d.suit
      => \E w \in c.for \cup d.for : w.suit = c.suit

Replacements(naturals, wildCards) ==
  IF wildCards = {}
  THEN {Natural(naturals)}
  ELSE LET one == CHOOSE w \in wildCards : TRUE
           rest == wildCards \ {one}
       IN  {Natural(naturals) \cup {c} \cup others :
              c \in StandIns(one),
              others \in IF rest = {} THEN {{}} ELSE {{d} : d \in UNION {StandIns(w) : w \in rest}}}

BestReplacement(naturals, wildCards, n) ==
  Top({BestValue(cards, n) : cards \in {r \in Replacements(naturals, wildCards) : Allowed(r)}})

-----------------------------------------------------------------------------
(* Properties                                                              *)

\* The first of the ranks that decide between equal hands.
DecidingRank(strength) == (strength \div (15 * 15 * 15 * 15)) % 15

\* Without wild cards, a hand is worth the best hand of `size' of its cards.  The one
\* exception: of two flushes in the same cards the first to be complete is taken, which
\* may not be the better one.
NaturalHandsAreRanked ==
  size # 0 /\ wilds = {} =>
    LET worth == New(size, hand, {})
        best == BestValue(hand, size)
        flushes == {s \in Suits : Cardinality(OfSuit(hand, s)) >= size}
    IN  \/ worth = best
        \/ Cardinality(flushes) > 1 /\ HandOf(worth) = FlushHand /\ HandOf(best) = FlushHand

\* With wild cards, a hand is worth the best hand of `size' of its cards and of what its
\* wild cards can stand for, but for three: a single wild card with no other card is worth
\* nothing; next to four of a kind the wild card that is left over is no ace if the hand
\* has a card higher than the four (the card that decides is then that one), and a fifth
\* ace if the four are aces; and of two flushes, which takes eight cards with two of them
\* wild, the first to be complete is taken, which may not be the better one
\* (checkFlushConstrained).
WildHandsAreBestReplacements ==
  size # 0 /\ wilds # {} =>
    LET worth == New(size, hand, wilds)
        best == BestReplacement(hand, wilds, size)
    IN  \/ worth = best
        \/ hand = {} /\ Cardinality(wilds) = 1 /\ worth = 0
        \/ /\ HandOf(worth) = FourOfAKind /\ HandOf(best) = FourOfAKind
           /\ DecidingRank(worth) = DecidingRank(best)
           /\ DecidingRank(worth) = Ace \/ \E c \in hand : c.rank > DecidingRank(worth)
        \/ /\ HandOf(worth) = FlushHand /\ HandOf(best) = FlushHand
           /\ Cardinality({s \in SuitsOf(hand) :
                Cardinality(OfSuit(hand, s)) + Cardinality(wilds) >= size}) > 1

\* Whoever plays to a trick has a card to play; the cards that may be played are those
\* of the suit that was led, or else trumps, or else any, and of these the ones that head
\* the trick if there are any; and the highest trump, or else the highest card of the suit
\* that was led, is winning.
TricksFollowTheRules ==
  size = 0 =>
    LET mayPlay == {c \in hand : CanPlayerPlayCard(hand, c, played, winning, trump)}
        onTable == {played[i] : i \in 1 .. Len(played)}
        trumps == OfSuit(onTable, trump)
        led == OfSuit(onTable, played[1].suit)
        best(cards) == CHOOSE c \in cards : c.rank = Top(RanksOf(cards))
        follows == IF Holds(hand, played[1].suit) THEN OfSuit(hand, played[1].suit)
                   ELSE IF Holds(hand, trump) THEN OfSuit(hand, trump) ELSE hand
        heading == {c \in follows : Beats(c, winning)}
    IN  IF played = <<>>
        THEN mayPlay = hand
        ELSE /\ winning = best(IF trumps # {} THEN trumps ELSE led)
             /\ mayPlay = IF heading # {} THEN heading ELSE follows
=============================================================================
