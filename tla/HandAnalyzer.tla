---------------------------- MODULE HandAnalyzer ----------------------------
(***************************************************************************)
(* handanalyzer.New (src/pkg/playable/poker/handanalyzer): what a hand is  *)
(* worth in poker played with hands of `size' cards, 5 or 3.               *)
(*                                                                         *)
(* A card is a record of its rank, 2 .. 14, and its suit; a hand is a set  *)
(* of cards, some of which are wild.  A wild card keeps its suit and takes *)
(* any rank (rank mode) or keeps its rank and takes any suit (suit mode);  *)
(* each choice of modes is analyzed and the strongest hand counts.         *)
(*                                                                         *)
(* The code walks the hand from its highest card down; the definitions     *)
(* here say what that walk finds.                                          *)
(***************************************************************************)
EXTENDS Integers, Sequences, FiniteSets

Ace == 14
LowAce == 1

\* Hand (hand.go), weakest first.
HighCard == 0
OnePair == 1
TwoPair == 2
ThreeOfAKind == 3
StraightHand == 4
FlushHand == 5
ThreeCardPokerStraight == 6
ThreeCardPokerThreeOfAKind == 7
FullHouse == 8
FourOfAKind == 9
StraightFlush == 10
RoyalFlush == 11

\* calculateStrength: base 15, the hand first and then up to five ranks.
CalculateStrength(hand, ranks) ==
  LET digit(i) == IF i <= Len(ranks) THEN ranks[i] ELSE 0
  IN  ((((hand * 15 + digit(1)) * 15 + digit(2)) * 15 + digit(3)) * 15 + digit(4)) * 15
        + digit(5)

HandOf(strength) == strength \div (15 * 15 * 15 * 15 * 15)

RanksOf(cards) == {c.rank : c \in cards}
OfSuit(cards, suit) == {c \in cards : c.suit = suit}
SuitsOf(cards) == {c.suit : c \in cards}
CountOf(cards, rank) == Cardinality({c \in cards : c.rank = rank})

Top(ranks) == IF ranks = {} THEN 0 ELSE CHOOSE r \in ranks : \A q \in ranks : q <= r

\* The n highest of some ranks, repeated ones repeated: AtLeast(r) of them are r or more.
Highest(n, AtLeast(_)) == [k \in 1 .. n |-> Top({r \in 2 .. Ace : AtLeast(r) >= k})]

\* The ranks of at most n cards, highest first.
Kickers(cards, n) ==
  Highest(IF Cardinality(cards) < n THEN Cardinality(cards) ELSE n,
          LAMBDA r : Cardinality({c \in cards : c.rank >= r}))

-----------------------------------------------------------------------------
(* Pairs, trips and quads, as the sets of their ranks.                     *)

\* checkPairs
Groups(Count(_)) ==
  [quads |-> {r \in 2 .. Ace : Count(r) >= 4},
   trips |-> {r \in 2 .. Ace : Count(r) = 3},
   pairs |-> {r \in 2 .. Ace : Count(r) = 2}]

\* distributeWildsForPairs: n wilds in rank mode join the group they do most for.
DistributeWildsForPairs(n, x, highCard) ==
  LET quad == Top(x.quads)
      trip == Top(x.trips)
      pair == Top(x.pairs)
      tripToQuad == [x EXCEPT !.quads = {trip}, !.trips = @ \ {trip}]
      pairToQuad == [x EXCEPT !.quads = {pair}, !.pairs = @ \ {pair}]
  IN  CASE n = 0 -> x
        [] n = 1 ->
             (CASE quad > trip -> x
                [] trip > 0 -> tripToQuad
                [] pair > 0 -> [x EXCEPT !.trips = {pair}, !.pairs = @ \ {pair}]
                [] highCard > 0 -> [x EXCEPT !.pairs = {highCard}]
                [] OTHER -> x)
        [] n = 2 ->
             (CASE quad > trip /\ quad > pair -> x
                [] trip > pair -> tripToQuad
                [] pair > 0 -> pairToQuad
                [] highCard > 0 -> [x EXCEPT !.trips = {highCard}]
                [] OTHER -> [x EXCEPT !.pairs = {Ace}])
        [] n = 3 ->
             (CASE quad > trip /\ quad > pair /\ quad >= highCard -> x
                [] trip > pair /\ trip >= highCard -> tripToQuad
                [] pair > trip /\ pair >= highCard -> pairToQuad
                [] highCard > 0 -> [x EXCEPT !.quads = {highCard}]
                [] OTHER -> [x EXCEPT !.trips = {Ace}])
        [] OTHER -> [x EXCEPT !.quads = {Ace}]

-----------------------------------------------------------------------------
(* Straights and flushes.                                                  *)

\* mutant of Straight: an ace is high only
StraightAceHigh(ranks, flexible, size) ==
  Top({high \in size .. Ace : Cardinality(((high - size + 1) .. high) \ ranks) <= flexible})

\* checkStraight and checkStraightSimple: the top of the best straight from these ranks
\* and as many wilds as are flexible, or 0.
Straight(ranks, flexible, size) ==
  LET filled == IF Ace \in ranks THEN ranks \cup {LowAce} ELSE ranks
  IN  Top({high \in size .. Ace :
             Cardinality(((high - size + 1) .. high) \ filled) <= flexible})

\* checkFlush and checkFlushConstrained: going down the hand, the first suit that makes
\* `size' cards with the wilds it may use.  Those in suit mode keep their ranks, each
\* rank once; those in rank mode are aces.  (Two suits may be complete at cards of one
\* rank; the sort of the hand is not stable, and either may come first.)
Flush(naturals, suitMode, rankMode, size) ==
  LET down(suit, rank) == {r \in RanksOf(OfSuit(naturals, suit)) : r >= rank}
      locked(suit, rank) == RanksOf(suitMode) \ down(suit, rank)
      aces(suit) == Cardinality(OfSuit(rankMode, suit))
      complete == {c \in naturals :
                     Cardinality(down(c.suit, c.rank)) + Cardinality(locked(c.suit, c.rank))
                       + aces(c.suit) >= size}
      last == CHOOSE c \in complete : c.rank = Top(RanksOf(complete))
  IN  IF complete = {}
      THEN <<>>
      ELSE Highest(size, LAMBDA r :
             Cardinality({q \in down(last.suit, last.rank) : q >= r})
               + Cardinality({q \in locked(last.suit, last.rank) : q >= r})
               + aces(last.suit))

-----------------------------------------------------------------------------
(* Analyses: analyzeHand without wilds, analyzeHandConstrained with.       *)

\* analyzeHand is the case of no wilds.
Analyze(naturals, suitMode, rankMode, size) ==
  LET counted == Groups(LAMBDA r : CountOf(naturals, r) + CountOf(suitMode, r))
      groups == DistributeWildsForPairs(Cardinality(rankMode), counted, Top(RanksOf(naturals)))
      cards == naturals \cup suitMode \cup rankMode
  IN  [size |-> size,
       cards |-> naturals,
       wilds |-> Cardinality(suitMode) + Cardinality(rankMode),
       quads |-> groups.quads, trips |-> groups.trips, pairs |-> groups.pairs,
       flush |-> Flush(naturals, suitMode, rankMode, size),
       straight |-> Straight(RanksOf(naturals \cup suitMode), Cardinality(rankMode), size),
       straightFlush |->
         Top({Straight(RanksOf(OfSuit(naturals, suit) \cup suitMode),
                       Cardinality(OfSuit(rankMode, suit)), size) : suit \in SuitsOf(cards)})]

\* GetFullHouse: trips, and the better of a pair and a second set of trips.
GetFullHouse(h) ==
  LET trip == Top(h.trips)
      pair == Top(h.pairs \cup (h.trips \ {trip}))
  IN  IF h.trips # {} /\ pair > 0 /\ h.wilds < 2 /\ h.size >= 5
         /\ Cardinality(h.cards) + h.wilds >= 5
      THEN <<trip, pair>>
      ELSE <<>>

\* Whether an analysis makes a hand (the Get... methods); calculateHand asks for the
\* strongest first.
Makes(h, hand) ==
  CASE hand = RoyalFlush -> h.straightFlush = Ace
    [] hand = StraightFlush -> h.straightFlush > 0
    [] hand = FourOfAKind -> h.size >= 4 /\ h.quads # {}
    [] hand = FullHouse -> GetFullHouse(h) # <<>>
    [] hand = ThreeCardPokerThreeOfAKind -> h.size <= 3 /\ h.quads \cup h.trips # {}
    [] hand = ThreeCardPokerStraight -> h.size <= 3 /\ h.straight > 0
    [] hand = FlushHand -> h.flush # <<>>
    [] hand = StraightHand -> h.straight > 0
    [] hand = ThreeOfAKind -> h.trips # {}
    [] hand = TwoPair -> h.size >= 5 /\ Cardinality(h.pairs) >= 2
    [] hand = OnePair -> h.pairs # {}
    [] OTHER -> TRUE

\* calculateHand
CalculateHand(h) == Top({hand \in HighCard .. RoyalFlush : Makes(h, hand)})

-----------------------------------------------------------------------------
(* Strength: the hand, then the ranks that decide between equal hands.     *)

\* GetStrength, FourOfAKind: the first card, going down, that is not of the four; a wild
\* left over is an ace, if the four were found before any other card.
QuadKicker(h, quad) ==
  LET higher == \E c \in h.cards : c.rank > quad
      found == IF higher THEN 0 ELSE CountOf(h.cards, quad)
  IN  IF h.wilds > 0 /\ found + h.wilds > 4
      THEN Ace
      ELSE Top(RanksOf(h.cards) \ {quad})

\* getStrength: the ranks, in the order they count.
DecidingRanks(h, hand) ==
  LET pair == Top(h.pairs)
      second == Top(h.pairs \ {pair})
      trip == Top(h.trips)
      quad == Top(h.quads)
      others(ranks, n) == Kickers({c \in h.cards : c.rank \notin ranks}, n)
  IN  CASE hand = HighCard -> Kickers(h.cards, h.size)
        [] hand = OnePair -> <<pair>> \o others({pair}, h.size - 2)
        [] hand = TwoPair -> <<pair, second>> \o others({pair, second}, 1)
        [] hand = ThreeOfAKind -> <<trip>> \o others({trip}, 2)
        [] hand \in {StraightHand, ThreeCardPokerStraight} -> <<h.straight>>
        [] hand = FlushHand -> h.flush
        [] hand = ThreeCardPokerThreeOfAKind -> <<IF h.quads # {} THEN quad ELSE trip>>
        [] hand = FullHouse -> GetFullHouse(h)
        [] hand = FourOfAKind -> <<quad, QuadKicker(h, quad)>>
        [] hand = StraightFlush -> <<h.straightFlush>>
        [] OTHER -> <<>>

GetStrength(h) == CalculateStrength(CalculateHand(h), DecidingRanks(h, CalculateHand(h)))

\* mutant of New: only the first choice of modes is analyzed, all in rank mode
NewFirstMode(size, naturals, wilds) == GetStrength(Analyze(naturals, {}, wilds, size))

\* New, findBestConstrainedHand: the best of all choices of a mode for each wild card.
New(size, naturals, wilds) ==
  Top({GetStrength(Analyze(naturals, suitMode, wilds \ suitMode, size)) :
         suitMode \in SUBSET wilds})
=============================================================================
