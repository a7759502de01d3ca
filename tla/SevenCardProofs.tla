-------------------------- MODULE SevenCardProofs --------------------------
(***************************************************************************)
(* For every number of players, every ante, deck and set of variants:      *)
(* what SevenCard promises of whose turn it is, of matched bets and of the *)
(* deck, and that it keeps the contract of a game (Playable) at every      *)
(* step.                                                                   *)
(*                                                                         *)
(* A step of the game is a chain of calls that each return a hand, or      *)
(* several possible ones; the lemmas follow the chain from the inside out. *)
(***************************************************************************)
EXTENDS SevenCard, SumProofs, FiniteSetTheorems

-----------------------------------------------------------------------------
(* The invariant, in parts that each say something of a hand.              *)

Shown == {"up", "flipped"}

\* What the players have lost lies in the pot until somebody has won.
ChipsAddUp(x) == Sum(x.balance, N) + (IF x.gameOver THEN 0 ELSE x.pot) = 0

\* Nobody has bet more than has to be matched.
BetsFollow(x) == \A s \in Seats : x.bet[s] <= x.currentBet

\* Only a shown mushroom is answered, or brings the server down.
MushroomsFirst(x) == x.pending # {} \/ x.panicked => x.mushroom \in Shown

\* The extra cards of Baseball.
CardsCounted(x) ==
  /\ N < FullTable => x.extraCards + x.left <= 4
  /\ N = FullTable => x.extraCards <= 3

Booked(x) ==
  x \in HandState /\ ChipsAddUp(x) /\ BetsFollow(x) /\ MushroomsFirst(x) /\ CardsCounted(x)

\* Only a shown mushroom leaves fewer than two players in a hand that is not over.
TwoLeft(x) == x.gameOver \/ x.mushroom \in Shown \/ Cardinality(Alive(x)) > 1

Sound(x) == Booked(x) /\ TwoLeft(x)

\* The rounds end with the hand.
RoundsEnd(x) == x.gameOver <=> x.round >= RevealWinner

SeatAt(x, k) == (x.start + k) % N

\* The decision is with somebody who has not folded.
TurnIsAlive(x) == x.count < N => SeatAt(x, x.count) \in Alive(x)

\* Whoever has less in than the bet is asked in this round, from the n-th on.
OwersAreAsked(x, n) ==
  \A s \in Alive(x) : x.bet[s] < x.currentBet => \E k \in n .. N - 1 : SeatAt(x, k) = s

\* The decision is in its place, as far as the hand goes on.
Asked(x) ==
  /\ RoundsEnd(x)
  /\ ~x.gameOver /\ ~x.panicked => TurnIsAlive(x)
  /\ ~x.gameOver => OwersAreAsked(x, x.count)

\* And it is not over but by a flipped mushroom.
Placed(x) == Asked(x) /\ (~x.gameOver => x.count < N \/ x.mushroom = "flipped")

\* The end is scheduled, and reached, after the hand.
EndsInOrder == (done => setDoneAt) /\ (setDoneAt => g.gameOver)

\* A hand on the way from the count that has gone up to the next decision.
Advancing(x) == Sound(x) /\ RoundsEnd(x) /\ ~x.gameOver /\ OwersAreAsked(x, x.count)

\* A hand in which the player in turn has just folded.
Folding(x) ==
  /\ Booked(x) /\ RoundsEnd(x) /\ ~x.gameOver
  /\ x.count < N /\ OwersAreAsked(x, x.count + 1)
  /\ Alive(x) = {} => x.mushroom \in Shown

HandHolds ==
  /\ handling = "nothing" => Sound(g) /\ Placed(g)
  /\ handling = "advance" => Advancing(g)
  /\ handling = "fold" => Folding(g)

\* The decision is looked at in vain only while an action is under way.
LooksAreRaces == broadcastPanicked => handling # "nothing"

IInv == TypeOK /\ HandHolds /\ EndsInOrder /\ LooksAreRaces

-----------------------------------------------------------------------------
(* Seats.                                                                  *)

LEMMA Bounds ==
  /\ N \in Nat /\ N > 1 /\ N <= FullTable /\ FullTable \in Nat
  /\ Ante \in Nat /\ Ante > 0
  /\ DeckSize \in Nat /\ 7 * FullTable + 3 <= DeckSize
  /\ MaxPot \in Nat
BY SevenCardAssumption

\* There are N seats, and the sets of seats are finite.
LEMMA SeatsCounted ==
  /\ Cardinality(Seats) = N
  /\ \A S \in SUBSET Seats : IsFiniteSet(S) /\ Cardinality(S) \in Nat
<1>1. N \in Nat /\ N > 0 /\ 0 \in Int /\ N - 1 \in Int
  BY Bounds
<1>2. IsFiniteSet(Seats) /\ Cardinality(Seats) = N
  BY <1>1, FS_Interval DEF Seats
<1>3. ASSUME NEW S \in SUBSET Seats
      PROVE  IsFiniteSet(S) /\ Cardinality(S) \in Nat
  BY <1>2, FS_Subset, FS_CardinalityType
<1>4. QED
  BY <1>2, <1>3

\* What remains of a seat, and of a seat one turn round the table later.
LEMMA SeatModulo ==
  ASSUME NEW i \in 0 .. N - 1
  PROVE  i % N = i /\ (i + N) % N = i
<1>1. N \in Nat /\ N > 0 /\ i \in Nat /\ i < N
  BY Bounds
<1>2. i % N = i
  BY <1>1
<1>3. (i + N) % N = i
  BY <1>1
<1>4. QED
  BY <1>2, <1>3

LEMMA SeatAtIsSeat ==
  ASSUME NEW x \in HandState, NEW k \in Nat
  PROVE  SeatAt(x, k) \in Seats
<1>1. N \in Nat /\ N > 0 /\ x.start \in Nat
  BY Bounds DEF HandState, Seats
<1>2. ASSUME NEW m \in Nat
      PROVE  m % N \in 0 .. N - 1
  BY <1>1
<1>3. x.start + k \in Nat
  BY <1>1
<1>4. (x.start + k) % N \in 0 .. N - 1
  BY <1>2, <1>3
<1>5. QED
  BY <1>4 DEF SeatAt, Seats

\* After a seat all the others come round.
LEMMA OthersComeRound ==
  ASSUME NEW a \in Seats, NEW s \in Seats, s # a
  PROVE  \E k \in 1 .. N - 1 : (a + k) % N = s
<1>1. N \in Nat /\ a \in 0 .. N - 1 /\ s \in 0 .. N - 1
  BY Bounds DEF Seats
<1>2. CASE a < s
  <2>1. s - a \in 1 .. N - 1 /\ a + (s - a) = s
    BY <1>1, <1>2
  <2>2. (a + (s - a)) % N = s
    BY <1>1, <2>1, SeatModulo
  <2>3. QED
    BY <2>1, <2>2
<1>3. CASE s < a
  <2>1. (s + N) - a \in 1 .. N - 1 /\ a + ((s + N) - a) = s + N
    BY <1>1, <1>3
  <2>2. (a + ((s + N) - a)) % N = s
    BY <1>1, <2>1, SeatModulo
  <2>3. QED
    BY <2>1, <2>2
<1>4. QED
  BY <1>1, <1>2, <1>3

\* advanceDecisionIfPlayerDidFold stops at the first who has not folded, or at the end.
LEMMA SkipsTheFolded ==
  ASSUME NEW x \in HandState
  PROVE  \E c \in x.count .. N :
           /\ SkipFolded(x) = [x EXCEPT !.count = c]
           /\ c < N => SeatAt(x, c) \in Alive(x)
           /\ \A k \in x.count .. c - 1 : SeatAt(x, k) \notin Alive(x)
<1> DEFINE K == {k \in x.count .. N : k = N \/ (x.start + k) % N \in Alive(x)}
           c == Least(K)
<1>1. N \in Nat /\ x.count \in 0 .. N
  BY Bounds DEF HandState
<1>2. K \in SUBSET Nat /\ K # {}
  <2>1. N \in K
    BY <1>1
  <2>2. QED
    BY <1>1, <2>1
<1>3. c \in K /\ \A y \in K : c <= y
  <2> HIDE DEF K
  <2> QED
    BY <1>2, LeastIsLeast
<1>4. SkipFolded(x) = [x EXCEPT !.count = c]
  BY DEF SkipFolded
<1> HIDE DEF c
<1>5. c \in x.count .. N /\ (c < N => SeatAt(x, c) \in Alive(x))
  BY <1>1, <1>3 DEF SeatAt
<1>6. ASSUME NEW k \in x.count .. c - 1 PROVE SeatAt(x, k) \notin Alive(x)
  BY <1>1, <1>3, <1>5 DEF SeatAt
<1>7. QED
  BY <1>4, <1>5, <1>6

-----------------------------------------------------------------------------
(* The end of a hand.                                                      *)

\* An amount is shared to the last chip.
LEMMA SharesOfAll ==
  ASSUME NEW amount \in Nat, NEW who \in SUBSET Seats, who # {}, NEW f,
         \A i \in Seats : f[i] = Share(amount, who, i)
  PROVE  (\A i \in Seats : f[i] \in Int) /\ Sum(f, N) = amount
<1> DEFINE size == Cardinality(who)
           q == amount \div size
           r == amount % size
           first == Least(who)
           even == [i \in Seats |-> IF i \in who THEN q ELSE 0]
<1>1. N \in Nat /\ Seats = 0 .. N - 1
  BY Bounds DEF Seats
<1>2. size \in Nat \ {0}
  BY SeatsCounted, FS_EmptySet
<1>3. q \in Nat /\ r \in Nat /\ amount = (size * q) + r
  <2>1. q \in Nat /\ r \in 0 .. size - 1 /\ amount = (size * q) + r
    <3> HIDE DEF size
    <3> QED
      BY <1>2, Division, Zenon
  <2>2. QED
    <3> HIDE DEF q, r, size
    <3> QED
      BY <1>2, <2>1
<1>4. first \in who
  BY <1>1, LeastIsLeast
<1>5. \A i \in Seats : f[i] = IF i \in who THEN (IF i = first THEN q + r ELSE q) ELSE 0
  BY <1>4 DEF Share
<1> HIDE DEF q, r, first, size
<1>6. \A i \in 0 .. N - 1 : even[i] = IF i \in who THEN q ELSE 0
  BY <1>1
<1>7. \A i \in 0 .. N - 1 : even[i] \in Int
  BY <1>1, <1>3
<1>8. Sum(even, N) = q * size
  <2> HIDE DEF even
  <2> QED
    BY <1>1, <1>3, <1>6, SumOfMembers DEF size
<1>9. f[first] = even[first] + r
  BY <1>1, <1>3, <1>4, <1>5
<1>10. \A i \in 0 .. N - 1 : i # first => f[i] = even[i]
  BY <1>1, <1>3, <1>4, <1>5
<1>11. Sum(f, N) = Sum(even, N) + r
  <2> HIDE DEF even
  <2> QED
    BY <1>1, <1>3, <1>4, <1>7, <1>9, <1>10, SumChange
<1>12. q * size = size * q
  BY <1>2, <1>3
<1>13. \A i \in Seats : f[i] \in Int
  BY <1>3, <1>5
<1>14. QED
  BY <1>3, <1>8, <1>11, <1>12, <1>13

LEMMA SumOfThree ==
  ASSUME NEW a, NEW p, NEW e, NEW h,
         \A i \in Seats : a[i] \in Int /\ p[i] \in Int /\ e[i] \in Int /\ h[i] = (a[i] + p[i]) + e[i]
  PROVE  Sum(h, N) = (Sum(a, N) + Sum(p, N)) + Sum(e, N)
<1> DEFINE part == [i \in Seats |-> a[i] + p[i]]
<1>1. N \in Nat /\ Seats = 0 .. N - 1
  BY Bounds DEF Seats
<1>2. \A i \in 0 .. N - 1 : a[i] \in Int /\ p[i] \in Int /\ part[i] = a[i] + p[i]
  BY <1>1
<1>3. \A i \in 0 .. N - 1 : part[i] \in Int /\ e[i] \in Int /\ h[i] = part[i] + e[i]
  BY <1>1, <1>2
<1> HIDE DEF part
<1>4. Sum(part, N) = Sum(a, N) + Sum(p, N)
  BY <1>1, <1>2, SumLinear
<1>5. Sum(h, N) = Sum(part, N) + Sum(e, N)
  BY <1>1, <1>3, SumLinear
<1>6. QED
  BY <1>4, <1>5

\* endGame pays the pot out, split or not.
LEMMA EndGamePays ==
  ASSUME NEW x \in HandState, NEW y \in EndGame(x), ~x.gameOver, ChipsAddUp(x)
  PROVE  \E b \in [Seats -> Int] :
           /\ Sum(b, N) = 0
           /\ y = [x EXCEPT !.round = RevealWinner, !.gameOver = TRUE, !.balance = b]
<1>1. PICK best \in (SUBSET Alive(x)) \ {{}}, spade \in HighSpades(x) :
        y = PayOut(x, best, spade)
  BY DEF EndGame
<1>2. best \in SUBSET Seats /\ best # {} /\ spade \in SUBSET Seats
  BY <1>1 DEF HighSpades, Alive
<1> DEFINE split == IF spade = {} THEN 0 ELSE x.pot \div 2
           paid == [s \in Seats |-> Share(x.pot - split, best, s)]
           extra == [s \in Seats |-> Share(split, spade, s)]
           b == [s \in Seats |-> (x.balance[s] + paid[s]) + extra[s]]
<1>3. y = [x EXCEPT !.round = RevealWinner, !.gameOver = TRUE, !.balance = b]
  <2>1. b = [s \in Seats |-> x.balance[s] + Share(x.pot - split, best, s) + Share(split, spade, s)]
    OBVIOUS
  <2>2. QED
    BY <1>1, <2>1 DEF PayOut
<1>4. N \in Nat /\ Seats = 0 .. N - 1 /\ x.pot \in Nat /\ x.balance \in [Seats -> Int]
  BY Bounds DEF Seats, HandState
<1>5. split \in Nat /\ x.pot - split \in Nat
  BY <1>4
<1>6. (\A s \in Seats : paid[s] \in Int) /\ Sum(paid, N) = x.pot - split
  <2>1. \A s \in Seats : paid[s] = Share(x.pot - split, best, s)
    OBVIOUS
  <2> HIDE DEF split, paid
  <2>2. QED
    BY <1>2, <1>5, <2>1, SharesOfAll
<1>7. (\A s \in Seats : extra[s] \in Int) /\ Sum(extra, N) = split
  <2>1. \A s \in Seats : extra[s] = Share(split, spade, s)
    OBVIOUS
  <2>2. CASE spade = {}
    <3>1. \A s \in 0 .. N - 1 : extra[s] = 0
      BY <1>4, <2>2 DEF Share
    <3>2. \A s \in 0 .. N - 1 : extra[s] = IF s \in {} THEN 0 ELSE 0
      BY <3>1
    <3>3. Cardinality({}) = 0
      BY FS_EmptySet
    <3>4. Sum(extra, N) = 0 * Cardinality({})
      <4> HIDE DEF extra
      <4> QED
        BY <1>4, <3>2, SumOfMembers
    <3>5. QED
      BY <1>4, <2>2, <3>1, <3>3, <3>4
  <2>3. CASE spade # {}
    <3> HIDE DEF split, extra
    <3> QED
      BY <1>2, <1>5, <2>1, <2>3, SharesOfAll
  <2>4. QED
    BY <2>2, <2>3
<1> HIDE DEF split, paid, extra
<1>8. \A s \in Seats : /\ x.balance[s] \in Int /\ paid[s] \in Int /\ extra[s] \in Int
                      /\ b[s] = (x.balance[s] + paid[s]) + extra[s]
  BY <1>4, <1>6, <1>7
<1>9. b \in [Seats -> Int]
  BY <1>8
<1> HIDE DEF b
<1>10. Sum(b, N) = (Sum(x.balance, N) + Sum(paid, N)) + Sum(extra, N)
  BY <1>8, SumOfThree
<1>11. Sum(x.balance, N) + x.pot = 0 /\ Sum(x.balance, N) \in Int
  <2>1. \A s \in 0 .. N - 1 : x.balance[s] \in Int
    BY <1>4
  <2>2. Sum(x.balance, N) \in Int
    BY <1>4, <2>1, SumInt
  <2>3. QED
    BY <2>2 DEF ChipsAddUp
<1>12. Sum(b, N) = 0
  BY <1>4, <1>5, <1>6, <1>7, <1>10, <1>11
<1>13. QED
  BY <1>3, <1>9, <1>12

-----------------------------------------------------------------------------
(* The calls that end a hand, fold for a mushroom, and deal.               *)

\* What a call leaves alone: the bet, the rounds but for the last, and the results of
\* a hand that is over.
Follows(x, y) ==
  /\ y.currentBet = x.currentBet
  /\ y.round \in {x.round, RevealWinner}
  /\ x.gameOver => y.gameOver /\ y.balance = x.balance

\* endGame, once or, by a mushroom, twice.
LEMMA EndGameKeeps ==
  ASSUME NEW x, Booked(x), x.gameOver => x.mushroom \in Shown /\ x.round >= RevealWinner,
         NEW y \in EndGame(x)
  PROVE  Sound(y) /\ Placed(y) /\ Follows(x, y) /\ y.gameOver /\ y.mushroom = x.mushroom
<1>1. x \in HandState
  BY DEF Sound, Booked, TwoLeft
<1>2. CASE x.gameOver
  <2>1. y = [x EXCEPT !.panicked = TRUE]
    BY <1>2 DEF EndGame, Panic
  <2>2. y \in HandState /\ y.gameOver /\ y.mushroom = x.mushroom /\ y.balance = x.balance
        /\ y.bet = x.bet /\ y.currentBet = x.currentBet /\ y.round = x.round
        /\ y.extraCards = x.extraCards /\ y.left = x.left
    BY <1>1, <1>2, <2>1 DEF HandState
  <2>3. Sound(y)
    BY <1>2, <2>2 DEF Sound, Booked, TwoLeft, ChipsAddUp, BetsFollow, MushroomsFirst, CardsCounted
  <2>4. QED
    BY <1>2, <2>2, <2>3 DEF Placed, Asked, RoundsEnd, Follows
<1>3. CASE ~x.gameOver
  <2>1. PICK b \in [Seats -> Int] :
          /\ Sum(b, N) = 0
          /\ y = [x EXCEPT !.round = RevealWinner, !.gameOver = TRUE, !.balance = b]
    BY <1>1, <1>3, EndGamePays DEF Sound, Booked, TwoLeft
  <2>2. y \in HandState /\ y.gameOver /\ y.mushroom = x.mushroom /\ y.balance = b
        /\ y.bet = x.bet /\ y.currentBet = x.currentBet /\ y.round = RevealWinner
        /\ y.extraCards = x.extraCards /\ y.left = x.left /\ y.pending = x.pending
        /\ y.panicked = x.panicked
    <3>1. b \in [Seats -> Int] /\ RevealWinner \in BeforeDeal .. RevealWinner + 1 /\ TRUE \in BOOLEAN
      BY DEF BeforeDeal, RevealWinner
    <3> HIDE DEF RevealWinner
    <3>2. y \in HandState
      BY <1>1, <2>1, <3>1 DEF HandState
    <3>3. QED
      BY <1>1, <2>1, <3>2 DEF HandState
  <2>3. Sound(y)
    BY <2>1, <2>2 DEF Sound, Booked, TwoLeft, ChipsAddUp, BetsFollow, MushroomsFirst, CardsCounted
  <2>4. QED
    BY <1>3, <2>2, <2>3 DEF Placed, Asked, RoundsEnd, Follows, RevealWinner
<1>4. QED
  BY <1>2, <1>3

\* checkForWinByFold, after a mushroom was shown.
LEMMA CheckKeeps ==
  ASSUME NEW x, Sound(x), Asked(x), x.mushroom \in Shown, NEW y \in CheckForWinByFold(x)
  PROVE  /\ Sound(y) /\ Asked(y) /\ Follows(x, y) /\ y.mushroom = x.mushroom
         /\ ~y.gameOver => y = x
<1>1. CASE Cardinality(Alive(x)) = 1
  <2>1. y \in EndGame(x)
    BY <1>1 DEF CheckForWinByFold
  <2>2. x.gameOver => x.round >= RevealWinner
    BY DEF Asked, RoundsEnd
  <2>3. QED
    BY <2>1, <2>2, EndGameKeeps DEF Placed, Sound
<1>2. CASE Cardinality(Alive(x)) # 1
  BY <1>2 DEF CheckForWinByFold, Follows
<1>3. QED
  BY <1>1, <1>2

\* triggerMushroomEvent: whoever still owes and stays is still to be asked.
LEMMA TriggerKeeps ==
  ASSUME NEW x, Sound(x), RoundsEnd(x), ~x.gameOver => OwersAreAsked(x, x.count),
         NEW s, NEW shown \in Shown, NEW y \in TriggerMushroom(x, s, shown)
  PROVE  Sound(y) /\ Asked(y) /\ Follows(x, y) /\ y.mushroom = shown
<1>1. PICK antidote \in SUBSET Neighbours(x, s) :
        y \in LET z == SkipFolded([x EXCEPT !.folded = @ \cup (Neighbours(x, s) \ antidote),
                                            !.pending = antidote,
                                            !.mushroom = shown,
                                            !.holder = NoOne])
              IN  IF antidote = {} THEN CheckForWinByFold(z) ELSE {z}
  BY DEF TriggerMushroom
<1> DEFINE w == [x EXCEPT !.folded = @ \cup (Neighbours(x, s) \ antidote),
                          !.pending = antidote,
                          !.mushroom = shown,
                          !.holder = NoOne]
           z == SkipFolded(w)
<1>2. x \in HandState /\ Neighbours(x, s) \subseteq Seats
  BY DEF Sound, Booked, TwoLeft, Neighbours, Alive
<1>3. w \in HandState
  <2>1. shown \in {"deck", "down", "up", "flipped"} /\ antidote \in SUBSET Seats
        /\ NoOne \in Seats \cup {NoOne}
    BY <1>2 DEF Shown
  <2>2. x.folded \cup (Neighbours(x, s) \ antidote) \in SUBSET Seats
    BY <1>2 DEF HandState
  <2> HIDE DEF NoOne
  <2>3. QED
    BY <1>2, <2>1, <2>2 DEF HandState
<1>4. /\ w.balance = x.balance /\ w.gameOver = x.gameOver /\ w.pot = x.pot /\ w.bet = x.bet
      /\ w.currentBet = x.currentBet /\ w.round = x.round /\ w.left = x.left
      /\ w.extraCards = x.extraCards /\ w.mushroom = shown /\ w.start = x.start
      /\ w.count = x.count /\ Alive(w) \subseteq Alive(x)
  BY <1>2 DEF HandState, Alive
<1> HIDE DEF w
<1>5. PICK c \in w.count .. N :
        /\ z = [w EXCEPT !.count = c]
        /\ c < N => SeatAt(w, c) \in Alive(w)
        /\ \A k \in w.count .. c - 1 : SeatAt(w, k) \notin Alive(w)
  BY <1>3, SkipsTheFolded
<1> HIDE DEF z
<1>6. /\ z \in HandState /\ z.balance = x.balance /\ z.gameOver = x.gameOver /\ z.pot = x.pot
      /\ z.bet = x.bet /\ z.currentBet = x.currentBet /\ z.round = x.round /\ z.left = x.left
      /\ z.extraCards = x.extraCards /\ z.mushroom = shown /\ z.start = w.start
      /\ z.count = c /\ Alive(z) = Alive(w)
  BY <1>3, <1>4, <1>5, Bounds DEF HandState, Alive
<1>7. Sound(z)
  BY <1>6 DEF Sound, Booked, TwoLeft, ChipsAddUp, BetsFollow, MushroomsFirst, CardsCounted
<1>8. Asked(z)
  <2>1. TurnIsAlive(z)
    BY <1>5, <1>6 DEF TurnIsAlive, SeatAt
  <2>2. ASSUME ~x.gameOver, NEW t \in Alive(z), z.bet[t] < z.currentBet
        PROVE  \E k \in c .. N - 1 : SeatAt(z, k) = t
    <3>1. PICK k \in x.count .. N - 1 : SeatAt(x, k) = t
      BY <1>4, <1>6, <2>2 DEF OwersAreAsked
    <3>2. SeatAt(w, k) = t /\ SeatAt(z, k) = t
      BY <1>4, <1>6, <3>1 DEF SeatAt
    <3>3. k \notin w.count .. c - 1
      BY <1>5, <1>6, <2>2, <3>2
    <3>4. x.count \in Nat /\ c \in Nat /\ N \in Nat
      BY <1>2, <1>4, <1>5, Bounds DEF HandState
    <3>5. QED
      BY <1>4, <3>1, <3>2, <3>3, <3>4
  <2>3. QED
    BY <1>6, <2>1, <2>2 DEF Asked, RoundsEnd, OwersAreAsked
<1>9. Follows(x, z)
  BY <1>6 DEF Follows
<1>10. CASE antidote = {}
  <2>1. y \in CheckForWinByFold(z)
    BY <1>1, <1>10 DEF z, w
  <2>2. QED
    BY <1>6, <1>7, <1>8, <2>1, CheckKeeps DEF Follows
<1>11. CASE antidote # {}
  <2>1. y = z
    BY <1>1, <1>11 DEF z, w
  <2>2. QED
    BY <1>6, <1>7, <1>8, <1>9, <2>1
<1>12. QED
  BY <1>10, <1>11

\* A card dealt face down: a mushroom may come to be flipped.
LEMMA DealDownKeeps ==
  ASSUME NEW x, Sound(x), NEW y \in DealDown(x)
  PROVE  /\ Sound(y) /\ Follows(x, y)
         /\ y.round = x.round /\ y.gameOver = x.gameOver /\ y.bet = x.bet
<1>1. x \in HandState
  BY DEF Sound, Booked, TwoLeft
<1>2. CASE y = x
  BY <1>2 DEF Follows
<1>3. ASSUME x.mushroom = "deck", NEW s \in Alive(x),
             y = [x EXCEPT !.mushroom = "down", !.holder = s]
      PROVE  /\ Sound(y) /\ Follows(x, y)
             /\ y.round = x.round /\ y.gameOver = x.gameOver /\ y.bet = x.bet
  <2>1. s \in Seats
    BY DEF Alive
  <2>2. /\ y.balance = x.balance /\ y.gameOver = x.gameOver /\ y.pot = x.pot /\ y.bet = x.bet
        /\ y.currentBet = x.currentBet /\ y.round = x.round /\ y.left = x.left
        /\ y.extraCards = x.extraCards /\ y.pending = x.pending /\ y.panicked = x.panicked
        /\ Alive(y) = Alive(x)
    BY <1>1, <1>3 DEF HandState, Alive
  <2>3. y \in HandState
    BY <1>1, <1>3, <2>1 DEF HandState
  <2>4. Sound(y)
    BY <1>3, <2>2, <2>3 DEF Sound, Booked, TwoLeft, ChipsAddUp, BetsFollow, MushroomsFirst, CardsCounted, Shown
  <2>5. QED
    BY <2>2, <2>4 DEF Follows
<1>4. QED
  BY <1>2, <1>3 DEF DealDown

\* The largest member of a set of seats that is not empty.
LEMMA LastSeat ==
  ASSUME NEW S \in SUBSET Seats, S # {}
  PROVE  \E s \in S : \A t \in S : t <= s
<1> DEFINE D == {N - s : s \in S}
<1>1. N \in Nat /\ \A s \in S : s \in 0 .. N - 1
  BY Bounds DEF Seats
<1>2. D \in SUBSET Nat /\ D # {}
  BY <1>1
<1>3. Least(D) \in D /\ \A d \in D : Least(D) <= d
  <2> HIDE DEF D
  <2> QED
    BY <1>2, LeastIsLeast
<1>4. PICK s \in S : Least(D) = N - s
  BY <1>3
<1>5. ASSUME NEW t \in S PROVE t <= s
  <2>1. N - t \in D
    OBVIOUS
  <2>2. N - s <= N - t
    BY <1>3, <1>4, <2>1
  <2>3. QED
    BY <1>1, <2>2
<1>6. QED
  BY <1>5

\* handleNailClipping: the pot can pay for every ante it gives back.
LEMMA ClippingsKeep ==
  ASSUME NEW x, Sound(x), ~x.gameOver, NEW tens \in Lucky(x)
  PROVE  /\ Sound(NailClippings(x, tens)) /\ Follows(x, NailClippings(x, tens))
         /\ NailClippings(x, tens).round = x.round
         /\ ~NailClippings(x, tens).gameOver
<1> DEFINE before(s) == {t \in tens : t <= s}
           refunded == {s \in tens : Ante * Cardinality(before(s)) <= x.pot}
           y == NailClippings(x, tens)
           b == [s \in Seats |-> IF s \in refunded THEN x.balance[s] + Ante ELSE x.balance[s]]
           back == [s \in Seats |-> IF s \in refunded THEN Ante ELSE 0]
<1>1. x \in HandState /\ x.pot \in Nat /\ x.left \in 0 .. 4 /\ x.balance \in [Seats -> Int]
  BY DEF Sound, Booked, TwoLeft, HandState
<1>2. tens \in SUBSET Seats /\ Cardinality(tens) <= x.left /\ Cardinality(tens) \in Nat
  <2>1. tens \in SUBSET Seats /\ Cardinality(tens) <= x.left
    BY DEF Lucky, Alive
  <2>2. QED
    BY <2>1, SeatsCounted
<1>3. refunded \in SUBSET Seats /\ Cardinality(refunded) \in Nat
  <2>1. refunded \in SUBSET Seats
    BY <1>2
  <2>2. QED
    BY <2>1, SeatsCounted
<1>4. Ante * Cardinality(refunded) \in Nat /\ Ante * Cardinality(refunded) <= x.pot
  <2>1. CASE refunded = {}
    <3>1. Cardinality(refunded) = 0
      BY <2>1, FS_EmptySet
    <3>2. QED
      BY <1>1, <3>1, Bounds
  <2>2. CASE refunded # {}
    <3>1. PICK s \in refunded : \A t \in refunded : t <= s
      BY <1>3, <2>2, LastSeat
    <3>2. refunded \subseteq before(s) /\ before(s) \in SUBSET Seats
      BY <1>2, <3>1
    <3>3. Cardinality(refunded) <= Cardinality(before(s)) /\ Cardinality(before(s)) \in Nat
      BY <3>2, SeatsCounted, FS_Subset
    <3>4. Ante * Cardinality(before(s)) <= x.pot
      BY <3>1
    <3>5. \A a, m, n \in Nat : m <= n => a * m <= a * n
      OBVIOUS
    <3>6. \A a, m \in Nat : a * m \in Nat
      OBVIOUS
    <3> HIDE DEF refunded, before
    <3>7. Ante * Cardinality(refunded) <= Ante * Cardinality(before(s))
      BY <1>3, <3>3, <3>5, Bounds
    <3>8. QED
      BY <1>1, <1>3, <3>3, <3>4, <3>6, <3>7, Bounds
  <2>3. QED
    BY <2>1, <2>2
<1>5. y = [x EXCEPT !.left = @ - Cardinality(tens),
                    !.pot = @ - Ante * Cardinality(refunded),
                    !.balance = b]
  BY DEF NailClippings
<1>6. /\ \A s \in 0 .. N - 1 : back[s] = IF s \in refunded THEN Ante ELSE 0
      /\ \A s \in 0 .. N - 1 : x.balance[s] \in Int /\ back[s] \in Int /\ b[s] = x.balance[s] + back[s]
      /\ b \in [Seats -> Int]
  BY <1>1, Bounds DEF Seats
<1> HIDE DEF refunded, b, back, y
<1>7. Sum(b, N) = Sum(x.balance, N) + Ante * Cardinality(refunded)
  <2>1. N \in Nat /\ refunded \in SUBSET (0 .. N - 1) /\ Ante \in Int
    BY <1>3, Bounds DEF Seats
  <2>2. Sum(back, N) = Ante * Cardinality(refunded)
    BY <1>6, <2>1, SumOfMembers
  <2>3. Sum(b, N) = Sum(x.balance, N) + Sum(back, N)
    BY <1>6, <2>1, SumLinear
  <2>4. QED
    BY <2>2, <2>3
<1>8. PICK refund \in Nat : refund = Ante * Cardinality(refunded) /\ refund <= x.pot
  BY <1>4
<1>9. y = [x EXCEPT !.left = x.left - Cardinality(tens), !.pot = x.pot - refund, !.balance = b]
  BY <1>5, <1>8
<1>10. x.left - Cardinality(tens) \in 0 .. 4 /\ x.pot - refund \in Nat
  BY <1>1, <1>2, <1>8
<1>11. y \in HandState
  BY <1>1, <1>6, <1>9, <1>10 DEF HandState
<1>12. /\ y.balance = b /\ y.gameOver = x.gameOver /\ y.pot = x.pot - refund /\ y.bet = x.bet
       /\ y.currentBet = x.currentBet /\ y.round = x.round /\ y.left = x.left - Cardinality(tens)
       /\ y.extraCards = x.extraCards /\ y.pending = x.pending /\ y.panicked = x.panicked
       /\ y.mushroom = x.mushroom /\ Alive(y) = Alive(x)
  BY <1>1, <1>9 DEF HandState, Alive
<1>13. ChipsAddUp(y)
  <2>1. Sum(x.balance, N) + x.pot = 0 /\ Sum(x.balance, N) \in Int
    <3>1. N \in Nat
      BY Bounds
    <3>2. \A s \in 0 .. N - 1 : x.balance[s] \in Int
      BY <1>6
    <3>3. Sum(x.balance, N) \in Int
      BY <3>1, <3>2, SumInt
    <3>4. QED
      BY <3>3 DEF Sound, Booked, TwoLeft, ChipsAddUp
  <2>2. Sum(b, N) = Sum(x.balance, N) + refund
    BY <1>7, <1>8
  <2>3. QED
    BY <1>1, <1>12, <2>1, <2>2 DEF ChipsAddUp
<1>14. CardsCounted(y)
  <2>1. x.extraCards \in 0 .. 4
    BY <1>1 DEF HandState
  <2>2. QED
    BY <1>1, <1>2, <1>12, <2>1 DEF Sound, Booked, TwoLeft, CardsCounted
<1>15. Sound(y)
  BY <1>11, <1>12, <1>13, <1>14 DEF Sound, Booked, TwoLeft, BetsFollow, MushroomsFirst
<1>16. QED
  BY <1>12, <1>15 DEF Follows, y

\* Baseball's extra cards: the deck has four fours.
LEMMA ExtraCardsKeep ==
  ASSUME NEW x, Sound(x), NEW fours \in Lucky(x)
  PROVE  /\ Sound(ExtraCards(x, fours)) /\ Follows(x, ExtraCards(x, fours))
         /\ ExtraCards(x, fours).round = x.round
         /\ ExtraCards(x, fours).gameOver = x.gameOver
<1> DEFINE y == ExtraCards(x, fours)
           most == {3, x.extraCards + Cardinality(fours)}
<1>1. x \in HandState /\ x.left \in 0 .. 4 /\ x.extraCards \in 0 .. 4
  BY DEF Sound, Booked, TwoLeft, HandState
<1>2. Cardinality(fours) <= x.left /\ Cardinality(fours) \in Nat
  <2>1. fours \in SUBSET Seats /\ Cardinality(fours) <= x.left
    BY DEF Lucky, Alive
  <2>2. QED
    BY <2>1, SeatsCounted
<1>3. Least(most) \in most /\ Least(most) <= 3
  <2>1. most \in SUBSET Nat /\ most # {} /\ 3 \in most
    BY <1>1, <1>2
  <2> HIDE DEF most
  <2>2. QED
    BY <2>1, LeastIsLeast
<1>4. Least(most) \in 0 .. 3
  BY <1>1, <1>2, <1>3
<1>5. PICK e \in 0 .. 4 :
        /\ e = IF N < FullTable THEN x.extraCards + Cardinality(fours) ELSE Least(most)
        /\ N < FullTable => e + (x.left - Cardinality(fours)) <= 4
        /\ N = FullTable => e <= 3
  <2>1. CASE N < FullTable
    BY <1>1, <1>2, <2>1, Bounds DEF Sound, Booked, TwoLeft, CardsCounted
  <2>2. CASE ~(N < FullTable)
    BY <1>4, <2>2, Bounds
  <2>3. QED
    BY <2>1, <2>2
<1>6. y = [x EXCEPT !.left = x.left - Cardinality(fours), !.extraCards = e]
  BY <1>5 DEF ExtraCards
<1> HIDE DEF y
<1>7. x.left - Cardinality(fours) \in 0 .. 4
  BY <1>1, <1>2
<1>8. y \in HandState
  BY <1>1, <1>6, <1>7 DEF HandState
<1>9. /\ y.balance = x.balance /\ y.gameOver = x.gameOver /\ y.pot = x.pot /\ y.bet = x.bet
      /\ y.currentBet = x.currentBet /\ y.round = x.round /\ y.left = x.left - Cardinality(fours)
      /\ y.extraCards = e /\ y.pending = x.pending /\ y.panicked = x.panicked
      /\ y.mushroom = x.mushroom /\ Alive(y) = Alive(x)
  BY <1>1, <1>6 DEF HandState, Alive
<1>10. Sound(y)
  BY <1>5, <1>8, <1>9 DEF Sound, Booked, TwoLeft, ChipsAddUp, BetsFollow, MushroomsFirst, CardsCounted
<1>11. QED
  BY <1>9, <1>10 DEF Follows, y

\* The card of a round that is dealt face up.
LEMMA DealUpKeeps ==
  ASSUME NEW x, Sound(x), RoundsEnd(x), ~x.gameOver, x.currentBet = 0, NEW y \in DealUp(x)
  PROVE  Sound(y) /\ RoundsEnd(y) /\ Follows(x, y)
<1>1. \/ y = x
      \/ \E s \in Alive(x) : y \in TriggerMushroom(x, s, "up")
      \/ \E tens \in Lucky(x) : y = NailClippings(x, tens)
      \/ \E fours \in Lucky(x) : y = ExtraCards(x, fours)
  <2>1. CASE variant = "chiggs" /\ x.mushroom = "deck"
    <3>1. y \in {x} \cup UNION {TriggerMushroom(x, s, "up") : s \in Alive(x)}
      BY <2>1, Zenon DEF DealUp
    <3>2. QED
      BY <3>1
  <2>2. CASE variant = "coupons"
    <3>1. y \in {NailClippings(x, tens) : tens \in Lucky(x)}
      BY <2>2, Zenon DEF DealUp
    <3>2. QED
      BY <3>1
  <2>3. CASE variant = "baseball"
    <3>1. y \in {ExtraCards(x, fours) : fours \in Lucky(x)}
      BY <2>3, Zenon DEF DealUp
    <3>2. QED
      BY <3>1
  <2>4. CASE /\ ~(variant = "chiggs" /\ x.mushroom = "deck")
             /\ variant # "coupons" /\ variant # "baseball"
    <3>1. y \in {x}
      BY <2>4, Zenon DEF DealUp
    <3>2. QED
      BY <3>1
  <2>5. QED
    BY <2>1, <2>2, <2>3, <2>4
<1>2. CASE y = x
  BY <1>2 DEF Follows
<1>3. ASSUME NEW s \in Alive(x), y \in TriggerMushroom(x, s, "up")
      PROVE  Sound(y) /\ RoundsEnd(y) /\ Follows(x, y)
  <2>1. x.bet \in [Seats -> Nat] /\ Alive(x) \subseteq Seats
    BY DEF Sound, Booked, HandState, Alive
  <2>2. OwersAreAsked(x, x.count)
    BY <2>1 DEF OwersAreAsked
  <2>3. "up" \in Shown
    BY DEF Shown
  <2>4. QED
    BY <1>3, <2>2, <2>3, TriggerKeeps DEF Asked
<1>4. ASSUME NEW tens \in Lucky(x), y = NailClippings(x, tens)
      PROVE  Sound(y) /\ RoundsEnd(y) /\ Follows(x, y)
  BY <1>4, ClippingsKeep DEF RoundsEnd
<1>5. ASSUME NEW fours \in Lucky(x), y = ExtraCards(x, fours)
      PROVE  Sound(y) /\ RoundsEnd(y) /\ Follows(x, y)
  BY <1>5, ExtraCardsKeep DEF RoundsEnd
<1>6. QED
  BY <1>1, <1>2, <1>3, <1>4, <1>5

\* determineFirstToAct: a new round, in which nobody owes yet.
LEMMA FirstToActKeeps ==
  ASSUME NEW x, Sound(x), RoundsEnd(x), x.currentBet = 0, NEW y \in FirstToAct(x)
  PROVE  Sound(y) /\ Placed(y) /\ Follows(x, y) /\ y.round = x.round
<1>1. PICK s \in Alive(x) : y = [x EXCEPT !.start = s, !.count = 0]
  BY DEF FirstToAct
<1>2. x \in HandState /\ s \in Seats
  BY DEF Sound, Booked, Alive
<1>3. y \in HandState
  <2>1. 0 \in 0 .. N
    BY Bounds
  <2>2. QED
    BY <1>1, <1>2, <2>1 DEF HandState
<1>4. /\ y.balance = x.balance /\ y.gameOver = x.gameOver /\ y.pot = x.pot /\ y.bet = x.bet
      /\ y.currentBet = x.currentBet /\ y.round = x.round /\ y.left = x.left
      /\ y.extraCards = x.extraCards /\ y.pending = x.pending /\ y.panicked = x.panicked
      /\ y.mushroom = x.mushroom /\ Alive(y) = Alive(x) /\ y.start = s /\ y.count = 0
  BY <1>1, <1>2 DEF HandState, Alive
<1>5. Sound(y)
  BY <1>3, <1>4 DEF Sound, Booked, TwoLeft, ChipsAddUp, BetsFollow, MushroomsFirst, CardsCounted
<1>6. TurnIsAlive(y)
  <2>1. s \in 0 .. N - 1 /\ s + 0 = s
    BY <1>2, Bounds DEF Seats
  <2>2. (s + 0) % N = s
    BY <2>1, SeatModulo
  <2>3. QED
    BY <1>4, <2>2 DEF TurnIsAlive, SeatAt
<1>7. OwersAreAsked(y, y.count)
  <2>1. y.bet \in [Seats -> Nat] /\ Alive(y) \subseteq Seats
    BY <1>3 DEF HandState, Alive
  <2>2. QED
    BY <1>4, <2>1 DEF OwersAreAsked
<1>8. QED
  BY <1>4, <1>5, <1>6, <1>7, Bounds DEF Placed, Asked, RoundsEnd, Follows

\* The next card, or the showdown.
LEMMA NextRoundKeeps ==
  ASSUME NEW x, Sound(x), RoundsEnd(x), ~x.gameOver, NEW y \in NextRound(x)
  PROVE  Sound(y) /\ Placed(y)
<1> DEFINE z == [x EXCEPT !.round = @ + 1, !.currentBet = 0, !.bet = [s \in Seats |-> 0]]
<1>1. x \in HandState /\ x.round \in 0 .. 5
  BY DEF Sound, Booked, HandState, RoundsEnd, BeforeDeal, RevealWinner
<1>2. z \in HandState
  <2>1. x.round + 1 \in BeforeDeal .. RevealWinner + 1 /\ [s \in Seats |-> 0] \in [Seats -> Nat] /\ 0 \in Nat
    BY <1>1 DEF BeforeDeal, RevealWinner
  <2>2. QED
    BY <1>1, <2>1 DEF HandState
<1>3. /\ z.balance = x.balance /\ z.gameOver = x.gameOver /\ z.pot = x.pot /\ z.bet = [s \in Seats |-> 0]
      /\ z.currentBet = 0 /\ z.round = x.round + 1 /\ z.left = x.left
      /\ z.extraCards = x.extraCards /\ z.pending = x.pending /\ z.panicked = x.panicked
      /\ z.mushroom = x.mushroom /\ Alive(z) = Alive(x)
  BY <1>1 DEF HandState, Alive
<1>4. y \in IF z.round = RevealWinner
            THEN EndGame(z)
            ELSE UNION {FirstToAct(w) :
                          w \in IF z.round = FinalBettingRound THEN DealDown(z) ELSE DealUp(z)}
  BY Zenon DEF NextRound
<1> HIDE DEF z
<1>5. Sound(z)
  BY <1>2, <1>3 DEF Sound, Booked, TwoLeft, ChipsAddUp, BetsFollow, MushroomsFirst, CardsCounted
<1>6. CASE z.round = RevealWinner
  BY <1>3, <1>4, <1>5, <1>6, EndGameKeeps DEF Sound
<1>7. CASE z.round # RevealWinner
  <2>1. RoundsEnd(z)
    BY <1>1, <1>3, <1>7 DEF RoundsEnd, RevealWinner
  <2>2. PICK w \in IF z.round = FinalBettingRound THEN DealDown(z) ELSE DealUp(z) :
          y \in FirstToAct(w)
    BY <1>4, <1>7
  <2>3. Sound(w) /\ RoundsEnd(w) /\ w.currentBet = 0
    <3>1. CASE z.round = FinalBettingRound
      BY <1>3, <1>5, <2>1, <2>2, <3>1, DealDownKeeps DEF RoundsEnd, Follows
    <3>2. CASE z.round # FinalBettingRound
      BY <1>3, <1>5, <2>1, <2>2, <3>2, DealUpKeeps DEF Follows
    <3>3. QED
      BY <3>1, <3>2
  <2>4. QED
    BY <2>2, <2>3, FirstToActKeeps
<1>8. QED
  BY <1>6, <1>7

\* The count goes up: who is asked is passed.
LEMMA CountUpKeeps ==
  ASSUME NEW x, Sound(x), RoundsEnd(x), ~x.gameOver, x.count < N, OwersAreAsked(x, x.count + 1)
  PROVE  Advancing(CountUp(x))
<1> DEFINE w == CountUp(x)
<1>1. x \in HandState /\ x.count \in 0 .. N - 1
  BY Bounds DEF Sound, Booked, HandState
<1>2. w \in HandState
  BY <1>1, Bounds DEF HandState, CountUp
<1>3. /\ w.balance = x.balance /\ w.gameOver = x.gameOver /\ w.pot = x.pot /\ w.bet = x.bet
      /\ w.currentBet = x.currentBet /\ w.round = x.round /\ w.left = x.left
      /\ w.extraCards = x.extraCards /\ w.pending = x.pending /\ w.panicked = x.panicked
      /\ w.mushroom = x.mushroom /\ Alive(w) = Alive(x) /\ w.start = x.start /\ w.count = x.count + 1
  BY <1>1 DEF HandState, Alive, CountUp
<1> HIDE DEF w
<1>4. Sound(w)
  BY <1>2, <1>3 DEF Sound, Booked, TwoLeft, ChipsAddUp, BetsFollow, MushroomsFirst, CardsCounted
<1>5. RoundsEnd(w) /\ ~w.gameOver
  BY <1>3 DEF RoundsEnd
<1>6. OwersAreAsked(w, w.count)
  BY <1>3 DEF OwersAreAsked, SeatAt
<1>7. Advancing(w)
  BY <1>4, <1>5, <1>6 DEF Advancing
<1>8. QED
  BY <1>7 DEF w

\* advanceDecision: the folded are passed, and the round ends with the last.
LEMMA AdvanceKeeps ==
  ASSUME NEW w, Advancing(w), NEW y \in AdvanceDecision(w)
  PROVE  Sound(y) /\ Placed(y)
<1> DEFINE z == SkipFolded(w)
<1>1. w \in HandState /\ Sound(w) /\ RoundsEnd(w) /\ ~w.gameOver /\ OwersAreAsked(w, w.count)
  BY DEF Advancing, Sound, Booked
<1>2. w.count \in 0 .. N
  BY <1>1 DEF HandState
<1>3. y \in IF Turn(z) = {} THEN NextRound(z) ELSE {z}
  BY Zenon DEF AdvanceDecision
<1>4. PICK c \in w.count .. N :
        /\ z = [w EXCEPT !.count = c]
        /\ c < N => SeatAt(w, c) \in Alive(w)
        /\ \A k \in w.count .. c - 1 : SeatAt(w, k) \notin Alive(w)
  BY <1>1, SkipsTheFolded
<1> HIDE DEF z
<1>5. /\ z \in HandState /\ z.balance = w.balance /\ z.gameOver = w.gameOver /\ z.pot = w.pot
      /\ z.bet = w.bet /\ z.currentBet = w.currentBet /\ z.round = w.round /\ z.left = w.left
      /\ z.extraCards = w.extraCards /\ z.pending = w.pending /\ z.panicked = w.panicked
      /\ z.mushroom = w.mushroom /\ Alive(z) = Alive(w) /\ z.start = w.start /\ z.count = c
  BY <1>1, <1>2, <1>4, Bounds DEF HandState, Alive
<1>6. Sound(z)
  BY <1>1, <1>5 DEF Sound, Booked, TwoLeft, ChipsAddUp, BetsFollow, MushroomsFirst, CardsCounted
<1>7. RoundsEnd(z)
  BY <1>1, <1>5 DEF RoundsEnd
<1>8. CASE Turn(z) = {}
  BY <1>1, <1>3, <1>5, <1>6, <1>7, <1>8, NextRoundKeeps
<1>9. CASE Turn(z) # {}
  <2>1. y = z /\ c < N
    BY <1>3, <1>5, <1>9 DEF Turn
  <2>2. TurnIsAlive(z)
    BY <1>4, <1>5 DEF TurnIsAlive, SeatAt
  <2>3. ASSUME NEW t \in Alive(z), z.bet[t] < z.currentBet
        PROVE  \E k \in c .. N - 1 : SeatAt(z, k) = t
    <3>1. PICK k \in w.count .. N - 1 : SeatAt(w, k) = t
      BY <1>1, <1>5, <2>3 DEF OwersAreAsked
    <3>2. SeatAt(z, k) = t
      BY <1>5, <3>1 DEF SeatAt
    <3>3. k \notin w.count .. c - 1
      BY <1>4, <1>5, <2>3, <3>1
    <3>4. w.count \in Nat /\ c \in Nat /\ N \in Nat
      BY <1>2, <1>4, Bounds
    <3>5. QED
      BY <3>1, <3>2, <3>3, <3>4
  <2>4. QED
    BY <1>5, <1>6, <1>7, <2>1, <2>2, <2>3 DEF Placed, Asked, OwersAreAsked
<1>10. QED
  BY <1>8, <1>9

-----------------------------------------------------------------------------
(* The steps of the game.                                                  *)

\* NewGameV2: the antes are in, nobody has folded, nothing is shown.
LEMMA NewGameIsSound ==
  Sound(NewGame) /\ RoundsEnd(NewGame) /\ ~NewGame.gameOver
  /\ NewGame.currentBet = 0 /\ NewGame.round = 0
<1> DEFINE b == [s \in Seats |-> - Ante]
           zero == [s \in Seats |-> 0]
<1>1. N \in Nat /\ N > 1 /\ Ante \in Nat /\ Seats = 0 .. N - 1
  BY Bounds DEF Seats
<1>2. b \in [Seats -> Int] /\ zero \in [Seats -> Nat] /\ Ante * N \in Nat
  BY <1>1
<1>3. Sum(b, N) + Ante * N = 0
  <2>1. Seats \in SUBSET (0 .. N - 1) /\ - Ante \in Int
    BY <1>1
  <2>2. \A i \in 0 .. N - 1 : b[i] = IF i \in Seats THEN - Ante ELSE 0
    BY <1>1
  <2> HIDE DEF b
  <2>3. Sum(b, N) = (- Ante) * Cardinality(Seats)
    BY <1>1, <2>1, <2>2, SumOfMembers
  <2>4. Cardinality(Seats) = N
    BY SeatsCounted
  <2>5. (- Ante) * N + Ante * N = 0
    BY <1>1
  <2>6. QED
    BY <2>3, <2>4, <2>5
<1>4. /\ NewGame.balance = b /\ ~NewGame.gameOver /\ NewGame.pot = Ante * N
      /\ NewGame.bet = zero /\ NewGame.currentBet = 0 /\ NewGame.round = 0
      /\ NewGame.left = 4 /\ NewGame.extraCards = 0 /\ NewGame.pending = {}
      /\ ~NewGame.panicked /\ NewGame.mushroom = "deck" /\ NewGame.folded = {}
  BY DEF NewGame, BeforeDeal
<1>5. NewGame \in HandState
  <2>1. 0 \in Seats /\ 0 \in 0 .. N /\ 0 \in Nat /\ 0 \in 0 .. 4 /\ 4 \in 0 .. 4
        /\ BeforeDeal \in BeforeDeal .. RevealWinner + 1 /\ {} \in SUBSET Seats
        /\ NoOne \in Seats \cup {NoOne}
    BY <1>1 DEF BeforeDeal, RevealWinner
  <2> HIDE DEF b, zero
  <2>2. NewGame = [round |-> BeforeDeal, start |-> 0, count |-> 0, currentBet |-> 0,
                   pot |-> Ante * N, balance |-> b, bet |-> zero, folded |-> {},
                   gameOver |-> FALSE, panicked |-> FALSE, left |-> 4, extraCards |-> 0,
                   mushroom |-> "deck", holder |-> NoOne, locked |-> FALSE, pending |-> {}]
    BY Zenon DEF NewGame, b, zero
  <2>3. QED
    BY <1>2, <2>1, <2>2 DEF HandState
<1> HIDE DEF b, zero
<1>6. ChipsAddUp(NewGame)
  BY <1>3, <1>4 DEF ChipsAddUp
<1>7. BetsFollow(NewGame)
  BY <1>4 DEF BetsFollow, zero
<1>8. TwoLeft(NewGame)
  <2>1. Alive(NewGame) = Seats
    BY <1>4 DEF Alive
  <2>2. QED
    BY <1>1, <2>1, SeatsCounted DEF TwoLeft
<1>9. QED
  BY <1>4, <1>5, <1>6, <1>7, <1>8
  DEF Sound, Booked, MushroomsFirst, CardsCounted, RoundsEnd, RevealWinner

LEMMA InitKeeps == Init => IInv
<1> SUFFICES ASSUME Init PROVE IInv
  OBVIOUS
<1>1. PICK x \in DealDown(NewGame) : \E y \in DealUp(x) : \E z \in FirstToAct(y) :
        g = [z EXCEPT !.round = @ + 1]
  BY DEF Init
<1>2. PICK y \in DealUp(x) : \E z \in FirstToAct(y) : g = [z EXCEPT !.round = @ + 1]
  BY <1>1
<1>3. PICK z \in FirstToAct(y) : g = [z EXCEPT !.round = @ + 1]
  BY <1>2
<1>4. /\ Sound(x) /\ RoundsEnd(x) /\ ~x.gameOver /\ x.currentBet = 0 /\ x.round = 0
  BY NewGameIsSound, DealDownKeeps DEF Follows, RoundsEnd
<1>5. Sound(y) /\ RoundsEnd(y) /\ y.currentBet = 0 /\ y.round \in {0, RevealWinner}
  BY <1>4, DealUpKeeps DEF Follows
<1>6. Sound(z) /\ Placed(z) /\ z.round \in {0, RevealWinner}
  BY <1>5, FirstToActKeeps
<1>7. z \in HandState
  BY <1>6 DEF Sound, Booked
<1>8. g \in HandState
  <2>1. z.round + 1 \in BeforeDeal .. RevealWinner + 1
    BY <1>6 DEF BeforeDeal, RevealWinner
  <2>2. QED
    BY <1>3, <1>7, <2>1 DEF HandState
<1>9. /\ g.balance = z.balance /\ g.gameOver = z.gameOver /\ g.pot = z.pot /\ g.bet = z.bet
      /\ g.currentBet = z.currentBet /\ g.round = z.round + 1 /\ g.left = z.left
      /\ g.extraCards = z.extraCards /\ g.pending = z.pending /\ g.panicked = z.panicked
      /\ g.mushroom = z.mushroom /\ Alive(g) = Alive(z) /\ g.start = z.start /\ g.count = z.count
  BY <1>3, <1>7 DEF HandState, Alive
<1>10. Sound(g)
  BY <1>6, <1>8, <1>9 DEF Sound, Booked, TwoLeft, ChipsAddUp, BetsFollow, MushroomsFirst, CardsCounted
<1>11. Placed(g)
  <2>1. RoundsEnd(g)
    BY <1>6, <1>9 DEF Placed, Asked, RoundsEnd, RevealWinner
  <2>2. QED
    BY <1>6, <1>9, <2>1 DEF Placed, Asked, TurnIsAlive, OwersAreAsked, SeatAt
<1>12. TypeOK /\ EndsInOrder /\ LooksAreRaces /\ handling = "nothing"
  BY <1>8 DEF Init, TypeOK, EndsInOrder, LooksAreRaces
<1>13. QED
  BY <1>10, <1>11, <1>12 DEF IInv, HandHolds

\* What a player's action does to the hand.
Kept ==
  /\ HandHolds'
  /\ handling' \in {"nothing", "fold", "advance"} /\ g' \in HandState
  /\ g.gameOver => g'.gameOver /\ g'.balance = g.balance

\* At the end of an action, in the middle of it, and where a player folds.
LEMMA Ends ==
  ASSUME handling' = "nothing", Sound(g'), Placed(g'), g.gameOver => g'.gameOver /\ g'.balance = g.balance
  PROVE  Kept
BY DEF Kept, HandHolds, Sound, Booked

LEMMA Counts ==
  ASSUME ~g.gameOver, NEW x, Sound(x), RoundsEnd(x), ~x.gameOver, x.count < N,
         OwersAreAsked(x, x.count + 1), Starts(CountUp(x), "advance")
  PROVE  Kept
<1>1. g' = CountUp(x) /\ handling' = "advance"
  BY DEF Starts
<1>2. Advancing(g')
  BY <1>1, CountUpKeeps
<1>3. g' \in HandState
  BY <1>2 DEF Advancing, Sound, Booked
<1>4. QED
  BY <1>1, <1>2, <1>3 DEF Kept, HandHolds

\* The player in turn has not folded, and the hand is not over; the others who owe are
\* asked after him.
LEMMA InTurnMeans ==
  ASSUME Sound(g), Placed(g), ~g.panicked, NEW s \in Seats, InTurn(s)
  PROVE  /\ ~g.gameOver /\ g.count < N /\ SeatAt(g, g.count) = s /\ s \in Alive(g)
         /\ \A t \in Alive(g) \ {s} : g.bet[t] < g.currentBet =>
              \E k \in g.count + 1 .. N - 1 : SeatAt(g, k) = t
<1>1. g.count < N /\ g.round <= FinalBettingRound /\ SeatAt(g, g.count) = s
  BY DEF InTurn, Turn, SeatAt
<1>2. g \in HandState /\ g.count \in Nat /\ g.round \in Int /\ N \in Nat
  BY Bounds DEF Sound, Booked, HandState, BeforeDeal, RevealWinner
<1>3. ~g.gameOver
  BY <1>1, <1>2 DEF Placed, Asked, RoundsEnd, RevealWinner, FinalBettingRound
<1>4. s \in Alive(g)
  BY <1>1, <1>3 DEF Placed, Asked, TurnIsAlive
<1>5. ASSUME NEW t \in Alive(g) \ {s}, g.bet[t] < g.currentBet
      PROVE  \E k \in g.count + 1 .. N - 1 : SeatAt(g, k) = t
  <2>1. PICK k \in g.count .. N - 1 : SeatAt(g, k) = t
    BY <1>3, <1>5 DEF Placed, Asked, OwersAreAsked
  <2>2. k # g.count
    BY <1>1, <1>5, <2>1
  <2>3. k \in g.count + 1 .. N - 1
    BY <1>2, <2>1, <2>2
  <2>4. QED
    BY <2>1, <2>3
<1>6. QED
  BY <1>1, <1>3, <1>4, <1>5

LEMMA CheckStep ==
  ASSUME Sound(g), Placed(g), ~g.panicked, NEW s \in Seats, ActionCheck(s)
  PROVE  Kept
<1>1. InTurn(s) /\ g.currentBet = 0 /\ Starts(CountUp(g), "advance")
  BY DEF ActionCheck, MayBet
<1>2. ~g.gameOver /\ g.count < N
  BY <1>1, InTurnMeans
<1>3. OwersAreAsked(g, g.count + 1)
  <2>1. g.bet \in [Seats -> Nat] /\ Alive(g) \subseteq Seats
    BY DEF Sound, Booked, HandState, Alive
  <2>2. QED
    BY <1>1, <2>1 DEF OwersAreAsked
<1>4. QED
  BY <1>1, <1>2, <1>3, Counts DEF Placed, Asked

\* A player pays for what he bets.
LEMMA PaymentKeeps ==
  ASSUME Sound(g), ~g.gameOver, NEW s \in Seats, NEW amount \in Nat, amount >= g.currentBet,
         NEW y, y \in HandState, y.pot = g.pot + (amount - g.bet[s]),
         y.balance = [g.balance EXCEPT ![s] = @ - (amount - g.bet[s])],
         y.bet = [g.bet EXCEPT ![s] = amount],
         y.currentBet = amount, y.gameOver = g.gameOver, y.pending = g.pending,
         y.panicked = g.panicked, y.mushroom = g.mushroom, y.left = g.left,
         y.extraCards = g.extraCards, y.folded = g.folded
  PROVE  Sound(y)
<1>1. g \in HandState /\ g.bet \in [Seats -> Nat] /\ g.balance \in [Seats -> Int] /\ g.pot \in Nat
      /\ g.currentBet \in Nat /\ N \in Nat
  BY Bounds DEF Sound, Booked, HandState
<1>2. PICK d \in Int : d = g.bet[s] - amount
  BY <1>1
<1>3. Sum(y.balance, N) = Sum(g.balance, N) + d
  <2> DEFINE old == g.balance
             new == y.balance
  <2>1. old \in [Seats -> Int] /\ new = [old EXCEPT ![s] = @ - (amount - g.bet[s])]
    BY <1>1
  <2>2. Seats = 0 .. N - 1 /\ g.bet[s] \in Nat
    BY <1>1, Bounds DEF Seats
  <2> HIDE DEF old, new
  <2>3. s \in 0 .. N - 1 /\ \A i \in 0 .. N - 1 : old[i] \in Int
    BY <2>1, <2>2
  <2>4. new[s] = old[s] + d
    BY <1>2, <2>1, <2>2, <2>3
  <2>5. \A i \in 0 .. N - 1 : i # s => new[i] = old[i]
    BY <2>1, <2>2
  <2>6. Sum(new, N) = Sum(old, N) + d
    BY <1>1, <2>3, <2>4, <2>5, SumChange
  <2>7. QED
    BY <2>6 DEF old, new
<1>4. ChipsAddUp(y)
  <2>1. \A i \in 0 .. N - 1 : g.balance[i] \in Int
    BY <1>1 DEF Seats
  <2>2. Sum(g.balance, N) \in Int
    BY <1>1, <2>1, SumInt
  <2>3. Sum(g.balance, N) + g.pot = 0
    BY DEF Sound, Booked, ChipsAddUp
  <2>4. QED
    BY <1>1, <1>2, <1>3, <2>2, <2>3 DEF ChipsAddUp
<1>5. BetsFollow(y)
  BY <1>1 DEF Sound, Booked, BetsFollow
<1>6. Alive(y) = Alive(g)
  BY DEF Alive
<1>7. QED
  BY <1>4, <1>5, <1>6 DEF Sound, Booked, TwoLeft, MushroomsFirst, CardsCounted

LEMMA CallStep ==
  ASSUME Sound(g), Placed(g), ~g.panicked, NEW s \in Seats, ActionCall(s)
  PROVE  Kept
<1> DEFINE due == g.currentBet - g.bet[s]
           x == [g EXCEPT !.pot = @ + g.currentBet - g.bet[s],
                          !.balance[s] = @ - (g.currentBet - g.bet[s]),
                          !.bet[s] = g.currentBet]
<1>1. InTurn(s) /\ Starts(CountUp(x), "advance")
  BY DEF ActionCall, MayBet
<1>2. /\ ~g.gameOver /\ g.count < N
      /\ \A t \in Alive(g) \ {s} : g.bet[t] < g.currentBet =>
           \E k \in g.count + 1 .. N - 1 : SeatAt(g, k) = t
  BY <1>1, InTurnMeans
<1>3. g \in HandState /\ g.bet \in [Seats -> Nat] /\ g.balance \in [Seats -> Int] /\ g.pot \in Nat
      /\ g.currentBet \in Nat /\ due \in Nat
  <2>1. g \in HandState /\ g.bet \in [Seats -> Nat] /\ g.balance \in [Seats -> Int] /\ g.pot \in Nat
        /\ g.currentBet \in Nat
    BY DEF Sound, Booked, HandState
  <2>2. QED
    BY <2>1 DEF Sound, Booked, BetsFollow
<1> DEFINE pot == g.pot + due
           balance == [g.balance EXCEPT ![s] = @ - due]
           bet == [g.bet EXCEPT ![s] = g.currentBet]
<1>4. x = [g EXCEPT !.pot = pot, !.balance = balance, !.bet = bet]
  <2>1. g.pot + g.currentBet - g.bet[s] = pot
    BY <1>3
  <2>2. QED
    BY <1>3, <2>1 DEF HandState
<1>5. pot \in Nat /\ balance \in [Seats -> Int] /\ bet \in [Seats -> Nat]
  BY <1>3
<1>6. /\ pot = g.pot + (g.currentBet - g.bet[s])
      /\ balance = [g.balance EXCEPT ![s] = @ - (g.currentBet - g.bet[s])]
      /\ bet = [g.bet EXCEPT ![s] = g.currentBet]
      /\ g.currentBet >= g.currentBet
  BY <1>3
<1> HIDE DEF x, pot, balance, bet
<1>7. x \in HandState
  BY <1>3, <1>4, <1>5 DEF HandState
<1>8. /\ x.balance = balance /\ x.gameOver = g.gameOver /\ x.pot = pot /\ x.bet = bet
      /\ x.currentBet = g.currentBet /\ x.round = g.round /\ x.left = g.left
      /\ x.extraCards = g.extraCards /\ x.pending = g.pending /\ x.panicked = g.panicked
      /\ x.mushroom = g.mushroom /\ x.folded = g.folded /\ x.start = g.start /\ x.count = g.count
  BY <1>3, <1>4 DEF HandState
<1>9. Sound(x)
  BY <1>2, <1>3, <1>6, <1>7, <1>8, PaymentKeeps
<1>10. OwersAreAsked(x, x.count + 1)
  <2> SUFFICES ASSUME NEW t \in Alive(x), x.bet[t] < x.currentBet
               PROVE  \E k \in x.count + 1 .. N - 1 : SeatAt(x, k) = t
    BY DEF OwersAreAsked
  <2>1. t \in Alive(g) /\ t \in Seats
    BY <1>8 DEF Alive
  <2>2. t # s /\ g.bet[t] < g.currentBet
    BY <1>3, <1>6, <1>8, <2>1
  <2>3. QED
    BY <1>2, <1>8, <2>1, <2>2 DEF SeatAt
<1>11. RoundsEnd(x)
  BY <1>8 DEF Placed, Asked, RoundsEnd
<1>12. QED
  BY <1>1, <1>2, <1>8, <1>9, <1>10, <1>11, Counts

LEMMA BetStep ==
  ASSUME Sound(g), Placed(g), ~g.panicked, NEW s \in Seats, NEW amount \in Nat,
         ActionBetOrRaise(s, amount)
  PROVE  Kept
<1> DEFINE x == SetDecisionIndexToCurrentTurn(
                  [g EXCEPT !.pot = @ + amount - g.bet[s],
                            !.currentBet = amount,
                            !.balance[s] = @ - (amount - g.bet[s]),
                            !.bet[s] = amount,
                            !.locked = @ \/ g.holder # NoOne])
           pot == g.pot + (amount - g.bet[s])
           balance == [g.balance EXCEPT ![s] = @ - (amount - g.bet[s])]
           bet == [g.bet EXCEPT ![s] = amount]
           locked == g.locked \/ g.holder # NoOne
<1>1. /\ InTurn(s) /\ Starts(CountUp(x), "advance")
      /\ amount >= IF g.currentBet = 0 THEN Ante ELSE 2 * g.currentBet
  BY DEF ActionBetOrRaise, MayBet
<1>2. ~g.gameOver /\ g.count < N /\ SeatAt(g, g.count) = s
  BY <1>1, InTurnMeans
<1>3. g \in HandState /\ g.bet \in [Seats -> Nat] /\ g.balance \in [Seats -> Int] /\ g.pot \in Nat
      /\ g.currentBet \in Nat /\ g.bet[s] <= g.currentBet
  BY DEF Sound, Booked, HandState, BetsFollow
<1>4. amount >= g.currentBet
  BY <1>1, <1>3, Bounds
<1>5. pot \in Nat /\ balance \in [Seats -> Int] /\ bet \in [Seats -> Nat]
  BY <1>3, <1>4
<1>6. locked \in BOOLEAN
  OBVIOUS
<1>7. x = [g EXCEPT !.pot = pot, !.currentBet = amount, !.balance = balance, !.bet = bet,
                    !.locked = locked, !.start = s, !.count = 0]
  <2> DEFINE w == [g EXCEPT !.pot = @ + amount - g.bet[s],
                            !.currentBet = amount,
                            !.balance[s] = @ - (amount - g.bet[s]),
                            !.bet[s] = amount,
                            !.locked = @ \/ g.holder # NoOne]
  <2>1. g.pot + amount - g.bet[s] = pot
    BY <1>3
  <2>2. w = [g EXCEPT !.pot = pot, !.currentBet = amount, !.balance = balance, !.bet = bet,
                      !.locked = locked]
    BY <1>3, <2>1 DEF HandState
  <2>3. x = [w EXCEPT !.start = (w.start + w.count) % N, !.count = 0]
    BY Zenon DEF SetDecisionIndexToCurrentTurn
  <2> HIDE DEF w, x, pot, balance, bet, locked
  <2>4. w.start = g.start /\ w.count = g.count
    BY <1>3, <2>2 DEF HandState
  <2>5. (w.start + w.count) % N = s
    BY <1>2, <2>4 DEF SeatAt
  <2>6. QED
    BY <1>3, <2>2, <2>3, <2>5 DEF HandState
<1>8. /\ pot = g.pot + (amount - g.bet[s])
      /\ balance = [g.balance EXCEPT ![s] = @ - (amount - g.bet[s])]
      /\ bet = [g.bet EXCEPT ![s] = amount]
  OBVIOUS
<1> HIDE DEF x, pot, balance, bet, locked
<1>9. x \in HandState
  <2>1. 0 \in 0 .. N
    BY Bounds
  <2>2. QED
    BY <1>3, <1>5, <1>6, <1>7, <2>1 DEF HandState
<1>10. /\ x.balance = balance /\ x.gameOver = g.gameOver /\ x.pot = pot /\ x.bet = bet
       /\ x.currentBet = amount /\ x.round = g.round /\ x.left = g.left
       /\ x.extraCards = g.extraCards /\ x.pending = g.pending /\ x.panicked = g.panicked
       /\ x.mushroom = g.mushroom /\ x.folded = g.folded /\ x.start = s /\ x.count = 0
  BY <1>3, <1>7 DEF HandState
<1>11. Sound(x)
  BY <1>2, <1>4, <1>8, <1>9, <1>10, PaymentKeeps
<1>12. OwersAreAsked(x, x.count + 1)
  <2> SUFFICES ASSUME NEW t \in Alive(x), x.bet[t] < x.currentBet
               PROVE  \E k \in x.count + 1 .. N - 1 : SeatAt(x, k) = t
    BY DEF OwersAreAsked
  <2>1. t \in Seats
    BY DEF Alive
  <2>2. t # s
    BY <1>3, <1>8, <1>10
  <2>3. PICK k \in 1 .. N - 1 : (s + k) % N = t
    BY <2>1, <2>2, OthersComeRound
  <2>4. x.count + 1 = 1 /\ SeatAt(x, k) = t
    BY <1>10, <2>3 DEF SeatAt
  <2>5. QED
    BY <2>4
<1>13. RoundsEnd(x)
  BY <1>10 DEF Placed, Asked, RoundsEnd
<1>14. QED
  BY <1>1, <1>2, <1>10, <1>11, <1>12, <1>13, Bounds, Counts

\* participantFolds: nobody is left only where a mushroom was shown.
LEMMA FoldStep ==
  ASSUME Sound(g), Placed(g), ~g.panicked, NEW s \in Seats, ActionFold(s)
  PROVE  Kept
<1> DEFINE x == [g EXCEPT !.folded = @ \cup {s}]
<1>1. InTurn(s) /\ g' = x /\ handling' = "fold"
  BY DEF ActionFold, MayBet, Starts
<1>2. /\ ~g.gameOver /\ g.count < N /\ s \in Alive(g)
      /\ \A t \in Alive(g) \ {s} : g.bet[t] < g.currentBet =>
           \E k \in g.count + 1 .. N - 1 : SeatAt(g, k) = t
  BY <1>1, InTurnMeans
<1>3. g \in HandState
  BY DEF Sound, Booked
<1>4. x \in HandState
  BY <1>3 DEF HandState
<1>5. /\ x.balance = g.balance /\ x.gameOver = g.gameOver /\ x.pot = g.pot /\ x.bet = g.bet
      /\ x.currentBet = g.currentBet /\ x.round = g.round /\ x.left = g.left
      /\ x.extraCards = g.extraCards /\ x.pending = g.pending /\ x.panicked = g.panicked
      /\ x.mushroom = g.mushroom /\ x.start = g.start /\ x.count = g.count
      /\ Alive(x) = Alive(g) \ {s}
  BY <1>3 DEF HandState, Alive
<1> HIDE DEF x
<1>6. Booked(x)
  BY <1>4, <1>5 DEF Sound, Booked, ChipsAddUp, BetsFollow, MushroomsFirst, CardsCounted
<1>7. Alive(x) = {} => x.mushroom \in Shown
  <2> SUFFICES ASSUME Alive(x) = {} PROVE g.mushroom \in Shown
    BY <1>5
  <2>1. Alive(g) = {s}
    BY <1>2, <1>5
  <2>2. Cardinality({s}) = 1
    BY FS_Singleton
  <2>3. ~(Cardinality(Alive(g)) > 1)
    BY <2>1, <2>2
  <2>4. QED
    BY <1>2, <2>3 DEF Sound, TwoLeft
<1>8. OwersAreAsked(x, x.count + 1)
  BY <1>2, <1>5 DEF OwersAreAsked, SeatAt
<1>9. RoundsEnd(x) /\ ~x.gameOver /\ x.count < N
  BY <1>2, <1>5 DEF Placed, Asked, RoundsEnd
<1>10. Folding(x)
  BY <1>6, <1>7, <1>8, <1>9 DEF Folding
<1>11. QED
  BY <1>1, <1>2, <1>4, <1>10 DEF Kept, HandHolds

\* And the hand ends, goes on, or (the last one being gone) panics.
LEMMA FoldIsCountedStep ==
  ASSUME HandHolds, FoldIsCounted
  PROVE  Kept
<1>1. Folding(g) /\ g \in HandState
  BY DEF HandHolds, FoldIsCounted, Folding, Booked
<1>2. ~g.gameOver /\ RoundsEnd(g) /\ g.count < N /\ OwersAreAsked(g, g.count + 1) /\ Booked(g)
  BY <1>1 DEF Folding
<1>3. CASE Cardinality(Alive(g)) = 1 /\ Plays(EndGame(g))
  <2>1. g' \in EndGame(g) /\ handling' = "nothing"
    BY <1>3 DEF Plays
  <2>2. Sound(g') /\ Placed(g')
    BY <1>2, <2>1, EndGameKeeps
  <2>3. QED
    BY <1>2, <2>1, <2>2, Ends
<1>4. CASE Alive(g) = {} /\ Plays({Panic(g)})
  <2>1. g' = [g EXCEPT !.panicked = TRUE] /\ handling' = "nothing"
    BY <1>4 DEF Plays, Panic
  <2>2. g.mushroom \in Shown
    BY <1>1, <1>4 DEF Folding
  <2>3. /\ g' \in HandState
        /\ g'.balance = g.balance /\ g'.gameOver = g.gameOver /\ g'.pot = g.pot /\ g'.bet = g.bet
        /\ g'.currentBet = g.currentBet /\ g'.round = g.round /\ g'.left = g.left
        /\ g'.extraCards = g.extraCards /\ g'.pending = g.pending /\ g'.panicked = TRUE
        /\ g'.mushroom = g.mushroom /\ g'.count = g.count /\ Alive(g') = Alive(g)
    BY <1>1, <2>1 DEF HandState, Alive
  <2>4. Sound(g')
    BY <1>2, <2>2, <2>3
    DEF Sound, Booked, TwoLeft, ChipsAddUp, BetsFollow, MushroomsFirst, CardsCounted
  <2>5. Placed(g')
    BY <1>2, <1>4, <2>3 DEF Placed, Asked, RoundsEnd, OwersAreAsked
  <2>6. QED
    BY <1>2, <2>1, <2>4, <2>5, Ends
<1>5. CASE Cardinality(Alive(g)) > 1 /\ Starts(CountUp(g), "advance")
  <2>1. Sound(g)
    BY <1>2, <1>5 DEF Sound, TwoLeft
  <2>2. QED
    BY <1>2, <1>5, <2>1, Counts
<1>6. QED
  BY <1>3, <1>4, <1>5 DEF FoldIsCounted

LEMMA AdvancesStep ==
  ASSUME HandHolds, Advances
  PROVE  Kept
<1>1. Advancing(g) /\ g' \in AdvanceDecision(g) /\ handling' = "nothing"
  BY DEF HandHolds, Advances, Plays
<1>2. Sound(g') /\ Placed(g')
  BY <1>1, AdvanceKeeps
<1>3. ~g.gameOver
  BY <1>1 DEF Advancing
<1>4. QED
  BY <1>1, <1>2, <1>3, Ends

LEMMA FlipStep ==
  ASSUME Sound(g), Placed(g), NEW s \in Seats, ActionFlipMushroom(s)
  PROVE  Kept
<1>1. g' \in TriggerMushroom(g, s, "flipped") /\ handling' = "nothing"
  BY DEF ActionFlipMushroom, Plays
<1>2. "flipped" \in Shown
  BY DEF Shown
<1>3. Sound(g') /\ Asked(g') /\ Follows(g, g') /\ g'.mushroom = "flipped"
  BY <1>1, <1>2, TriggerKeeps DEF Placed, Asked
<1>4. QED
  BY <1>1, <1>3, Ends DEF Placed, Follows

LEMMA AntidoteStep ==
  ASSUME Sound(g), Placed(g), NEW s \in Seats, ActionPlayAntidote(s)
  PROVE  Kept
<1> DEFINE x == [g EXCEPT !.pending = @ \ {s}]
<1>1. /\ s \in g.pending /\ g' \in IF x.pending = {} THEN CheckForWinByFold(x) ELSE {x}
      /\ handling' = "nothing"
  BY DEF ActionPlayAntidote, Plays
<1>2. g \in HandState /\ g.mushroom \in Shown
  BY <1>1 DEF Sound, Booked, MushroomsFirst
<1>3. x \in HandState
  BY <1>2 DEF HandState
<1>4. /\ x.balance = g.balance /\ x.gameOver = g.gameOver /\ x.pot = g.pot /\ x.bet = g.bet
      /\ x.currentBet = g.currentBet /\ x.round = g.round /\ x.left = g.left
      /\ x.extraCards = g.extraCards /\ x.panicked = g.panicked
      /\ x.mushroom = g.mushroom /\ x.start = g.start /\ x.count = g.count
      /\ Alive(x) = Alive(g)
  BY <1>2 DEF HandState, Alive
<1> HIDE DEF x
<1>5. Sound(x)
  BY <1>2, <1>3, <1>4
  DEF Sound, Booked, TwoLeft, ChipsAddUp, BetsFollow, MushroomsFirst, CardsCounted
<1>6. Placed(x)
  BY <1>4 DEF Placed, Asked, RoundsEnd, TurnIsAlive, OwersAreAsked, SeatAt
<1>7. CASE x.pending = {}
  <2>1. /\ Sound(g') /\ Asked(g') /\ Follows(x, g')
        /\ ~g'.gameOver => g' = x
    BY <1>1, <1>2, <1>4, <1>5, <1>6, <1>7, CheckKeeps DEF Placed
  <2>2. Placed(g')
    BY <1>6, <2>1 DEF Placed
  <2>3. QED
    BY <1>1, <1>4, <2>1, <2>2, Ends DEF Follows
<1>8. CASE x.pending # {}
  <2>1. g' = x
    BY <1>1, <1>8
  <2>2. QED
    BY <1>1, <1>4, <1>5, <1>6, <2>1, Ends
<1>9. QED
  BY <1>7, <1>8

LEMMA ActionKeeps ==
  ASSUME HandHolds, NEW s \in Seats, Action(s)
  PROVE  Kept /\ UNCHANGED <<variant, setDoneAt, done, broadcastPanicked>> /\ ~broadcastPanicked
<1>1. ~g.panicked /\ ~broadcastPanicked /\ Sound(g) /\ Placed(g)
  BY DEF Action, Running, HandHolds
<1>2. CASE ActionCheck(s)
  BY <1>1, <1>2, CheckStep DEF ActionCheck, Starts
<1>3. CASE ActionCall(s)
  BY <1>1, <1>3, CallStep DEF ActionCall, Starts
<1>4. CASE ActionFold(s)
  BY <1>1, <1>4, FoldStep DEF ActionFold, Starts
<1>5. ASSUME NEW amount \in 1 .. MaxPot, ActionBetOrRaise(s, amount)
      PROVE  Kept /\ UNCHANGED <<variant, setDoneAt, done, broadcastPanicked>>
  <2>1. amount \in Nat
    BY Bounds
  <2>2. QED
    BY <1>1, <1>5, <2>1, BetStep DEF ActionBetOrRaise, Starts
<1>6. CASE ActionFlipMushroom(s)
  BY <1>1, <1>6, FlipStep DEF ActionFlipMushroom, Plays
<1>7. CASE ActionPlayAntidote(s)
  BY <1>1, <1>7, AntidoteStep DEF ActionPlayAntidote, Plays
<1>8. QED
  BY <1>1, <1>2, <1>3, <1>4, <1>5, <1>6, <1>7 DEF Action

LEMMA ContinuesKeeps ==
  ASSUME HandHolds, Continues
  PROVE  Kept /\ UNCHANGED <<variant, setDoneAt, done, broadcastPanicked>> /\ ~broadcastPanicked
<1>1. CASE FoldIsCounted
  BY <1>1, FoldIsCountedStep DEF FoldIsCounted, Plays, Starts, Continues, Running
<1>2. CASE Advances
  BY <1>2, AdvancesStep DEF Advances, Plays, Continues, Running
<1>3. QED
  BY <1>1, <1>2 DEF Continues

\* Between the actions of the players the decision is where getCurrentTurn may look.
LEMMA TurnsAreAlive ==
  ASSUME Sound(g), Placed(g), ~g.panicked
  PROVE  Turn(g) \subseteq Alive(g)
<1>1. g \in HandState /\ g.count \in 0 .. N /\ g.round \in 0 .. 7 /\ N \in Nat
  BY Bounds DEF Sound, Booked, HandState, BeforeDeal, RevealWinner
<1>2. QED
  BY <1>1
  DEF Turn, Placed, Asked, RoundsEnd, TurnIsAlive, SeatAt, RevealWinner, FinalBettingRound

LEMMA NextKeeps == IInv /\ [Next]_vars => IInv'
<1> SUFFICES ASSUME IInv, [Next]_vars PROVE IInv'
  OBVIOUS
<1>1. ASSUME Kept, UNCHANGED <<variant, setDoneAt, done, broadcastPanicked>>, ~broadcastPanicked
      PROVE  IInv'
  <2>1. TypeOK'
    BY <1>1 DEF IInv, TypeOK, Kept
  <2>2. EndsInOrder' /\ LooksAreRaces'
    BY <1>1 DEF IInv, EndsInOrder, LooksAreRaces, Kept
  <2>3. QED
    BY <1>1, <2>1, <2>2 DEF IInv, Kept
<1>2. ASSUME UNCHANGED <<g, variant, handling>>, TypeOK', EndsInOrder', LooksAreRaces'
      PROVE  IInv'
  <2>1. HandHolds'
    BY <1>2 DEF IInv, HandHolds
  <2>2. QED
    BY <1>2, <2>1 DEF IInv
<1>3. CASE Tick
  <2>1. UNCHANGED <<g, variant, handling>>
    BY <1>3 DEF Tick, TickSchedulesEnd, TickEnds
  <2>2. TypeOK'
    BY <1>3 DEF Tick, TickSchedulesEnd, TickEnds, IInv, TypeOK
  <2>3. EndsInOrder' /\ LooksAreRaces'
    BY <1>3 DEF Tick, TickSchedulesEnd, TickEnds, IInv, EndsInOrder, LooksAreRaces
  <2>4. QED
    BY <1>2, <2>1, <2>2, <2>3
<1>4. CASE BroadcastPanics
  <2>1. UNCHANGED <<g, variant, handling, setDoneAt, done>> /\ broadcastPanicked' = TRUE
    BY <1>4 DEF BroadcastPanics
  <2>2. TypeOK' /\ EndsInOrder'
    BY <2>1 DEF IInv, TypeOK, EndsInOrder
  <2>3. LooksAreRaces'
    <3>1. handling # "nothing"
      <4> SUFFICES ASSUME handling = "nothing" PROVE FALSE
        OBVIOUS
      <4>1. Sound(g) /\ Placed(g) /\ ~g.panicked
        BY <1>4 DEF IInv, HandHolds, BroadcastPanics, Running
      <4>2. Turn(g) \subseteq Alive(g)
        BY <4>1, TurnsAreAlive
      <4>3. QED
        BY <1>4, <4>2 DEF BroadcastPanics, Alive
    <3>2. QED
      BY <2>1, <3>1 DEF LooksAreRaces
  <2>4. QED
    BY <1>2, <2>1, <2>2, <2>3
<1>5. CASE UNCHANGED vars
  <2>1. TypeOK' /\ EndsInOrder' /\ LooksAreRaces'
    BY <1>5 DEF vars, IInv, TypeOK, EndsInOrder, LooksAreRaces
  <2>2. QED
    BY <1>2, <1>5, <2>1 DEF vars
<1>6. ASSUME NEW s \in Seats, Action(s) PROVE IInv'
  BY <1>1, <1>6, ActionKeeps DEF IInv
<1>7. CASE Continues
  BY <1>1, <1>7, ContinuesKeeps DEF IInv
<1>8. QED
  BY <1>3, <1>4, <1>5, <1>6, <1>7 DEF Next

\* Whatever is under way, the books of the hand are kept.
LEMMA AlwaysBooked ==
  ASSUME IInv
  PROVE  Booked(g) /\ (~g.gameOver => \E n \in {g.count, g.count + 1} : OwersAreAsked(g, n))
<1>1. CASE handling = "nothing"
  BY <1>1 DEF IInv, HandHolds, Sound, Placed, Asked
<1>2. CASE handling = "advance"
  BY <1>2 DEF IInv, HandHolds, Advancing, Sound
<1>3. CASE handling = "fold"
  BY <1>3 DEF IInv, HandHolds, Folding
<1>4. QED
  BY <1>1, <1>2, <1>3 DEF IInv, TypeOK

-----------------------------------------------------------------------------
(* What holds in every hand.                                               *)

\* The invariant of SevenCard: whatever the players send, the chips of the hand, its
\* rounds and the place of the decision stay consistent.
THEOREM HandInvariant == Spec => []IInv
<1>1. Init => IInv
  BY InitKeeps
<1>2. IInv /\ [Next]_vars => IInv'
  BY NextKeeps
<1>3. QED
  BY <1>1, <1>2, PTL DEF Spec

\* The types of the hand.
THEOREM TypeCorrect == Spec => []TypeOK
<1>1. IInv => TypeOK
  BY DEF IInv
<1>2. QED
  BY <1>1, HandInvariant, PTL

\* Only a flipped mushroom leaves a hand waiting for nobody, a player's action panics
\* only by a shown one, and the decision is with a player who has folded
\* (getCurrentTurn panics on it) only while an action is under way, so that nothing but
\* a look at the hand in the middle of one ever meets it.
THEOREM OnlyMushroomsOrRaces == Spec => []BreaksAreMushroomsOrRaces
<1>1. IInv => BreaksAreMushroomsOrRaces
  <2> SUFFICES ASSUME IInv PROVE BreaksAreMushroomsOrRaces
    OBVIOUS
  <2>1. Booked(g) /\ g \in HandState /\ g.count \in 0 .. N /\ g.round \in 0 .. 7 /\ N \in Nat
    BY AlwaysBooked, Bounds DEF Booked, HandState, BeforeDeal, RevealWinner
  <2>2. ASSUME Stranded PROVE g.mushroom = "flipped"
    <3>1. Placed(g)
      BY <2>2 DEF Stranded, IInv, HandHolds
    <3>2. QED
      BY <2>1, <2>2, <3>1
      DEF Stranded, Turn, Placed, Asked, RoundsEnd, RevealWinner, FinalBettingRound
  <2>3. g.panicked => g.mushroom \in {"up", "flipped"}
    BY <2>1 DEF Booked, MushroomsFirst, Shown
  <2>4. handling = "nothing" /\ ~g.panicked => Turn(g) \subseteq Alive(g)
    BY TurnsAreAlive DEF IInv, HandHolds
  <2>5. QED
    BY <2>2, <2>3, <2>4 DEF BreaksAreMushroomsOrRaces, IInv, LooksAreRaces
<1>2. QED
  BY <1>1, HandInvariant, PTL

\* Nobody comes to the next card, or to the showdown, who has not matched the bet: who
\* owes to it is still to be asked (bet, advanceDecision).
THEOREM BetsAreMatched == Spec => []NobodyOwes
<1>1. IInv => NobodyOwes
  <2> SUFFICES ASSUME IInv, NEW s \in Alive(g), g.bet[s] < g.currentBet, ~g.gameOver
               PROVE  \E k \in g.count .. N - 1 : (g.start + k) % N = s
    BY DEF NobodyOwes
  <2>1. PICK n \in {g.count, g.count + 1} : OwersAreAsked(g, n)
    BY AlwaysBooked
  <2>2. PICK k \in n .. N - 1 : SeatAt(g, k) = s
    BY <2>1 DEF OwersAreAsked
  <2>3. g.count \in Nat /\ N \in Nat
    BY AlwaysBooked, Bounds DEF Booked, HandState
  <2>4. k \in g.count .. N - 1
    BY <2>1, <2>2, <2>3
  <2>5. QED
    BY <2>2, <2>4 DEF SeatAt
<1>2. QED
  BY <1>1, HandInvariant, PTL

\* Seven cards for everybody and Baseball's extra cards are in the deck, whatever the
\* number of players.
THEOREM DeckSuffices == Spec => []TheDeckLasts
<1>1. IInv => TheDeckLasts
  <2> SUFFICES ASSUME IInv PROVE TheDeckLasts
    OBVIOUS
  <2>1. g.extraCards \in 0 .. 4 /\ g.left \in 0 .. 4 /\ CardsCounted(g)
    BY AlwaysBooked DEF Booked, HandState
  <2>2. QED
    BY <2>1, Bounds DEF CardsCounted, TheDeckLasts
<1>2. QED
  BY <1>1, HandInvariant, PTL

-----------------------------------------------------------------------------
(* The contract of a game.                                                 *)

\* The sums of the contract are those of SevenCard.
LEMMA SameSum ==
  ASSUME NEW f, NEW n
  PROVE  Game!Sum(f, n) = Sum(f, n)
BY Zenon DEF Game!Sum, Sum

\* The abstract specification of a game, its promise to move on aside
\* (playable.Playable, as the room's dealer uses it): every step of a hand is a step of
\* a game whose chips add up, and the last one leaves nothing on the table.
THEOREM KeepsTheContract == Spec => Game!SafeSpec
<1>1. IInv => Game!Balanced
  <2> SUFFICES ASSUME IInv PROVE Game!Balanced
    OBVIOUS
  <2>1. g.pot \in Nat /\ ChipsAddUp(g)
    BY AlwaysBooked DEF Booked, HandState
  <2>2. QED
    BY <2>1, SameSum DEF Game!Balanced, ChipsAddUp
<1>2. /\ done => status = "over"
      /\ ~done => status \in {"waits", "deals"}
  <2>1. done => status = "over"
    BY Zenon DEF status
  <2>2. ~done => status = "waits" \/ status = "deals"
    BY Zenon DEF status
  <2>3. QED
    BY <2>1, <2>2
<1>3. Init => Game!Init
  BY <1>1, <1>2, InitKeeps DEF Init, Game!Init
<1>4. IInv /\ IInv' /\ [Next]_vars => [Game!Next]_(Game!vars)
  <2> SUFFICES ASSUME IInv, IInv', [Next]_vars PROVE [Game!Next]_(Game!vars)
    OBVIOUS
  <2>1. /\ Game!Balanced'
        /\ done' => status' = "over"
        /\ ~done' => status' \in {"waits", "deals"}
    <3>1. Game!Balanced' /\ (done => status = "over")' /\ (~done => status \in {"waits", "deals"})'
      BY <1>1, <1>2, PTL
    <3>2. QED
      BY <3>1
  <2>2. ASSUME UNCHANGED <<g, done, handling>>
        PROVE  UNCHANGED Game!vars
    BY <2>2 DEF Game!vars, Turn, status
  <2>3. CASE TickEnds
    BY <1>2, <2>1, <2>3 DEF Tick, TickEnds, IInv, EndsInOrder, Game!Next, Game!End
  <2>4. ASSUME Kept, done' = done
        PROVE  [Game!Next]_(Game!vars)
    <3>1. CASE done
      <4>1. status' = status
        BY <1>2, <2>1, <2>4, <3>1
      <4>2. QED
        BY <2>4, <3>1, <4>1 DEF IInv, EndsInOrder, Kept, Game!vars
    <3>2. CASE ~done
      BY <1>2, <2>1, <2>4, <3>2 DEF Game!Next, Game!Move
    <3>3. QED
      BY <3>1, <3>2
  <2>5. ASSUME NEW s \in Seats, Action(s)
        PROVE  Kept /\ done' = done
    BY <2>5, ActionKeeps DEF IInv
  <2>6. CASE Continues
    BY <2>4, <2>6, ContinuesKeeps DEF IInv
  <2>7. QED
    BY <2>2, <2>3, <2>4, <2>5, <2>6 DEF Next, Tick, TickSchedulesEnd, BroadcastPanics, vars
<1>5. QED
  BY <1>3, <1>4, HandInvariant, PTL DEF Spec, Game!SafeSpec
=============================================================================
