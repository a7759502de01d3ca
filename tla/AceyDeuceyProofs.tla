------------------------- MODULE AceyDeuceyProofs -------------------------
(***************************************************************************)
(* Acey Deucey for every number of players, ante, deck and request: what   *)
(* is offered is accepted, only a tick that comes while an ace is being    *)
(* called deals on an ace nobody has called, and the game keeps the        *)
(* contract (Playable) at every step.  Bets below zero and antes of odd    *)
(* cents are part of it; where they are an exception the property says so. *)
(***************************************************************************)
EXTENDS AceyDeucey, SumProofs

-----------------------------------------------------------------------------
(* The invariant.                                                          *)

\* What a game that waits will become.
WaitsFor == round.state = "Waiting" => round.next \in {"RoundOver", "GameOver", "Complete"}

\* There is something to win, in whole quarters, as long as a game is on or another
\* one follows; and nobody has bet more, nor less than nothing.
InPlay == {"Start", "FirstCardDealt", "PendingAceDecision", "PendingBet", "Passed", "BetPlaced"}

BetsAreCovered ==
  ~BetsMayExceedThePot =>
    /\ pot >= 0 /\ round.pot >= 0 /\ round.pot % 25 = 0
    /\ round.state \in InPlay => round.pot > 0
    /\ round.state = "BetPlaced" => round.bet >= 0 /\ round.bet % 25 = 0 /\ round.bet <= round.pot

\* Another game of the round has been made.
GamesFollow ==
  \/ round.state = "GameOver"
  \/ round.state = "Waiting" /\ round.next = "GameOver"
  => /\ round.activeGame < round.games
     /\ ~BetsMayExceedThePot => round.pot > 0

\* An ace that waits to be called, or was called low, is one of the deck's.
AcesAreDealt ==
  /\ round.state = "PendingAceDecision" => round.first = Ace /\ round.undecided
  /\ round.first \in {Ace, LowAce} => Ace \in Ranks

\* While an ace is being called the round waits for a card, the ace without a mark.
CallsAreOfAces ==
  call # 0 => round.state = "FirstCardDealt" /\ round.undecided /\ round.first = Ace

\* The round that is played is not booked yet; when the game is complete it is.
RoundsAreBooked ==
  IF round.next = "Complete"
  THEN round.state \in {"Waiting", "Complete"} /\ pot <= 0
  ELSE round.state # "Complete" /\ round.pot + round.adjustment = pot

ChipsConserved == Sum(balance, N) + pot = 0

IInv ==
  /\ TypeOK
  /\ WaitsFor
  /\ BetsAreCovered
  /\ GamesFollow
  /\ AcesAreDealt
  /\ CallsAreOfAces
  /\ RoundsAreBooked
  /\ ChipsConserved
  /\ AcesAreCalled

-----------------------------------------------------------------------------
(* Quarters and pots.                                                      *)

LEMMA Bounds ==
  /\ N \in Nat /\ N >= 2
  /\ Antes \subseteq Nat \ {0}
  /\ Ranks \subseteq 2 .. 14
  /\ Amounts \subseteq Int
  /\ MaxGames \in Nat /\ MaxGames > 0
  /\ MaxRounds \in Nat /\ MaxRounds > 0
BY AceyDeuceyAssumption DEF Ace

\* Half a pot is a number of quarters, within the pot.
LEMMA HalfPots ==
  ASSUME NEW p \in Nat
  PROVE  /\ HalfPot(p) \in Nat /\ HalfPot(p) <= p
         /\ HalfPot(p) % 25 = 0
         /\ p >= 100 => HalfPot(p) >= 50
BY DEF HalfPot, Unit

\* With a quarter in the pot the limit of a bet leaves at least that to bet, is within
\* the pot and covers the half-pot bet wherever that is offered.
LEMMA MaxBets ==
  ASSUME NEW r, r.pot \in Nat, r.pot >= 25
  PROVE  /\ MaxBet(r) \in Nat /\ 25 <= MaxBet(r) /\ MaxBet(r) <= r.pot
         /\ r.pot >= 100 => 50 <= MaxBet(r)
<1>2. /\ HalfPot(r.pot) \in Nat /\ HalfPot(r.pot) <= r.pot
      /\ r.pot >= 100 => HalfPot(r.pot) >= 50
  BY HalfPots
<1>3. HalfPotMax \in BOOLEAN
  BY DEF HalfPotMax
<1>4. MaxBet(r) = IF ~HalfPotMax THEN r.pot
                  ELSE IF HalfPot(r.pot) < 50 THEN 25 ELSE HalfPot(r.pot)
  <2>1. CASE ~HalfPotMax
    BY <2>1 DEF MaxBet
  <2>2. CASE HalfPotMax /\ HalfPot(r.pot) < 50
    BY <2>2 DEF MaxBet, Unit
  <2>3. CASE HalfPotMax /\ ~(HalfPot(r.pot) < 50)
    BY <2>3 DEF MaxBet, Unit
  <2>4. QED
    BY <1>3, <2>1, <2>2, <2>3
<1>5. QED
  BY <1>2, <1>4

\* What the antes make is a pot, and one of whole quarters if they are.
LEMMA AntesMakeAPot ==
  ASSUME NEW a \in Nat \ {0}
  PROVE  /\ N * a \in Nat /\ N * a > 0
         /\ a % 25 = 0 => (N * a) % 25 = 0
<1>1. N * a \in Nat /\ N * a > 0
  BY Bounds
<1>2. ASSUME a % 25 = 0 PROVE (N * a) % 25 = 0
  <2>1. PICK q \in Nat : a = 25 * q
    BY <1>2, a = 25 * (a \div 25) + (a % 25), a \div 25 \in Nat
  <2>2. N * a = 25 * (N * q) /\ N * q \in Nat
    BY <2>1, Bounds
  <2>3. \A x \in Nat : (25 * x) % 25 = 0
    OBVIOUS
  <2>4. QED
    BY <2>2, <2>3
<1>3. QED
  BY <1>1, <1>2

-----------------------------------------------------------------------------
(* Every action keeps the invariant.                                       *)

LEMMA InitKeeps == Init => IInv
<1> SUFFICES ASSUME Init PROVE IInv
  OBVIOUS
<1>0. ante \in Nat \ {0}
  BY Bounds DEF Init
<1>1. /\ N * ante \in Nat /\ N * ante > 0
      /\ ante % 25 = 0 => (N * ante) % 25 = 0
  BY <1>0, AntesMakeAPot
<1>2. TypeOK
  <2>1. balance \in [Seats -> Int] /\ allowPass \in BOOLEAN
    <3>1. -ante \in Int
      BY <1>0
    <3>2. QED
      BY <3>1, Zenon DEF Init
  <2>2. round = NewRound(N * ante) /\ pot \in Int /\ turnIndex \in Seats /\ rounds \in 1 .. MaxRounds
    BY <1>1, Bounds DEF Init, Seats
  <2>3. round.state = "Start" /\ call = 0 /\ panicked = FALSE /\ belowZero = FALSE
    BY DEF Init, NewRound
  <2>4. /\ round \in [state: RoundStates, next: RoundStates, pot: Int, games: 1 .. MaxGames,
                activeGame: 1 .. MaxGames, first: {0, LowAce} \cup Ranks, undecided: BOOLEAN,
                last: {0} \cup Ranks, bet: Int, halfPot: BOOLEAN, gameOver: BOOLEAN,
                adjustment: Int]
        /\ round.activeGame <= round.games
    BY <1>1, <2>2, Bounds DEF NewRound, RoundStates
  <2>5. QED
    BY <1>0, <2>1, <2>2, <2>3, <2>4, Zenon DEF TypeOK
<1>3. ChipsConserved
  <2>1. \A i \in 0 .. N - 1 : balance[i] = IF i \in Seats THEN -ante ELSE 0
    BY DEF Init, Seats
  <2>2. -ante \in Int /\ N \in Nat /\ Seats \in SUBSET (0 .. N - 1)
    BY <1>0, Bounds DEF Seats
  <2>3. Sum(balance, N) = (-ante) * Cardinality(Seats)
    BY <2>1, <2>2, SumOfMembers
  <2>4. Cardinality(Seats) = N
    BY Bounds, FS_Interval, 0 \in Int, N - 1 \in Int DEF Seats
  <2>5. (-ante) * N + N * ante = 0
    BY <1>0, Bounds
  <2>6. QED
    BY <2>3, <2>4, <2>5 DEF ChipsConserved, Init
<1>4. pot = N * ante /\ round = NewRound(N * ante) /\ call = 0 /\ panicked = FALSE
  BY DEF Init
<1>5. /\ round.state = "Start" /\ round.next = "Start" /\ round.pot = N * ante
      /\ round.first = 0 /\ round.adjustment = 0
  BY <1>4 DEF NewRound
<1>6. BetsAreCovered
  BY <1>0, <1>1, <1>4, <1>5 DEF BetsAreCovered, BetsMayExceedThePot, Unit
<1>7. WaitsFor /\ GamesFollow /\ AcesAreDealt /\ CallsAreOfAces /\ AcesAreCalled
  BY <1>4, <1>5 DEF WaitsFor, GamesFollow, AcesAreDealt, CallsAreOfAces, AcesAreCalled, Ace, LowAce
<1>8. RoundsAreBooked
  BY <1>1, <1>4, <1>5 DEF RoundsAreBooked
<1>9. QED
  BY <1>2, <1>3, <1>6, <1>7, <1>8 DEF IInv

\* A call leaves what the invariant says of the money alone, before the ace is marked
\* and afterwards; so does a pass.
LEMMA DecisionsKeep ==
  ASSUME IInv, ~panicked,
         \/ \E high \in BOOLEAN : SetAce(high)
         \/ MarkAce
         \/ SetPass
  PROVE  IInv'
<1>1. CASE \E high \in BOOLEAN : SetAce(high)
  <2>1. /\ round.state = "PendingAceDecision"
        /\ round' = [round EXCEPT !.state = "FirstCardDealt"]
        /\ call' \in {LowAce, Ace}
        /\ UNCHANGED <<options, game, panicked, belowZero>>
    BY <1>1 DEF SetAce
  <2>2. round.first = Ace /\ round.undecided
    BY <2>1 DEF IInv, AcesAreDealt
  <2>3. /\ round'.state = "FirstCardDealt" /\ round'.next = round.next /\ round'.pot = round.pot
        /\ round'.adjustment = round.adjustment /\ round'.first = round.first
        /\ round'.undecided = round.undecided
    BY <2>1 DEF IInv, TypeOK
  <2>4. TypeOK'
    BY <2>1 DEF IInv, TypeOK, RoundStates, options, game
  <2>5. call' # 0
    BY <2>1 DEF Ace, LowAce
  <2>6. BetsAreCovered'
    BY <2>1, <2>3 DEF IInv, BetsAreCovered, InPlay, BetsMayExceedThePot, options, game
  <2>7. WaitsFor' /\ GamesFollow' /\ AcesAreDealt' /\ CallsAreOfAces' /\ AcesAreCalled'
    BY <2>1, <2>2, <2>3, <2>5 DEF IInv, WaitsFor, GamesFollow, AcesAreDealt, CallsAreOfAces, AcesAreCalled
  <2>8. RoundsAreBooked' /\ ChipsConserved'
    BY <2>1, <2>3 DEF IInv, RoundsAreBooked, ChipsConserved, game
  <2>9. QED
    BY <2>4, <2>6, <2>7, <2>8 DEF IInv
<1>2. CASE MarkAce
  <2>1. /\ round' = [round EXCEPT !.undecided = FALSE, !.first = call]
        /\ call # 0 /\ call' = 0
        /\ UNCHANGED <<options, game, panicked, belowZero>>
    BY <1>2 DEF MarkAce
  <2>2. /\ round.state = "FirstCardDealt" /\ Ace \in Ranks
        /\ call \in {LowAce, Ace}
    BY <2>1 DEF IInv, TypeOK, CallsAreOfAces, AcesAreDealt
  <2>3. /\ round'.state = "FirstCardDealt" /\ round'.next = round.next /\ round'.pot = round.pot
        /\ round'.adjustment = round.adjustment /\ round'.first = call
        /\ round'.undecided = FALSE
    BY <2>1, <2>2 DEF IInv, TypeOK
  <2>4. TypeOK'
    BY <2>1, <2>2 DEF IInv, TypeOK, options, game
  <2>5. BetsAreCovered'
    BY <2>1, <2>2, <2>3 DEF IInv, BetsAreCovered, InPlay, BetsMayExceedThePot, options, game
  <2>6. WaitsFor' /\ GamesFollow' /\ AcesAreDealt' /\ CallsAreOfAces' /\ AcesAreCalled'
    BY <2>1, <2>2, <2>3 DEF IInv, WaitsFor, GamesFollow, AcesAreDealt, CallsAreOfAces, AcesAreCalled
  <2>7. RoundsAreBooked' /\ ChipsConserved'
    BY <2>1, <2>2, <2>3 DEF IInv, RoundsAreBooked, ChipsConserved, game
  <2>8. QED
    BY <2>4, <2>5, <2>6, <2>7 DEF IInv
<1>3. CASE SetPass
  <2>1. /\ round.state = "PendingBet" /\ round' = [round EXCEPT !.state = "Passed"]
        /\ UNCHANGED <<options, game, call, panicked, belowZero>>
    BY <1>3 DEF SetPass
  <2>2. /\ round'.state = "Passed" /\ round'.next = round.next /\ round'.pot = round.pot
        /\ round'.adjustment = round.adjustment /\ round'.first = round.first
        /\ round'.undecided = round.undecided
    BY <2>1 DEF IInv, TypeOK
  <2>3. TypeOK'
    BY <2>1 DEF IInv, TypeOK, RoundStates, options, game
  <2>4. BetsAreCovered'
    BY <2>1, <2>2 DEF IInv, BetsAreCovered, InPlay, BetsMayExceedThePot, options, game
  <2>5. WaitsFor' /\ GamesFollow' /\ AcesAreDealt' /\ CallsAreOfAces' /\ AcesAreCalled'
    BY <2>1, <2>2 DEF IInv, WaitsFor, GamesFollow, AcesAreDealt, CallsAreOfAces, AcesAreCalled
  <2>6. RoundsAreBooked' /\ ChipsConserved'
    BY <2>1, <2>2 DEF IInv, RoundsAreBooked, ChipsConserved, game
  <2>7. QED
    BY <2>3, <2>4, <2>5, <2>6 DEF IInv
<1>4. QED
  BY <1>1, <1>2, <1>3

\* A bet that is not less than nothing is made of quarters and within the pot.
LEMMA BetsKeep ==
  ASSUME IInv,
         \/ \E amount \in Amounts : SetBet(amount, FALSE)
         \/ SetBet(betTheGapAmount, TRUE)
  PROVE  IInv'
<1>1. PICK amount \in Int, half \in BOOLEAN : SetBet(amount, half)
  <2>1. CASE \E amount \in Amounts : SetBet(amount, FALSE)
    BY <2>1, Bounds, Zenon
  <2>2. CASE SetBet(betTheGapAmount, TRUE)
    <3>1. betTheGapAmount \in Int
      BY DEF betTheGapAmount
    <3>2. QED
      BY <2>2, <3>1, Zenon
  <2>3. QED
    BY <2>1, <2>2
<1>2. /\ round.state = "PendingBet" /\ Whole(amount) /\ amount <= MaxBet(round)
      /\ round' = [round EXCEPT !.state = "BetPlaced", !.bet = amount, !.halfPot = half]
      /\ belowZero' = (belowZero \/ amount < 0)
      /\ UNCHANGED <<options, game, call, panicked>>
  BY <1>1 DEF SetBet
<1>3. /\ round'.state = "BetPlaced" /\ round'.next = round.next /\ round'.pot = round.pot
      /\ round'.adjustment = round.adjustment /\ round'.first = round.first
      /\ round'.undecided = round.undecided /\ round'.bet = amount
  BY <1>2 DEF IInv, TypeOK
<1>4. BetsAreCovered'
  <2>1. SUFFICES ASSUME ~BetsMayExceedThePot' PROVE BetsAreCovered'
    BY DEF BetsAreCovered
  <2>2. ~BetsMayExceedThePot /\ amount >= 0
    <3>1. ~belowZero' /\ ~(ante' % Unit # 0) /\ ante' = ante
      BY <1>2, <2>1, Zenon DEF BetsMayExceedThePot, options
    <3>2. ~belowZero /\ ~(amount < 0) /\ ~(ante % Unit # 0)
      BY <1>2, <3>1, Zenon
    <3>3. amount >= 0
      BY <3>2
    <3>4. QED
      BY <3>2, <3>3, Zenon DEF BetsMayExceedThePot
  <2>3. pot >= 0 /\ round.pot \in Nat /\ round.pot > 0 /\ round.pot % 25 = 0
    BY <1>2, <2>2 DEF IInv, TypeOK, BetsAreCovered, InPlay
  <2>4. round.pot >= 25
    BY <2>3
  <2>5. MaxBet(round) \in Nat /\ MaxBet(round) <= round.pot
    BY <2>3, <2>4, MaxBets
  <2>6. amount % 25 = 0 /\ amount <= round.pot
    BY <1>2, <2>2, <2>3, <2>5 DEF Whole, Unit
  <2>7. pot' = pot
    BY <1>2 DEF game
  <2>8. QED
    BY <1>3, <2>2, <2>3, <2>6, <2>7 DEF BetsAreCovered
<1>5. TypeOK'
  BY <1>2 DEF IInv, TypeOK, RoundStates, options, game
<1>6. WaitsFor' /\ GamesFollow' /\ AcesAreDealt' /\ CallsAreOfAces' /\ AcesAreCalled'
  BY <1>2, <1>3 DEF IInv, WaitsFor, GamesFollow, AcesAreDealt, CallsAreOfAces, AcesAreCalled
<1>7. RoundsAreBooked' /\ ChipsConserved'
  BY <1>2, <1>3 DEF IInv, RoundsAreBooked, ChipsConserved, game
<1>8. QED
  BY <1>4, <1>5, <1>6, <1>7 DEF IInv

\* A game that is finished moves quarters between the pot and what the round is
\* worth to the player, and the pot can pay.
LEMMA FinishedGamesKeep ==
  ASSUME IInv, round.next # "Complete", call = 0,
         NEW last \in {0} \cup Ranks, NEW over \in BOOLEAN, NEW won \in Int,
         ~BetsMayExceedThePot => won % 25 = 0 /\ won <= round.pot,
         round' = FinalizeGame([round EXCEPT !.last = last, !.gameOver = over], won),
         UNCHANGED <<options, game, call, panicked, belowZero>>
  PROVE  IInv'
<1> DEFINE pays == round.pot - won
           books == round.adjustment + won
           next == IF round.activeGame = round.games \/ pays = 0 THEN "RoundOver" ELSE "GameOver"
<1>1. /\ pays \in Int /\ books \in Int /\ next \in {"RoundOver", "GameOver"}
      /\ ~BetsMayExceedThePot => pays >= 0 /\ pays % 25 = 0
  BY DEF IInv, TypeOK, BetsAreCovered
<1>2. round' = [round EXCEPT !.last = 0, !.gameOver = over, !.pot = pays, !.adjustment = books,
                  !.bet = 0, !.halfPot = FALSE, !.state = "Waiting", !.next = next]
  BY DEF FinalizeGame, SetNextState, IInv, TypeOK
<1>3. /\ next = "GameOver" => round.activeGame < round.games /\ pays # 0
      /\ pays + books = round.pot + round.adjustment
  BY <1>1 DEF IInv, TypeOK
<1> HIDE DEF pays, books, next
<1>4. TypeOK'
  <2>1. "Waiting" \in RoundStates /\ next \in RoundStates
    BY <1>1 DEF RoundStates
  <2> DEFINE r == [round EXCEPT !.pot = pays, !.adjustment = books, !.state = "Waiting",
                                !.next = next]
             Rounds == [state: RoundStates, next: RoundStates, pot: Int, games: 1 .. MaxGames,
                activeGame: 1 .. MaxGames, first: {0, LowAce} \cup Ranks, undecided: BOOLEAN,
                last: {0} \cup Ranks, bet: Int, halfPot: BOOLEAN, gameOver: BOOLEAN,
                adjustment: Int]
  <2>2. round \in Rounds
    BY DEF IInv, TypeOK
  <2>3. r \in Rounds /\ r.activeGame = round.activeGame /\ r.games = round.games
    BY <1>1, <2>1, <2>2
  <2>4. round' = [r EXCEPT !.last = 0, !.gameOver = over, !.bet = 0, !.halfPot = FALSE]
    BY <1>2, <2>2
  <2> HIDE DEF r
  <2>5. round' \in Rounds
    <3> DEFINE unlast == [r EXCEPT !.last = 0]
               cleared == [unlast EXCEPT !.bet = 0]
               unhalved == [cleared EXCEPT !.halfPot = FALSE]
    <3>0. unlast \in Rounds
      BY <2>3
    <3>2. round' = [unhalved EXCEPT !.gameOver = over]
      BY <2>3, <2>4
    <3> HIDE DEF unlast
    <3>1. cleared \in Rounds
      BY <3>0
    <3> HIDE DEF cleared
    <3>3. unhalved \in Rounds
      BY <3>1
    <3> HIDE DEF unhalved
    <3>4. QED
      BY <3>2, <3>3
  <2>7. round'.activeGame = r.activeGame /\ round'.games = r.games
    BY <2>3, <2>4
  <2>6. QED
    BY <2>3, <2>5, <2>7 DEF IInv, TypeOK, options, game
<1>5. /\ round'.state = "Waiting" /\ round'.next = next
      /\ round'.pot = pays /\ round'.adjustment = books
      /\ round'.first = round.first
      /\ round'.activeGame = round.activeGame /\ round'.games = round.games
  BY <1>2 DEF IInv, TypeOK
<1>6. BetsMayExceedThePot' = BetsMayExceedThePot /\ pot' = pot /\ call' = 0 /\ panicked' = panicked
  BY DEF BetsMayExceedThePot, options, game
<1>7. WaitsFor' /\ BetsAreCovered' /\ AcesAreCalled' /\ CallsAreOfAces'
  BY <1>1, <1>5, <1>6 DEF IInv, WaitsFor, BetsAreCovered, InPlay, AcesAreCalled, CallsAreOfAces
<1>8. GamesFollow' /\ AcesAreDealt'
  BY <1>1, <1>3, <1>5, <1>6 DEF IInv, GamesFollow, AcesAreDealt
<1>9. RoundsAreBooked' /\ ChipsConserved'
  BY <1>1, <1>3, <1>5, <1>6 DEF IInv, RoundsAreBooked, ChipsConserved, game
<1>10. QED
  BY <1>4, <1>7, <1>8, <1>9 DEF IInv

\* Dealing a card: the first one, one more game of its rank, the last one, and the
\* card in the middle.
LEMMA DealingKeeps ==
  ASSUME IInv, NEW card \in Ranks, DealCard(card)
  PROVE  IInv'
<1>1. /\ UNCHANGED <<options, game, call, panicked, belowZero>>
      /\ card \in Int /\ card > 1 /\ card <= 14
  BY Bounds DEF DealCard
<1>0. /\ round.state = "FirstCardDealt" => ~round.undecided
      /\ round.state \in {"Start", "FirstCardDealt", "BetPlaced"}
  BY DEF DealCard
<1>7. /\ BetsMayExceedThePot' = BetsMayExceedThePot /\ pot' = pot /\ balance' = balance
      /\ call = 0 /\ call' = 0 /\ panicked' = panicked
  BY <1>0, <1>1 DEF BetsMayExceedThePot, options, game, IInv, CallsAreOfAces
<1>2. CASE round.state = "Start" /\ round' = DealFirstCard(card)
  <2> DEFINE ace   == card = Ace
             state == IF ace THEN "PendingAceDecision" ELSE "FirstCardDealt"
  <2>1. round' = [round EXCEPT !.first = card, !.undecided = ace, !.state = state]
    BY <1>2 DEF DealFirstCard
  <2>2. /\ ace \in BOOLEAN /\ state \in {"PendingAceDecision", "FirstCardDealt"}
        /\ state = "PendingAceDecision" => card = Ace /\ ace
        /\ state = "FirstCardDealt" => ~ace
        /\ card \in {Ace, LowAce} => Ace \in Ranks
    BY <1>1 DEF LowAce
  <2> HIDE DEF ace, state
  <2>3. TypeOK'
    BY <1>1, <2>1, <2>2 DEF IInv, TypeOK, RoundStates, options, game
  <2>4. /\ round'.state = state /\ round'.next = round.next /\ round'.pot = round.pot
        /\ round'.adjustment = round.adjustment /\ round'.first = card
        /\ round'.undecided = ace
    BY <2>1 DEF IInv, TypeOK
  <2>5. QED
    BY <1>2, <1>7, <2>2, <2>3, <2>4 DEF IInv, WaitsFor, BetsAreCovered, InPlay, GamesFollow,
         AcesAreDealt, CallsAreOfAces, RoundsAreBooked, ChipsConserved, AcesAreCalled
<1>3. CASE round.state = "FirstCardDealt" /\ card = round.first
  <2>1. round.games < MaxGames /\ round' = [round EXCEPT !.games = round.games + 1]
    BY <1>3 DEF DealCard, DealLastCard, IInv, TypeOK
  <2>2. TypeOK'
    BY <1>1, <2>1, Bounds DEF IInv, TypeOK, options, game
  <2>3. /\ round'.state = "FirstCardDealt" /\ round'.next = round.next /\ round'.pot = round.pot
        /\ round'.adjustment = round.adjustment /\ round'.first = round.first
        /\ round'.undecided = round.undecided
    BY <1>3, <2>1 DEF IInv, TypeOK
  <2>4. QED
    BY <1>3, <1>7, <2>2, <2>3 DEF IInv, WaitsFor, BetsAreCovered, InPlay, GamesFollow,
         AcesAreDealt, CallsAreOfAces, RoundsAreBooked, ChipsConserved, AcesAreCalled
<1>4. CASE round.state = "FirstCardDealt" /\ card # round.first
  <2> DEFINE r == [round EXCEPT !.last = card]
  <2>1. CASE Gap(r) = 1
    <3>1. round' = FinalizeGame([round EXCEPT !.last = card, !.gameOver = TRUE], 0)
      BY <1>4, <2>1 DEF DealCard, DealLastCard, IInv, TypeOK
    <3>2. /\ round.next # "Complete"
          /\ ~BetsMayExceedThePot => 0 % 25 = 0 /\ 0 <= round.pot
      BY <1>4 DEF IInv, BetsAreCovered, RoundsAreBooked
    <3>3. card \in {0} \cup Ranks /\ TRUE \in BOOLEAN /\ 0 \in Int
      OBVIOUS
    <3>4. QED
      BY <1>1, <1>7, <3>1, <3>2, <3>3, FinishedGamesKeep
  <2>2. CASE Gap(r) # 1
    <3>1. round' = [round EXCEPT !.last = card, !.state = "PendingBet"]
      BY <1>4, <2>2 DEF DealCard, DealLastCard, IInv, TypeOK
    <3>2. TypeOK'
      BY <1>1, <3>1 DEF IInv, TypeOK, RoundStates, options, game
    <3>3. /\ round'.state = "PendingBet" /\ round'.next = round.next /\ round'.pot = round.pot
          /\ round'.adjustment = round.adjustment /\ round'.first = round.first
          /\ round'.undecided = round.undecided
      BY <3>1 DEF IInv, TypeOK
    <3>4. QED
      BY <1>0, <1>4, <1>7, <3>2, <3>3 DEF IInv, WaitsFor, BetsAreCovered, InPlay, GamesFollow,
         AcesAreDealt, CallsAreOfAces, RoundsAreBooked, ChipsConserved, AcesAreCalled
  <2>3. QED
    BY <2>1, <2>2
<1>5. CASE round.state = "BetPlaced"
  <2> DEFINE r == [round EXCEPT !.gameOver = TRUE]
  <2>1. round.pot \in Int /\ round.bet \in Int /\ HalfPot(round.pot) \in Int /\ round.next # "Complete"
    BY <1>5 DEF IInv, TypeOK, RoundsAreBooked, HalfPot, Unit
  <2>2. round' = DealMiddleCard(card)
    BY <1>5 DEF DealCard
  <2>3. r.bet = round.bet /\ r.pot = round.pot /\ r.first = round.first /\ r.last = round.last
    BY DEF IInv, TypeOK
  <2>4. \E won \in {-2 * round.bet, HalfPot(round.pot), round.bet, -round.bet} :
          round' = FinalizeGame(r, won)
    <3>1. CASE card \in {round.first, round.last}
      BY <2>2, <2>3, <3>1, Zenon DEF DealMiddleCard
    <3>2. CASE card \notin {round.first, round.last}
      <4>1. CASE (round.first < card /\ card < round.last) \/ (round.last < card /\ card < round.first)
        BY <2>2, <2>3, <3>2, <4>1, Zenon DEF DealMiddleCard
      <4>2. CASE ~((round.first < card /\ card < round.last) \/ (round.last < card /\ card < round.first))
        BY <2>2, <2>3, <3>2, <4>2, Zenon DEF DealMiddleCard
      <4>3. QED
        BY <4>1, <4>2
    <3>3. QED
      BY <3>1, <3>2
  <2>5. PICK won \in Int : /\ ~BetsMayExceedThePot => won % 25 = 0 /\ won <= round.pot
                          /\ round' = FinalizeGame(r, won)
    <3>1. \A b \in Nat : b % 25 = 0 => (-2 * b) % 25 = 0 /\ (-b) % 25 = 0
      OBVIOUS
    <3>2. ASSUME ~BetsMayExceedThePot,
                 NEW won \in {-2 * round.bet, HalfPot(round.pot), round.bet, -round.bet}
          PROVE  won % 25 = 0 /\ won <= round.pot
      <4>1. /\ round.pot \in Nat /\ round.bet \in Nat
            /\ round.bet % 25 = 0 /\ round.bet <= round.pot
        BY <1>5, <2>1, <3>2 DEF IInv, BetsAreCovered
      <4>2. HalfPot(round.pot) \in Nat /\ HalfPot(round.pot) <= round.pot /\ HalfPot(round.pot) % 25 = 0
        BY <4>1, HalfPots
      <4>3. QED
        BY <3>1, <4>1, <4>2
    <3>3. QED
      BY <2>1, <2>4, <3>2
  <2>6. r = [round EXCEPT !.last = round.last, !.gameOver = TRUE] /\ round.last \in {0} \cup Ranks
    BY DEF IInv, TypeOK
  <2>7. QED
    BY <1>1, <1>7, <2>1, <2>5, <2>6, FinishedGamesKeep
<1>6. QED
  BY <1>0, <1>2, <1>3, <1>4, <1>5 DEF DealCard

\* The panic is that of a tick that comes while the ace is being called.
LEMMA PanickingKeeps ==
  ASSUME IInv, DealOnUncalledAce
  PROVE  IInv'
<1>1. /\ round.state = "FirstCardDealt" /\ round.undecided /\ panicked' = TRUE
      /\ UNCHANGED <<options, game, round, call, belowZero>>
  BY DEF DealOnUncalledAce
<1>2. call # 0
  BY <1>1 DEF IInv, AcesAreCalled
<1>3. TypeOK'
  BY <1>1 DEF IInv, TypeOK, options, game
<1>4. BetsAreCovered'
  BY <1>1 DEF IInv, BetsAreCovered, InPlay, BetsMayExceedThePot, options, game
<1>5. WaitsFor' /\ GamesFollow' /\ AcesAreDealt' /\ CallsAreOfAces' /\ AcesAreCalled'
  BY <1>1, <1>2 DEF IInv, WaitsFor, GamesFollow, AcesAreDealt, CallsAreOfAces, AcesAreCalled,
                    BetsMayExceedThePot, options
<1>6. RoundsAreBooked' /\ ChipsConserved'
  BY <1>1 DEF IInv, RoundsAreBooked, ChipsConserved, game
<1>7. QED
  BY <1>3, <1>4, <1>5, <1>6 DEF IInv

\* Passing ends the game without a bet.
LEMMA PassingKeeps ==
  ASSUME IInv, PassRound
  PROVE  IInv'
<1>1. /\ round.next # "Complete" /\ call = 0
      /\ ~BetsMayExceedThePot => 0 % 25 = 0 /\ 0 <= round.pot
  BY DEF IInv, BetsAreCovered, RoundsAreBooked, CallsAreOfAces, PassRound
<1>2. /\ round = [round EXCEPT !.last = round.last, !.gameOver = round.gameOver]
      /\ round.last \in {0} \cup Ranks /\ round.gameOver \in BOOLEAN
  BY DEF IInv, TypeOK
<1>3. round' = FinalizeGame([round EXCEPT !.last = round.last, !.gameOver = round.gameOver], 0)
  BY <1>2 DEF PassRound
<1>4. 0 \in Int /\ UNCHANGED <<options, game, call, panicked, belowZero>>
  BY DEF PassRound
<1> DEFINE last == round.last
           over == round.gameOver
<1>5. /\ last \in {0} \cup Ranks /\ over \in BOOLEAN
      /\ round' = FinalizeGame([round EXCEPT !.last = last, !.gameOver = over], 0)
  BY <1>2, <1>3
<1> HIDE DEF last, over
<1>6. QED
  BY <1>1, <1>4, <1>5, FinishedGamesKeep

\* The next game of the round is on the same card, an ace to be called again.
LEMMA NextGameKeeps ==
  ASSUME IInv, NextGame
  PROVE  IInv'
<1> DEFINE ace   == round.first \in {Ace, LowAce}
           state == IF ace THEN "PendingAceDecision" ELSE "FirstCardDealt"
           first == IF ace THEN Ace ELSE round.first
           next  == round.activeGame + 1
<1>1. /\ round' = [round EXCEPT !.state = state, !.first = first, !.undecided = ace,
                                !.activeGame = next, !.gameOver = FALSE]
      /\ UNCHANGED <<options, game, call, panicked, belowZero>>
  BY DEF NextGame
<1>2. /\ round.activeGame < round.games /\ round.state = "GameOver" /\ call = 0
      /\ ~BetsMayExceedThePot => round.pot > 0
  BY DEF NextGame, IInv, GamesFollow, CallsAreOfAces
<1>3. /\ first \in {0, LowAce} \cup Ranks /\ next \in 1 .. MaxGames /\ next <= round.games
      /\ ace \in BOOLEAN /\ state \in {"PendingAceDecision", "FirstCardDealt"}
  BY <1>2, Bounds DEF IInv, TypeOK, AcesAreDealt
<1>4. /\ state = "PendingAceDecision" => first = Ace /\ ace
      /\ state = "FirstCardDealt" => ~ace
      /\ first \in {Ace, LowAce} => Ace \in Ranks
  BY DEF IInv, AcesAreDealt
<1> HIDE DEF ace, state, first, next
<1>5. TypeOK'
  <2>1. state \in RoundStates
    BY <1>3 DEF RoundStates
  <2>2. QED
    BY <1>1, <1>3, <2>1 DEF IInv, TypeOK, options, game
<1>6. /\ round'.state = state /\ round'.next = round.next /\ round'.pot = round.pot
      /\ round'.adjustment = round.adjustment /\ round'.first = first
      /\ round'.undecided = ace
      /\ BetsMayExceedThePot' = BetsMayExceedThePot /\ pot' = pot /\ balance' = balance
      /\ call' = 0 /\ panicked' = panicked
  BY <1>1, <1>2 DEF IInv, TypeOK, BetsMayExceedThePot, options, game
<1>7. BetsAreCovered'
  BY <1>2, <1>3, <1>6 DEF IInv, BetsAreCovered, InPlay
<1>8. WaitsFor' /\ GamesFollow' /\ AcesAreDealt' /\ CallsAreOfAces' /\ AcesAreCalled'
  BY <1>2, <1>3, <1>4, <1>6 DEF IInv, WaitsFor, GamesFollow, AcesAreDealt, CallsAreOfAces, AcesAreCalled
<1>9. RoundsAreBooked' /\ ChipsConserved'
  BY <1>2, <1>3, <1>6 DEF IInv, RoundsAreBooked, ChipsConserved
<1>10. QED
  BY <1>5, <1>7, <1>8, <1>9 DEF IInv

\* The round is booked to the player whose it was.
LEMMA EndRoundKeeps ==
  ASSUME IInv, EndRound
  PROVE  IInv'
<1>1. /\ balance \in [Seats -> Int] /\ turnIndex \in 0 .. N - 1 /\ round.adjustment \in Int
      /\ pot \in Int /\ round.pot \in Int /\ N \in Nat
      /\ round.pot + round.adjustment = pot /\ call = 0 /\ round.next # "Complete"
  BY Bounds DEF IInv, TypeOK, Seats, RoundsAreBooked, CallsAreOfAces, EndRound
<1>2. /\ balance' = [balance EXCEPT ![turnIndex] = balance[turnIndex] + round.adjustment]
      /\ pot' = round.pot /\ UNCHANGED <<options, call, panicked, belowZero>>
  BY DEF EndRound, IInv, TypeOK
<1>0. /\ BetsMayExceedThePot' = BetsMayExceedThePot /\ call' = 0 /\ panicked' = panicked
      /\ ante' = ante /\ allowPass' = allowPass /\ belowZero' = belowZero
      /\ ~BetsMayExceedThePot => round.pot >= 0 /\ round.pot % 25 = 0
  BY <1>1, <1>2 DEF BetsMayExceedThePot, options, IInv, BetsAreCovered
<1>3. ChipsConserved'
  <2>1. \A i \in 0 .. N - 1 : balance[i] \in Int /\ (i # turnIndex => balance'[i] = balance[i])
    BY <1>1, <1>2 DEF Seats
  <2>2. balance'[turnIndex] = balance[turnIndex] + round.adjustment
    BY <1>1, <1>2 DEF Seats
  <2>3. Sum(balance', N) = Sum(balance, N) + round.adjustment
    BY <1>1, <2>1, <2>2, SumChange
  <2>4. Sum(balance, N) \in Int
    BY <1>1, <2>1, SumInt
  <2>5. QED
    BY <1>1, <1>2, <2>3, <2>4 DEF IInv, ChipsConserved
<1>4. balance' \in [Seats -> Int] /\ pot' \in Int
  BY <1>1, <1>2 DEF Seats
<1>5. CASE round.pot > 0
  <2>1. /\ rounds < MaxRounds /\ turnIndex' = (turnIndex + 1) % N /\ rounds' = rounds + 1
        /\ round' = NewRound(round.pot)
    BY <1>5 DEF EndRound
  <2>2. turnIndex' \in Seats /\ rounds' \in 1 .. MaxRounds
    BY <1>1, <2>1, Bounds DEF Seats, IInv, TypeOK
  <2>3. TypeOK'
    BY <1>0, <1>1, <1>2, <1>4, <2>1, <2>2, Bounds DEF IInv, TypeOK, NewRound, RoundStates
  <2>4. /\ round'.state = "Start" /\ round'.next = "Start" /\ round'.pot = round.pot
        /\ round'.adjustment = 0 /\ round'.first = 0
    BY <2>1 DEF NewRound
  <2>5. BetsAreCovered' /\ RoundsAreBooked'
    BY <1>0, <1>1, <1>2, <1>5, <2>4 DEF BetsAreCovered, RoundsAreBooked
  <2>6. panicked' = FALSE
    BY <1>0, <1>1 DEF IInv, AcesAreCalled, TypeOK
  <2>7. WaitsFor' /\ GamesFollow' /\ AcesAreDealt' /\ CallsAreOfAces' /\ AcesAreCalled'
    BY <1>0, <2>4, <2>6 DEF WaitsFor, GamesFollow, AcesAreDealt, CallsAreOfAces, AcesAreCalled, Ace, LowAce
  <2>8. QED
    BY <1>3, <2>3, <2>5, <2>7 DEF IInv
<1>6. CASE ~(round.pot > 0)
  <2>1. /\ round' = [round EXCEPT !.state = "Waiting", !.next = "Complete"]
        /\ turnIndex' = turnIndex /\ rounds' = rounds
    BY <1>6 DEF EndRound, SetNextState
  <2>2. TypeOK'
    BY <1>0, <1>4, <2>1 DEF IInv, TypeOK, RoundStates
  <2>3. /\ round'.state = "Waiting" /\ round'.next = "Complete" /\ round'.pot = round.pot
        /\ round'.first = round.first
    BY <2>1 DEF IInv, TypeOK
  <2>4. BetsAreCovered' /\ RoundsAreBooked'
    BY <1>0, <1>1, <1>2, <1>6, <2>3 DEF BetsAreCovered, InPlay, RoundsAreBooked
  <2>5. panicked' = FALSE
    BY <1>0, <1>1 DEF IInv, AcesAreCalled, TypeOK
  <2>6. WaitsFor' /\ GamesFollow' /\ AcesAreDealt' /\ CallsAreOfAces' /\ AcesAreCalled'
    BY <1>0, <2>3, <2>5 DEF IInv, WaitsFor, GamesFollow, AcesAreDealt, CallsAreOfAces, AcesAreCalled
  <2>7. QED
    BY <1>3, <2>2, <2>4, <2>6 DEF IInv
<1>7. QED
  BY <1>5, <1>6

\* Waiting changes nothing but the state.
LEMMA WaitingKeeps ==
  ASSUME IInv, CheckWaiting
  PROVE  IInv'
<1>1. /\ round.state = "Waiting" /\ round' = [round EXCEPT !.state = round.next]
      /\ UNCHANGED <<options, game, call, panicked, belowZero>>
  BY DEF CheckWaiting
<1>2. /\ round'.state = round.next /\ round'.next = round.next /\ round'.pot = round.pot
      /\ round'.adjustment = round.adjustment /\ round'.first = round.first
      /\ round'.activeGame = round.activeGame /\ round'.games = round.games
      /\ round.next \in {"RoundOver", "GameOver", "Complete"}
      /\ call = 0 /\ call' = 0 /\ panicked' = panicked
      /\ BetsMayExceedThePot' = BetsMayExceedThePot /\ pot' = pot /\ balance' = balance
  BY <1>1 DEF IInv, TypeOK, WaitsFor, CallsAreOfAces, BetsMayExceedThePot, options, game
<1>3. TypeOK'
  BY <1>1 DEF IInv, TypeOK, RoundStates, options, game
<1>4. BetsAreCovered' /\ RoundsAreBooked' /\ ChipsConserved'
  BY <1>1, <1>2 DEF IInv, BetsAreCovered, InPlay, RoundsAreBooked, ChipsConserved
<1>5. WaitsFor' /\ GamesFollow' /\ AcesAreDealt' /\ CallsAreOfAces' /\ AcesAreCalled'
  BY <1>1, <1>2 DEF IInv, WaitsFor, GamesFollow, AcesAreDealt, CallsAreOfAces, AcesAreCalled
<1>6. QED
  BY <1>3, <1>4, <1>5 DEF IInv

LEMMA NextKeeps == IInv /\ [Next]_vars => IInv'
<1> SUFFICES ASSUME IInv, [Next]_vars PROVE IInv'
  OBVIOUS
<1>1. CASE ~panicked /\ ((\E high \in BOOLEAN : SetAce(high)) \/ MarkAce \/ SetPass)
  BY <1>1, DecisionsKeep
<1>2. CASE (\E amount \in Amounts : SetBet(amount, FALSE)) \/ SetBet(betTheGapAmount, TRUE)
  BY <1>2, BetsKeep
<1>3. CASE Tick
  BY <1>3, DealingKeeps, PanickingKeeps, PassingKeeps, NextGameKeeps, EndRoundKeeps, WaitingKeeps DEF Tick
<1>4. CASE UNCHANGED vars
  BY <1>4 DEF vars, options, game, IInv, TypeOK, WaitsFor, BetsAreCovered, InPlay, GamesFollow,
              AcesAreDealt, CallsAreOfAces, RoundsAreBooked, ChipsConserved, AcesAreCalled,
              BetsMayExceedThePot
<1>5. QED
  BY <1>1, <1>2, <1>3, <1>4 DEF Next, Action

\* The invariant holds in every reachable state.
THEOREM Invariance == Spec => []IInv
<1>1. Init => IInv
  BY InitKeeps
<1>2. IInv /\ [Next]_vars => IInv'
  BY NextKeeps
<1>3. QED
  BY <1>1, <1>2, PTL DEF Spec

\* No game is dealt its last card on an ace nobody has called (where dealLastCard panics),
\* unless a tick comes while the call is being made.
THEOREM AcesAreAlwaysCalled == Spec => []AcesAreCalled
<1>1. IInv => AcesAreCalled
  BY DEF IInv
<1>2. QED
  BY <1>1, Invariance, PTL

\* What a player on turn is offered he can do: getMaxBet, getHalfPot and canBetTheGap
\* agree, whatever is left in the pot; a pot too small to bet on comes of an ante of odd
\* cents or of a bet below zero only.
THEOREM OffersHold == Spec => []OfferedBetsAreAccepted
<1>1. IInv => OfferedBetsAreAccepted
  <2> SUFFICES ASSUME IInv, round.state = "PendingBet"
               PROVE  \/ /\ Unit <= MaxBet(round) /\ MaxBet(round) <= round.pot
                         /\ CanBetTheGap(round) => betTheGapAmount <= MaxBet(round)
                      \/ round.pot < Unit /\ BetsMayExceedThePot
    BY DEF OfferedBetsAreAccepted
  <2>1. round.pot \in Int
    BY DEF IInv, TypeOK
  <2>2. CASE round.pot >= 25
    <3>1. /\ 25 <= MaxBet(round) /\ MaxBet(round) <= round.pot
          /\ round.pot >= 100 => 50 <= MaxBet(round)
      BY <2>1, <2>2, MaxBets
    <3>2. CanBetTheGap(round) => round.pot >= 2 * 50
      BY DEF CanBetTheGap, betTheGapAmount
    <3>3. QED
      BY <3>1, <3>2 DEF Unit, betTheGapAmount
  <2>3. CASE round.pot < 25
    <3>1. SUFFICES ASSUME ~BetsMayExceedThePot PROVE FALSE
      BY <2>3 DEF Unit
    <3>2. round.pot > 0 /\ round.pot % 25 = 0
      BY <3>1 DEF IInv, BetsAreCovered, InPlay
    <3>3. QED
      BY <2>1, <2>3, <3>2
  <2>4. QED
    BY <2>1, <2>2, <2>3
<1>2. QED
  BY <1>1, Invariance, PTL

-----------------------------------------------------------------------------
(* The contract of a game.                                                 *)

\* The sums of the contract are those of the game.
LEMMA SameSum ==
  ASSUME NEW f, NEW n
  PROVE  Game!Sum(f, n) = Sum(f, n)
BY Zenon DEF Game!Sum, Sum

\* Every step of a game is one of the abstract game the dealer relies on
\* (playable.Playable), its promise to move on aside: what the players have lost is in
\* the pot until a round is booked, no win takes more than there is, and the game is
\* complete with an empty pot, unless it was overdrawn by bets no check keeps out.
THEOREM KeepsTheContract == Spec => ContractIsKept
<1>1. IInv => Sum(balance, N) + pot = 0 /\ pot \in Int
  BY DEF IInv, TypeOK, ChipsConserved
<1>2. IInv /\ pot >= 0 => Game!Balanced
  BY <1>1, SameSum DEF Game!Balanced
<1>3. IInv => Game!Balanced \/ Overdrawn
  <2>1. IInv /\ pot < 0 => Overdrawn
    BY <1>1 DEF IInv, BetsAreCovered, Overdrawn
  <2>2. QED
    BY <1>1, <1>2, <2>1
<1>4. Init => Game!Init
  <2> SUFFICES ASSUME Init PROVE Game!Init
    OBVIOUS
  <2>1. ante \in Nat \ {0} /\ pot = N * ante
    BY Bounds DEF Init
  <2>2. pot >= 0
    BY <2>1, AntesMakeAPot
  <2>3. Game!Balanced
    BY <1>2, <2>2, InitKeeps
  <2>4. status = "deals"
    BY DEF Init, NewRound, status, OutOfRounds
  <2>5. QED
    BY <2>3, <2>4 DEF Game!Init
<1>5. IInv /\ IInv' /\ [Next]_vars => [Game!Next \/ Overdrawn']_(Game!vars)
  <2>0. UNCHANGED vars => UNCHANGED Game!vars
    BY DEF vars, game, Game!vars, status, OutOfRounds
  <2> SUFFICES ASSUME IInv, IInv', Next PROVE Game!Next \/ Overdrawn'
    BY <2>0
  <2>1. Game!Balanced' \/ Overdrawn'
    BY <1>3, PTL
  <2>2. round.state # "Complete"
    BY DEF IInv, CallsAreOfAces, Next, Action, Tick, SetAce, MarkAce, SetPass, SetBet, DealCard,
           DealOnUncalledAce, PassRound, NextGame, EndRound, CheckWaiting
  <2>3. status # "over"
    BY <2>2 DEF status
  <2>4. CASE round'.state = "Complete" /\ Game!Balanced'
    <3>1. pot' \in Int /\ pot' <= 0 /\ pot' >= 0
      BY <2>4 DEF IInv, TypeOK, RoundsAreBooked, Game!Balanced
    <3>2. status' = "over"
      BY <2>4 DEF status, OutOfRounds
    <3>3. pot' = 0
      BY <3>1
    <3>4. QED
      BY <2>3, <2>4, <3>2, <3>3 DEF Game!Next, Game!End
  <2>5. CASE round'.state # "Complete" /\ Game!Balanced'
    <3>1. status' \in {"waits", "deals"}
      BY <2>5 DEF status, OutOfRounds
    <3>2. QED
      BY <2>3, <2>5, <3>1 DEF Game!Next, Game!Move
  <2>6. QED
    BY <2>1, <2>4, <2>5
<1>6. QED
  BY <1>4, <1>5, Invariance, PTL DEF Spec, ContractIsKept
=============================================================================
