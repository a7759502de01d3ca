----------------------------- MODULE AceyDeucey -----------------------------
(***************************************************************************)
(* A game of Acey Deucey (src/pkg/playable/aceydeucey): two cards are put  *)
(* down and the player on turn bets that the next one falls between them.  *)
(* A second card equal to the first makes one more game of the same round; *)
(* the game is over when the pot is empty.                                 *)
(*                                                                         *)
(* Action is the player on turn, on his client's goroutine; Tick, on the   *)
(* dealer's run loop, is everything else: it deals, finishes games and     *)
(* rounds, and waits (setNextState, checkWaiting) a second or two after a  *)
(* result.  Nothing keeps a tick out of an action: SetAce lets the round   *)
(* go on before the ace is marked, and is two steps here.  The other       *)
(* actions write the state last.  The deck is reshuffled whenever it has   *)
(* run out, so a card is always drawn; which one is left open, for all     *)
(* three kinds of shoe.  Amounts are cents.                                *)
(***************************************************************************)
EXTENDS Sums

CONSTANTS
  N,         \* the number of players
  Antes,     \* the antes a game may be made with, Options.Ante
  Ranks,     \* ranks of the cards: 2 .. Ace in the code
  Amounts,   \* amounts players ask to bet, those less than nothing among them
  MaxGames,  \* bound: games in one round
  MaxRounds  \* bound: rounds played

Ace == 14
LowAce == 1
Unit == 25  \* bets are multiples of it
betTheGapAmount == 50

ASSUME AceyDeuceyAssumption ==
  /\ N \in Nat /\ N >= 2
  /\ Ranks \subseteq 2 .. Ace
  /\ Antes \subseteq Nat \ {0}
  /\ Amounts \subseteq Int
  /\ MaxGames \in Nat \ {0} /\ MaxRounds \in Nat \ {0}

Seats == 0 .. N - 1

VARIABLES
  ante,      \* Options.Ante
  allowPass, \* Options.AllowPass
  balance,   \* participant.Balance
  pot,       \* Game.pot, brought up to date when a round ends
  turnIndex,
  rounds,    \* len(Game.rounds)
  round,     \* the current Round, with its active SingleGame
  call,      \* an ace that SetAce has yet to mark: LowAce, Ace, or 0 for none
  panicked,  \* dealLastCard has found an ace without a mark: the server is down
  belowZero  \* history: somebody has bet less than nothing

options == <<ante, allowPass>>
game    == <<balance, pot, turnIndex, rounds>>
vars    == <<options, game, round, call, panicked, belowZero>>

RoundStates ==
  {"Start", "FirstCardDealt", "PendingAceDecision", "PendingBet", "Passed",
   "BetPlaced", "GameOver", "RoundOver", "Complete", "Waiting"}

\* NewRound.  The games of a round have the same first card but for its ace bits;
\* first is the active one's firstCardRank, last its LastCard (0: not dealt), and
\* undecided says that the ace bits are not set to low or high.
NewRound(p) ==
  [state |-> "Start", next |-> "Start", pot |-> p, games |-> 1, activeGame |-> 1,
   first |-> 0, undecided |-> FALSE, last |-> 0, bet |-> 0, halfPot |-> FALSE,
   gameOver |-> FALSE, adjustment |-> 0]

\* NewGame.
Init ==
  /\ ante \in Antes /\ allowPass \in BOOLEAN
  /\ balance = [s \in Seats |-> -ante]
  /\ pot = N * ante
  /\ turnIndex = 0
  /\ rounds = 1
  /\ round = NewRound(N * ante)
  /\ call = 0 /\ panicked = FALSE /\ belowZero = FALSE

-----------------------------------------------------------------------------
(* Bets.                                                                   *)

\* HalfPotMax: not everybody has had a round.
HalfPotMax == rounds <= N

\* getHalfPot
HalfPot(p) == (p \div 2) - ((p \div 2) % Unit)

\* getMaxBet
MaxBet(r) ==
  CASE r.pot <= 0 -> 0
    [] r.pot > 0 /\ ~HalfPotMax -> r.pot
    [] r.pot > 0 /\ HalfPotMax /\ HalfPot(r.pot) < 2 * Unit -> Unit
    [] OTHER -> HalfPot(r.pot)

Gap(r) == IF r.first > r.last THEN r.first - r.last ELSE r.last - r.first

\* mutant of CanBetTheGap: a pot that only covers the bet is enough
CanBetTheGapSmallPot(r) == r.state = "PendingBet" /\ r.pot >= betTheGapAmount /\ Gap(r) = 2

\* canBetTheGap
CanBetTheGap(r) == r.state = "PendingBet" /\ r.pot >= 2 * betTheGapAmount /\ Gap(r) = 2

-----------------------------------------------------------------------------
(* Action.                                                                 *)

\* SetAce, up to the state: the marks of the ace are gone and the round goes on.
SetAce(high) ==
  /\ round.state = "PendingAceDecision" /\ ~round.gameOver
  /\ round' = [round EXCEPT !.state = "FirstCardDealt"]
  /\ call' = IF high THEN Ace ELSE LowAce
  /\ UNCHANGED <<options, game, panicked, belowZero>>

\* SetAce's last statement marks the ace, high or low.
MarkAce ==
  /\ call # 0
  /\ round' = [round EXCEPT !.undecided = FALSE, !.first = call]
  /\ call' = 0
  /\ UNCHANGED <<options, game, panicked, belowZero>>

\* SetPass
SetPass ==
  /\ round.state = "PendingBet" /\ allowPass
  /\ round' = [round EXCEPT !.state = "Passed"]
  /\ UNCHANGED <<options, game, call, panicked, belowZero>>

\* A bet must not be nothing nor leave a remainder above it when divided by 25; in Go
\* what is less than nothing leaves none.
Whole(amount) == amount # 0 /\ (amount > 0 => amount % Unit = 0)

\* SetBet: a bet of some amount, or the half-pot bet on a gap of one card.
SetBet(amount, isHalfPotBet) ==
  /\ round.state = "PendingBet" /\ ~round.gameOver
  /\ Whole(amount) /\ amount <= MaxBet(round)
  /\ isHalfPotBet => amount = betTheGapAmount /\ CanBetTheGap(round)
  /\ round' = [round EXCEPT !.state = "BetPlaced", !.bet = amount, !.halfPot = isHalfPotBet]
  /\ belowZero' = (belowZero \/ amount < 0)
  /\ UNCHANGED <<options, game, call, panicked>>

-----------------------------------------------------------------------------
(* Tick.                                                                   *)

\* setNextState
SetNextState(r, state) == [r EXCEPT !.state = "Waiting", !.next = state]

\* mutant of FinalizeGame: the round remembers its last game only
FinalizeGameForgets(r, adjustment) ==
  LET g == [r EXCEPT !.pot = @ - adjustment, !.adjustment = adjustment,
                     !.last = 0, !.bet = 0, !.halfPot = FALSE]
  IN  SetNextState(g, IF g.activeGame = g.games \/ g.pot = 0 THEN "RoundOver" ELSE "GameOver")

\* finalizeGame.  Its last card and bet are only logged from here on.
FinalizeGame(r, adjustment) ==
  LET g == [r EXCEPT !.pot = @ - adjustment, !.adjustment = @ + adjustment,
                     !.last = 0, !.bet = 0, !.halfPot = FALSE]
  IN  SetNextState(g, IF g.activeGame = g.games \/ g.pot = 0 THEN "RoundOver" ELSE "GameOver")

\* dealFirstCard
DealFirstCard(card) ==
  [round EXCEPT !.first = card, !.undecided = (card = Ace),
                !.state = IF card = Ace THEN "PendingAceDecision" ELSE "FirstCardDealt"]

\* dealLastCard: the same rank makes another game and leaves this one to be dealt
\* its last card; a neighbour ends it without a bet.
DealLastCard(card) ==
  LET r == [round EXCEPT !.last = card]
  IN  IF card = round.first THEN [round EXCEPT !.games = @ + 1]
      ELSE IF Gap(r) = 1 THEN FinalizeGame([r EXCEPT !.gameOver = TRUE], 0)
      ELSE [r EXCEPT !.state = "PendingBet"]

\* dealMiddleCard: posted, won or lost.
DealMiddleCard(card) ==
  LET r       == [round EXCEPT !.gameOver = TRUE]
      Between == \/ r.first < card /\ card < r.last
                 \/ r.last < card /\ card < r.first
  IN  CASE card \in {r.first, r.last} -> FinalizeGame(r, -2 * r.bet)
        [] card \notin {r.first, r.last} /\ Between ->
             FinalizeGame(r, IF r.halfPot THEN HalfPot(r.pot) ELSE r.bet)
        [] OTHER -> FinalizeGame(r, -r.bet)

\* DealCard
DealCard(card) ==
  /\ ~round.gameOver
  /\ \/ /\ round.state = "Start"
        /\ round' = DealFirstCard(card)
     \/ /\ round.state = "FirstCardDealt" /\ ~round.undecided
        /\ card = round.first => round.games < MaxGames
        /\ round' = DealLastCard(card)
     \/ /\ round.state = "BetPlaced"
        /\ round' = DealMiddleCard(card)
  /\ UNCHANGED <<options, game, call, panicked, belowZero>>

\* dealLastCard, where it panics: the ace is not marked.
DealOnUncalledAce ==
  /\ round.state = "FirstCardDealt" /\ ~round.gameOver /\ round.undecided
  /\ panicked' = TRUE
  /\ UNCHANGED <<options, game, round, call, belowZero>>

\* PassRound
PassRound ==
  /\ round.state = "Passed"
  /\ round' = FinalizeGame(round, 0)
  /\ UNCHANGED <<options, game, call, panicked, belowZero>>

\* mutant of NextGame: forgets that an ace must be called high or low again
NextGameKeepsAce ==
  /\ round.state = "GameOver"
  /\ round' = [round EXCEPT !.state = "FirstCardDealt", !.activeGame = @ + 1,
                            !.gameOver = FALSE, !.undecided = (round.first \in {Ace, LowAce})]
  /\ UNCHANGED <<options, game, call, panicked, belowZero>>

\* nextGame: the next game of the round begins with the first card it was made of.
NextGame ==
  LET ace == round.first \in {Ace, LowAce}
  IN  /\ round.state = "GameOver"
      /\ round' = [round EXCEPT !.state = IF ace THEN "PendingAceDecision" ELSE "FirstCardDealt",
                                !.first = IF ace THEN Ace ELSE @, !.undecided = ace,
                                !.activeGame = @ + 1, !.gameOver = FALSE]
      /\ UNCHANGED <<options, game, call, panicked, belowZero>>

\* endRound: the round is booked; the next player's begins, or the game is complete.
EndRound ==
  /\ round.state = "RoundOver"
  /\ pot' = round.pot
  /\ balance' = [balance EXCEPT ![turnIndex] = @ + round.adjustment]
  /\ IF round.pot > 0
     THEN /\ rounds < MaxRounds
          /\ turnIndex' = (turnIndex + 1) % N
          /\ rounds' = rounds + 1
          /\ round' = NewRound(round.pot)
     ELSE /\ round' = SetNextState(round, "Complete")
          /\ UNCHANGED <<turnIndex, rounds>>
  /\ UNCHANGED <<options, call, panicked, belowZero>>

\* checkWaiting, when the time has come.
CheckWaiting ==
  /\ round.state = "Waiting"
  /\ round' = [round EXCEPT !.state = round.next]
  /\ UNCHANGED <<options, game, call, panicked, belowZero>>

Tick ==
  /\ ~panicked
  /\ \/ \E card \in Ranks : DealCard(card)
     \/ DealOnUncalledAce
     \/ PassRound
     \/ NextGame
     \/ EndRound
     \/ CheckWaiting

\* Action, of the player on turn.
Action ==
  /\ ~panicked
  /\ \/ \E high \in BOOLEAN : SetAce(high)
     \/ MarkAce
     \/ SetPass
     \/ \E amount \in Amounts : SetBet(amount, FALSE)
     \/ SetBet(betTheGapAmount, TRUE)

Next == Action \/ Tick

Spec == Init /\ [][Next]_vars

\* The dealer ticks every second; players need not act.
FairSpec == Spec /\ WF_vars(Tick)

-----------------------------------------------------------------------------
(* Properties.                                                             *)

TypeOK ==
  /\ ante \in Nat \ {0} /\ allowPass \in BOOLEAN
  /\ balance \in [Seats -> Int]
  /\ pot \in Int
  /\ turnIndex \in Seats
  /\ rounds \in 1 .. MaxRounds
  /\ round \in [state: RoundStates, next: RoundStates, pot: Int, games: 1 .. MaxGames,
                activeGame: 1 .. MaxGames, first: {0, LowAce} \cup Ranks, undecided: BOOLEAN,
                last: {0} \cup Ranks, bet: Int, halfPot: BOOLEAN, gameOver: BOOLEAN,
                adjustment: Int]
  /\ round.activeGame <= round.games   \* Games[activeGameIndex]
  /\ call \in {0, LowAce, Ace}
  /\ panicked \in BOOLEAN /\ belowZero \in BOOLEAN

\* The bound ends this instance where the code would begin another round.
OutOfRounds == round.state = "RoundOver" /\ round.pot > 0 /\ rounds = MaxRounds

status ==
  CASE round.state = "Complete" -> "over"
    [] round.state \in {"PendingBet", "PendingAceDecision"} \/ OutOfRounds -> "waits"
    [] OTHER -> "deals"

\* The game as the dealer sees it.
Game == INSTANCE Playable WITH adjustment <- balance, table <- pot

\* What no check keeps out: a bet of less than nothing, and antes that are no whole
\* quarters, which leave a pot that is smaller than the least bet.
BetsMayExceedThePot == belowZero \/ ante % Unit # 0

\* The pot owes the players: one of those bets took more than there was.
Overdrawn == pot < 0 /\ BetsMayExceedThePot /\ Sum(balance, N) + pot = 0

\* Acey Deucey keeps the contract of a game, as far as a step can break it: wins,
\* losses, posts and half-pot bets of all the games of a round are booked once, no
\* win takes more than there is, and the game is complete with an empty pot only.
\* The exception is an overdrawn pot; the books add up even then.
ContractIsKept == Game!Init /\ [][Game!Next \/ Overdrawn']_(Game!vars)

\* Ticks always bring the round to a decision of the player or to its end, unless
\* the server goes down.
RoundsMoveOn == []<>(panicked \/ status # "deals")

ImplementsPlayable == ContractIsKept /\ RoundsMoveOn

\* What a player on turn is offered he can do: the least bet is within the limit,
\* in the first lap too, and so is the half-pot bet when it is offered.  A pot too
\* small for any bet is the work of an ante of odd cents, or of a bet below zero.
OfferedBetsAreAccepted ==
  round.state = "PendingBet" =>
    \/ /\ Unit <= MaxBet(round) /\ MaxBet(round) <= round.pot
       /\ CanBetTheGap(round) => betTheGapAmount <= MaxBet(round)
    \/ round.pot < Unit /\ BetsMayExceedThePot

\* No game is dealt its last card on an ace nobody has called, where the code panics:
\* not even a later game of a round that began with two aces.  The one way to get
\* there is a tick that comes while a call is being made.
AcesAreCalled ==
  /\ round.state \in {"FirstCardDealt", "PendingBet", "BetPlaced"} /\ round.undecided =>
       round.state = "FirstCardDealt" /\ call # 0
  /\ panicked => call # 0

\* Refuted by the code (README, known divergences): the contract without an exception,
\* and aces that are called before anything else is dealt.
ContractAlwaysKept == Game!SafeSpec
NeverPanics == ~panicked
=============================================================================
