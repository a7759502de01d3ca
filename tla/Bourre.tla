------------------------------- MODULE Bourre -------------------------------
(***************************************************************************)
(* A game of Bourré (src/pkg/playable/bourre): everybody folds or trades   *)
(* cards, then five tricks are played.  Who takes the most tricks takes    *)
(* the pot, who takes none pays it again for the next game; games follow   *)
(* one another until nothing is left on the table.                         *)
(*                                                                         *)
(* Cards are counted here and not told apart: the card played last either  *)
(* takes the lead of the trick or does not, whatever it is.  Which card    *)
(* may be played, and which one leads, is module Tricks.                   *)
(***************************************************************************)
EXTENDS FiniteSets, SequencesExt, Sums

CONSTANTS
  N,         \* the number of players
  Ante,      \* Options.Ante
  DeckSize,  \* 52 cards, 65 with the fifth suit (Options.FiveSuit)
  Trades,    \* bound: the numbers of cards players trade
  MaxGames   \* bound: games in a row

ASSUME BourreAssumption ==
  /\ DeckSize \in {52, 65}
  /\ N \in 2 .. (IF DeckSize = 65 THEN 10 ELSE 8)     \* newGame
  /\ Ante \in Nat \ {0}
  /\ Trades \subseteq 0 .. 4
  /\ MaxGames \in Nat \ {0}

Seats == 0 .. N - 1

VARIABLES
  balance,             \* Player.balance
  pot,
  playerOrder,         \* who is in the game, in order
  foldedPlayers,       \* who is out of it, for this game and all that follow
  playerDiscards,      \* what playerOrder has decided so far: cards to trade, Folds or Twice
  deck,                \* how many cards the deck has
  roundNo,             \* 0 is the trade-in, 1 .. 5 are the tricks
  cardsPlayed,         \* how many of playerOrder have played to the trick
  leader,              \* who has played the winning card, as a set of one seat or none
  winCount,            \* Player.winCount
  result,              \* what is settled once the game is over, or NoResult
  pendingDealerAction, \* what the next due tick executes, or "None"
  sendUpdate,
  done,
  gameNo,              \* which of the games in a row this is
  panicked             \* a tick has brought the server down

vars == <<balance, pot, playerOrder, foldedPlayers, playerDiscards, deck, roundNo, cardsPlayed,
          leader, winCount, result, pendingDealerAction, sendUpdate, done, gameNo, panicked>>

money == <<balance, pot, result>>
table == <<playerOrder, foldedPlayers, gameNo>>
trick == <<cardsPlayed, leader, winCount>>

Folds == -1
Twice == 5   \* cards to trade, one of them named twice
NoResult == [newPot |-> -1, booted |-> {}]
Players == ToSet(playerOrder)

\* newGame and Deal: five cards each and the trump card.
Dealt(n) == DeckSize - 5 * n - 1

\* NewGame
Init ==
  /\ balance = [s \in Seats |-> -Ante]
  /\ pot = N * Ante
  /\ playerOrder = [i \in 1 .. N |-> i - 1]
  /\ foldedPlayers = {}
  /\ playerDiscards = <<>>
  /\ deck = Dealt(N)
  /\ roundNo = 0
  /\ cardsPlayed = 0
  /\ leader = {}
  /\ winCount = [s \in Seats |-> 0]
  /\ result = NoResult
  /\ pendingDealerAction = "None"
  /\ sendUpdate = FALSE
  /\ done = FALSE
  /\ gameNo = 1
  /\ panicked = FALSE

isGameOver == result # NoResult

isRoundOver ==
  IF roundNo = 0 THEN Len(playerDiscards) >= Len(playerOrder)
                 ELSE cardsPlayed >= Len(playerOrder)

\* getCurrentTurn: the lead of the first trick is the first player's, and it moves
\* on by one with every trick, whoever took the last.
Turn(s) ==
  /\ ~isRoundOver
  /\ s = playerOrder[1 + IF roundNo = 0 THEN Len(playerDiscards)
                         ELSE (cardsPlayed + roundNo - 1) % Len(playerOrder)]

-----------------------------------------------------------------------------
(* Action.                                                                 *)

\* playerDidDiscard: the last player must play if everybody else has folded.
MayFold ==
  Len(playerDiscards) + 1 = Len(playerOrder) => \E i \in DOMAIN playerDiscards : playerDiscards[i] # Folds

maxDraw == IF Len(playerOrder) > 5 /\ Len(playerDiscards) < 5 THEN 3 ELSE 4

\* A card that is named twice passes for two: what has been named is looked up by
\* the address of each decoded card, and no two have the same.
PlayerDidDiscard(s, discards) ==
  /\ roundNo = 0 /\ Turn(s)
  /\ IF discards = Folds THEN MayFold ELSE discards = Twice \/ discards <= maxDraw
  /\ playerDiscards' = Append(playerDiscards, discards)
  /\ UNCHANGED <<money, table, trick, deck, roundNo, pendingDealerAction, sendUpdate, done>>

\* playerDidPlayCard, with a card that takes the lead or not.  A player who is
\* left alone has the pot already, and may still put one card on the table.
PlayerDidPlayCard(s, takesTheLead) ==
  /\ roundNo \in 1 .. 5 /\ Turn(s)
  /\ cardsPlayed = 0 => takesTheLead
  /\ cardsPlayed' = cardsPlayed + 1
  /\ leader' = IF takesTheLead THEN {s} ELSE leader
  /\ winCount' = [t \in Seats |->
       IF cardsPlayed' = Len(playerOrder) /\ Len(playerOrder) > 1 /\ t \in leader'
       THEN winCount[t] + 1 ELSE winCount[t]]
  /\ UNCHANGED <<money, table, playerDiscards, deck, roundNo, pendingDealerAction, sendUpdate, done>>

-----------------------------------------------------------------------------
(* buildResults: who has won, who pays, and what the next game is about.   *)

Winners(players) ==
  {s \in players : Cardinality(players) = 1 \/ winCount[s] = Max({winCount[t] : t \in players})}

PayPot(players) == {s \in players \ Winners(players) : winCount[s] = 0}

Others(players) == players \ (Winners(players) \cup PayPot(players))

Continues(players) == Cardinality(Winners(players)) > 1 \/ PayPot(players) # {}

TwoTwoOne(players) ==
  /\ Cardinality(Winners(players)) = 2
  /\ Cardinality(Others(players)) = 1
  /\ PayPot(players) = {}

\* Who has neither won nor to pay the pot is out when there is no next game, or
\* when the other two play on for the pot.
Booted(players) ==
  IF Continues(players) /\ ~TwoTwoOne(players) THEN {} ELSE Others(players)

\* mutant of CarriedOver: a tie leaves only what is paid in
CarriedOverPaid(players) ==
  Cardinality(PayPot(players)) * pot + Cardinality(Others(players) \ Booted(players)) * Ante

\* newPot: a tie leaves the pot where it is.
CarriedOver(players) ==
  Cardinality(PayPot(players)) * pot + Cardinality(Others(players) \ Booted(players)) * Ante
    + (IF Cardinality(Winners(players)) > 1 THEN pot ELSE 0)

BuildResults(players) ==
  /\ result' = [newPot |-> CarriedOver(players), booted |-> Booted(players)]
  /\ balance' = [s \in Seats |->
       CASE s \in PayPot(players)                       -> balance[s] - pot
         [] s \in Others(players) \ Booted(players)     -> balance[s] - Ante
         [] Winners(players) = {s}                      -> balance[s] + pot
         [] OTHER                                       -> balance[s]]

-----------------------------------------------------------------------------
(* Tick.                                                                   *)

TickSends ==
  /\ sendUpdate
  /\ sendUpdate' = FALSE
  /\ UNCHANGED <<money, table, trick, playerDiscards, deck, roundNo, pendingDealerAction, done>>

Idle == ~sendUpdate /\ ~done /\ pendingDealerAction = "None"

Executes(action) ==
  ~sendUpdate /\ ~done /\ pendingDealerAction = action /\ pendingDealerAction' = "None"

TickSchedules ==
  /\ Idle /\ ~isGameOver /\ isRoundOver
  /\ pendingDealerAction' = IF roundNo = 0 THEN "ReplaceDiscards" ELSE "NextRound"
  /\ UNCHANGED <<money, table, trick, playerDiscards, deck, roundNo, sendUpdate, done>>

\* The deck and the discard pile after a trade of n cards: an empty deck is
\* replaced by the pile, which keeps its cards all the same.
AfterTrade(piles, n) ==
  IF n = Folds THEN piles
  ELSE [deck |-> IF n <= piles.deck THEN piles.deck - n ELSE piles.pile - (n - piles.deck),
        pile |-> piles.pile + n]

Folded == {playerOrder[i] : i \in {j \in DOMAIN playerOrder : playerDiscards[j] = Folds}}

NamedTwice == \E i \in DOMAIN playerDiscards : playerDiscards[i] = Twice

\* mutant of OutNow: a player who folds is on neither list
OutNowForgotten == foldedPlayers

OutNow == foldedPlayers \cup Folded

\* replaceDiscards: the hands of those who folded go on the pile first, and every card
\* traded must be in the hand it leaves.  The last player in takes the pot.
ReplaceDiscards ==
  LET in  == Those(playerOrder, Players \ Folded)
      out == Len(playerOrder) - Len(in)
  IN  /\ Executes("ReplaceDiscards") /\ ~NamedTwice
      /\ playerOrder' = in
      /\ foldedPlayers' = OutNow
      /\ deck' = FoldLeft(AfterTrade, [deck |-> deck, pile |-> 1 + 5 * out], playerDiscards).deck
      /\ roundNo' = 1
      /\ IF Len(in) = 1 THEN BuildResults(ToSet(in)) ELSE UNCHANGED <<balance, result>>
      /\ UNCHANGED <<pot, trick, playerDiscards, sendUpdate, done, gameNo>>

\* replaceDiscards, when a card is no longer in the hand it was to leave.
ReplaceDiscardsPanics ==
  /\ ~sendUpdate /\ ~done /\ pendingDealerAction = "ReplaceDiscards" /\ NamedTwice
  /\ panicked' = TRUE
  /\ UNCHANGED <<money, table, trick, playerDiscards, deck, roundNo, pendingDealerAction,
                 sendUpdate, done>>

\* nextRound: after the fifth trick the game is settled.
NextRound ==
  /\ Executes("NextRound") /\ leader # {}      \* roundWinnerCalculated
  /\ cardsPlayed' = 0
  /\ leader' = {}
  /\ roundNo' = roundNo + 1
  /\ IF roundNo' = 6 THEN BuildResults(Players) ELSE UNCHANGED <<balance, result>>
  /\ UNCHANGED <<pot, table, winCount, playerDiscards, deck, sendUpdate, done>>

\* mutant of NextPlayers: those who were booted are dealt in again
NextPlayersAll == Append(Tail(playerOrder), Head(playerOrder))

\* Result.NewGame: the first player is last in the next game, and those who were
\* booted are out.
NextPlayers ==
  Those(Append(Tail(playerOrder), Head(playerOrder)), Players \ result.booted)

\* endGame, when there is a pot to play for: the next game, if there are two to play it.
EndGameContinues ==
  /\ Idle /\ isGameOver /\ result.newPot > 0
  /\ Len(NextPlayers) >= 2 /\ gameNo < MaxGames
  /\ pot' = result.newPot
  /\ playerOrder' = NextPlayers
  /\ foldedPlayers' = foldedPlayers \cup result.booted
  /\ playerDiscards' = <<>>
  /\ deck' = Dealt(Len(NextPlayers))
  /\ roundNo' = 0
  /\ cardsPlayed' = 0
  /\ leader' = {}
  /\ winCount' = [s \in Seats |-> 0]
  /\ result' = NoResult
  /\ sendUpdate' = TRUE
  /\ gameNo' = gameNo + 1
  /\ UNCHANGED <<balance, pendingDealerAction, done>>

\* endGame, when nothing is left.
EndGameClears ==
  /\ Idle /\ isGameOver /\ result.newPot = 0
  /\ pendingDealerAction' = "ClearGame"
  /\ UNCHANGED <<money, table, trick, playerDiscards, deck, roundNo, sendUpdate, done>>

ClearGame ==
  /\ Executes("ClearGame")
  /\ done' = TRUE
  /\ UNCHANGED <<money, table, trick, playerDiscards, deck, roundNo, sendUpdate>>

\* Tick, as long as it returns.
Ticks ==
  \/ TickSends
  \/ TickSchedules
  \/ ReplaceDiscards
  \/ NextRound
  \/ EndGameContinues
  \/ EndGameClears
  \/ ClearGame

Tick ==
  /\ ~panicked
  /\ \/ Ticks /\ UNCHANGED panicked
     \/ ReplaceDiscardsPanics

Action ==
  /\ ~panicked /\ UNCHANGED panicked
  /\ \E s \in Seats :
       \/ \E discards \in Trades \cup {Folds, Twice} : PlayerDidDiscard(s, discards)
       \/ \E takesTheLead \in BOOLEAN : PlayerDidPlayCard(s, takesTheLead)

Next == Action \/ Tick

\* The dealer ticks every second; players need not play.
Fairness == WF_vars(Tick)

Spec == Init /\ [][Next]_vars
FairSpec == Spec /\ Fairness

-----------------------------------------------------------------------------
(* Properties.                                                             *)

TypeOK ==
  /\ balance \in [Seats -> Int]
  /\ pot \in Nat \ {0}
  /\ Players \subseteq Seats
  /\ foldedPlayers \subseteq Seats
  /\ playerDiscards \in BoundedSeq(-1 .. 5, N)
  /\ deck \in 0 .. DeckSize
  /\ roundNo \in 0 .. 6
  /\ cardsPlayed \in 0 .. Len(playerOrder)
  /\ leader \in SUBSET Seats /\ Cardinality(leader) <= 1
  /\ winCount \in [Seats -> 0 .. 5]
  /\ result = NoResult \/ (result.newPot \in Nat /\ result.booted \subseteq Players)
  /\ pendingDealerAction \in {"None", "ReplaceDiscards", "NextRound", "ClearGame"}
  /\ {sendUpdate, done, panicked} \subseteq BOOLEAN
  /\ gameNo \in 1 .. MaxGames

\* The bound ends this instance where the code would go on.
OutOfGames == Idle /\ isGameOver /\ result.newPot > 0 /\ gameNo = MaxGames

status ==
  CASE done -> "over"
    [] ~done /\ (OutOfGames \/ (Idle /\ ~isGameOver /\ ~isRoundOver)) -> "waits"
    [] OTHER -> "deals"

\* The game as the dealer sees it: GetEndOfGameDetails reports the players in the
\* last game and the folded ones.
Game == INSTANCE Playable WITH
  adjustment <- [s \in Seats |-> IF s \in Players \cup foldedPlayers THEN balance[s] ELSE 0],
  table      <- IF isGameOver THEN result.newPot ELSE pot

\* A game comes to wait for a player, or to its end, unless somebody names a card
\* twice: the tick that trades it then panics.
GamesMoveOn == []<>(status # "deals" \/ NamedTwice)

\* Bourré keeps the contract of a game: pots paid again, antes, ties and boots
\* conserve the chips over any number of games, and the result that is settled
\* adds up to nothing and stays.  And every trade-in, trick and game is followed by
\* the next until a player is on turn or the table is empty, as long as nobody names a
\* card twice: a pot that is left always finds two to play for it.
ImplementsPlayable == Game!SafeSpec /\ GamesMoveOn

\* Over all games everybody who anted is on exactly one of the two lists that make
\* up the result; the dealer's goroutine would panic over a player on both, and a
\* player on none would keep his losses to himself.
EverybodyIsReportedOnce ==
  /\ Players \cap foldedPlayers = {}
  /\ Players \cup foldedPlayers = Seats
  /\ Cardinality(Players) = Len(playerOrder)

\* While it has not been taken a pot does not shrink, and who is out stays out and
\* pays no more.
OutMeansOut ==
  [][/\ gameNo' # gameNo => pot' >= pot
     /\ foldedPlayers \subseteq foldedPlayers'
     /\ \A s \in foldedPlayers \cup (IF isGameOver THEN result.booted ELSE {}) :
          balance'[s] = balance[s]]_vars

\* replaceDiscards "will replace the discarded cards with fresh ones" (its
\* comment): no card is in two places, so the hands and the deck together have no
\* more cards than there are.
CardsAreFresh == roundNo = 1 /\ cardsPlayed = 0 => 5 * Len(playerOrder) + deck <= DeckSize

\* Refuted by the code (README, known divergences): playerDidDiscard refuses to
\* discard the same card twice (ErrCannotDiscardTheSameCard).
TradesReturn == ~panicked
=============================================================================
