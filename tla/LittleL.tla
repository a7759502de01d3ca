------------------------------- MODULE LittleL -------------------------------
(***************************************************************************)
(* A hand of Little L (src/pkg/playable/poker/littlel): a round in which   *)
(* everybody may trade cards, then a betting round before each of three    *)
(* community cards is turned and one after the last.  Action is the player *)
(* in turn, from the goroutine of his client; Tick, from the dealer's run  *)
(* loop, takes the hand to its next round and, when it is over, marks it   *)
(* done five seconds later.                                                *)
(*                                                                         *)
(* No lock keeps the goroutines apart.  A fold is told to the pot manager  *)
(* first, and then to the game, which counts who is left: ticks and other  *)
(* folds come in between.  The other actions, and a Tick, are one step.    *)
(*                                                                         *)
(* The chips are the pot manager's: each action composes the operators of  *)
(* Pots.tla that its handler calls.  Cards are counted, and hands compared *)
(* by an arbitrary order of strength.                                      *)
(***************************************************************************)
EXTENDS Pots

CONSTANTS
  LLStakes,    \* the balances players may sit down with
  InitialDeal, \* Options.InitialDeal
  TradeIns     \* Options.TradeIns

ASSUME LittleLAssumption ==
  /\ N <= 10                                        \* maxParticipants
  /\ Ante > 0
  /\ LLStakes \subseteq Nat \ {0}
  /\ InitialDeal \in 3 .. 5
  /\ InitialDeal * N + 3 <= 52                      \* DealCards
  /\ TradeIns \subseteq 0 .. InitialDeal /\ TradeIns # {}

VARIABLES
  potManager,
  llRound,    \* round: 0 is the trade-in round, 1 .. 4 are betting rounds, 5 is the end
  hand,       \* len(participant.hand)
  traded,     \* who has made his trade-in decision
  deck,       \* how many cards the deck has
  discards,   \* how many are in the discards
  gameOver,   \* winners # nil
  endGameAt,  \* the end of the game is scheduled
  done,
  boughtIn,   \* what each participant sat down with
  folding,    \* who has folded, and not didFold: the game has not counted it yet
  panicked    \* the program has ended

llVars == <<potManager, llRound, hand, traded, deck, discards, gameOver, endGameAt, done, boughtIn,
            folding, panicked>>

llCards == <<hand, traded, deck, discards>>
ending == <<endGameAt, done, boughtIn>>
folds == <<folding, panicked>>

TradeInRound == 0
RevealWinner == 5

\* mutant of TradeInRoundOpens: the all-in have no decision to make
TradeInRoundOpensForBets == Seated(boughtIn)

\* StartDecisionRound: the trade-in is for everybody, those who are all-in on the
\* ante included.
TradeInRoundOpens == StartDecisionRound(Seated(boughtIn))

\* NewGameV2 and DealCards
LLInit ==
  /\ boughtIn \in [Seats -> LLStakes]
  /\ potManager = TradeInRoundOpens
  /\ llRound = TradeInRound
  /\ hand = [s \in Seats |-> InitialDeal]
  /\ traded = {}
  /\ deck = 52 - InitialDeal * N - 3
  /\ discards = 0
  /\ gameOver = FALSE
  /\ endGameAt = FALSE
  /\ done = FALSE
  /\ folding = {}
  /\ panicked = FALSE

-----------------------------------------------------------------------------
\* Strengths only matter by their order.
LLStrengths ==
  {r \in [Seats -> 1 .. N] : \A s \in Seats : r[s] > 1 => \E t \in Seats : r[t] = r[s] - 1}

\* endGame: EndGame, then PayWinners for those who have not folded, as far as the
\* game knows.
EndGames(mgr, seats) ==
  \E over \in {CalculatePot(EndGame(mgr))}, strength \in LLStrengths :
    /\ potManager' = Paid(over, Payouts(over.pots, SortedTiers(seats, strength)))
    /\ gameOver' = TRUE
    /\ llRound' = RevealWinner

-----------------------------------------------------------------------------
(* Action.                                                                 *)

\* tradeCardsForParticipant: card by card from the deck, which the discards replace
\* when it is empty.  When both are, a card is gone from the hand, those drawn have
\* replaced cards that go nowhere, and it is still the player's turn.
Trade(s, n) ==
  /\ llRound = TradeInRound /\ InTurn(potManager, s)
  /\ n \in TradeIns /\ n <= hand[s]
  /\ IF n <= deck + discards
     THEN /\ deck' = IF n <= deck THEN deck - n ELSE deck + discards - n
          /\ discards' = (IF n <= deck THEN discards ELSE 0) + n
          /\ traded' = traded \cup {s}
          /\ potManager' = AdvanceDecision(potManager)
          /\ UNCHANGED hand
     ELSE /\ deck' = 0 /\ discards' = 0
          /\ hand' = [hand EXCEPT ![s] = @ - 1]
          /\ UNCHANGED <<potManager, traded>>
  /\ UNCHANGED <<llRound, gameOver, ending, folds>>

Bets(mgr) == potManager' = mgr /\ UNCHANGED <<llRound, gameOver>>

LLCheck(s) ==
  /\ MayCheck(potManager, s)
  /\ Bets(Check(potManager))
  /\ UNCHANGED <<llCards, ending, folds>>

LLCall(s) ==
  /\ MayCall(potManager, s)
  /\ Bets(Call(potManager, s))
  /\ UNCHANGED <<llCards, ending, folds>>

\* ParticipantFolds, the pot manager's part.
LLFold(s) ==
  /\ MayBet(potManager, s)
  /\ Bets(Fold(potManager, s))
  /\ folding' = folding \cup {s}
  /\ UNCHANGED <<llCards, ending, panicked>>

\* Who has not folded, as far as the game knows: ~didFold.
StillAlive == Alive(potManager) \cup folding

\* mutant of LastOneLeft: counts who can bet, as Texas Hold'em does
LastOneLeftToBet(seats) == Cardinality(seats \cap Live(potManager)) = 1

\* The hand ends when a fold leaves one player, all-in or not.
LastOneLeft(seats) == Cardinality(seats) = 1

\* ParticipantFolds, the rest: didFold, and who is left.  "too many players folded" and
\* "endGame already called" are panics.
FoldIsCounted(s) ==
  /\ s \in folding
  /\ folding' = folding \ {s}
  /\ LET left == Alive(potManager) \cup folding'
         ends == LastOneLeft(left)
     IN  /\ panicked' = (left = {} \/ (ends /\ gameOver))
         /\ IF ends /\ ~gameOver THEN EndGames(potManager, left)
            ELSE UNCHANGED <<potManager, llRound, gameOver>>
  /\ UNCHANGED <<llCards, ending>>

\* ParticipantBets: within the pot limit, in whole chips, at least the ante and at
\* least the last raise again, unless it is all-in.
ValidBet(s, bet) ==
  /\ bet <= PotLimitMaxBet(potManager)
  /\ bet # AllInAmount(potManager, s) =>
       /\ bet % Chip = 0
       /\ bet >= Ante
       /\ potManager.actionAmount > 0 => bet >= potManager.actionAmount + potManager.actionDiffAmount

LLBetOrRaise(s, bet) ==
  /\ MayRaise(potManager, s, bet)
  /\ ValidBet(s, bet)
  /\ Bets(BetOrRaise(potManager, s, bet))
  /\ UNCHANGED <<llCards, ending, folds>>

LLAction(s) ==
  \/ \E n \in TradeIns : Trade(s, n)
  \/ LLCheck(s)
  \/ LLCall(s)
  \/ LLFold(s)
  \/ \E bet \in potManager.actionAmount + 1 .. AllInAmount(potManager, s) : LLBetOrRaise(s, bet)

-----------------------------------------------------------------------------
(* Tick.                                                                   *)

\* mutant of RoundIsDone: the tick waits for somebody to have acted
RoundIsDoneByAction == IsRoundOver(potManager) /\ potManager.needsPotCalculation

\* With at most one player who can bet, a round is over as soon as it opens.
RoundIsDone == IsRoundOver(potManager)

\* NextRound: the next betting round, or the showdown.
TickNextRound ==
  /\ ~endGameAt /\ ~done /\ ~gameOver /\ RoundIsDone
  /\ \E mgr \in {NextRound(potManager)} :
       IF llRound + 1 = RevealWinner
       THEN EndGames(mgr, StillAlive)
       ELSE potManager' = mgr /\ llRound' = llRound + 1 /\ UNCHANGED gameOver
  /\ UNCHANGED <<llCards, ending, folds>>

\* Once it is done the game schedules its end again, to no effect: the dealer has it
\* off the table by then.
TickSchedulesEnd ==
  /\ ~endGameAt /\ ~done /\ gameOver
  /\ endGameAt' = TRUE
  /\ UNCHANGED <<potManager, llRound, llCards, gameOver, done, boughtIn, folds>>

TickEnds ==
  /\ endGameAt
  /\ endGameAt' = FALSE
  /\ done' = TRUE
  /\ UNCHANGED <<potManager, llRound, llCards, gameOver, boughtIn, folds>>

LLTick == ~panicked /\ (TickNextRound \/ TickSchedulesEnd \/ TickEnds)

LLNext ==
  \/ LLTick
  \/ ~panicked /\ \E s \in Seats : LLAction(s) \/ FoldIsCounted(s)

\* The dealer ticks the game every second, and a fold under way goes on; nothing
\* makes a player act.
LLSpec == LLInit /\ [][LLNext]_llVars
LLFairSpec ==
  /\ LLSpec
  /\ WF_llVars(LLTick)
  /\ \A s \in Seats : WF_llVars(~panicked /\ FoldIsCounted(s))

-----------------------------------------------------------------------------
(* Properties.                                                             *)

LLTypeOK ==
  /\ potManager \in PotState
  /\ llRound \in TradeInRound .. RevealWinner
  /\ hand \in [Seats -> 0 .. InitialDeal]
  /\ traded \subseteq Seats
  /\ deck \in 0 .. 52 /\ discards \in 0 .. 52
  /\ gameOver <=> llRound = RevealWinner
  /\ endGameAt \in BOOLEAN /\ done \in BOOLEAN
  /\ boughtIn \in [Seats -> LLStakes]
  /\ folding \subseteq Seats /\ panicked \in BOOLEAN

\* The pots that nobody is left to win, everybody who has not folded being all-in on
\* a lower one; and the cents of the others that make no chip.
Deserted ==
  LET lost(k) == \A s \in Alive(potManager) : \E j \in 1 .. k - 1 : s \in potManager.pots[j].allIn
  IN  PotTotal([k \in DOMAIN potManager.pots |->
                  IF lost(k) THEN potManager.pots[k]
                  ELSE [potManager.pots[k] EXCEPT !.amount = @ % Chip]])

\* A hand pays out every chip that was bet, whoever is all-in and however it ends,
\* in folds at the same time or while a tick ends the round too, except that players
\* may fold to others who are all-in: the side pots above them go to nobody then.
OnlyDesertedPotsAreLost ==
  gameOver => SumSeats(boughtIn) - SumSeats(potManager.balance) \in 0 .. Deserted

\* Nobody is passed over in the trade-in, all-in on the ante or not, and nobody bets
\* before the last player has traded.
EverybodyTradesFirst == llRound # TradeInRound \/ potManager.amountInPlay > 0 => traded = Seats

\* The hand as the dealer sees it: GetEndOfGameDetails has the balances once it is done.
Game == INSTANCE Playable WITH
  adjustment <- [s \in Seats |-> potManager.balance[s] - boughtIn[s]],
  table      <- IF gameOver THEN SumSeats(boughtIn) - SumSeats(potManager.balance)
                ELSE TotalOnTable(potManager),
  status     <- CASE done -> "over"
                  [] ~done /\ \E s \in Seats : InTurn(potManager, s) -> "waits"
                  [] OTHER -> "deals"

\* The contract of a game: what the losers lose the winners win (littlel_test.go:488-496
\* expects results that add up to nothing when players are all-in for different
\* amounts).
ImplementsPlayable == Game!SafeSpec

\* The ticks bring the hand through every round nobody can bet in, to a player in
\* turn or to its end, unless two folds at a time, or a fold and the end of the hand,
\* bring the server down.
KeepsPlaying == <>panicked \/ Game!Comes

\* Refuted by the code (README, known divergences): "too many players folded" and
\* "endGame already called" do not happen.
NobodyFoldsTooLate == ~panicked
=============================================================================
