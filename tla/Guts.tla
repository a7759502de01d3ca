-------------------------------- MODULE Guts --------------------------------
(***************************************************************************)
(* A game of Guts (src/pkg/playable/guts/guts.go): everybody says in or    *)
(* out in secret; the best hand that is in takes the pot, the others that  *)
(* are in pay for the next one, until nobody has to pay.  In Bloody Guts a *)
(* player who is in alone must beat a hand of the deck.                    *)
(*                                                                         *)
(* All players decide at the same time, each on the goroutine of his own   *)
(* client, so a decision is two steps here: it is recorded, and then the   *)
(* handler looks whether any decision is missing.  Everything else happens *)
(* in Tick, which executes the one pending dealer action when it is due.   *)
(* A showdown is due a second after it was scheduled; a handler is taken   *)
(* to be done by then (a stalled one could schedule a second showdown).    *)
(*                                                                         *)
(* Cards are dealt from a new deck every round, 33 of 52 at most, so a     *)
(* draw does not fail.  Hands matter by their order alone, chosen when     *)
(* they are compared.                                                      *)
(***************************************************************************)
EXTENDS Sums, FiniteSets

CONSTANTS
  N,         \* the number of players
  Ante,      \* Options.Ante
  MaxOwed,   \* Options.MaxOwed
  CardCount, \* Options.CardCount
  MaxRounds  \* bound: rounds dealt

ASSUME GutsAssumption ==
  /\ N \in 2 .. 10                      \* NewGame
  /\ Ante \in Nat \ {0} /\ MaxOwed \in Nat \ {0}
  /\ CardCount \in 2 .. 3
  /\ MaxRounds \in Nat \ {0}

Seats == 0 .. N - 1

VARIABLES
  bloodyGuts,          \* Options.BloodyGuts
  phase,               \* "Declaration", "Showdown" or "GameOver"
  pendingDealerAction, \* what the next due tick executes, or "None"
  pot,
  balances,            \* participant.balance
  decisions,           \* "In" or "Out", and "None" while pendingDecisions has the player
  recording,           \* players whose handler has yet to look for missing decisions
  allFolded,           \* showdownResult.AllFolded
  bloodyGutsPlayer,    \* who faces the deck: a set of one seat or none
  deckCardsRevealed,
  roundNumber,
  done

gVars == <<bloodyGuts, phase, pendingDealerAction, pot, balances, decisions, recording,
          allFolded, bloodyGutsPlayer, deckCardsRevealed, roundNumber, done>>

DealerActions == {"Showdown", "RevealDeckCard", "ResolveBloodyGuts", "NextRound", "EndGame"}

NoDecision == [s \in Seats |-> "None"]

\* NewGame and the first Deal, as the game factory calls them.
GInit ==
  /\ bloodyGuts \in BOOLEAN
  /\ phase = "Declaration"
  /\ pendingDealerAction = "None"
  /\ pot = N * Ante
  /\ balances = [s \in Seats |-> -Ante]
  /\ decisions = NoDecision
  /\ recording = {}
  /\ allFolded = FALSE
  /\ bloodyGutsPlayer = {}
  /\ deckCardsRevealed = 0
  /\ roundNumber = 1
  /\ done = FALSE

-----------------------------------------------------------------------------
(* Action: one player decides.                                             *)

\* submitDecision, up to the message that the player has decided.
SubmitDecision(s, decision) ==
  /\ phase = "Declaration"
  /\ decisions[s] = "None"
  /\ decisions' = [decisions EXCEPT ![s] = decision]
  /\ recording' = recording \cup {s}
  /\ UNCHANGED <<bloodyGuts, phase, pendingDealerAction, pot, balances, allFolded,
                 bloodyGutsPlayer, deckCardsRevealed, roundNumber, done>>

\* mutant of RevealIfAllDecided: looks for other handlers, not for decisions
RevealIfAllDecidedAlone(s) ==
  /\ s \in recording
  /\ recording' = recording \ {s}
  /\ pendingDealerAction' = IF /\ \A t \in Seats : decisions[t] # "None"
                               /\ recording = {}
                            THEN "Showdown" ELSE pendingDealerAction
  /\ UNCHANGED <<bloodyGuts, phase, pot, balances, decisions, allFolded,
                 bloodyGutsPlayer, deckCardsRevealed, roundNumber, done>>

\* The rest of submitDecision: the last decision schedules the showdown.  Two
\* handlers may both find that nobody is missing, and both schedule it.
RevealIfAllDecided(s) ==
  /\ s \in recording
  /\ recording' = recording \ {s}
  /\ pendingDealerAction' = IF \A t \in Seats : decisions[t] # "None"
                            THEN "Showdown" ELSE pendingDealerAction
  /\ UNCHANGED <<bloodyGuts, phase, pot, balances, decisions, allFolded,
                 bloodyGutsPlayer, deckCardsRevealed, roundNumber, done>>

-----------------------------------------------------------------------------
(* Tick.                                                                   *)

In == {s \in Seats : decisions[s] = "In"}

\* calculatePenalty
Penalty == IF pot > MaxOwed THEN MaxOwed ELSE pot

\* What one of the winners gets: the odd chips go to the first of them.
Share(winners, s) ==
  (pot \div Cardinality(winners)) +
  (IF Cardinality({t \in winners : t < s}) < pot % Cardinality(winners) THEN 1 ELSE 0)

\* A dealer action is executed: it is no longer pending, and may schedule another.
Executes(action) == ~done /\ pendingDealerAction = action /\ recording = {}

\* calculateShowdown, nobody is in: everybody will ante again.
NobodyIn ==
  /\ Executes("Showdown") /\ In = {}
  /\ phase' = "Showdown"
  /\ allFolded' = TRUE
  /\ pendingDealerAction' = "NextRound"
  /\ UNCHANGED <<bloodyGuts, pot, balances, decisions, recording, bloodyGutsPlayer,
                 deckCardsRevealed, roundNumber, done>>

\* calculateShowdown, one player is in: he takes the pot.
OneIn ==
  /\ Executes("Showdown") /\ Cardinality(In) = 1 /\ ~bloodyGuts
  /\ phase' = "GameOver"
  /\ allFolded' = FALSE
  /\ balances' = [s \in Seats |-> IF s \in In THEN balances[s] + pot ELSE balances[s]]
  /\ pendingDealerAction' = "EndGame"
  /\ UNCHANGED <<bloodyGuts, pot, decisions, recording, bloodyGutsPlayer,
                 deckCardsRevealed, roundNumber, done>>

\* handleBloodyGutsShowdown: he faces the deck first.
OneInFacesTheDeck ==
  /\ Executes("Showdown") /\ Cardinality(In) = 1 /\ bloodyGuts
  /\ phase' = "Showdown"
  /\ allFolded' = FALSE
  /\ bloodyGutsPlayer' = In
  /\ deckCardsRevealed' = 0
  /\ pendingDealerAction' = "RevealDeckCard"
  /\ UNCHANGED <<bloodyGuts, pot, balances, decisions, recording, roundNumber, done>>

\* calculateShowdown, several are in and the best hands are those of winners.
SeveralIn(winners) ==
  LET losers  == In \ winners
      nextPot == Cardinality(losers) * Penalty
  IN  /\ Executes("Showdown") /\ Cardinality(In) > 1
      /\ winners \subseteq In /\ winners # {}
      /\ balances' = [s \in Seats |-> CASE s \in winners -> balances[s] + Share(winners, s)
                                       [] s \in losers  -> balances[s] - Penalty
                                       [] OTHER         -> balances[s]]
      /\ allFolded' = FALSE
      /\ IF nextPot > 0
         THEN phase' = "Showdown" /\ pot' = nextPot /\ pendingDealerAction' = "NextRound"
         ELSE phase' = "GameOver" /\ pot' = pot /\ pendingDealerAction' = "EndGame"
      /\ UNCHANGED <<bloodyGuts, decisions, recording, bloodyGutsPlayer,
                     deckCardsRevealed, roundNumber, done>>

\* revealNextDeckCard, when n cards are up: another card, or the end.
AfterDeckCard(n) == IF n < CardCount THEN "RevealDeckCard" ELSE "ResolveBloodyGuts"

RevealNextDeckCard ==
  /\ Executes("RevealDeckCard")
  /\ deckCardsRevealed' = deckCardsRevealed + 1
  /\ pendingDealerAction' = AfterDeckCard(deckCardsRevealed')
  /\ UNCHANGED <<bloodyGuts, phase, pot, balances, decisions, recording, allFolded,
                 bloodyGutsPlayer, roundNumber, done>>

\* resolveBloodyGuts, the player's hand is better than the deck's.
BeatsTheDeck ==
  /\ Executes("ResolveBloodyGuts")
  /\ phase' = "GameOver"
  /\ balances' = [s \in Seats |-> IF s \in bloodyGutsPlayer THEN balances[s] + pot ELSE balances[s]]
  /\ pendingDealerAction' = "EndGame"
  /\ UNCHANGED <<bloodyGuts, pot, decisions, recording, allFolded, bloodyGutsPlayer,
                 deckCardsRevealed, roundNumber, done>>

\* resolveBloodyGuts, the deck's hand is as good or better.
DeckWins ==
  /\ Executes("ResolveBloodyGuts")
  /\ balances' = [s \in Seats |-> IF s \in bloodyGutsPlayer THEN balances[s] - Penalty ELSE balances[s]]
  /\ pot' = pot + Penalty
  /\ pendingDealerAction' = "NextRound"
  /\ UNCHANGED <<bloodyGuts, phase, decisions, recording, allFolded, bloodyGutsPlayer,
                 deckCardsRevealed, roundNumber, done>>

\* mutant of ReAntes: whoever stayed out antes again
ReAntesOut(s) == decisions[s] # "In"

\* nextRound makes everybody ante again when nobody was in.
ReAntes(s) == allFolded

\* nextRound and Deal.
NextRound ==
  /\ Executes("NextRound") /\ roundNumber < MaxRounds
  /\ balances' = [s \in Seats |-> IF ReAntes(s) THEN balances[s] - Ante ELSE balances[s]]
  /\ pot' = pot + Ante * Cardinality({s \in Seats : ReAntes(s)})
  /\ roundNumber' = roundNumber + 1
  /\ allFolded' = FALSE
  /\ bloodyGutsPlayer' = {}
  /\ deckCardsRevealed' = 0
  /\ decisions' = NoDecision
  /\ phase' = "Declaration"
  /\ pendingDealerAction' = "None"
  /\ UNCHANGED <<bloodyGuts, recording, done>>

\* The game is over: GetEndOfGameDetails has the balances.
GEndGame ==
  /\ Executes("EndGame")
  /\ done' = TRUE
  /\ pendingDealerAction' = "None"
  /\ UNCHANGED <<bloodyGuts, phase, pot, balances, decisions, recording, allFolded,
                 bloodyGutsPlayer, deckCardsRevealed, roundNumber>>

Tick ==
  \/ NobodyIn
  \/ OneIn
  \/ OneInFacesTheDeck
  \/ \E winners \in SUBSET Seats : SeveralIn(winners)
  \/ RevealNextDeckCard
  \/ BeatsTheDeck
  \/ DeckWins
  \/ NextRound
  \/ GEndGame

GNext ==
  \/ \E s \in Seats, decision \in {"In", "Out"} : SubmitDecision(s, decision)
  \/ \E s \in Seats : RevealIfAllDecided(s)
  \/ Tick

\* A handler that has begun is finished, and the dealer ticks every second.
\* Players need not decide.
GFairness == WF_gVars(Tick) /\ \A s \in Seats : WF_gVars(RevealIfAllDecided(s))

GSpec == GInit /\ [][GNext]_gVars
GFairSpec == GSpec /\ GFairness

-----------------------------------------------------------------------------
(* Properties.                                                             *)

GTypeOK ==
  /\ bloodyGuts \in BOOLEAN
  /\ phase \in {"Declaration", "Showdown", "GameOver"}
  /\ pendingDealerAction \in DealerActions \cup {"None"}
  /\ pot \in Nat
  /\ balances \in [Seats -> Int]
  /\ decisions \in [Seats -> {"None", "In", "Out"}]
  /\ recording \subseteq Seats
  /\ allFolded \in BOOLEAN
  /\ bloodyGutsPlayer \subseteq Seats
  /\ deckCardsRevealed \in 0 .. CardCount   \* deckHand[deckCardsRevealed-1]
  /\ roundNumber \in 1 .. MaxRounds
  /\ done \in BOOLEAN

\* The bound ends this instance where the code would deal another round.
OutOfRounds == pendingDealerAction = "NextRound" /\ roundNumber = MaxRounds

\* The game as the dealer sees it.  Once somebody has won, pot is not reset; what
\* it says is no longer on the table.
Game == INSTANCE Playable WITH
  adjustment <- balances,
  table      <- IF phase = "GameOver" THEN 0 ELSE pot,
  status     <- CASE done -> "over"
                  [] ~done /\ (OutOfRounds \/ \E s \in Seats : decisions[s] = "None") -> "waits"
                  [] OTHER -> "deals"

\* Guts keeps the contract of a game, as far as a step can break it: the chips
\* of all showdowns, penalties and re-antes are conserved, and the result the
\* dealer settles adds up to nothing and stays.  And whatever the players say and in
\* which order their handlers run, the showdown follows the last decision: the game
\* never stands still with nobody to wait for.
ImplementsPlayable == Game!Spec

\* Staying out costs nothing, and going in no more than the agreed maximum, nor
\* than the pot: a balance falls when its owner was in, or by the ante when
\* nobody was.
OnlyTheBoldPay ==
  [][\A s \in Seats : balances'[s] < balances[s] =>
       \/ decisions[s] = "In" /\ balances[s] - balances'[s] <= MaxOwed /\ balances[s] - balances'[s] <= pot
       \/ In = {} /\ balances[s] - balances'[s] = Ante]_gVars
=============================================================================
