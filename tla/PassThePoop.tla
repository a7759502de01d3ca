----------------------------- MODULE PassThePoop -----------------------------
(***************************************************************************)
(* A game of Pass the Poop (src/pkg/playable/passthepoop): everybody has   *)
(* one card and may keep it or trade it with the next player, the dealer   *)
(* with the deck; the worst card costs a life, and the last player with a  *)
(* life takes the pot.  Who loses lives is the edition's: Standard,        *)
(* Diarrhea or Pairs.                                                      *)
(*                                                                         *)
(* Action is the player on turn, who may try anything: the actions he is   *)
(* offered are not enforced.  Tick ends a round, deals the next one and    *)
(* marks the game over, each a second after it has become due.  Before a   *)
(* deal the deck is reshuffled unless it has a card for everybody and one  *)
(* for the dealer, so a draw does not fail; which card is drawn is open.   *)
(***************************************************************************)
EXTENDS FiniteSets, SequencesExt, Sums

CONSTANTS
  N,          \* seats: the most players dealt in
  Ante,       \* Options.Ante
  Tables,     \* the numbers of players and the Options games are played with
  Ranks       \* ranks of the cards: 2 .. Ace in the code

King == 13
Ace == 14

ASSUME PassThePoopAssumption ==
  /\ N \in Nat /\ N >= 2
  /\ Ante \in Nat \ {0}
  /\ Tables \subseteq [players: 2 .. N, lives: Nat \ {0}, allowBlocks: BOOLEAN,
                      edition: {"Standard", "Diarrhea", "Pairs"}]
  /\ Ranks \subseteq 2 .. Ace /\ Ranks # {}

Seats == 0 .. N - 1

VARIABLES
  options,            \* one of Tables
  lives,              \* participant.lives
  balance,            \* participant.balance
  card,               \* participant.card, 0 for nil
  deadCard,           \* participants whose card is out of the round
  hasBlock,           \* participants who may block a trade
  participants,       \* who is in the round, the dealer last
  decisionIndex,      \* how many have made their decision
  pendingTrade,
  dealerWillGoToDeck,
  roundOver,          \* loserGroups # nil
  gameOver,           \* balanceAdjustments # nil
  pending,            \* pendingTickableAction
  endGameAck,
  unanswered,         \* history: the dealer has drawn over the trade that is pending
  panicked            \* Accept has looked for a participant before the first

vars == <<options, lives, balance, card, deadCard, hasBlock, participants, decisionIndex,
          pendingTrade, dealerWillGoToDeck, roundOver, gameOver, pending, endGameAck,
          unanswered, panicked>>

table == <<options, lives, balance, participants, roundOver, gameOver, pending, endGameAck,
           panicked>>

pot == options.players * Ante

Players == 0 .. options.players - 1

\* deal: everybody in the round gets a card.
Dealt(cards) == [s \in Seats |-> IF s \in DOMAIN cards THEN cards[s] ELSE 0]

\* NewGame, with its deal.
Init ==
  /\ options \in Tables
  /\ lives = [s \in Seats |-> IF s \in Players THEN options.lives ELSE 0]
  /\ balance = [s \in Seats |-> IF s \in Players THEN -Ante ELSE 0]
  /\ \E cards \in [Players -> Ranks] : card = Dealt(cards)
  /\ deadCard = {}
  /\ hasBlock = IF options.allowBlocks THEN Players ELSE {}
  /\ participants = [i \in 1 .. options.players |-> i - 1]
  /\ decisionIndex = 0
  /\ pendingTrade = FALSE
  /\ dealerWillGoToDeck = FALSE
  /\ roundOver = FALSE
  /\ gameOver = FALSE
  /\ pending = "None"
  /\ endGameAck = FALSE
  /\ unanswered = FALSE /\ panicked = FALSE

-----------------------------------------------------------------------------
(* Action: executeTurnForPlayer.                                           *)

\* getCurrentTurn
Turn(s) == decisionIndex < Len(participants) /\ participants[decisionIndex + 1] = s
isDealersTurn == decisionIndex + 1 = Len(participants)

\* ParticipantWasPassed: Diarrhea takes a life for an ace and throws it out.
WasPassed(s, rank) ==
  IF options.edition = "Diarrhea" /\ rank = Ace
  THEN /\ deadCard' = deadCard \cup {s}
       /\ lives' = [lives EXCEPT ![s] = IF @ > 0 THEN @ - 1 ELSE 0]
  ELSE UNCHANGED <<deadCard, lives>>

Stay(s) ==
  /\ Turn(s) /\ ~pendingTrade
  /\ decisionIndex' = decisionIndex + 1
  /\ UNCHANGED <<table, card, deadCard, hasBlock, pendingTrade, dealerWillGoToDeck, unanswered>>

GoToDeck(s) ==
  /\ Turn(s) /\ isDealersTurn /\ card[s] # King
  /\ dealerWillGoToDeck' = TRUE
  /\ UNCHANGED <<table, card, deadCard, hasBlock, decisionIndex, pendingTrade, unanswered>>

DrawFromDeck(s, rank) ==
  /\ Turn(s) /\ isDealersTurn /\ dealerWillGoToDeck
  /\ card' = [card EXCEPT ![s] = rank]
  /\ dealerWillGoToDeck' = FALSE
  /\ decisionIndex' = decisionIndex + 1
  /\ WasPassed(s, rank)
  /\ unanswered' = pendingTrade
  /\ UNCHANGED <<options, balance, participants, roundOver, gameOver, pending, endGameAck,
                 hasBlock, pendingTrade, panicked>>

\* mutant of Trade: the dealer may trade too, with nobody behind him
TradeAnybody(s) ==
  /\ Turn(s) /\ card[s] # King /\ ~pendingTrade
  /\ pendingTrade' = TRUE
  /\ decisionIndex' = (decisionIndex + 1) % Len(participants)
  /\ UNCHANGED <<table, card, deadCard, hasBlock, dealerWillGoToDeck, unanswered>>

Trade(s) ==
  /\ Turn(s) /\ card[s] # King /\ ~pendingTrade /\ ~isDealersTurn
  /\ pendingTrade' = TRUE
  /\ decisionIndex' = decisionIndex + 1
  /\ UNCHANGED <<table, card, deadCard, hasBlock, dealerWillGoToDeck, unanswered>>

\* The player before s, who offers his card: participants[decisionIndex - 1].
Prev == participants[decisionIndex]

\* mutant of Accept: a king can be traded away
AcceptWithKing(s) ==
  /\ Turn(s) /\ pendingTrade /\ decisionIndex > 0
  /\ pendingTrade' = FALSE /\ unanswered' = FALSE
  /\ card' = [card EXCEPT ![s] = card[Prev], ![Prev] = card[s]]
  /\ WasPassed(Prev, card[s])
  /\ UNCHANGED <<options, balance, participants, roundOver, gameOver, pending, endGameAck,
                 hasBlock, decisionIndex, dealerWillGoToDeck, panicked>>

\* The cards change hands, and s still makes his own decision.
Accept(s) ==
  /\ Turn(s) /\ pendingTrade /\ card[s] # King /\ decisionIndex > 0
  /\ pendingTrade' = FALSE /\ unanswered' = FALSE
  /\ card' = [card EXCEPT ![s] = card[Prev], ![Prev] = card[s]]
  /\ WasPassed(Prev, card[s])
  /\ UNCHANGED <<options, balance, participants, roundOver, gameOver, pending, endGameAck,
                 hasBlock, decisionIndex, dealerWillGoToDeck, panicked>>

\* Accept, where it panics: there is no participants[decisionIndex - 1].
AcceptFromNobody(s) ==
  /\ Turn(s) /\ pendingTrade /\ card[s] # King /\ decisionIndex = 0
  /\ panicked' = TRUE
  /\ UNCHANGED <<options, lives, balance, card, deadCard, hasBlock, participants, decisionIndex,
                 pendingTrade, dealerWillGoToDeck, roundOver, gameOver, pending, endGameAck,
                 unanswered>>

FlipKing(s) ==
  /\ Turn(s) /\ card[s] = King
  /\ decisionIndex' = decisionIndex + 1
  /\ pendingTrade' = FALSE /\ unanswered' = FALSE
  /\ UNCHANGED <<table, card, deadCard, hasBlock, dealerWillGoToDeck>>

BlockTrade(s) ==
  /\ Turn(s) /\ pendingTrade /\ s \in hasBlock
  /\ hasBlock' = hasBlock \ {s}
  /\ pendingTrade' = FALSE /\ unanswered' = FALSE
  /\ decisionIndex' = decisionIndex + 1
  /\ UNCHANGED <<table, card, deadCard, dealerWillGoToDeck>>

-----------------------------------------------------------------------------
(* Edition.EndRound: the sets of players who lose the round together, or   *)
(* none where it must be redone (ErrMutualDestruction).                    *)

In == ToSet(participants)

LowRank(s) == IF card[s] = Ace THEN 0 ELSE card[s]

\* Those of S with the lowest card.
LowCards(S) == {s \in S : \A t \in S : LowRank(s) <= LowRank(t)}

\* Those of S who hold the same rank as s.
SameRank(S, s) == {t \in S : card[t] = card[s]}

\* subtractLife
Minus(l, count) == IF count = 0 \/ l < count THEN 0 ELSE l - count

Lose(S, count) == [s \in Seats |-> IF s \in S THEN Minus(lives[s], count) ELSE lives[s]]

Redo == [redo |-> TRUE, lives |-> lives]
Lost(l) == [redo |-> FALSE, lives |-> l]

\* mutant of StandardEndRound: a tie of all players is always played out
StandardEndRoundNoRedo == Lost(Lose(LowCards(In), 1))

\* StandardEdition.EndRound
StandardEndRound ==
  LET low == LowCards(In)
  IN  IF low = In /\ \A s \in low : lives[s] <= 1 THEN Redo ELSE Lost(Lose(low, 1))

\* getLowCards, applied until one player loses alone or one is left: the lowest
\* cards lose, all their lives where they tie; nobody loses in a tie of all.
LowGroups(S) ==
  LET groups[T \in SUBSET S] ==
        LET low == LowCards(T)
        IN  CASE low = T /\ Cardinality(T) # 1 -> {}
              [] Cardinality(low) = 1 \/ Cardinality(T \ low) = 1 -> {low}
              [] OTHER -> {low} \cup groups[T \ low]
  IN  groups[S]

\* mutant of DiarrheaEndRound: a card that was thrown out still counts
DiarrheaEndRoundAllCards ==
  LET groups   == LowGroups(In)
      loses(s) == CHOOSE g \in groups : s \in g
  IN  IF groups = {} THEN Redo
      ELSE Lost([s \in Seats |-> IF s \in UNION groups
                                 THEN Minus(lives[s], IF Cardinality(loses(s)) = 1 THEN 1 ELSE 0)
                                 ELSE lives[s]])

\* DiarrheaEdition.EndRound: those passed an ace have lost their life already.
DiarrheaEndRound ==
  LET live     == In \ deadCard
      dead     == In \cap deadCard
      groups   == LowGroups(live)
      loses(s) == CHOOSE g \in groups : s \in g
  IN  CASE Cardinality(live) = 1 -> Lost(lives)
        [] live = {} /\ (\E s \in dead : lives[s] > 0) -> Lost(lives)
        [] live = {} /\ ~(\E s \in dead : lives[s] > 0) ->
             [redo |-> TRUE, lives |-> [s \in Seats |-> IF s \in dead THEN lives[s] + 1 ELSE lives[s]]]
        [] Cardinality(live) > 1 /\ groups = {} /\ dead = {} -> Redo
        [] OTHER ->
             Lost([s \in Seats |-> IF s \in UNION groups
                                   THEN Minus(lives[s], IF Cardinality(loses(s)) = 1 THEN 1 ELSE 0)
                                   ELSE lives[s]])

\* PairsEdition.EndRound: against three of a rank everybody else loses all; else
\* the lowest of the ranks held by the fewest loses a life.
PairsEndRound ==
  LET size(s)  == Cardinality(SameRank(In, s))
      trips    == {s \in In : size(s) >= 3 /\ \A t \in In :
                                size(t) < size(s) \/ (size(t) = size(s) /\ LowRank(t) <= LowRank(s))}
      fewest   == {s \in In : \A t \in In : size(s) <= size(t)}
      losers   == LowCards(fewest)
  IN  CASE trips # {} -> Lost(Lose(In \ trips, 0))
        [] trips = {} /\ losers = In -> Redo
        [] OTHER -> Lost(Lose(losers, 1))

EditionEndRound ==
  CASE options.edition = "Standard" -> StandardEndRound
    [] options.edition = "Diarrhea" -> DiarrheaEndRound
    [] options.edition = "Pairs"    -> PairsEndRound

-----------------------------------------------------------------------------
(* Tick.                                                                   *)

\* EndRound, and endGame where fewer than two players have a life left.
EndRound ==
  LET end   == EditionEndRound
      alive == {s \in Seats : end.lives[s] > 0}
  IN  /\ pending = "None" /\ ~gameOver /\ ~roundOver
      /\ decisionIndex = Len(participants)
      /\ roundOver' = TRUE
      /\ lives' = end.lives
      /\ IF ~end.redo /\ Cardinality(alive \cap In) < 2
         THEN /\ Cardinality(alive) < 2   \* "too many winners found"
              /\ gameOver' = TRUE
              /\ balance' = [s \in Seats |-> balance[s] + (IF s \in alive THEN pot ELSE 0)]
         ELSE UNCHANGED <<gameOver, balance>>
      /\ UNCHANGED <<options, card, deadCard, hasBlock, participants, decisionIndex,
                     pendingTrade, dealerWillGoToDeck, pending, endGameAck, unanswered, panicked>>

\* The next round, or the end of the game, is scheduled.
Schedule ==
  /\ pending = "None" /\ ~endGameAck
  /\ gameOver \/ roundOver
  /\ pending' = IF gameOver THEN "EndGame" ELSE "NextRound"
  /\ UNCHANGED <<options, lives, balance, card, deadCard, hasBlock, participants, decisionIndex,
                 pendingTrade, dealerWillGoToDeck, roundOver, gameOver, endGameAck, unanswered,
                 panicked>>

\* eliminateAndRotateParticipants: the first becomes the dealer.
Rotated == Those(Append(Tail(participants), Head(participants)), {s \in Seats : lives[s] > 0})

\* nextRound and deal.  pendingTrade is left as it is.
NextRound(cards) ==
  /\ pending = "NextRound"
  /\ pending' = "None"
  /\ participants' = Rotated
  /\ Len(Rotated) >= 2
  /\ roundOver' = FALSE
  /\ decisionIndex' = 0
  /\ dealerWillGoToDeck' = FALSE
  /\ deadCard' = {}
  /\ card' = Dealt(cards)
  /\ UNCHANGED <<options, lives, balance, hasBlock, pendingTrade, gameOver, endGameAck, unanswered,
                 panicked>>

\* The dealer of the room may settle: GetEndOfGameDetails.
EndGame ==
  /\ pending = "EndGame"
  /\ pending' = "None"
  /\ endGameAck' = TRUE
  /\ UNCHANGED <<options, lives, balance, card, deadCard, hasBlock, participants, decisionIndex,
                 pendingTrade, dealerWillGoToDeck, roundOver, gameOver, unanswered, panicked>>

Tick ==
  /\ ~panicked
  /\ \/ EndRound
     \/ Schedule
     \/ \E cards \in [ToSet(Rotated) -> Ranks] : NextRound(cards)
     \/ EndGame

Action(s) ==
  /\ ~panicked
  /\ \/ Stay(s)
     \/ GoToDeck(s)
     \/ \E rank \in Ranks : DrawFromDeck(s, rank)
     \/ Trade(s)
     \/ Accept(s)
     \/ AcceptFromNobody(s)
     \/ FlipKing(s)
     \/ BlockTrade(s)

Next == Tick \/ \E s \in Seats : Action(s)

Spec == Init /\ [][Next]_vars

\* The dealer ticks every second; players need not act.
FairSpec == Spec /\ WF_vars(Tick)

-----------------------------------------------------------------------------
(* Properties.                                                             *)

TypeOK ==
  /\ options \in Tables
  /\ lives \in [Seats -> 0 .. options.lives]
  /\ balance \in [Seats -> Int]
  /\ card \in [Seats -> Ranks \cup {0}]
  /\ deadCard \subseteq Seats /\ hasBlock \subseteq Seats
  /\ participants \in Seq(Seats) /\ IsInjective(participants)
  /\ decisionIndex \in 0 .. Len(participants)
  /\ {pendingTrade, dealerWillGoToDeck, roundOver, gameOver, endGameAck, unanswered,
      panicked} \subseteq BOOLEAN
  /\ pending \in {"None", "NextRound", "EndGame"}

status ==
  CASE endGameAck -> "over"
    [] ~endGameAck /\ decisionIndex < Len(participants) /\ ~roundOver -> "waits"
    [] OTHER -> "deals"

\* The game as the dealer sees it.
Game == INSTANCE Playable WITH
  adjustment <- balance,
  table      <- IF gameOver THEN 0 ELSE pot

\* Pass the Poop keeps the contract of a game, as far as a step can break it: in
\* every edition, however many lives go at once, one player takes the whole pot.  And
\* no round ends in a way the next tick cannot carry on from.
ImplementsPlayable == Game!Spec

\* Between two deals a king stays where it was dealt: nobody trades, draws or is
\* made to accept it away.
KingsAreKept ==
  [][\A s \in Seats : card[s] = King /\ pending # "NextRound" => card'[s] = King]_vars

\* A round costs nobody a life twice: who was passed an ace is out of the count.
AcesCostOneLife ==
  [][\A s \in deadCard : options.edition = "Diarrhea" /\ ~roundOver => lives'[s] >= lives[s]]_vars

\* A trade that waits for an answer comes from the player before, and the round is
\* not over without one: unless a dealer has gone to the deck with the trade pending,
\* which is then left to the next round.  Nothing else makes Accept look for a
\* participant before the first.
TradesHaveAPartner ==
  /\ pendingTrade /\ ~unanswered => decisionIndex \in 1 .. Len(participants) - 1
  /\ panicked => unanswered

\* Refuted by the code (README, known divergences): every trade has a partner.
TradesAlwaysHaveAPartner == pendingTrade => decisionIndex > 0
=============================================================================
