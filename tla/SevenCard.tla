------------------------------ MODULE SevenCard ------------------------------
(***************************************************************************)
(* A hand of seven-card poker (src/pkg/playable/poker/sevencard): five     *)
(* betting rounds, in each of which the best hand showing speaks first,    *)
(* and a showdown.  Nobody is ever all-in: a player's balance may go below *)
(* his stake.                                                              *)
(*                                                                         *)
(* A variant is told of every card.  Most only mark cards as wild; those   *)
(* modelled here change the hand itself.  Baseball deals an extra card for *)
(* a four, Coupons and Clippings gives the ante back for a ten, High       *)
(* Chicago gives half the pot to the high spade in the hole, and in Chiggs *)
(* the neighbours of a player who shows the mushroom fold or play an       *)
(* antidote.                                                               *)
(*                                                                         *)
(* Of the cards only those are modelled, and who shows the best hand and   *)
(* who wins are arbitrary choices.                                         *)
(*                                                                         *)
(* A player acts on his client's goroutine while the run loop shows the    *)
(* hand to everybody, without a lock: check, call, bet, raise and fold     *)
(* take the steps between which the decision may be with a player who has  *)
(* folded.  What a mushroom does is one step, and the actions of two       *)
(* players do not overlap.                                                 *)
(***************************************************************************)
EXTENDS Sums, FiniteSets

CONSTANTS
  N,           \* the number of players
  Ante,        \* Options.Ante
  Variants,    \* the variants the hand may be played in
  FullTable,   \* maxParticipants: Baseball limits the extra cards there
  DeckSize,
  OfferedOnly, \* players take only the actions they are offered
  MaxPot       \* bound: the pot nobody bets beyond (but a bet may be called)

ASSUME SevenCardAssumption ==
  /\ FullTable \in Nat /\ N \in 2 .. FullTable
  /\ Ante \in Nat \ {0}
  /\ Variants \subseteq {"stud", "baseball", "coupons", "chicago", "chiggs"}
  /\ DeckSize \in Nat /\ 7 * FullTable + 3 <= DeckSize
  /\ OfferedOnly \in BOOLEAN
  /\ MaxPot \in Nat

VARIABLES
  variant,
  g,         \* the Game and what the variant keeps of it
  handling,  \* what the goroutine of a player who acts has still to do, or "nothing"
  setDoneAt, \* the end of the hand is scheduled
  done,
  broadcastPanicked  \* showing the hand has brought the server down

vars == <<variant, g, handling, setDoneAt, done, broadcastPanicked>>

Seats == 0 .. N - 1
NoOne == N

BeforeDeal == 0
FinalBettingRound == 5
RevealWinner == 6

\* newParticipant, NewGameV2 and Chiggs.Start
NewGame ==
  [round |-> BeforeDeal, start |-> 0, count |-> 0,
   currentBet |-> 0,
   pot |-> Ante * N,
   balance |-> [s \in Seats |-> - Ante],
   bet |-> [s \in Seats |-> 0],
   folded |-> {},
   gameOver |-> FALSE,       \* winners # nil
   panicked |-> FALSE,
   left |-> 4,               \* the fours or tens still in the deck
   extraCards |-> 0,
   mushroom |-> "deck",      \* then "down", and "up" or "flipped" once shown
   holder |-> NoOne,         \* playersWithFaceDownMushroom
   locked |-> FALSE,         \* lockedMushrooms
   pending |-> {}]           \* pendingResponses

Alive(x) == Seats \ x.folded

\* getCurrentTurn, as a set: nobody once all have decided or the hand is over.
Turn(x) ==
  IF x.count < N /\ x.round <= FinalBettingRound
  THEN {(x.start + x.count) % N}
  ELSE {}

InTurn(s) == s \in Turn(g)

\* advanceDecisionIfPlayerDidFold
SkipFolded(x) ==
  [x EXCEPT !.count = Least({k \in x.count .. N : k = N \/ (x.start + k) % N \in Alive(x)})]

-----------------------------------------------------------------------------
(* endGame.  What has several outcomes is the set of them.                 *)

\* mutant of Share: what does not divide is nobody's
ShareRoundedDown(amount, who, s) ==
  IF s \in who THEN amount \div Cardinality(who) ELSE 0

\* An equal share, and what does not divide to the first in seat order.
Share(amount, who, s) ==
  CASE s \notin who -> 0
    [] s \in who /\ s # Least(who) -> amount \div Cardinality(who)
    [] OTHER -> amount \div Cardinality(who) + (amount % Cardinality(who))

\* GetSplitPotWinners: at most one player has the high spade in the hole.
HighSpades(x) == IF variant = "chicago" THEN {{}} \cup {{s} : s \in Alive(x)} ELSE {{}}

Panic(x) == [x EXCEPT !.panicked = TRUE]

\* Half of the pot for the high spade, if somebody has it, and the rest for the best hands.
PayOut(x, best, spade) ==
  LET splitPot == IF spade = {} THEN 0 ELSE x.pot \div 2
  IN  [x EXCEPT !.round = RevealWinner,
                !.gameOver = TRUE,
                !.balance = [s \in Seats |-> @[s] + Share(x.pot - splitPot, best, s)
                                                  + Share(splitPot, spade, s)]]

EndGame(x) ==
  IF x.gameOver
  THEN {Panic(x)}
  ELSE {PayOut(x, best, spade) : best \in (SUBSET Alive(x)) \ {{}}, spade \in HighSpades(x)}

-----------------------------------------------------------------------------
(* Chiggs.                                                                 *)

\* getNeighbors, of whom the folded are left alone.
Neighbours(x, s) == ({(s - 1 + N) % N, (s + 1) % N} \ {s}) \cap Alive(x)

\* checkForWinByFold
CheckForWinByFold(x) == IF Cardinality(Alive(x)) = 1 THEN EndGame(x) ELSE {x}

\* triggerMushroomEvent: the neighbours with an antidote must play it, the others fold.
TriggerMushroom(x, s, shown) ==
  UNION {LET y == SkipFolded([x EXCEPT !.folded = @ \cup (Neighbours(x, s) \ antidote),
                                       !.pending = antidote,
                                       !.mushroom = shown,
                                       !.holder = NoOne])
         IN  IF antidote = {} THEN CheckForWinByFold(y) ELSE {y}
         : antidote \in SUBSET Neighbours(x, s)}

-----------------------------------------------------------------------------
(* dealCards, and ParticipantReceivedCard of the variants.                 *)

\* A mushroom dealt face down may be flipped later.
DealDown(x) ==
  {x} \cup
  IF variant = "chiggs" /\ x.mushroom = "deck"
  THEN {[x EXCEPT !.mushroom = "down", !.holder = s] : s \in Alive(x)}
  ELSE {}

\* handleNailClipping, in seat order and while the pot can pay.
NailClippings(x, tens) ==
  LET refunded == {s \in tens : Ante * Cardinality({t \in tens : t <= s}) <= x.pot}
  IN  [x EXCEPT !.left = @ - Cardinality(tens),
                !.pot = @ - Ante * Cardinality(refunded),
                !.balance = [s \in Seats |-> IF s \in refunded THEN @[s] + Ante ELSE @[s]]]

\* mutant of ExtraCards: a fourth extra card at a full table
ExtraCardsOneMore(x, fours) ==
  [x EXCEPT !.left = @ - Cardinality(fours),
            !.extraCards = IF N < FullTable THEN @ + Cardinality(fours)
                           ELSE Least({4, @ + Cardinality(fours)})]

\* Baseball: a card for each four, no more than three at a full table.
ExtraCards(x, fours) ==
  [x EXCEPT !.left = @ - Cardinality(fours),
            !.extraCards = IF N < FullTable THEN @ + Cardinality(fours)
                           ELSE Least({3, @ + Cardinality(fours)})]

Lucky(x) == {who \in SUBSET Alive(x) : Cardinality(who) <= x.left}

DealUp(x) ==
  CASE variant = "chiggs" /\ x.mushroom = "deck" ->
         {x} \cup UNION {TriggerMushroom(x, s, "up") : s \in Alive(x)}
    [] variant = "coupons" -> {NailClippings(x, tens) : tens \in Lucky(x)}
    [] variant = "baseball" -> {ExtraCards(x, fours) : fours \in Lucky(x)}
    [] OTHER -> {x}

\* determineFirstToAct
FirstToAct(x) == {[x EXCEPT !.start = s, !.count = 0] : s \in Alive(x)}

NextRound(x) ==
  LET y == [x EXCEPT !.round = @ + 1, !.currentBet = 0, !.bet = [s \in Seats |-> 0]]
  IN  IF y.round = RevealWinner
      THEN EndGame(y)
      ELSE UNION {FirstToAct(z) :
                    z \in IF y.round = FinalBettingRound THEN DealDown(y) ELSE DealUp(y)}

\* mutant of AdvanceDecision: the last to fold does not end the round
AdvanceDecisionOnly(x) == IF Turn(x) = {} THEN NextRound(x) ELSE {SkipFolded(x)}

\* advanceDecision, once the count has gone up.
AdvanceDecision(x) ==
  LET y == SkipFolded(x)
  IN  IF Turn(y) = {} THEN NextRound(y) ELSE {y}

\* NewGameV2 and Start: two cards down, one up.  A mushroom may end the hand at once,
\* and then the round is one too many.
Init ==
  /\ variant \in Variants
  /\ \E x \in DealDown(NewGame) : \E y \in DealUp(x) : \E z \in FirstToAct(y) :
       g = [z EXCEPT !.round = @ + 1]
  /\ handling = "nothing"
  /\ setDoneAt = FALSE
  /\ done = FALSE
  /\ broadcastPanicked = FALSE

-----------------------------------------------------------------------------
(* Action.                                                                 *)

Plays(outcomes) ==
  /\ g' \in outcomes
  /\ handling' = "nothing"
  /\ UNCHANGED <<variant, setDoneAt, done, broadcastPanicked>>

\* An action as far as the next place somebody else may look.
Starts(x, rest) ==
  /\ g' = x
  /\ handling' = rest
  /\ UNCHANGED <<variant, setDoneAt, done, broadcastPanicked>>

\* The first statement of advanceDecision.
CountUp(x) == [x EXCEPT !.count = @ + 1]

\* While antidotes are awaited nobody is offered to bet, but a bet is taken.
MayBet(s) == InTurn(s) /\ (OfferedOnly => g.pending = {})

ActionCheck(s) ==
  /\ MayBet(s) /\ g.currentBet = 0
  /\ Starts(CountUp(g), "advance")

ActionCall(s) ==
  /\ MayBet(s) /\ g.currentBet > 0
  /\ Starts(CountUp([g EXCEPT !.pot = @ + g.currentBet - g.bet[s],
                              !.balance[s] = @ - (g.currentBet - g.bet[s]),
                              !.bet[s] = g.currentBet]), "advance")

\* participantFolds: the decision stays with the player who folds until the rest are
\* counted and it is advanced.
ActionFold(s) == MayBet(s) /\ Starts([g EXCEPT !.folded = @ \cup {s}], "fold")

FoldIsCounted ==
  /\ handling = "fold"
  /\ \/ Cardinality(Alive(g)) = 1 /\ Plays(EndGame(g))
     \/ Alive(g) = {} /\ Plays({Panic(g)})
     \/ Cardinality(Alive(g)) > 1 /\ Starts(CountUp(g), "advance")

Advances == handling = "advance" /\ Plays(AdvanceDecision(g))

\* mutant of SetDecisionIndexToCurrentTurn: those already asked are not asked again
SetDecisionIndexOnly(x) == [x EXCEPT !.start = (x.start + x.count) % N]

SetDecisionIndexToCurrentTurn(x) == [x EXCEPT !.start = (x.start + x.count) % N, !.count = 0]

\* bet: at least the ante or twice the bet, at most the pot and the bet, in antes.
\* The others get to answer it, and the mushrooms are locked.
ActionBetOrRaise(s, amount) ==
  /\ MayBet(s)
  /\ amount >= IF g.currentBet = 0 THEN Ante ELSE 2 * g.currentBet
  /\ amount % Ante = 0
  /\ amount <= g.pot + g.currentBet
  /\ g.pot + amount - g.bet[s] <= MaxPot
  /\ Starts(CountUp(SetDecisionIndexToCurrentTurn(
       [g EXCEPT !.pot = @ + amount - g.bet[s],
                 !.currentBet = amount,
                 !.balance[s] = @ - (amount - g.bet[s]),
                 !.bet[s] = amount,
                 !.locked = @ \/ g.holder # NoOne])), "advance")

\* GetVariantActions: whom a flip is offered to, folded or not, the hand over or not.
OffersFlip(s) ==
  /\ g.pending = {} /\ ~g.locked
  /\ Turn(g) = {} => g.round > FinalBettingRound

\* handleFlipMushroom checks that the player has the mushroom, and nothing else.
ActionFlipMushroom(s) ==
  /\ g.holder = s
  /\ OfferedOnly => OffersFlip(s)
  /\ Plays(TriggerMushroom(g, s, "flipped"))

\* handlePlayAntidote
ActionPlayAntidote(s) ==
  /\ s \in g.pending
  /\ \E x \in {[g EXCEPT !.pending = @ \ {s}]} :
       Plays(IF x.pending = {} THEN CheckForWinByFold(x) ELSE {x})

Running == ~g.panicked /\ ~broadcastPanicked

Action(s) ==
  /\ Running /\ handling = "nothing"
  /\ \/ ActionCheck(s)
     \/ ActionCall(s)
     \/ ActionFold(s)
     \/ \E amount \in 1 .. MaxPot : ActionBetOrRaise(s, amount)
     \/ ActionFlipMushroom(s)
     \/ ActionPlayAntidote(s)

\* The rest of a player's action.
Continues == Running /\ (FoldIsCounted \/ Advances)

\* GetPlayerState, whenever the dealer shows the hand: getCurrentTurn panics when the
\* decision is with a player who has folded.
BroadcastPanics ==
  /\ Running /\ Turn(g) \cap g.folded # {}
  /\ broadcastPanicked' = TRUE
  /\ UNCHANGED <<variant, g, handling, setDoneAt, done>>

-----------------------------------------------------------------------------
(* Tick.                                                                   *)

TickSchedulesEnd ==
  /\ ~setDoneAt /\ g.gameOver
  /\ setDoneAt' = TRUE
  /\ UNCHANGED <<variant, g, handling, done, broadcastPanicked>>

TickEnds ==
  /\ setDoneAt /\ ~done
  /\ done' = TRUE
  /\ UNCHANGED <<variant, g, handling, setDoneAt, broadcastPanicked>>

Tick == Running /\ (TickSchedulesEnd \/ TickEnds)

Next == Tick \/ Continues \/ BroadcastPanics \/ \E s \in Seats : Action(s)

\* The dealer ticks the game every second, and a goroutine that has begun an action
\* gets on with it; nothing makes a player act, or the dealer show the hand.
Spec == Init /\ [][Next]_vars
FairSpec == Spec /\ WF_vars(Tick) /\ WF_vars(Continues)

-----------------------------------------------------------------------------
(* Properties.                                                             *)

HandState ==
  [round : BeforeDeal .. RevealWinner + 1, start : Seats, count : 0 .. N,
   currentBet : Nat, pot : Nat, balance : [Seats -> Int], bet : [Seats -> Nat],
   folded : SUBSET Seats, gameOver : BOOLEAN, panicked : BOOLEAN,
   left : 0 .. 4, extraCards : 0 .. 4,
   mushroom : {"deck", "down", "up", "flipped"}, holder : Seats \cup {NoOne},
   locked : BOOLEAN, pending : SUBSET Seats]

TypeOK ==
  /\ variant \in Variants
  /\ g \in HandState
  /\ handling \in {"nothing", "fold", "advance"}
  /\ setDoneAt \in BOOLEAN /\ done \in BOOLEAN /\ broadcastPanicked \in BOOLEAN

\* Nobody acts or is asked to, and the hand is not over.
Stranded == handling = "nothing" /\ ~g.gameOver /\ Turn(g) = {} /\ g.pending = {}

\* No hand waits for nobody, except after a flipped mushroom: only the advance of a
\* decision ends a round, and a flip that folds the last players to act does not make
\* one.  A player's action panics only by a mushroom: a flip, or an antidote, when the
\* hand is already won.  And the decision is with a player who has folded, on whom
\* getCurrentTurn panics, only while somebody's action is under way.
BreaksAreMushroomsOrRaces ==
  /\ Stranded => g.mushroom = "flipped"
  /\ g.panicked => g.mushroom \in {"up", "flipped"}
  /\ handling = "nothing" /\ ~g.panicked => Turn(g) \subseteq Alive(g)
  /\ broadcastPanicked => handling # "nothing"

\* A player who still owes to the bet of the round has yet to be asked: the showdown,
\* or the next card, comes when all the others have matched it.
NobodyOwes ==
  \A s \in Alive(g) :
    g.bet[s] < g.currentBet /\ ~g.gameOver => \E k \in g.count .. N - 1 : (g.start + k) % N = s

\* A full table playing Baseball with nobody folding never draws from an empty deck.
TheDeckLasts == 7 * N + g.extraCards <= DeckSize

status ==
  CASE done -> "over"
    [] ~done /\ handling = "nothing" /\ Turn(g) \cup g.pending # {} -> "waits"
    [] OTHER -> "deals"

\* The hand as the dealer sees it: GetEndOfGameDetails has the balances once it is done.
Game == INSTANCE Playable WITH
  adjustment <- g.balance,
  table      <- IF g.gameOver THEN 0 ELSE g.pot

\* The contract of a game: the pot, less the antes given back, goes to the winners to
\* the last chip, split in two or not, and once.  And a hand that is over is reported,
\* and one that is not asks somebody to act, unless it is stranded or the server is down.
ImplementsPlayable ==
  /\ Game!SafeSpec
  /\ Game!Comes \/ <>(Stranded \/ ~Running)

\* What the code says of itself and is not so: endGame is not called twice ("endGame()
\* already called", sevencard.go), and a mushroom cannot be flipped when the round is
\* over (variant_chiggs.go).
NeverPanics == ~g.panicked

\* Nor is it so that the decision is never "on a player who folded" (getCurrentTurn)
\* when the hand is shown.
HandsCanBeShown == ~broadcastPanicked
=============================================================================
