----------------------------- MODULE PotManager -----------------------------
(***************************************************************************)
(* One hand played through the exported methods of PotManager, in every    *)
(* order the poker games may call them.  Each method is one action; the    *)
(* methods themselves are the operators of Pots.tla.                       *)
(*                                                                         *)
(* What a caller owes the manager, and this specification grants:          *)
(*   - blinds are posted at most once, before anybody bets;                *)
(*   - a decision round is started only where a round has just been opened *)
(*     (Game.dealStartingCardsToEachParticipant, littlel.NewGame);         *)
(*   - a bet is a number of whole chips, or all-in;                        *)
(*   - nobody folds when he is the only one left in the hand, nor, with no *)
(*     bet to call, when he is the only one who is not all-in;             *)
(*   - the game is ended when the round is over, and then paid once, to    *)
(*     all players who have not folded ranked by strength.                 *)
(* Hold'em breaks the last one: see HoldEm.tla.                            *)
(***************************************************************************)
EXTENDS Pots

CONSTANTS
  TableStakes,  \* the balances players may sit down with
  MaxRounds,    \* bound: how many times NextRound is called
  NoPayouts     \* the payouts before PayWinners has run

ASSUME TableStakesAssumption ==
  /\ TableStakes \subseteq Nat
  \* Nobody is all-in before the betting starts: mux refuses a table stake below
  \* $5.00, and the options cap the ante at $0.50 and the big blind at $2.00.
  /\ \A b \in TableStakes : b > Ante + BigBlind
ASSUME MaxRoundsAssumption == MaxRounds \in Nat
ASSUME NoPayoutsAssumption == NoPayouts \notin [Seats -> Nat]

VARIABLES
  manager,     \* the PotManager
  satDownWith, \* what each participant sat down with
  blindsDue,   \* the game posts blinds and has not done so yet
  round,       \* calls of NextRound so far
  put,         \* history: all that each participant has put in, blinds and antes included
  acted,       \* history: who has acted since the round began or the bet was raised
  strength,    \* the strength of the hands, known once they are compared
  payouts      \* what PayWinners has returned

pmVars == <<manager, satDownWith, blindsDue, round, put, acted, strength, payouts>>

PMInit ==
  /\ satDownWith \in [Seats -> TableStakes]
  /\ manager = Seated(satDownWith)
  /\ blindsDue \in BOOLEAN
  /\ round = 0
  /\ put = [s \in Seats |-> satDownWith[s] - manager.balance[s]]
  /\ acted = {}
  /\ strength = [s \in Seats |-> 0]
  /\ payouts = NoPayouts

\* Strengths only matter by their order: every weak order of the seats.
HandStrengths ==
  {r \in [Seats -> 1 .. N] : \A s \in Seats : r[s] > 1 => \E t \in Seats : r[t] = r[s] - 1}

-----------------------------------------------------------------------------
\* Nothing has happened in the round since it was opened.
RoundIsFresh == manager.actionAmount = 0 /\ manager.actionAtIndex \in {0, N} /\ ~manager.needsPotCalculation

\* What a step takes from the balances is put in by their owners.
PutIn == put' = [s \in Seats |-> put[s] + manager.balance[s] - manager'.balance[s]]

PostBlinds ==
  /\ blindsDue /\ RoundIsFresh /\ ~IsRoundOver(manager)
  /\ ~manager.inDecisionRound /\ ~manager.isGameOver
  /\ manager' = PayBlinds(manager)
  /\ PutIn
  /\ blindsDue' = FALSE
  /\ UNCHANGED <<satDownWith, round, acted, strength, payouts>>

ParticipantFolds(s) ==
  /\ ~blindsDue /\ MayBet(manager, s)
  /\ Live(manager) = {s} => manager.inPlay[s] < manager.actionAmount
  /\ Alive(manager) # {s}
  /\ manager' = Fold(manager, s)
  /\ acted' = acted \cup {s}
  /\ UNCHANGED <<satDownWith, blindsDue, round, put, strength, payouts>>

ParticipantChecks(s) ==
  /\ ~blindsDue /\ MayCheck(manager, s)
  /\ manager' = Check(manager)
  /\ acted' = acted \cup {s}
  /\ UNCHANGED <<satDownWith, blindsDue, round, put, strength, payouts>>

ParticipantCalls(s) ==
  /\ ~blindsDue /\ MayCall(manager, s)
  /\ manager' = Call(manager, s)
  /\ PutIn
  /\ acted' = acted \cup {s}
  /\ UNCHANGED <<satDownWith, blindsDue, round, strength, payouts>>

ParticipantBetsOrRaises(s, bet) ==
  /\ ~blindsDue /\ MayRaise(manager, s, bet)
  /\ manager' = BetOrRaise(manager, s, bet)
  /\ PutIn
  /\ acted' = {s}
  /\ UNCHANGED <<satDownWith, blindsDue, round, strength, payouts>>

DecisionRoundStarts ==
  /\ RoundIsFresh /\ ~manager.inDecisionRound /\ ~manager.isGameOver
  /\ manager' = StartDecisionRound(manager)
  /\ UNCHANGED <<satDownWith, blindsDue, round, acted, put, strength, payouts>>

\* The participant whose decision is being made has made it.
DecisionAdvances(s) ==
  /\ manager.inDecisionRound /\ InTurn(manager, s)
  /\ manager' = AdvanceDecision(manager)
  /\ acted' = acted \cup {s}
  /\ UNCHANGED <<satDownWith, blindsDue, round, put, strength, payouts>>

RoundEnds ==
  /\ IsRoundOver(manager) /\ ~manager.isGameOver
  /\ round < MaxRounds
  /\ manager' = NextRound(manager)
  /\ round' = round + 1
  /\ acted' = {}
  /\ UNCHANGED <<satDownWith, blindsDue, put, strength, payouts>>

GameEnds ==
  /\ IsRoundOver(manager) /\ ~manager.isGameOver
  /\ manager' = EndGame(manager)
  /\ UNCHANGED <<satDownWith, blindsDue, round, acted, put, strength, payouts>>

WinnersArePaid(ranks) ==
  /\ manager.isGameOver /\ payouts = NoPayouts
  /\ LET collected == CalculatePot(manager)
         paying    == Payouts(collected.pots, SortedTiers(Alive(manager), ranks))
     IN  /\ manager' = Paid(collected, paying)
         /\ payouts' = paying
  /\ strength' = ranks
  /\ UNCHANGED <<satDownWith, blindsDue, round, put, acted>>

\* The hand is over; the manager is not used again.
HandIsPaid == payouts # NoPayouts /\ UNCHANGED pmVars

PMNext ==
  \/ PostBlinds
  \/ \E s \in Seats :
       \/ ParticipantFolds(s)
       \/ ParticipantChecks(s)
       \/ ParticipantCalls(s)
       \/ \E bet \in manager.actionAmount + 1 .. AllInAmount(manager, s) :
            /\ bet % Chip = 0 \/ bet = AllInAmount(manager, s)
            /\ ParticipantBetsOrRaises(s, bet)
       \/ DecisionAdvances(s)
  \/ DecisionRoundStarts
  \/ RoundEnds
  \/ GameEnds
  \/ \E ranks \in HandStrengths : WinnersArePaid(ranks)
  \/ HandIsPaid

PMSpec == PMInit /\ [][PMNext]_pmVars

-----------------------------------------------------------------------------
(* Properties.                                                             *)

\* Every component of the state has its type; in particular no balance and no
\* pot is ever negative.
PMTypeOK ==
  /\ manager \in PotState
  /\ satDownWith \in [Seats -> TableStakes]
  /\ blindsDue \in BOOLEAN
  /\ round \in 0 .. MaxRounds
  /\ put \in [Seats -> Nat]
  /\ acted \subseteq Seats
  /\ strength \in [Seats -> 0 .. N]
  /\ payouts \in [Seats -> Nat] \cup {NoPayouts}

\* Until the winners are paid chips are neither made nor lost: what the players
\* hold, plus the pots and the bets in play, is what they sat down with, through
\* every all-in, side pot, refund and new round.
ChipsConserved ==
  payouts = NoPayouts => SumSeats(manager.balance) + TotalOnTable(manager) = SumSeats(satDownWith)

\* PayWinners hands out every whole chip of every pot, "left of dealer any uneven
\* amounts", however the winners share the pots.  Lost are the cents of a pot that
\* make no chip, and no more than those: a table stake is any number of cents.
PotsArePaidToTheChip ==
  payouts # NoPayouts =>
    SumSeats(manager.balance) + OddCents(manager.pots) = SumSeats(satDownWith)

\* The clock is never on somebody who cannot act: completeTurn and reset skip
\* the folded and, in a betting round, the all-in.
TurnIsOnSomebodyWhoMayAct ==
  ~IsRoundOver(manager) => MayAct(manager, SeatAt(manager, manager.actionAtIndex))

\* A betting round only ends when everybody who still can act has acted since
\* the last raise and has matched it: turns that wrap around the table after a
\* raise skip nobody, and the big blind has its option.
RoundEndsSettled ==
  manager.needsPotCalculation =>
    /\ IsRoundOver(manager)
    /\ \A s \in Live(manager) : s \in acted /\ manager.inPlay[s] = manager.actionAmount

\* What somebody who has put in "cap" can win at most: as much from everybody,
\* himself included; c is what each participant has put into the pots.
WinnableFor(c, cap) == SumSeats([t \in Seats |-> IF c[t] < cap THEN c[t] ELSE cap])

\* Main pot and side pots are cut where they should be: the pots up to the one
\* a player is all-in on hold, together, what that player can win, however the
\* all-ins of several rounds, the folds and the refunds came about.
SidePotsMatchContributions ==
  payouts = NoPayouts =>
    LET collected == [t \in Seats |-> put[t] - manager.inPlay[t]]
    IN  \A k \in 1 .. Len(manager.pots) : \A s \in manager.pots[k].allIn :
          PotTotal(SubSeq(manager.pots, 1, k)) = WinnableFor(collected, collected[s])

Best == {s \in Alive(manager) : \A t \in Alive(manager) : strength[t] <= strength[s]}

\* What the pots have brought s, refunds included.
Collected(s) == manager.balance[s] - (satDownWith[s] - put[s])

\* The best hands collect, together, all that the deepest of them can win, but for
\* the cents of the pots that make no chip.
BestHandsWinTheirPots ==
  payouts # NoPayouts =>
    LET deepest == CHOOSE s \in Best : \A t \in Best : put[t] <= put[s]
        won     == SumSeats([s \in Seats |-> IF s \in Best THEN Collected(s) ELSE 0])
    IN  WinnableFor(put, put[deepest]) - won \in 0 .. OddCents(manager.pots)

\* What the hands better than s's are entitled to out of what s could win.
ClaimedByBetter(s) ==
  LET better == {t \in Alive(manager) : strength[t] > strength[s]}
      caps   == {IF put[t] < put[s] THEN put[t] ELSE put[s] : t \in better}
  IN  IF better = {} THEN 0 ELSE WinnableFor(put, CHOOSE c \in caps : \A d \in caps : d <= c)

\* Nobody collects from a pot he is not in.  Of what a player's chips entitle him
\* to, he is only paid what no better hand is entitled to: all-in for less, one
\* "can only win" the main pot, and a worse hand in the same pots "shouldn't win
\* any" (pot_manager_test.go:288-290).
NobodyWinsMoreThanHisShare ==
  payouts # NoPayouts =>
    \A s \in Seats : Collected(s) <= WinnableFor(put, put[s]) - ClaimedByBetter(s)
=============================================================================
