---------------------------- MODULE PokerProofs -----------------------------
(***************************************************************************)
(* The games on top of the pot manager (PotsProofs.tla) proved for every   *)
(* number of participants, any stakes, antes and blinds, in three parts:   *)
(*   - PotManager.tla: the invariant PMInv is inductive and implies the    *)
(*     type invariant and the safety properties of its theorems;           *)
(*   - HoldEm.tla: transitions never collide, and, from the invariant      *)
(*     HInv, the types, the showdown after the river, and what becomes of  *)
(*     the chips: the stages of the hand call the manager only where       *)
(*     PotsProofs allows it;                                               *)
(*   - LittleL.tla: from the invariant LLInv, the types, that everybody    *)
(*     trades first, and what becomes of the chips.                        *)
(***************************************************************************)
EXTENDS HoldEm, PotManager, LittleL, PotsProofs

-----------------------------------------------------------------------------
(***************************************************************************)
(* A hand played through the pot manager.                                  *)
(***************************************************************************)

\* Until the winners are paid a hand is being played, with the chips the
\* participants sat down with.
ManagedHandIsPlayed ==
  payouts = NoPayouts => Playing(manager, acted) /\ Chips(manager) = SumSeats(satDownWith)

\* The game ends with a round; nothing is left to collect once it is paid.
GameEndsWithTheRound ==
  /\ manager.isGameOver => IsRoundOver(manager)
  /\ payouts # NoPayouts => manager.isGameOver /\ ~manager.needsPotCalculation

\* Until the blinds are posted nobody has bet or folded, and all can post them.
BlindsCanBePaid ==
  blindsDue /\ payouts = NoPayouts =>
    /\ manager.actionAmount = 0
    /\ \A s \in Seats : CanAct(manager, s) /\ manager.balance[s] > BigBlind

PMInv ==
  /\ PMTypeOK
  /\ ManagedHandIsPlayed
  /\ GameEndsWithTheRound
  /\ BlindsCanBePaid

-----------------------------------------------------------------------------
(* The initial states.                                                     *)

\* Everybody can pay the ante and the big blind.
LEMMA StakesFacts ==
  ASSUME NEW st \in [Seats -> TableStakes]
  PROVE  /\ st \in [Seats -> Nat]
         /\ \A s \in Seats : Ante < st[s] /\ BigBlind < st[s] - Ante
<1>1. \A s \in Seats : st[s] \in TableStakes /\ st[s] \in Nat /\ st[s] > Ante + BigBlind
  BY TableStakesAssumption
<1>2. Ante \in Nat /\ BigBlind \in Nat
  BY Constants
<1>3. QED
  BY <1>1, <1>2

\* The invariant holds of every state a hand starts in.
LEMMA InitIInv ==
  PMInit => PMInv
<1> SUFFICES ASSUME PMInit PROVE PMInv
  OBVIOUS
<1>1. satDownWith \in [Seats -> TableStakes] /\ manager = Seated(satDownWith) /\ payouts = NoPayouts /\ acted = {}
  BY DEF PMInit
<1>2. satDownWith \in [Seats -> Nat] /\ \A s \in Seats : Ante < satDownWith[s] /\ BigBlind < satDownWith[s] - Ante
  BY <1>1, StakesFacts
<1>3. /\ Playing(manager, acted) /\ Chips(manager) = SumSeats(satDownWith)
      /\ \A s \in Seats : CanAct(manager, s) /\ manager.balance[s] = satDownWith[s] - Ante
      /\ manager.inPlay = [s \in Seats |-> 0] /\ manager.actionAmount = 0 /\ manager.actionAtIndex = 0
      /\ ~manager.needsPotCalculation /\ ~manager.isGameOver /\ ~manager.inDecisionRound
  BY <1>1, <1>2, SeatingKeeps
<1>4. PMTypeOK
  <2>1. \A s \in Seats : satDownWith[s] - manager.balance[s] \in Nat
    BY <1>2, <1>3, Constants
  <2>2. put \in [Seats -> Nat] /\ 0 \in 0 .. N /\ 0 \in 0 .. MaxRounds
    BY <2>1, Constants, MaxRoundsAssumption DEF PMInit
  <2>3. QED
    BY <1>1, <1>3, <2>2 DEF PMTypeOK, PMInit, Playing
<1>5. QED
  BY <1>1, <1>2, <1>3, <1>4 DEF PMInv, ManagedHandIsPlayed, GameEndsWithTheRound, BlindsCanBePaid

-----------------------------------------------------------------------------
(* One lemma per kind of step.                                             *)

\* A bet moves chips from the balances to what the participants have put in.
LEMMA PutsIn ==
  ASSUME PMTypeOK, PutIn, manager' \in PotState, \A t \in Seats : manager'.balance[t] <= manager.balance[t]
  PROVE  put' \in [Seats -> Nat]
<1>1. ASSUME NEW t \in Seats
      PROVE  put[t] + manager.balance[t] - manager'.balance[t] \in Nat
  <2>1. put[t] \in Nat /\ manager.balance[t] \in Nat /\ manager'.balance[t] \in Nat
    BY DEF PMTypeOK, PotState
  <2>2. manager'.balance[t] <= manager.balance[t]
    OBVIOUS
  <2>3. QED
    BY <2>1, <2>2
<1>2. QED
  BY <1>1 DEF PutIn

\* What the invariant says of a step in which somebody's turn is completed.
LEMMA SomebodyActs ==
  ASSUME PMInv, NEW s, InTurn(manager, s)
  PROVE  /\ s \in Seats /\ ~manager.isGameOver /\ ~IsRoundOver(manager) /\ payouts = NoPayouts
         /\ Playing(manager, acted) /\ Chips(manager) = SumSeats(satDownWith) /\ manager \in PotState
<1>1. ~manager.isGameOver /\ ~IsRoundOver(manager)
  BY DEF InTurn
<1>2. payouts = NoPayouts
  BY <1>1 DEF PMInv, GameEndsWithTheRound
<1>3. Playing(manager, acted) /\ Chips(manager) = SumSeats(satDownWith)
  BY <1>2 DEF PMInv, ManagedHandIsPlayed
<1>4. s \in Seats /\ manager \in PotState
  BY <1>3, TurnFacts
<1>5. QED
  BY <1>1, <1>2, <1>3, <1>4

\* Each betting step keeps the hand in play and does not end the game.
LEMMA FoldsIInv ==
  ASSUME PMInv, NEW s \in Seats, ParticipantFolds(s)
  PROVE  PMInv'
<1>1. /\ ~blindsDue /\ InTurn(manager, s) /\ ~manager.inDecisionRound
      /\ Live(manager) = {s} => manager.inPlay[s] < manager.actionAmount
      /\ manager' = Fold(manager, s) /\ acted' = acted \cup {s}
      /\ UNCHANGED <<satDownWith, blindsDue, round, put, strength, payouts>>
  BY DEF ParticipantFolds, MayBet
<1>2. ~manager.isGameOver /\ payouts = NoPayouts /\ Playing(manager, acted) /\ Chips(manager) = SumSeats(satDownWith)
  BY <1>1, SomebodyActs
<1>3. Playing(manager', acted') /\ Chips(manager') = Chips(manager)
  BY <1>1, <1>2, FoldKeeps
<1>4. ~manager'.isGameOver
  <2> DEFINE r == [manager EXCEPT !.folded[s] = TRUE]
  <2>1. r \in PotState /\ r.isGameOver = manager.isGameOver
    BY <1>2 DEF Playing, PotState
  <2>2. manager' = CompleteTurn(r)
    BY <1>1 DEF Fold
  <2> HIDE DEF r
  <2>3. QED
    BY <1>2, <2>1, <2>2, CompleteTurnFields
<1>5. PMTypeOK'
  BY <1>1, <1>3 DEF PMInv, PMTypeOK, Playing
<1>6. QED
  BY <1>1, <1>2, <1>3, <1>4, <1>5
     DEF PMInv, ManagedHandIsPlayed, GameEndsWithTheRound, BlindsCanBePaid

\* ParticipantChecks.
LEMMA ChecksIInv ==
  ASSUME PMInv, NEW s \in Seats, ParticipantChecks(s)
  PROVE  PMInv'
<1>1. /\ ~blindsDue /\ InTurn(manager, s) /\ manager.inPlay[s] = manager.actionAmount
      /\ manager' = CompleteTurn(manager) /\ acted' = acted \cup {s}
      /\ UNCHANGED <<satDownWith, blindsDue, round, put, strength, payouts>>
  BY DEF ParticipantChecks, MayCheck, MayBet, Check
<1>2. /\ ~manager.isGameOver /\ payouts = NoPayouts /\ manager \in PotState
      /\ Playing(manager, acted) /\ Chips(manager) = SumSeats(satDownWith)
  BY <1>1, SomebodyActs
<1>3. Playing(manager', acted') /\ Chips(manager') = Chips(manager)
  BY <1>1, <1>2, PassKeeps
<1>4. ~manager'.isGameOver
  BY <1>1, <1>2, CompleteTurnFields
<1>5. PMTypeOK'
  BY <1>1, <1>3 DEF PMInv, PMTypeOK, Playing
<1>6. QED
  BY <1>1, <1>2, <1>3, <1>4, <1>5
     DEF PMInv, ManagedHandIsPlayed, GameEndsWithTheRound, BlindsCanBePaid

\* In a decision round nobody bets, so that whoever is in turn has matched the bet.
LEMMA DecisionAdvancesIInv ==
  ASSUME PMInv, NEW s \in Seats, DecisionAdvances(s)
  PROVE  PMInv'
<1>1. /\ InTurn(manager, s) /\ manager.inDecisionRound
      /\ manager' = CompleteTurn(manager) /\ acted' = acted \cup {s}
      /\ UNCHANGED <<satDownWith, blindsDue, round, put, strength, payouts>>
  BY DEF DecisionAdvances, AdvanceDecision
<1>2. /\ ~manager.isGameOver /\ payouts = NoPayouts /\ manager \in PotState
      /\ Playing(manager, acted) /\ Chips(manager) = SumSeats(satDownWith)
  BY <1>1, SomebodyActs
<1>3. manager.actionAmount = 0 /\ manager.inPlay[s] = 0
  <2>1. manager.actionAmount = 0
    BY <1>1, <1>2 DEF Playing, TurnsInOrder
  <2>2. manager.inPlay[s] \in Int /\ 0 <= manager.inPlay[s] /\ manager.inPlay[s] <= manager.actionAmount
    BY <1>2 DEF Playing, BetsAddUp, BetsInRange, PotState
  <2>3. QED
    BY <2>1, <2>2
<1>4. Playing(manager', acted') /\ Chips(manager') = Chips(manager)
  BY <1>1, <1>2, <1>3, PassKeeps
<1>5. /\ ~manager'.isGameOver /\ manager'.actionAmount = manager.actionAmount /\ manager'.balance = manager.balance
      /\ manager'.allIn = manager.allIn /\ manager'.folded = manager.folded
  BY <1>1, <1>2, CompleteTurnFields
<1>6. PMTypeOK'
  BY <1>1, <1>4 DEF PMInv, PMTypeOK, Playing
<1>7. QED
  BY <1>1, <1>2, <1>4, <1>5, <1>6
     DEF PMInv, ManagedHandIsPlayed, GameEndsWithTheRound, BlindsCanBePaid, CanAct

\* ParticipantCalls: the bet that is held is matched, or the caller is all-in.
LEMMA CallsIInv ==
  ASSUME PMInv, NEW s \in Seats, ParticipantCalls(s)
  PROVE  PMInv'
<1>1. /\ ~blindsDue /\ InTurn(manager, s) /\ MayCall(manager, s)
      /\ manager' = Call(manager, s) /\ PutIn /\ acted' = acted \cup {s}
      /\ UNCHANGED <<satDownWith, blindsDue, round, strength, payouts>>
  BY DEF ParticipantCalls, MayCall, MayBet
<1>2. /\ ~manager.isGameOver /\ payouts = NoPayouts /\ manager \in PotState
      /\ Playing(manager, acted) /\ Chips(manager) = SumSeats(satDownWith)
  BY <1>1, SomebodyActs
<1>3. /\ Playing(manager', acted') /\ Chips(manager') = Chips(manager)
      /\ \A t \in Seats : manager'.balance[t] <= manager.balance[t]
  BY <1>1, <1>2, CallKeeps
<1>4. ~manager'.isGameOver
  <2> DEFINE r == Adjust(manager, s, manager.actionAmount)
  <2>1. manager.actionAmount \in Nat /\ manager.inPlay[s] <= manager.actionAmount
    BY <1>2 DEF Playing, BetsAddUp, BetsInRange, PotState
  <2>2. manager' = CompleteTurn(r) /\ r = Adjust(manager, s, manager.actionAmount)
    BY <1>1 DEF Call
  <2> HIDE DEF r
  <2>3. r \in PotState /\ r.isGameOver = manager.isGameOver
    BY <1>2, <2>1, <2>2, AdjustKeeps
  <2>4. QED
    BY <1>2, <2>2, <2>3, CompleteTurnFields
<1>5. PMTypeOK'
  <2>1. put' \in [Seats -> Nat]
    BY <1>1, <1>3, PutsIn DEF PMInv, Playing
  <2>2. QED
    BY <1>1, <1>3, <2>1 DEF PMInv, PMTypeOK, Playing
<1>6. QED
  BY <1>1, <1>2, <1>3, <1>4, <1>5
     DEF PMInv, ManagedHandIsPlayed, GameEndsWithTheRound, BlindsCanBePaid

\* ParticipantBetsOrRaises: the raiser alone has acted, and holds the new bet.
LEMMA BetsOrRaisesIInv ==
  ASSUME PMInv, NEW s \in Seats, NEW bet \in Int, ParticipantBetsOrRaises(s, bet)
  PROVE  PMInv'
<1>1. /\ ~blindsDue /\ InTurn(manager, s) /\ MayRaise(manager, s, bet)
      /\ bet > manager.actionAmount /\ bet > manager.inPlay[s]
      /\ manager' = BetOrRaise(manager, s, bet) /\ PutIn /\ acted' = {s}
      /\ UNCHANGED <<satDownWith, blindsDue, round, strength, payouts>>
  BY DEF ParticipantBetsOrRaises, MayRaise, MayBet
<1>2. /\ ~manager.isGameOver /\ payouts = NoPayouts /\ manager \in PotState
      /\ Playing(manager, acted) /\ Chips(manager) = SumSeats(satDownWith)
  BY <1>1, SomebodyActs
<1>3. /\ Playing(manager', acted') /\ Chips(manager') = Chips(manager)
      /\ \A t \in Seats : manager'.balance[t] <= manager.balance[t]
  BY <1>1, <1>2, RaiseKeeps
<1>4. ~manager'.isGameOver
  <2> DEFINE raised == [manager EXCEPT !.actionStartIndex = s,
                                  !.actionAtIndex    = 0,
                                  !.actionDiffAmount = bet - manager.actionAmount,
                                  !.actionAmount     = bet]
             r      == Adjust(raised, s, bet)
  <2>1. bet \in Nat /\ bet - manager.actionAmount \in Nat /\ 0 \in 0 .. N /\ manager.inPlay[s] \in Int
    BY <1>1, <1>2, Constants DEF PotState
  <2>2. /\ raised \in PotState /\ raised.isGameOver = manager.isGameOver
        /\ raised.inPlay = manager.inPlay
    BY <1>2, <2>1 DEF PotState
  <2>3. manager' = CompleteTurn(r) /\ r = Adjust(raised, s, bet)
    BY <1>1, Zenon DEF BetOrRaise
  <2> HIDE DEF raised, r
  <2>4. raised.inPlay[s] <= bet
    BY <1>1, <2>1, <2>2
  <2>5. r \in PotState /\ r.isGameOver = raised.isGameOver
    BY <2>1, <2>2, <2>3, <2>4, AdjustKeeps
  <2>6. QED
    BY <1>2, <2>2, <2>3, <2>5, CompleteTurnFields
<1>5. PMTypeOK'
  <2>1. put' \in [Seats -> Nat]
    BY <1>1, <1>3, PutsIn DEF PMInv, Playing
  <2>2. QED
    BY <1>1, <1>3, <2>1 DEF PMInv, PMTypeOK, Playing
<1>6. QED
  BY <1>1, <1>2, <1>3, <1>4, <1>5
     DEF PMInv, ManagedHandIsPlayed, GameEndsWithTheRound, BlindsCanBePaid

\* The blinds: two payments and a new amount to call, nobody going all-in.
LEMMA PostBlindsIInv ==
  ASSUME PMInv, PostBlinds
  PROVE  PMInv'
<1>1. /\ blindsDue /\ ~manager.isGameOver /\ ~IsRoundOver(manager) /\ ~manager.inDecisionRound
      /\ manager.actionAmount = 0 /\ manager.actionAtIndex \in {0, N}
      /\ manager' = PayBlinds(manager) /\ PutIn /\ blindsDue' = FALSE
      /\ UNCHANGED <<satDownWith, round, acted, strength, payouts>>
  BY DEF PostBlinds, RoundIsFresh
<1>2. payouts = NoPayouts /\ Playing(manager, acted) /\ Chips(manager) = SumSeats(satDownWith)
  BY <1>1 DEF PMInv, GameEndsWithTheRound, ManagedHandIsPlayed
<1>3. manager.actionAtIndex = 0 /\ \A s \in Seats : CanAct(manager, s) /\ manager.balance[s] > BigBlind
  <2>1. manager.actionAtIndex # N
    BY <1>1, Constants DEF IsRoundOver
  <2>2. QED
    BY <1>1, <1>2, <2>1 DEF PMInv, BlindsCanBePaid
<1>4. /\ Playing(manager', acted)
      /\ Chips(manager') = Chips(manager)
      /\ \A s \in Seats : /\ CanAct(manager', s) /\ manager'.balance[s] <= manager.balance[s]
                          /\ AllInAmount(manager', s) = manager.balance[s]
      /\ manager'.actionAmount = BigBlind /\ manager'.actionAtIndex = 0 /\ ~manager'.needsPotCalculation
      /\ manager'.isGameOver = manager.isGameOver /\ ~manager'.inDecisionRound
  BY <1>1, <1>2, <1>3, BlindsKeep
<1>5. PMTypeOK'
  <2>1. put' \in [Seats -> Nat]
    BY <1>1, <1>4, PutsIn DEF PMInv, Playing
  <2>2. QED
    BY <1>1, <1>4, <2>1 DEF PMInv, PMTypeOK, Playing
<1>6. QED
  BY <1>1, <1>2, <1>4, <1>5
     DEF PMInv, ManagedHandIsPlayed, GameEndsWithTheRound, BlindsCanBePaid

\* StartDecisionRound: nothing is in play, so nothing is lost by clearing it.
LEMMA DecisionRoundStartsIInv ==
  ASSUME PMInv, DecisionRoundStarts
  PROVE  PMInv'
<1>1. /\ ~manager.isGameOver /\ manager.actionAmount = 0 /\ ~manager.needsPotCalculation
      /\ manager' = StartDecisionRound(manager)
      /\ UNCHANGED <<satDownWith, blindsDue, round, acted, put, strength, payouts>>
  BY DEF DecisionRoundStarts, RoundIsFresh
<1>2. payouts = NoPayouts /\ Playing(manager, acted) /\ Chips(manager) = SumSeats(satDownWith)
  BY <1>1 DEF PMInv, GameEndsWithTheRound, ManagedHandIsPlayed
<1>3. /\ Playing(manager', acted)
      /\ Chips(manager') = Chips(manager)
      /\ manager'.balance = manager.balance /\ manager'.allIn = manager.allIn /\ manager'.folded = manager.folded
      /\ manager'.inPlay = [s \in Seats |-> 0]
      /\ manager'.actionAmount = 0 /\ manager'.actionAtIndex \in {0, N}
      /\ manager'.isGameOver = manager.isGameOver /\ manager'.inDecisionRound /\ ~manager'.needsPotCalculation
  BY <1>1, <1>2, DecisionRoundKeeps
<1>4. PMTypeOK'
  BY <1>1, <1>3 DEF PMInv, PMTypeOK, Playing
<1>5. QED
  BY <1>1, <1>2, <1>3, <1>4
     DEF PMInv, ManagedHandIsPlayed, GameEndsWithTheRound, BlindsCanBePaid, CanAct

\* NextRound collects the bets and opens the next round.
LEMMA RoundEndsIInv ==
  ASSUME PMInv, RoundEnds
  PROVE  PMInv'
<1>1. /\ ~manager.isGameOver /\ IsRoundOver(manager) /\ round < MaxRounds
      /\ manager' = NextRound(manager) /\ round' = round + 1 /\ acted' = {}
      /\ UNCHANGED <<satDownWith, blindsDue, put, strength, payouts>>
  BY DEF RoundEnds
<1>2. payouts = NoPayouts /\ Playing(manager, acted) /\ Chips(manager) = SumSeats(satDownWith)
  BY <1>1 DEF PMInv, GameEndsWithTheRound, ManagedHandIsPlayed
<1>3. /\ Playing(manager', acted')
      /\ Chips(manager') = Chips(manager)
      /\ manager'.allIn = manager.allIn /\ manager'.folded = manager.folded
      /\ manager'.inPlay = [s \in Seats |-> 0]
      /\ manager'.actionAmount = 0 /\ manager'.actionAtIndex \in {0, N}
      /\ manager'.isGameOver = manager.isGameOver /\ ~manager'.inDecisionRound /\ ~manager'.needsPotCalculation
      /\ AllInAmounts(manager) = {} => manager'.balance = manager.balance
  BY <1>1, <1>2, NextRoundKeeps
<1>4. PMTypeOK'
  <2>1. round' \in 0 .. MaxRounds
    BY <1>1, MaxRoundsAssumption DEF PMInv, PMTypeOK
  <2>2. QED
    BY <1>1, <1>3, <2>1 DEF PMInv, PMTypeOK, Playing
<1>5. BlindsCanBePaid'
  <2>1. blindsDue => \A s \in Seats : CanAct(manager, s)
    BY <1>2 DEF PMInv, BlindsCanBePaid
  <2>2. (\A s \in Seats : CanAct(manager, s)) => AllInAmounts(manager) = {}
    BY DEF CanAct, AllInAmounts, AllInFor
  <2>3. QED
    BY <1>1, <1>2, <1>3, <2>1, <2>2 DEF PMInv, BlindsCanBePaid, CanAct
<1>6. QED
  BY <1>1, <1>2, <1>3, <1>4, <1>5 DEF PMInv, ManagedHandIsPlayed, GameEndsWithTheRound

\* EndGame only marks the end.
LEMMA GameEndsIInv ==
  ASSUME PMInv, GameEnds
  PROVE  PMInv'
<1>1. /\ ~manager.isGameOver /\ IsRoundOver(manager) /\ manager' = EndGame(manager)
      /\ UNCHANGED <<satDownWith, blindsDue, round, acted, put, strength, payouts>>
  BY DEF GameEnds
<1>2. payouts = NoPayouts /\ Playing(manager, acted) /\ Chips(manager) = SumSeats(satDownWith)
  BY <1>1 DEF PMInv, GameEndsWithTheRound, ManagedHandIsPlayed
<1>3. /\ Playing(manager', acted)
      /\ Chips(manager') = Chips(manager)
      /\ manager'.isGameOver
      /\ manager'.balance = manager.balance /\ manager'.pots = manager.pots
      /\ manager'.inPlay = manager.inPlay /\ manager'.amountInPlay = manager.amountInPlay
      /\ manager'.folded = manager.folded /\ manager'.allIn = manager.allIn
      /\ manager'.needsPotCalculation = manager.needsPotCalculation
      /\ manager'.actionAtIndex = manager.actionAtIndex
  BY <1>1, <1>2, EndGameKeeps
<1>4. manager'.actionAmount = manager.actionAmount
  BY <1>1, <1>2 DEF EndGame, Playing, PotState
<1>5. PMTypeOK'
  BY <1>1, <1>3 DEF PMInv, PMTypeOK, Playing
<1>6. QED
  BY <1>1, <1>2, <1>3, <1>4, <1>5
     DEF PMInv, ManagedHandIsPlayed, GameEndsWithTheRound, BlindsCanBePaid, IsRoundOver, CanAct

\* PayWinners collects what is left and pays it out of the pots.
LEMMA WinnersArePaidFacts ==
  ASSUME PMInv, NEW ranks \in HandStrengths, WinnersArePaid(ranks)
  PROVE  LET calc   == CalculatePot(manager)
             paying == Payouts(calc.pots, SortedTiers(Alive(calc), ranks))
         IN
         /\ payouts = NoPayouts /\ IsRoundOver(manager)
         /\ Playing(manager, acted) /\ Chips(manager) = SumSeats(satDownWith)
         /\ calc \in PotState /\ calc.actionAtIndex = manager.actionAtIndex
         /\ calc.isGameOver /\ ~calc.needsPotCalculation
         /\ SumSeats(calc.balance) + PotTotal(calc.pots) = SumSeats(satDownWith)
         /\ Contested(calc)
         /\ ranks \in [Seats -> 1 .. N]
         /\ manager' = Paid(calc, paying) /\ payouts' = paying /\ paying \in [Seats -> Nat]
         /\ strength' = ranks /\ UNCHANGED <<satDownWith, blindsDue, round, put, acted>>
<1> DEFINE calc   == CalculatePot(manager)
           tiers  == SortedTiers(Alive(calc), ranks)
           paying == Payouts(calc.pots, tiers)
<1>1. /\ manager.isGameOver /\ payouts = NoPayouts
      /\ manager' = Paid(calc, Payouts(calc.pots, SortedTiers(Alive(manager), ranks)))
      /\ payouts' = Payouts(calc.pots, SortedTiers(Alive(manager), ranks)) /\ strength' = ranks
      /\ UNCHANGED <<satDownWith, blindsDue, round, put, acted>>
  BY Zenon DEF WinnersArePaid
<1>2. IsRoundOver(manager) /\ Playing(manager, acted) /\ Chips(manager) = SumSeats(satDownWith)
  BY <1>1 DEF PMInv, GameEndsWithTheRound, ManagedHandIsPlayed
<1>3. /\ calc \in PotState
      /\ calc.allIn = manager.allIn /\ calc.folded = manager.folded
      /\ calc.actionAtIndex = manager.actionAtIndex /\ calc.isGameOver = manager.isGameOver
      /\ calc.inDecisionRound = manager.inDecisionRound /\ ~calc.needsPotCalculation
      /\ SumSeats(calc.balance) + PotTotal(calc.pots) = Chips(manager)
      /\ Contested(calc)
  BY <1>2, CollectingFacts
<1> HIDE DEF calc
<1>4. Alive(manager) = Alive(calc)
  BY <1>3 DEF Alive
<1>5. ranks \in [Seats -> 1 .. N]
  BY DEF HandStrengths
<1>6. tiers \in Seq(SUBSET Seats)
  BY <1>5, SortedTiersType DEF Alive
<1>7. paying \in [Seats -> Nat]
  <2> HIDE DEF tiers
  <2>1. calc.pots \in Seq(Pot)
    BY <1>3 DEF PotState
  <2>2. QED
    BY <1>6, <2>1, PayoutsType
<1> HIDE DEF tiers, paying
<1>8. manager' = Paid(calc, paying) /\ payouts' = paying
  BY <1>1, <1>4 DEF paying, tiers
<1>9. QED
  BY <1>1, <1>2, <1>3, <1>5, <1>7, <1>8 DEF calc, paying, tiers

\* Paying only changes the balances.
LEMMA PaidFacts ==
  ASSUME NEW q \in PotState, NEW paying \in [Seats -> Nat]
  PROVE  LET p == Paid(q, paying) IN
         /\ p \in PotState
         /\ p.actionAtIndex = q.actionAtIndex /\ p.isGameOver = q.isGameOver
         /\ p.needsPotCalculation = q.needsPotCalculation
<1> DEFINE balance == [s \in Seats |-> q.balance[s] + paying[s]]
           p       == Paid(q, paying)
<1>1. p = [q EXCEPT !.balance = balance]
  BY Zenon DEF Paid
<1>2. balance \in [Seats -> Nat]
  BY DEF PotState
<1> HIDE DEF balance, p
<1>3. QED
  BY <1>1, <1>2 DEF PotState, p

\* Paying the winners collects what is left and only adds to the balances.
LEMMA WinnersArePaidIInv ==
  ASSUME PMInv, NEW ranks \in HandStrengths, WinnersArePaid(ranks)
  PROVE  PMInv'
<1> DEFINE calc   == CalculatePot(manager)
           paying == Payouts(calc.pots, SortedTiers(Alive(calc), ranks))
<1>1. /\ IsRoundOver(manager)
      /\ calc \in PotState /\ calc.actionAtIndex = manager.actionAtIndex
      /\ calc.isGameOver /\ ~calc.needsPotCalculation
      /\ ranks \in [Seats -> 1 .. N]
      /\ manager' = Paid(calc, paying) /\ payouts' = paying /\ paying \in [Seats -> Nat]
      /\ strength' = ranks /\ UNCHANGED <<satDownWith, blindsDue, round, put, acted>>
  BY WinnersArePaidFacts
<1> HIDE DEF calc, paying
<1>2. /\ manager' \in PotState
      /\ manager'.actionAtIndex = calc.actionAtIndex /\ manager'.isGameOver = calc.isGameOver
      /\ manager'.needsPotCalculation = calc.needsPotCalculation
  BY <1>1, PaidFacts
<1>3. payouts' # NoPayouts
  BY <1>1, NoPayoutsAssumption
<1>4. ranks \in [Seats -> 0 .. N]
  <2>1. \A s \in Seats : ranks[s] \in 0 .. N
    BY <1>1, Constants
  <2>2. QED
    BY <1>1, <2>1
<1>5. PMTypeOK'
  BY <1>1, <1>2, <1>4 DEF PMInv, PMTypeOK
<1>6. QED
  BY <1>1, <1>2, <1>3, <1>5
     DEF PMInv, ManagedHandIsPlayed, GameEndsWithTheRound, BlindsCanBePaid, IsRoundOver

\* No step breaks the invariant.
LEMMA NextIInv ==
  PMInv /\ [PMNext]_pmVars => PMInv'
<1> SUFFICES ASSUME PMInv, [PMNext]_pmVars PROVE PMInv'
  OBVIOUS
<1>1. ASSUME PostBlinds PROVE PMInv'
  BY <1>1, PostBlindsIInv
<1>2. ASSUME NEW s \in Seats, ParticipantFolds(s) PROVE PMInv'
  BY <1>2, FoldsIInv
<1>3. ASSUME NEW s \in Seats, ParticipantChecks(s) PROVE PMInv'
  BY <1>3, ChecksIInv
<1>4. ASSUME NEW s \in Seats, ParticipantCalls(s) PROVE PMInv'
  BY <1>4, CallsIInv
<1>5. ASSUME NEW s \in Seats,
             NEW bet \in manager.actionAmount + 1 .. AllInAmount(manager, s),
             ParticipantBetsOrRaises(s, bet)
      PROVE  PMInv'
  BY <1>5, BetsOrRaisesIInv
<1>6. ASSUME NEW s \in Seats, DecisionAdvances(s) PROVE PMInv'
  BY <1>6, DecisionAdvancesIInv
<1>7. ASSUME DecisionRoundStarts PROVE PMInv'
  BY <1>7, DecisionRoundStartsIInv
<1>8. ASSUME RoundEnds PROVE PMInv'
  BY <1>8, RoundEndsIInv
<1>9. ASSUME GameEnds PROVE PMInv'
  BY <1>9, GameEndsIInv
<1>10. ASSUME NEW ranks \in HandStrengths, WinnersArePaid(ranks) PROVE PMInv'
  BY <1>10, WinnersArePaidIInv
<1>11. ASSUME UNCHANGED pmVars PROVE PMInv'
  BY <1>11 DEF pmVars, PMInv, PMTypeOK, ManagedHandIsPlayed, GameEndsWithTheRound, BlindsCanBePaid
<1>12. QED
  BY <1>1, <1>2, <1>3, <1>4, <1>5, <1>6, <1>7, <1>8, <1>9, <1>10, <1>11 DEF PMNext, HandIsPaid

\* The inductive invariant holds in every reachable state of a hand.
THEOREM Invariance == PMSpec => []PMInv
<1>1. PMInit => PMInv
  BY InitIInv
<1>2. PMInv /\ [PMNext]_pmVars => PMInv'
  BY NextIInv
<1>3. QED
  BY <1>1, <1>2, PTL DEF PMSpec
-----------------------------------------------------------------------------
(* Every chip of the pots is paid.                                         *)

\* PayWinners pays the chips of the pots; nothing else is done to the payouts, and
\* nothing at all once they are made.
LEMMA NextPaysToTheChip ==
  ASSUME PMInv, PotsArePaidToTheChip, [PMNext]_pmVars
  PROVE  PotsArePaidToTheChip'
<1>1. ASSUME payouts = NoPayouts, payouts' = payouts
      PROVE  PotsArePaidToTheChip'
  BY <1>1 DEF PotsArePaidToTheChip
<1>2. ~manager.isGameOver => payouts = NoPayouts
  BY DEF PMInv, GameEndsWithTheRound
<1>3. ASSUME PostBlinds \/ DecisionRoundStarts \/ RoundEnds \/ GameEnds
      PROVE  PotsArePaidToTheChip'
  BY <1>1, <1>2, <1>3 DEF PostBlinds, DecisionRoundStarts, RoundEnds, GameEnds
<1>4. ASSUME NEW s \in Seats,
             \/ ParticipantFolds(s) \/ ParticipantChecks(s) \/ ParticipantCalls(s)
             \/ DecisionAdvances(s) \/ \E bet \in Int : ParticipantBetsOrRaises(s, bet)
      PROVE  PotsArePaidToTheChip'
  <2>1. InTurn(manager, s) /\ payouts' = payouts
    BY <1>4 DEF ParticipantFolds, ParticipantChecks, ParticipantCalls, DecisionAdvances,
                ParticipantBetsOrRaises, MayBet, MayCheck, MayCall, MayRaise
  <2>2. QED
    BY <1>1, <2>1, SomebodyActs
<1>5. ASSUME NEW ranks \in HandStrengths, WinnersArePaid(ranks)
      PROVE  PotsArePaidToTheChip'
  <2> DEFINE calc   == CalculatePot(manager)
             paying == Payouts(calc.pots, SortedTiers(Alive(calc), ranks))
  <2>1. /\ calc \in PotState /\ Contested(calc)
        /\ SumSeats(calc.balance) + PotTotal(calc.pots) = SumSeats(satDownWith)
        /\ ranks \in [Seats -> 1 .. N]
        /\ manager' = Paid(calc, paying) /\ satDownWith' = satDownWith
    BY <1>5, WinnersArePaidFacts
  <2> HIDE DEF calc
  <2>2. SumSeats(manager'.balance) + OddCents(calc.pots) = SumSeats(calc.balance) + PotTotal(calc.pots)
    BY <2>1, PotsArePaid
  <2> HIDE DEF paying
  <2>3. manager'.pots = calc.pots
    BY <2>1 DEF Paid, PotState
  <2>4. QED
    BY <2>1, <2>2, <2>3 DEF PotsArePaidToTheChip
<1>6. ASSUME UNCHANGED pmVars
      PROVE  PotsArePaidToTheChip'
  BY <1>6 DEF pmVars, PotsArePaidToTheChip
<1>7. QED
  BY <1>3, <1>4, <1>5, <1>6 DEF PMNext, HandIsPaid

-----------------------------------------------------------------------------
(* Where the side pots are cut.                                            *)

\* The pots hold what everybody has put in up to a level, c being what each has
\* put in; a pot somebody is all-in on ends where he does, higher than the ones
\* below it, and only the last one is open.
CutAt(pots, c, level) ==
  /\ PotTotal(pots) = WinnableFor(c, level)
  /\ \A k \in 1 .. Len(pots) : \A s \in pots[k].allIn :
       0 < c[s] /\ c[s] <= level /\ UpTo(pots, k) = WinnableFor(c, c[s])
  /\ \A k \in 1 .. Len(pots) - 1 : pots[k].allIn # {}
  /\ \A k, l \in 1 .. Len(pots) :
       k <= l => \A s \in pots[k].allIn : \A t \in pots[l].allIn :
                   IF k = l THEN c[s] = c[t] ELSE c[s] < c[t]

\* Once a refund has left somebody with more put in than the pots go up to, at most
\* one of the players can still bet, and no round opens for him.
BettingIsOver(q) ==
  /\ \A t \in Seats : q.inPlay[t] = 0
  /\ \A s, t \in Live(q) : s = t
  /\ IsRoundOver(q) \/ q.inDecisionRound

\* Whoever can still bet, or has bet in this round, is in all the pots.
CutWhereTheyShould(q, c, level) ==
  /\ CutAt(q.pots, c, level)
  /\ \A t \in Seats : CanAct(q, t) \/ q.inPlay[t] # 0 => c[t] >= level
  /\ (\A t \in Seats : c[t] <= level) \/ BettingIsOver(q)

\* What each participant has put into the pots.
InPots == [t \in Seats |-> put[t] - manager.inPlay[t]]

SidePotsAreCut ==
  payouts = NoPayouts =>
    /\ InPots \in [Seats -> Nat]
    /\ \E level \in Nat : CutWhereTheyShould(manager, InPots, level)

\* What holds of the bets of a round that are collected on top of a level.
BetOnTop(q, c, level, d) ==
  /\ c \in [Seats -> Nat] /\ d \in [Seats -> Nat] /\ level \in Nat
  /\ \A t \in Seats :
       /\ q.inPlay[t] >= 0 /\ d[t] = c[t] + q.inPlay[t]
       /\ c[t] <= level
       /\ q.inPlay[t] # 0 => c[t] = level

\* Betting on top of a level adds, up to any cap, what the bets are up to that cap,
\* and takes nothing from what could be won below the level.
LEMMA BettingOnTop ==
  ASSUME NEW q \in PotState, NEW c, NEW level, NEW d, BetOnTop(q, c, level, d)
  PROVE  /\ \A cap \in Nat : WinnableFor(d, level + cap) = WinnableFor(c, level) + Capped(q, cap)
         /\ \A low \in 0 .. level : WinnableFor(d, low) = WinnableFor(c, low)
<1>1. N \in Nat /\ Seats = 0 .. N - 1 /\ level \in Nat
  BY Constants DEF Seats, BetOnTop
<1>2. \A t \in Seats :
        /\ c[t] \in Nat /\ d[t] \in Nat /\ q.inPlay[t] \in Int
        /\ q.inPlay[t] >= 0 /\ d[t] = c[t] + q.inPlay[t]
        /\ c[t] <= level /\ (q.inPlay[t] # 0 => c[t] = level)
  <2>1. q.inPlay \in [Seats -> Int]
    BY DEF PotState
  <2>2. c \in [Seats -> Nat] /\ d \in [Seats -> Nat]
    BY DEF BetOnTop
  <2>3. ASSUME NEW t \in Seats
        PROVE  /\ q.inPlay[t] >= 0 /\ d[t] = c[t] + q.inPlay[t]
               /\ c[t] <= level /\ (q.inPlay[t] # 0 => c[t] = level)
    BY Zenon DEF BetOnTop
  <2>4. QED
    BY <2>1, <2>2, <2>3
<1> DEFINE upto(f, cap) == [t \in Seats |-> IF f[t] < cap THEN f[t] ELSE cap]
           capped(cap)  == [t \in Seats |-> IF q.inPlay[t] > cap THEN cap ELSE q.inPlay[t]]
<1>6. /\ \A f, cap : WinnableFor(f, cap) = Sum(upto(f, cap), N)
      /\ \A cap : Capped(q, cap) = Sum(capped(cap), N)
  BY Zenon DEF WinnableFor, Capped, SumSeats
<1>3. ASSUME NEW cap \in Nat
      PROVE  Sum(upto(d, level + cap), N) = Sum(upto(c, level), N) + Sum(capped(cap), N)
  <2> DEFINE below == upto(c, level)
             bets  == capped(cap)
             all   == upto(d, level + cap)
  <2>1. ASSUME NEW t \in Seats
        PROVE  below[t] \in Int /\ bets[t] \in Int /\ all[t] = below[t] + bets[t]
    <3>2. /\ below[t] = IF c[t] < level THEN c[t] ELSE level
          /\ bets[t] = IF q.inPlay[t] > cap THEN cap ELSE q.inPlay[t]
          /\ all[t] = IF d[t] < level + cap THEN d[t] ELSE level + cap
      OBVIOUS
    <3> HIDE DEF below, bets, all
    <3>3. QED
      BY <1>1, <1>2, <3>2
  <2> HIDE DEF below, bets, all
  <2>2. \A t \in 0 .. N - 1 :
          below[t] \in Int /\ bets[t] \in Int /\ all[t] = below[t] + bets[t]
    BY <1>1, <2>1
  <2>3. Sum(all, N) = Sum(below, N) + Sum(bets, N)
    BY <1>1, <2>2, SumLinear
  <2>4. QED
    BY <2>3 DEF all, below, bets
<1>4. ASSUME NEW low \in 0 .. level
      PROVE  Sum(upto(d, low), N) = Sum(upto(c, low), N)
  <2> DEFINE before == upto(c, low)
             after  == upto(d, low)
  <2>1. ASSUME NEW t \in Seats
        PROVE  after[t] = before[t]
    <3>2. /\ before[t] = IF c[t] < low THEN c[t] ELSE low
          /\ after[t] = IF d[t] < low THEN d[t] ELSE low
      OBVIOUS
    <3> HIDE DEF before, after
    <3>3. QED
      BY <1>1, <1>2, <3>2
  <2> HIDE DEF before, after
  <2>2. \A t \in 0 .. N - 1 : after[t] = before[t]
    BY <1>1, <2>1
  <2>3. Sum(after, N) = Sum(before, N)
    BY <1>1, <2>2, SumSame
  <2>4. QED
    BY <2>3 DEF before, after
<1> HIDE DEF upto, capped
<1>5. QED
  BY <1>3, <1>4, <1>6

\* Nothing can be won for nothing.
LEMMA NothingToWin ==
  ASSUME NEW c \in [Seats -> Nat]
  PROVE  WinnableFor(c, 0) = 0
<1> DEFINE upto == [t \in Seats |-> IF c[t] < 0 THEN c[t] ELSE 0]
<1>1. \A t \in Seats : upto[t] = 0
  OBVIOUS
<1>2. WinnableFor(c, 0) = SumSeats(upto)
  BY Zenon DEF WinnableFor
<1> HIDE DEF upto
<1>3. QED
  BY <1>1, <1>2, SumOfZeros

\* The open pot, when one has to be opened, changes nothing.
LEMMA OpenPotsCut ==
  ASSUME NEW pots \in Seq(Pot), pots # <<>>, NEW c, NEW level, CutAt(pots, c, level)
  PROVE  LET open == OpenPots(pots) IN
         /\ open \in Seq(Pot) /\ open # <<>> /\ open[Len(open)].allIn = {}
         /\ CutAt(open, c, level)
<1> DEFINE open == OpenPots(pots)
<1>1. open \in Seq(Pot) /\ open # <<>> /\ PotTotal(open) = PotTotal(pots)
  BY OpenPotsFacts
<1>2. EmptyPot \in Pot /\ EmptyPot.allIn = {}
  BY DEF EmptyPot, Pot
<1>3. CASE pots[Len(pots)].allIn # {}
  <2>1. open = Append(pots, EmptyPot)
    BY <1>3 DEF OpenPots
  <2> HIDE DEF open
  <2>2. /\ Len(pots) \in Nat \ {0} /\ Len(open) = Len(pots) + 1
        /\ \A k \in 1 .. Len(pots) : open[k] = pots[k]
        /\ open[Len(open)] = EmptyPot
    BY <1>2, <2>1
  <2>3. \A k \in 1 .. Len(pots) : UpTo(open, k) = UpTo(pots, k)
    <3>1. ASSUME NEW k \in 1 .. Len(pots)
          PROVE  UpTo(open, k) = UpTo(pots, k)
      <4>1. k \in 0 .. Len(pots) /\ k <= Len(open) /\ \A i \in 1 .. k : open[i].amount = pots[i].amount
        BY <2>2
      <4>2. QED
        BY <1>1, <4>1, UpToSame
    <3>2. QED
      BY <3>1
  <2>4. \A k \in 1 .. Len(open) : \A s \in open[k].allIn :
          k \in 1 .. Len(pots) /\ s \in pots[k].allIn
    <3>1. ASSUME NEW k \in 1 .. Len(open), NEW s \in open[k].allIn
          PROVE  k \in 1 .. Len(pots) /\ s \in pots[k].allIn
      <4>1. k # Len(open)
        BY <1>2, <2>2, <3>1
      <4>2. QED
        BY <2>2, <4>1
    <3>2. QED
      BY <3>1
  <2>5. \A k \in 1 .. Len(open) - 1 : open[k].allIn # {}
    <3>1. ASSUME NEW k \in 1 .. Len(open) - 1
          PROVE  open[k].allIn # {}
      <4>1. k \in 1 .. Len(pots) /\ (k = Len(pots) \/ k \in 1 .. Len(pots) - 1)
        BY <2>2
      <4>2. QED
        BY <1>3, <2>2, <4>1 DEF CutAt
    <3>2. QED
      BY <3>1
  <2>6. CutAt(open, c, level)
    <3>1. \A k \in 1 .. Len(open) : \A s \in open[k].allIn :
            0 < c[s] /\ c[s] <= level /\ UpTo(open, k) = WinnableFor(c, c[s])
      BY <2>3, <2>4 DEF CutAt
    <3>2. \A k, l \in 1 .. Len(open) :
            k <= l => \A s \in open[k].allIn : \A t \in open[l].allIn :
                        IF k = l THEN c[s] = c[t] ELSE c[s] < c[t]
      BY <2>4, Zenon DEF CutAt
    <3>3. PotTotal(open) = WinnableFor(c, level)
      BY <1>1 DEF CutAt, open
    <3>4. QED
      BY <2>5, <3>1, <3>2, <3>3 DEF CutAt
  <2>7. QED
    BY <1>1, <1>2, <2>2, <2>6 DEF open
<1>4. CASE pots[Len(pots)].allIn = {}
  <2>1. open = pots
    BY <1>4 DEF OpenPots
  <2>2. QED
    BY <1>4, <2>1
<1>5. QED
  BY <1>3, <1>4

\* The all-ins of earlier rounds are cut where they were.
LEMMA OldCutsStay ==
  ASSUME NEW q \in PotState, NEW c, NEW level, NEW d, BetOnTop(q, c, level, d),
         NEW pots \in Seq(Pot), CutAt(pots, c, level),
         \A k \in 1 .. Len(pots) : \A s \in pots[k].allIn : q.inPlay[s] = 0
  PROVE  \A k \in 1 .. Len(pots) : \A s \in pots[k].allIn :
           /\ s \in Seats /\ d[s] = c[s] /\ 0 < d[s] /\ d[s] <= level
           /\ UpTo(pots, k) = WinnableFor(d, d[s])
<1> SUFFICES ASSUME NEW k \in 1 .. Len(pots), NEW s \in pots[k].allIn
             PROVE  /\ s \in Seats /\ d[s] = c[s] /\ 0 < d[s] /\ d[s] <= level
                    /\ UpTo(pots, k) = WinnableFor(d, d[s])
  OBVIOUS
<1>1. s \in Seats
  <2>1. pots[k] \in Pot
    OBVIOUS
  <2>2. QED
    BY <2>1 DEF Pot
<1>2. c[s] \in Nat /\ d[s] = c[s] + q.inPlay[s] /\ c[s] <= level /\ level \in Nat
  BY <1>1 DEF BetOnTop
<1>7. q.inPlay[s] = 0
  OBVIOUS
<1>3. d[s] = c[s] /\ d[s] \in 0 .. level
  BY <1>2, <1>7
<1>4. WinnableFor(d, d[s]) = WinnableFor(c, d[s])
  BY <1>3, BettingOnTop
<1>5. 0 < c[s] /\ UpTo(pots, k) = WinnableFor(c, c[s])
  BY DEF CutAt
<1>6. QED
  BY <1>1, <1>2, <1>3, <1>4, <1>5

\* Without an all-in the bets go into the open pot, up to the amount to call.
LEMMA OnePotIsCut ==
  ASSUME NEW q \in PotState, BetsInRange(q), q.pots # <<>>, AllInBefore(q),
         NEW c, NEW level, NEW d, BetOnTop(q, c, level, d), CutAt(q.pots, c, level)
  PROVE  LET open == OpenPots(q.pots)
             more == [open EXCEPT ![Len(open)].amount = @ + SumSeats(q.inPlay)]
         IN  CutAt(more, d, level + q.actionAmount)
<1> DEFINE open == OpenPots(q.pots)
           bets == SumSeats(q.inPlay)
           more == [open EXCEPT ![Len(open)].amount = @ + bets]
<1>1. /\ open \in Seq(Pot) /\ open # <<>> /\ open[Len(open)].allIn = {}
      /\ CutAt(open, c, level)
  BY OpenPotsCut DEF PotState
<1>2. bets \in Nat /\ Capped(q, q.actionAmount) = bets /\ q.actionAmount \in Nat
  BY CappedFacts DEF PotState
<1>3. \A k \in 1 .. Len(open) : \A s \in open[k].allIn : q.inPlay[s] = 0
  <2>1. open = q.pots \/ (open = Append(q.pots, EmptyPot) /\ EmptyPot.allIn = {})
    BY DEF OpenPots, EmptyPot
  <2>2. q.pots \in Seq(Pot)
    BY DEF PotState
  <2> HIDE DEF open
  <2>3. QED
    BY <2>1, <2>2 DEF AllInBefore
<1> HIDE DEF open, bets
<1>4. more \in Seq(Pot) /\ more # <<>> /\ PotTotal(more) = PotTotal(open) + bets
  BY <1>1, <1>2, PotTotalRaise
<1>5. /\ Len(open) \in Nat \ {0} /\ Len(more) = Len(open)
      /\ \A k \in 1 .. Len(open) : more[k].allIn = open[k].allIn
      /\ \A k \in 1 .. Len(open) - 1 : more[k] = open[k]
  <2>1. /\ Len(open) \in Nat \ {0} /\ Len(more) = Len(open)
        /\ \A k \in 1 .. Len(open) :
             more[k] = IF k = Len(open) THEN [open[k] EXCEPT !.amount = @ + bets] ELSE open[k]
    BY <1>1
  <2>2. \A k \in 1 .. Len(open) : open[k] \in Pot
    BY <1>1
  <2>3. ASSUME NEW k \in 1 .. Len(open)
        PROVE  [open[k] EXCEPT !.amount = @ + bets].allIn = open[k].allIn
    BY <2>2 DEF Pot
  <2> HIDE DEF more
  <2>4. \A k \in 1 .. Len(open) : more[k].allIn = open[k].allIn
    BY <2>1, <2>3
  <2>5. ASSUME NEW k \in 1 .. Len(open) - 1
        PROVE  more[k] = open[k]
    <3>1. k \in 1 .. Len(open) /\ k # Len(open)
      BY <2>1
    <3>2. QED
      BY <2>1, <3>1
  <2>6. QED
    BY <2>1, <2>4, <2>5
<1> HIDE DEF more
<1>6. PotTotal(more) = WinnableFor(d, level + q.actionAmount)
  <2>1. WinnableFor(d, level + q.actionAmount) = WinnableFor(c, level) + bets
    BY <1>2, BettingOnTop
  <2>2. QED
    BY <1>1, <1>4, <2>1 DEF CutAt
<1>7. ASSUME NEW k \in 1 .. Len(more), NEW s \in more[k].allIn
      PROVE  /\ d[s] = c[s] /\ 0 < d[s] /\ d[s] <= level + q.actionAmount
             /\ UpTo(more, k) = WinnableFor(d, d[s])
  <2>1. k \in 1 .. Len(open) - 1 /\ k \in 1 .. Len(open) /\ s \in open[k].allIn
    BY <1>1, <1>5
  <2>2. /\ s \in Seats /\ d[s] = c[s] /\ 0 < d[s] /\ d[s] <= level
        /\ UpTo(open, k) = WinnableFor(d, d[s])
    BY <1>1, <1>3, <2>1, OldCutsStay
  <2>3. UpTo(more, k) = UpTo(open, k)
    <3>1. k \in 0 .. Len(open) /\ k <= Len(more) /\ \A i \in 1 .. k : more[i].amount = open[i].amount
      BY <1>5, <2>1
    <3>2. QED
      BY <1>1, <1>4, <3>1, UpToSame
  <2>4. d[s] \in Nat /\ level \in Nat
    BY <2>2 DEF BetOnTop
  <2>5. QED
    BY <1>2, <2>2, <2>3, <2>4
<1>8. \A k \in 1 .. Len(more) - 1 : more[k].allIn # {}
  BY <1>1, <1>5 DEF CutAt
<1>9. ASSUME NEW k \in 1 .. Len(more), NEW l \in 1 .. Len(more), k <= l,
             NEW s \in more[k].allIn, NEW t \in more[l].allIn
      PROVE  IF k = l THEN d[s] = d[t] ELSE d[s] < d[t]
  <2>1. IF k = l THEN c[s] = c[t] ELSE c[s] < c[t]
    BY <1>1, <1>5, <1>9 DEF CutAt
  <2>2. d[s] = c[s] /\ d[t] = c[t]
    BY <1>7, <1>9
  <2>3. QED
    BY <2>1, <2>2
<1>10. CutAt(more, d, level + q.actionAmount)
  BY <1>6, <1>7, <1>8, <1>9 DEF CutAt
<1>11. QED
  BY <1>10 DEF more, open, bets

\* Cutting the bets in layers ends a pot at each all-in of the round.
LEMMA LayersAreCut ==
  ASSUME NEW q \in PotState, BetsInRange(q), q.pots # <<>>, AllInBefore(q),
         q.actionAmount > 0,
         NEW c, NEW level, NEW d, BetOnTop(q, c, level, d), CutAt(q.pots, c, level)
  PROVE  CutAt(Layered(q), d, level + q.actionAmount)
<1> DEFINE open   == OpenPots(q.pots)
           base   == Len(open) - 1
           count  == Cardinality(Cuts(q))
           cut    == Sorted(Cuts(q))
           layers == Layered(q)
<1>1. /\ open \in Seq(Pot) /\ open # <<>> /\ open[Len(open)].allIn = {}
      /\ CutAt(open, c, level)
  BY OpenPotsCut DEF PotState
<1>2. \A k \in 1 .. Len(open) : \A s \in open[k].allIn : q.inPlay[s] = 0
  <2>1. open = q.pots \/ (open = Append(q.pots, EmptyPot) /\ EmptyPot.allIn = {})
    BY DEF OpenPots, EmptyPot
  <2>2. q.pots \in Seq(Pot)
    BY DEF PotState
  <2> HIDE DEF open
  <2>3. QED
    BY <2>1, <2>2 DEF AllInBefore
<1>3. /\ layers \in Seq(Pot) /\ layers # <<>>
      /\ PotTotal(layers) = PotTotal(q.pots) + SumSeats(q.inPlay)
      /\ Len(layers) = base + count
      /\ \A i \in 1 .. base : layers[i] = open[i]
      /\ \A k \in 1 .. count :
           /\ layers[base + k].allIn = AllInFor(q, cut[k])
           /\ UpTo(layers, base + k) = PotTotal(q.pots) + Capped(q, cut[k])
  BY LayersAddUp, Zenon
<1>4. /\ count \in Nat \ {0} /\ Increasing(cut, Cuts(q), count)
      /\ \A k \in 1 .. count : cut[k] \in Nat
      /\ cut[count] = q.actionAmount
  BY CutsFacts
<1> HIDE DEF open, base, count, cut, layers
<1>5. base \in Nat /\ Len(open) = base + 1
  BY <1>1 DEF base
<1>6. /\ level \in Nat /\ q.actionAmount \in Nat
      /\ SumSeats(q.inPlay) = Capped(q, q.actionAmount)
      /\ PotTotal(q.pots) = WinnableFor(c, level)
  BY CappedFacts DEF BetOnTop, PotState, CutAt
<1>7. ASSUME NEW k \in 1 .. Len(layers)
      PROVE  \/ k \in 1 .. base
             \/ \E j \in 1 .. count : k = base + j
  <2>1. k \in 1 .. base \/ k - base \in 1 .. count
    BY <1>3, <1>4, <1>5
  <2>2. k = base + (k - base)
    BY <1>5
  <2>3. QED
    BY <2>1, <2>2
\* Up to the pot that was open everything is as it was.
<1>8. ASSUME NEW k \in 1 .. base, NEW s \in layers[k].allIn
      PROVE  /\ d[s] = c[s] /\ 0 < d[s] /\ d[s] <= level /\ d[s] \in Nat
             /\ UpTo(layers, k) = WinnableFor(d, d[s])
             /\ k \in 1 .. Len(open) /\ s \in open[k].allIn
  <2>1. k \in 1 .. Len(open) /\ s \in open[k].allIn
    BY <1>3, <1>5, <1>8
  <2>2. /\ s \in Seats /\ d[s] = c[s] /\ 0 < d[s] /\ d[s] <= level
        /\ UpTo(open, k) = WinnableFor(d, d[s])
    BY <1>1, <1>2, <2>1, OldCutsStay
  <2>3. UpTo(layers, k) = UpTo(open, k)
    <3>1. /\ k \in 0 .. Len(open) /\ k <= Len(layers)
          /\ \A i \in 1 .. k : layers[i].amount = open[i].amount
      BY <1>3, <1>4, <1>5
    <3>2. QED
      BY <1>1, <1>3, <3>1, UpToSame
  <2>4. QED
    BY <2>1, <2>2, <2>3 DEF BetOnTop
\* From there on the pots end where somebody is all-in in this round.
<1>9. ASSUME NEW j \in 1 .. count, NEW s \in layers[base + j].allIn
      PROVE  /\ d[s] = level + cut[j] /\ 0 < cut[j] /\ d[s] <= level + q.actionAmount
             /\ UpTo(layers, base + j) = WinnableFor(d, d[s])
  <2>1. /\ s \in Seats /\ q.inPlay[s] = cut[j] /\ cut[j] \in Nat
        /\ cut[j] <= q.actionAmount
    <3>1. s \in Seats /\ q.inPlay[s] = cut[j]
      BY <1>3, <1>9 DEF AllInFor
    <3>2. q.inPlay[s] <= q.actionAmount
      BY <3>1 DEF BetsInRange
    <3>3. QED
      BY <1>4, <3>1, <3>2
  <2>2. q.inPlay[s] # 0 /\ 0 < cut[j]
    <3>1. cut[j] \in Cuts(q)
      BY <1>4 DEF Increasing
    <3>2. cut[j] > 0
      BY <1>6, <3>1 DEF Cuts, AllInAmounts
    <3>3. QED
      BY <2>1, <3>2
  <2>3. d[s] = c[s] + q.inPlay[s] /\ (q.inPlay[s] # 0 => c[s] = level) /\ c[s] \in Nat
    BY <2>1 DEF BetOnTop
  <2>4. UpTo(layers, base + j) = WinnableFor(d, level + cut[j])
    <3>1. WinnableFor(d, level + cut[j]) = WinnableFor(c, level) + Capped(q, cut[j])
      BY <2>1, BettingOnTop
    <3>2. QED
      BY <1>3, <1>6, <3>1
  <2>5. QED
    BY <1>6, <2>1, <2>2, <2>3, <2>4
<1>10. \A k \in 1 .. Len(layers) : \A s \in layers[k].allIn :
         /\ 0 < d[s] /\ d[s] <= level + q.actionAmount
         /\ UpTo(layers, k) = WinnableFor(d, d[s])
  <2>1. ASSUME NEW k \in 1 .. Len(layers), NEW s \in layers[k].allIn
        PROVE  /\ 0 < d[s] /\ d[s] <= level + q.actionAmount
               /\ UpTo(layers, k) = WinnableFor(d, d[s])
    <3>1. CASE k \in 1 .. base
      BY <1>6, <1>8, <2>1, <3>1
    <3>2. CASE \E j \in 1 .. count : k = base + j
      BY <1>4, <1>6, <1>9, <2>1, <3>2
    <3>3. QED
      BY <1>7, <3>1, <3>2
  <2>2. QED
    BY <2>1
<1>11. PotTotal(layers) = WinnableFor(d, level + q.actionAmount)
  <2>1. WinnableFor(d, level + q.actionAmount) = WinnableFor(c, level) + Capped(q, q.actionAmount)
    BY <1>6, BettingOnTop
  <2>2. QED
    BY <1>3, <1>6, <2>1
<1>12. ASSUME NEW k \in 1 .. Len(layers) - 1
       PROVE  layers[k].allIn # {}
  <2>1. k \in 1 .. Len(layers) /\ k # Len(layers)
    BY <1>3, <1>4, <1>5
  <2>2. CASE k \in 1 .. base
    <3>1. k \in 1 .. Len(open) - 1
      BY <1>5, <2>2
    <3>2. QED
      BY <1>1, <1>3, <2>2, <3>1 DEF CutAt
  <2>3. CASE \E j \in 1 .. count : k = base + j
    <3>1. PICK j \in 1 .. count : k = base + j
      BY <2>3
    <3>2. j # count /\ count \in 1 .. count /\ j < count
      BY <1>3, <1>4, <1>5, <2>1, <3>1
    <3>3. cut[j] < cut[count] /\ cut[j] \in Cuts(q)
      BY <1>4, <3>2 DEF Increasing
    <3>4. cut[j] \in AllInAmounts(q)
      BY <1>4, <3>3 DEF Cuts
    <3>5. QED
      BY <1>3, <3>1, <3>4 DEF AllInAmounts
  <2>4. QED
    BY <1>7, <2>1, <2>2, <2>3
<1>13. ASSUME NEW k \in 1 .. Len(layers), NEW l \in 1 .. Len(layers), k <= l,
              NEW s \in layers[k].allIn, NEW t \in layers[l].allIn
       PROVE  IF k = l THEN d[s] = d[t] ELSE d[s] < d[t]
  <2>1. CASE l \in 1 .. base
    <3>1. k \in 1 .. base
      BY <1>5, <1>13, <2>1
    <3>2. /\ d[s] = c[s] /\ k \in 1 .. Len(open) /\ s \in open[k].allIn
          /\ d[t] = c[t] /\ l \in 1 .. Len(open) /\ t \in open[l].allIn
      BY <1>8, <1>13, <2>1, <3>1
    <3>3. IF k = l THEN c[s] = c[t] ELSE c[s] < c[t]
      BY <1>1, <1>13, <3>2 DEF CutAt
    <3>4. QED
      BY <3>2, <3>3
  <2>2. CASE \E j \in 1 .. count : l = base + j
    <3>1. PICK j \in 1 .. count : l = base + j
      BY <2>2
    <3>2. d[t] = level + cut[j] /\ cut[j] \in Nat /\ 0 < cut[j]
      BY <1>4, <1>9, <1>13, <3>1
    <3>3. CASE k \in 1 .. base
      <4>1. d[s] <= level /\ d[s] \in Nat
        BY <1>8, <1>13, <3>3
      <4>2. k # l
        BY <1>5, <3>1, <3>3
      <4>3. QED
        BY <1>6, <3>2, <4>1, <4>2
    <3>4. CASE \E i \in 1 .. count : k = base + i
      <4>1. PICK i \in 1 .. count : k = base + i
        BY <3>4
      <4>2. d[s] = level + cut[i] /\ cut[i] \in Nat
        BY <1>4, <1>9, <1>13, <4>1
      <4>3. i <= j
        BY <1>5, <1>13, <3>1, <4>1
      <4>4. CASE i = j
        BY <3>1, <3>2, <4>1, <4>2, <4>4
      <4>5. CASE i # j
        <5>1. i < j /\ k # l
          BY <1>4, <1>5, <3>1, <4>1, <4>3, <4>5
        <5>2. cut[i] < cut[j]
          BY <1>4, <5>1 DEF Increasing
        <5>3. QED
          BY <1>6, <3>2, <4>2, <5>1, <5>2
      <4>6. QED
        BY <4>4, <4>5
    <3>5. QED
      BY <1>7, <3>3, <3>4
  <2>3. QED
    BY <1>7, <2>1, <2>2
<1>14. CutAt(layers, d, level + q.actionAmount)
  BY <1>10, <1>11, <1>12, <1>13 DEF CutAt
<1>15. QED
  BY <1>14 DEF layers

\* Without its last pot the pots are cut at the one below it, which is lower.
LEMMA CutBelowTheTop ==
  ASSUME NEW pots \in Seq(Pot), pots # <<>>, NEW c \in [Seats -> Nat], NEW level \in Nat,
         CutAt(pots, c, level)
  PROVE  LET low == SubSeq(pots, 1, Len(pots) - 1) IN
         \E less \in 0 .. level :
           CutAt(low, c, less) /\ \A t \in pots[Len(pots)].allIn : less < c[t]
<1> DEFINE n   == Len(pots) - 1
           low == SubSeq(pots, 1, Len(pots) - 1)
<1>1. /\ n \in Nat /\ n + 1 = Len(pots) /\ low \in Seq(Pot) /\ Len(low) = n
      /\ \A k \in 1 .. n : low[k] = pots[k]
  <2>1. Len(pots) \in Nat \ {0} /\ n \in Nat /\ n + 1 = Len(pots)
    OBVIOUS
  <2>2. low \in Seq(Pot) /\ Len(low) = n /\ \A k \in 1 .. n : low[k] = pots[k]
    BY <2>1
  <2>3. QED
    BY <2>1, <2>2
<1> HIDE DEF n, low
<1>2. \A k \in 1 .. n : UpTo(low, k) = UpTo(pots, k)
  <2>1. ASSUME NEW k \in 1 .. n
        PROVE  UpTo(low, k) = UpTo(pots, k)
    <3>1. /\ k \in 0 .. Len(pots) /\ k <= Len(low)
          /\ \A i \in 1 .. k : low[i].amount = pots[i].amount
      BY <1>1
    <3>2. QED
      BY <1>1, <3>1, UpToSame
  <2>2. QED
    BY <2>1
<1>3. PotTotal(low) = UpTo(low, n)
  BY <1>1, UpToIsTotal
<1>4. \A k \in 1 .. n : k \in 1 .. Len(pots) /\ pots[k].allIn # {} /\ pots[k].allIn \subseteq Seats
  <2>1. ASSUME NEW k \in 1 .. n
        PROVE  k \in 1 .. Len(pots) /\ pots[k].allIn # {} /\ pots[k].allIn \subseteq Seats
    <3>1. k \in 1 .. Len(pots) /\ k \in 1 .. Len(pots) - 1 /\ pots[k] \in Pot
      BY <1>1
    <3>2. QED
      BY <3>1 DEF CutAt, Pot
  <2>2. QED
    BY <2>1
<1>5. CASE n = 0
  <2>1. PotTotal(low) = 0
    BY <1>3, <1>5, SumZero DEF UpTo
  <2>2. CutAt(low, c, 0)
    BY <1>1, <1>5, <2>1, NothingToWin DEF CutAt
  <2>3. 0 \in 0 .. level
    OBVIOUS
  <2>4. \A t \in pots[Len(pots)].allIn : 0 < c[t]
    <3>1. Len(pots) \in 1 .. Len(pots)
      BY <1>1
    <3>2. QED
      BY <3>1 DEF CutAt
  <2>5. QED
    BY <2>2, <2>3, <2>4 DEF low
<1>6. CASE n # 0
  <2>1. n \in 1 .. n
    BY <1>1, <1>6
  <2>2. PICK s \in Seats : s \in pots[n].allIn
    BY <1>4, <2>1
  <2>3. c[s] \in 0 .. level /\ UpTo(pots, n) = WinnableFor(c, c[s])
    <3>1. c[s] \in Nat /\ n \in 1 .. Len(pots)
      BY <1>4, <2>1
    <3>2. c[s] <= level /\ UpTo(pots, n) = WinnableFor(c, c[s])
      BY <2>2, <3>1 DEF CutAt
    <3>3. QED
      BY <3>1, <3>2
  <2>4. PotTotal(low) = WinnableFor(c, c[s])
    BY <1>2, <1>3, <2>1, <2>3
  <2>5. ASSUME NEW k \in 1 .. n, NEW t \in low[k].allIn
        PROVE  0 < c[t] /\ c[t] <= c[s] /\ UpTo(low, k) = WinnableFor(c, c[t])
    <3>1. k \in 1 .. Len(pots) /\ n \in 1 .. Len(pots) /\ k <= n /\ t \in pots[k].allIn
      BY <1>1, <1>4, <2>1, <2>5
    <3>2. /\ IF k = n THEN c[t] = c[s] ELSE c[t] < c[s]
          /\ 0 < c[t] /\ UpTo(pots, k) = WinnableFor(c, c[t])
      BY <2>2, <3>1 DEF CutAt
    <3>3. t \in Seats /\ c[t] \in Nat
      BY <1>4, <3>1
    <3>4. QED
      BY <1>2, <2>3, <3>2, <3>3
  <2>6. \A k \in 1 .. n - 1 : low[k].allIn # {}
    <3>1. \A k \in 1 .. n - 1 : k \in 1 .. n
      BY <1>1
    <3>2. QED
      BY <1>1, <1>4, <3>1
  <2>7. ASSUME NEW k \in 1 .. n, NEW l \in 1 .. n, k <= l,
               NEW t \in low[k].allIn, NEW u \in low[l].allIn
        PROVE  IF k = l THEN c[t] = c[u] ELSE c[t] < c[u]
    BY <1>1, <1>4, <2>7 DEF CutAt
  <2>8. CutAt(low, c, c[s])
    BY <1>1, <2>4, <2>5, <2>6, <2>7 DEF CutAt
  <2>9. \A t \in pots[Len(pots)].allIn : c[s] < c[t]
    <3>1. n \in 1 .. Len(pots) /\ Len(pots) \in 1 .. Len(pots) /\ n <= Len(pots) /\ n # Len(pots)
      BY <1>1, <2>1
    <3>2. QED
      BY <2>2, <3>1 DEF CutAt
  <2>10. QED
    BY <2>3, <2>8, <2>9 DEF low
<1>7. QED
  BY <1>5, <1>6

-----------------------------------------------------------------------------
(* What has been given back.                                               *)

\* What s has been given back: what can be won for as much as he has put in, above
\* what the pots hold.
GivenBack(pots, c, s) ==
  LET more == WinnableFor(c, c[s]) - PotTotal(pots)
  IN  IF more > 0 THEN more ELSE 0

\* Nobody has bet.
NoBet == [s \in Seats |-> 0]

\* With "bets" in play, c in the pots, and st to begin with: who has not folded has
\* got back what the pots leave him, at most one of them anything; who is all-in, and
\* has no bet in play, either has, or is on the list of a pot.
StacksFit(q, bets, c, st) ==
  /\ \A s \in Alive(q) :
       /\ bets[s] + q.balance[s] = st[s] - c[s] + GivenBack(q.pots, c, s)
       /\ CanAct(q, s) => q.balance[s] > 0
       /\ q.allIn[s] /\ bets[s] = 0 =>
            \/ GivenBack(q.pots, c, s) > 0
            \/ \E k \in 1 .. Len(q.pots) : s \in q.pots[k].allIn
  /\ \A s, t \in Alive(q) :
       GivenBack(q.pots, c, s) > 0 /\ GivenBack(q.pots, c, t) > 0 => s = t

\* What can be won grows with the cap, as long as somebody has put in more.
LEMMA WinnableGrows ==
  ASSUME NEW c \in [Seats -> Nat], NEW a \in Nat, NEW b \in Nat, a <= b
  PROVE  /\ WinnableFor(c, a) \in Nat
         /\ WinnableFor(c, a) <= WinnableFor(c, b)
         /\ a < b /\ (\E s \in Seats : a < c[s]) => WinnableFor(c, a) < WinnableFor(c, b)
<1> DEFINE upto(cap) == [t \in Seats |-> IF c[t] < cap THEN c[t] ELSE cap]
           low       == upto(a)
           high      == upto(b)
<1>1. WinnableFor(c, a) = Sum(low, N) /\ WinnableFor(c, b) = Sum(high, N)
  BY Zenon DEF WinnableFor, SumSeats
<1>2. N \in Nat /\ Seats = 0 .. N - 1
  BY Constants DEF Seats
<1>3. \A t \in Seats :
        /\ low[t] = IF c[t] < a THEN c[t] ELSE a
        /\ high[t] = IF c[t] < b THEN c[t] ELSE b
  OBVIOUS
<1>4. \A t \in Seats : low[t] \in Nat /\ high[t] \in Nat /\ low[t] <= high[t]
  <2> HIDE DEF low, high
  <2>1. ASSUME NEW t \in Seats
        PROVE  low[t] \in Nat /\ high[t] \in Nat /\ low[t] <= high[t]
    <3>1. c[t] \in Nat
      OBVIOUS
    <3>2. QED
      BY <1>3, <3>1
  <2>2. QED
    BY <2>1
<1>5. low \in [Seats -> Nat]
  OBVIOUS
<1> HIDE DEF low, high, upto
<1>6. \A i \in 0 .. N - 1 :
        low[i] \in Nat /\ low[i] \in Int /\ high[i] \in Int /\ low[i] <= high[i]
  BY <1>2, <1>4
<1>7. Sum(low, N) \in Nat /\ Sum(low, N) <= Sum(high, N)
  BY <1>2, <1>6, SumNat, SumMonotone
<1>8. ASSUME a < b, NEW s \in Seats, a < c[s]
      PROVE  Sum(low, N) < Sum(high, N)
  <2> DEFINE mid == [low EXCEPT ![s] = high[s]]
             up  == high[s] - low[s]
  <2>1. low[s] = a /\ a < high[s] /\ high[s] \in Nat
    <3>1. c[s] \in Nat
      OBVIOUS
    <3>2. QED
      BY <1>3, <1>8, <3>1
  <2>2. up \in Int /\ 0 < up
    BY <2>1
  <2>3. mid[s] = low[s] + up /\ \A i \in Seats : i # s => mid[i] = low[i]
    BY <1>5, <2>1
  <2> HIDE DEF mid, up
  <2>4. Sum(mid, N) = Sum(low, N) + up
    <3>1. PICK j \in 0 .. N - 1 : j = s
      BY <1>2
    <3>2. mid[j] = low[j] + up
      BY <2>3, <3>1
    <3>3. \A i \in 0 .. N - 1 : low[i] \in Int
      BY <1>6
    <3>4. \A i \in 0 .. N - 1 : i # j => mid[i] = low[i]
      BY <1>2, <2>3, <3>1
    <3>5. QED
      BY <1>2, <2>2, <3>2, <3>3, <3>4, SumChange
  <2>5. \A i \in 0 .. N - 1 : mid[i] \in Int /\ high[i] \in Int /\ mid[i] <= high[i]
    <3>1. mid[s] = high[s]
      BY <2>1, <2>3 DEF up
    <3>2. ASSUME NEW i \in Seats
          PROVE  mid[i] \in Int /\ high[i] \in Int /\ mid[i] <= high[i]
      BY <1>4, <2>3, <3>1
    <3>3. QED
      BY <1>2, <3>2
  <2>6. Sum(mid, N) <= Sum(high, N)
    BY <1>2, <2>5, SumMonotone
  <2>7. Sum(high, N) \in Int
    BY <1>2, <1>6, SumInt
  <2>8. QED
    BY <1>7, <2>2, <2>4, <2>6, <2>7
<1>9. QED
  BY <1>1, <1>7, <1>8

\* Only who is in deeper than the pots go up to has got something back.
LEMMA GivenBackFacts ==
  ASSUME NEW pots, NEW c \in [Seats -> Nat], NEW level \in Nat,
         PotTotal(pots) = WinnableFor(c, level), NEW s \in Seats
  PROVE  IF c[s] <= level THEN GivenBack(pots, c, s) = 0
         ELSE /\ GivenBack(pots, c, s) > 0
              /\ GivenBack(pots, c, s) = WinnableFor(c, c[s]) - PotTotal(pots)
<1>1. c[s] \in Nat
  OBVIOUS
<1>2. CASE c[s] <= level
  <2>1. /\ WinnableFor(c, c[s]) \in Nat /\ WinnableFor(c, c[s]) <= WinnableFor(c, level)
        /\ WinnableFor(c, level) \in Nat
    BY <1>1, <1>2, WinnableGrows
  <2>2. ~(WinnableFor(c, c[s]) - PotTotal(pots) > 0)
    BY <2>1
  <2>3. QED
    BY <1>2, <2>2 DEF GivenBack
<1>3. CASE ~(c[s] <= level)
  <2>1. level <= c[s] /\ level < c[s]
    BY <1>1, <1>3
  <2>2. WinnableFor(c, level) < WinnableFor(c, c[s]) /\ WinnableFor(c, level) \in Nat
    BY <1>1, <2>1, WinnableGrows
  <2>3. WinnableFor(c, c[s]) \in Nat
    BY <1>1, WinnableGrows
  <2>4. WinnableFor(c, c[s]) - PotTotal(pots) > 0
    BY <2>2, <2>3
  <2>5. QED
    BY <1>3, <2>4 DEF GivenBack
<1>4. QED
  BY <1>2, <1>3

\* A refund takes the top pot away when at most one player can still bet, and he, or
\* the only one who is all-in on it, gets it.
LEMMA RefundCuts ==
  ASSUME NEW q \in PotState, NEW pots \in Seq(Pot), pots # <<>>,
         NEW c \in [Seats -> Nat], NEW level \in Nat, CutAt(pots, c, level)
  PROVE  LET p == Refund(q, pots) IN
         \E less \in 0 .. level :
           /\ CutAt(p.pots, c, less)
           /\ \/ /\ less = level /\ p.pots = pots /\ p.balance = q.balance
              \/ /\ \A s, t \in Live(q) : s = t
                 /\ p.pots = SubSeq(pots, 1, Len(pots) - 1)
                 /\ \A t \in pots[Len(pots)].allIn : less < c[t]
                 /\ \E s \in Seats :
                      /\ TopPotRefundees(q, pots) = {s}
                      /\ p.balance = [q.balance EXCEPT ![s] = @ + pots[Len(pots)].amount]
<1> DEFINE p == Refund(q, pots)
<1>1. level \in 0 .. level
  OBVIOUS
<1>2. CASE \E s \in Seats : TopPotRefundees(q, pots) = {s}
  <2> DEFINE s   == CHOOSE t \in Seats : TopPotRefundees(q, pots) = {t}
             top == pots[Len(pots)].amount
             low == SubSeq(pots, 1, Len(pots) - 1)
  <2>1. p = [q EXCEPT !.inPlay[s] = @ - top, !.balance[s] = @ + top, !.pots = low]
    BY <1>2, Zenon DEF Refund
  <2>2. PICK less \in 0 .. level :
          CutAt(low, c, less) /\ \A t \in pots[Len(pots)].allIn : less < c[t]
    BY CutBelowTheTop
  <2>3. s \in Seats /\ TopPotRefundees(q, pots) = {s}
    BY <1>2
  <2> HIDE DEF p, s, low
  <2>4. p.pots = low /\ p.balance = [q.balance EXCEPT ![s] = @ + top]
    BY <2>1 DEF PotState
  <2> HIDE DEF top
  <2>5. \A t, u \in Live(q) : t = u
    BY <2>3 DEF TopPotRefundees
  <2>6. QED
    BY <2>2, <2>3, <2>4, <2>5 DEF p, top, low
<1>3. CASE ~\E s \in Seats : TopPotRefundees(q, pots) = {s}
  <2>1. p = [q EXCEPT !.pots = pots]
    BY <1>3, Zenon DEF Refund
  <2> HIDE DEF p
  <2>2. p.pots = pots /\ p.balance = q.balance
    BY <2>1 DEF PotState
  <2>3. QED
    BY <1>1, <2>2 DEF p
<1>4. QED
  BY <1>2, <1>3

\* What calculatePot is to know of the bets: all who can still bet have matched the
\* amount to call, and somebody has; what has been collected is not in play.
BetsAreSettled(q) ==
  /\ BetsInRange(q) /\ AllInBefore(q)
  /\ q.actionAmount > 0 => q.pots # <<>>
  /\ q.needsPotCalculation => \A t \in Live(q) : q.inPlay[t] = q.actionAmount
  /\ q.needsPotCalculation /\ q.actionAmount > 0 =>
       \E t \in Seats : q.inPlay[t] = q.actionAmount
  /\ ~q.needsPotCalculation => \A t \in Seats : q.inPlay[t] = 0

\* The bets go on top of the pots, those who can still bet up to the top.
LEMMA BetsGoOnTop ==
  ASSUME NEW q \in PotState, BetsAreSettled(q), q.needsPotCalculation, q.actionAmount # 0,
         NEW c \in [Seats -> Nat], NEW d \in [Seats -> Nat], NEW level \in Nat,
         \A t \in Seats : d[t] = c[t] + q.inPlay[t],
         CutWhereTheyShould(q, c, level)
  PROVE  /\ q.actionAmount > 0 /\ q.actionAmount \in Nat /\ level + q.actionAmount \in Nat
         /\ q.pots # <<>> /\ CutAt(q.pots, c, level) /\ BetOnTop(q, c, level, d)
         /\ \A t \in Seats : d[t] <= level + q.actionAmount
         /\ \A t \in Live(q) : d[t] >= level + q.actionAmount
<1>1. /\ q.inPlay \in [Seats -> Int] /\ q.actionAmount \in Nat
      /\ \A t \in Seats : q.inPlay[t] \in Int /\ 0 <= q.inPlay[t]
      /\ \A t \in Seats : q.inPlay[t] <= q.actionAmount
  BY DEF PotState, BetsAreSettled, BetsInRange
<1>2. Live(q) \subseteq Seats /\ \A t \in Live(q) : CanAct(q, t)
  BY DEF Live
<1>3. q.actionAmount > 0 /\ q.pots # <<>>
  BY <1>1 DEF BetsAreSettled
<1>4. \E t \in Seats : q.inPlay[t] # 0
  BY <1>1, <1>3 DEF BetsAreSettled
<1>5. \A t \in Seats : c[t] <= level
  BY <1>4 DEF CutWhereTheyShould, BettingIsOver
<1>6. \A t \in Seats : q.inPlay[t] # 0 => c[t] = level
  <2>1. \A t \in Seats : q.inPlay[t] # 0 => c[t] >= level
    BY DEF CutWhereTheyShould
  <2>2. QED
    BY <1>5, <2>1
<1>7. BetOnTop(q, c, level, d)
  BY <1>1, <1>5, <1>6 DEF BetOnTop
<1>8. \A t \in Live(q) : d[t] >= level + q.actionAmount
  <2>1. \A t \in Live(q) : c[t] >= level
    BY <1>2 DEF CutWhereTheyShould
  <2>2. \A t \in Live(q) : q.inPlay[t] = q.actionAmount
    BY DEF BetsAreSettled
  <2>3. QED
    BY <1>1, <1>2, <2>1, <2>2
<1>9. \A t \in Seats : d[t] <= level + q.actionAmount
  BY <1>1, <1>5
<1>10. level + q.actionAmount \in Nat /\ CutAt(q.pots, c, level)
  BY <1>1 DEF CutWhereTheyShould
<1>11. QED
  BY <1>1, <1>3, <1>7, <1>8, <1>9, <1>10

\* calculatePot cuts the pots where the all-ins are, whichever way it goes; all who
\* can still bet are in all the pots, and nobody is in deeper unless a refund has
\* left at most one of them.
LEMMA CollectingCuts ==
  ASSUME NEW q \in PotState, BetsAreSettled(q),
         NEW c \in [Seats -> Nat], NEW d \in [Seats -> Nat], NEW level \in Nat,
         \A t \in Seats : d[t] = c[t] + q.inPlay[t],
         CutWhereTheyShould(q, c, level)
  PROVE  \E less \in Nat :
           /\ CutAt(CalculatePot(q).pots, d, less)
           /\ \A t \in Live(q) : d[t] >= less
           /\ (\A t \in Seats : d[t] <= less) \/ \A s, t \in Live(q) : s = t
<1> DEFINE p    == CalculatePot(q)
           freed == [q EXCEPT !.needsPotCalculation = FALSE]
           most == level + q.actionAmount
<1>1. /\ q.inPlay \in [Seats -> Int] /\ q.actionAmount \in Nat
      /\ \A t \in Seats : q.inPlay[t] \in Int /\ 0 <= q.inPlay[t]
      /\ \A t \in Seats : q.inPlay[t] <= q.actionAmount
  BY DEF PotState, BetsAreSettled, BetsInRange
<1>2. Live(q) \subseteq Seats /\ \A t \in Live(q) : CanAct(q, t)
  BY DEF Live
<1>3. /\ freed \in PotState /\ freed.pots = q.pots
      /\ freed.allIn = q.allIn /\ freed.folded = q.folded
  BY DEF PotState
<1> HIDE DEF freed, p
\* Nothing is in play.
<1>4. CASE ~q.needsPotCalculation \/ q.actionAmount = 0
  <2>1. \A t \in Seats : q.inPlay[t] = 0
    BY <1>1, <1>4 DEF BetsAreSettled
  <2>2. p.pots = q.pots
    BY <1>3, <1>4 DEF CalculatePot, p, freed
  <2>3. d = c
    BY <2>1
  <2>4. CutAt(p.pots, d, level)
    BY <2>2, <2>3 DEF CutWhereTheyShould
  <2>5. \A t \in Live(q) : d[t] >= level
    BY <1>2, <2>3 DEF CutWhereTheyShould
  <2>6. (\A t \in Seats : d[t] <= level) \/ \A s, t \in Live(q) : s = t
    BY <2>3 DEF CutWhereTheyShould, BettingIsOver
  <2>7. QED
    BY <2>4, <2>5, <2>6 DEF p
\* The bets go on top of the pots.
<1>5. CASE q.needsPotCalculation /\ q.actionAmount # 0
  <2>1. /\ q.actionAmount > 0 /\ most \in Nat /\ q.pots # <<>>
        /\ CutAt(q.pots, c, level) /\ BetOnTop(q, c, level, d)
        /\ \A t \in Seats : d[t] <= most
        /\ \A t \in Live(q) : d[t] >= most
    BY <1>5, BetsGoOnTop
  <2>2. BetsInRange(q) /\ AllInBefore(q)
    BY DEF BetsAreSettled
  <2>10. CASE AllInAmounts(q) = {}
    <3> DEFINE open == OpenPots(q.pots)
               more == [open EXCEPT ![Len(open)].amount = @ + SumSeats(q.inPlay)]
    <3>1. p = [freed EXCEPT !.pots = more]
      BY <1>5, <2>10, Zenon DEF CalculatePot, freed, p
    <3>2. CutAt(more, d, most)
      BY <2>1, <2>2, OnePotIsCut
    <3> HIDE DEF open, more
    <3>3. p.pots = more
      BY <1>3, <3>1 DEF PotState
    <3> HIDE DEF most
    <3>4. QED
      BY <2>1, <3>2, <3>3 DEF p
  <2>11. CASE AllInAmounts(q) # {}
    <3> DEFINE layers == Layered(q)
    <3>1. p = Refund(freed, layers)
      BY <1>5, <2>11, Zenon DEF CalculatePot, freed, p
    <3>2. layers \in Seq(Pot) /\ layers # <<>>
      BY <2>1, <2>2, LayeredFacts
    <3>3. CutAt(layers, d, most)
      BY <2>1, <2>2, LayersAreCut
    <3> HIDE DEF layers, most
    <3>4. PICK less \in 0 .. most : /\ CutAt(p.pots, d, less)
                                    /\ less # most => \A s, t \in Live(freed) : s = t
      BY <1>3, <2>1, <3>1, <3>2, <3>3, RefundCuts
    <3>5. Live(freed) = Live(q)
      BY <1>3 DEF Live, CanAct
    <3>6. less \in Nat /\ \A t \in Live(q) : d[t] >= less
      BY <1>2, <2>1
    <3>7. (\A t \in Seats : d[t] <= less) \/ \A s, t \in Live(q) : s = t
      BY <2>1, <3>4, <3>5
    <3>8. QED
      BY <3>4, <3>6, <3>7 DEF p
  <2>12. QED
    BY <2>10, <2>11
<1>6. QED
  BY <1>4, <1>5

-----------------------------------------------------------------------------
(* What collecting the bets keeps.                                         *)

\* Opening a pot leaves the others where they are.
LEMMA OpenPotsKeeps ==
  ASSUME NEW pots \in Seq(Pot), pots # <<>>
  PROVE  LET open == OpenPots(pots) IN
         /\ open \in Seq(Pot) /\ Len(open) \in Nat \ {0}
         /\ \A j \in 1 .. Len(pots) : \A s \in pots[j].allIn :
              j \in 1 .. Len(open) - 1 /\ open[j] = pots[j]
<1> DEFINE open == OpenPots(pots)
<1>1. Len(pots) \in Nat \ {0} /\ EmptyPot \in Pot
  BY DEF EmptyPot, Pot
<1>2. CASE pots[Len(pots)].allIn # {}
  <2>1. open = Append(pots, EmptyPot)
    BY <1>2 DEF OpenPots
  <2> HIDE DEF open
  <2>2. /\ open \in Seq(Pot) /\ Len(open) = Len(pots) + 1
        /\ \A j \in 1 .. Len(pots) : open[j] = pots[j]
    BY <1>1, <2>1
  <2>3. QED
    BY <1>1, <2>2 DEF open
<1>3. CASE pots[Len(pots)].allIn = {}
  <2>1. open = pots
    BY <1>3 DEF OpenPots
  <2> HIDE DEF open
  <2>2. ASSUME NEW j \in 1 .. Len(pots), NEW s \in pots[j].allIn
        PROVE  j \in 1 .. Len(open) - 1 /\ open[j] = pots[j]
    <3>1. j # Len(pots)
      BY <1>3, <2>2
    <3>2. QED
      BY <1>1, <2>1, <3>1
  <2>3. QED
    BY <1>1, <2>1, <2>2 DEF open
<1>4. QED
  BY <1>2, <1>3

\* Adding to the last pot changes no list.
LEMMA RaisedPotsKeep ==
  ASSUME NEW pots \in Seq(Pot), pots # <<>>, NEW bets \in Nat
  PROVE  LET more == [pots EXCEPT ![Len(pots)].amount = @ + bets] IN
         /\ Len(more) = Len(pots)
         /\ \A k \in 1 .. Len(pots) : more[k].allIn = pots[k].allIn
<1> DEFINE more == [pots EXCEPT ![Len(pots)].amount = @ + bets]
<1>1. /\ Len(pots) \in Nat \ {0} /\ Len(more) = Len(pots)
      /\ \A k \in 1 .. Len(pots) :
           more[k] = IF k = Len(pots) THEN [pots[k] EXCEPT !.amount = @ + bets] ELSE pots[k]
  OBVIOUS
<1>2. ASSUME NEW k \in 1 .. Len(pots)
      PROVE  [pots[k] EXCEPT !.amount = @ + bets].allIn = pots[k].allIn
  <2>1. pots[k] \in Pot
    OBVIOUS
  <2>2. QED
    BY <2>1 DEF Pot
<1> HIDE DEF more
<1>3. QED
  BY <1>1, <1>2 DEF more

\* Who is all-in in this round, or is on the list of a pot, is on the list of a layer;
\* the top layer lists those who are all-in for the amount to call.
LEMMA LayersListTheAllIn ==
  ASSUME NEW q \in PotState, BetsInRange(q), q.pots # <<>>
  PROVE  LET layers == Layered(q) IN
         /\ \A s \in Alive(q) : q.allIn[s] /\ q.inPlay[s] # 0 =>
              \E k \in 1 .. Len(layers) : s \in layers[k].allIn
         /\ \A j \in 1 .. Len(q.pots) : \A s \in q.pots[j].allIn :
              \E k \in 1 .. Len(layers) : s \in layers[k].allIn
         /\ \A s \in layers[Len(layers)].allIn :
              s \in Alive(q) /\ q.allIn[s] /\ q.inPlay[s] = q.actionAmount
<1> DEFINE open   == OpenPots(q.pots)
           base   == Len(open) - 1
           count  == Cardinality(Cuts(q))
           cut    == Sorted(Cuts(q))
           layers == Layered(q)
<1>1. /\ Len(layers) = base + count
      /\ \A i \in 1 .. base : layers[i] = open[i]
      /\ \A k \in 1 .. count : layers[base + k].allIn = AllInFor(q, cut[k])
  BY LayersAddUp, Zenon
<1>2. /\ count \in Nat \ {0} /\ Increasing(cut, Cuts(q), count)
      /\ cut[count] = q.actionAmount
  BY CutsFacts
<1>3. /\ Len(open) \in Nat \ {0}
      /\ \A j \in 1 .. Len(q.pots) : \A s \in q.pots[j].allIn :
           j \in 1 .. Len(open) - 1 /\ open[j] = q.pots[j]
  BY OpenPotsKeeps DEF PotState
<1> HIDE DEF open, count, cut, layers
<1>4. ASSUME NEW s \in Alive(q), q.allIn[s], q.inPlay[s] # 0
      PROVE  \E k \in 1 .. Len(layers) : s \in layers[k].allIn
  <2>1. s \in Seats /\ ~q.folded[s]
    BY DEF Alive
  <2>2. q.inPlay[s] \in Int /\ 0 <= q.inPlay[s]
    BY <2>1 DEF PotState, BetsInRange
  <2>3. s \in AllInFor(q, q.inPlay[s])
    BY <1>4, <2>1 DEF AllInFor
  <2>4. q.inPlay[s] \in Cuts(q)
    BY <1>4, <2>1, <2>2, <2>3 DEF Cuts, AllInAmounts
  <2>5. PICK j \in 1 .. count : cut[j] = q.inPlay[s]
    BY <2>4, <1>2 DEF Increasing
  <2>6. base + j \in 1 .. Len(layers) /\ s \in layers[base + j].allIn
    BY <1>1, <1>2, <1>3, <2>3, <2>5
  <2>7. QED
    BY <2>6
<1>5. ASSUME NEW j \in 1 .. Len(q.pots), NEW s \in q.pots[j].allIn
      PROVE  \E k \in 1 .. Len(layers) : s \in layers[k].allIn
  <2>1. j \in 1 .. base /\ open[j] = q.pots[j]
    BY <1>3, <1>5
  <2>2. j \in 1 .. Len(layers) /\ s \in layers[j].allIn
    BY <1>1, <1>2, <1>3, <1>5, <2>1
  <2>3. QED
    BY <2>2
<1>6. ASSUME NEW s \in layers[Len(layers)].allIn
      PROVE  s \in Alive(q) /\ q.allIn[s] /\ q.inPlay[s] = q.actionAmount
  <2>1. count \in 1 .. count
    BY <1>2
  <2>2. s \in AllInFor(q, q.actionAmount)
    BY <1>1, <1>2, <1>6, <2>1
  <2>3. QED
    BY <2>2 DEF AllInFor, Alive
<1>7. QED
  BY <1>4, <1>5, <1>6 DEF layers

\* Before the bets are collected nobody has got anything back yet.
LEMMA BeforeCollecting ==
  ASSUME NEW q \in PotState, NEW c, NEW level, NEW d, BetOnTop(q, c, level, d),
         CutAt(q.pots, c, level), NEW st \in [Seats -> Nat], StacksFit(q, q.inPlay, c, st),
         NEW t \in Alive(q)
  PROVE  /\ t \in Seats /\ d[t] \in Nat /\ q.balance[t] \in Nat
         /\ q.balance[t] = st[t] - d[t]
         /\ CanAct(q, t) => q.balance[t] > 0
         /\ q.allIn[t] /\ q.inPlay[t] = 0 => \E k \in 1 .. Len(q.pots) : t \in q.pots[k].allIn
<1>1. t \in Seats
  BY DEF Alive
<1>2. /\ c \in [Seats -> Nat] /\ d \in [Seats -> Nat] /\ level \in Nat
      /\ d[t] = c[t] + q.inPlay[t] /\ c[t] <= level
  BY <1>1 DEF BetOnTop
<1>3. /\ q.inPlay[t] \in Int /\ q.balance[t] \in Nat /\ st[t] \in Nat
      /\ c[t] \in Nat /\ d[t] \in Nat
  BY <1>1, <1>2 DEF PotState
<1>4. GivenBack(q.pots, c, t) = 0
  <2>1. PotTotal(q.pots) = WinnableFor(c, level)
    BY DEF CutAt
  <2>2. QED
    BY <1>1, <1>2, <2>1, GivenBackFacts
<1>5. /\ q.inPlay[t] + q.balance[t] = st[t] - c[t] + GivenBack(q.pots, c, t)
      /\ CanAct(q, t) => q.balance[t] > 0
      /\ q.allIn[t] /\ q.inPlay[t] = 0 =>
           \/ GivenBack(q.pots, c, t) > 0
           \/ \E k \in 1 .. Len(q.pots) : t \in q.pots[k].allIn
  BY DEF StacksFit
<1>6. q.balance[t] = st[t] - d[t]
  <2>1. q.inPlay[t] + q.balance[t] = st[t] - c[t] + 0
    BY <1>4, <1>5
  <2>2. d[t] = c[t] + q.inPlay[t]
    BY <1>2
  <2>3. ASSUME NEW i \in Int, NEW b \in Nat, NEW x \in Nat, NEW y \in Nat, NEW z \in Nat,
               i + b = x - y + 0, z = y + i
        PROVE  b = x - z
    BY <2>3
  <2>4. QED
    BY <1>3, <2>1, <2>2, <2>3
<1>7. q.allIn[t] /\ q.inPlay[t] = 0 => \E k \in 1 .. Len(q.pots) : t \in q.pots[k].allIn
  <2>1. ~(GivenBack(q.pots, c, t) > 0)
    BY <1>4
  <2>2. QED
    BY <1>5, <2>1
<1>8. QED
  BY <1>1, <1>3, <1>5, <1>6, <1>7

\* When nothing is given back the stacks fit as soon as all who are all-in are listed.
LEMMA NothingBackFits ==
  ASSUME NEW q, NEW p, p.folded = q.folded, p.allIn = q.allIn, p.balance = q.balance,
         NEW d \in [Seats -> Nat], NEW most \in Nat, CutAt(p.pots, d, most),
         NEW st \in [Seats -> Nat],
         \A t \in Seats : d[t] <= most,
         \A t \in Alive(q) : /\ q.balance[t] \in Nat /\ q.balance[t] = st[t] - d[t]
                             /\ CanAct(q, t) => q.balance[t] > 0
                             /\ q.allIn[t] => \E k \in 1 .. Len(p.pots) : t \in p.pots[k].allIn
  PROVE  StacksFit(p, NoBet, d, st)
<1>1. Alive(p) = Alive(q) /\ Alive(q) \subseteq Seats
  BY DEF Alive
<1>2. \A t \in Alive(q) : GivenBack(p.pots, d, t) = 0
  BY <1>1, GivenBackFacts DEF CutAt
<1>3. ASSUME NEW t \in Alive(q)
      PROVE  /\ NoBet[t] + p.balance[t] = st[t] - d[t] + GivenBack(p.pots, d, t)
             /\ CanAct(p, t) => p.balance[t] > 0
             /\ p.allIn[t] => \E k \in 1 .. Len(p.pots) : t \in p.pots[k].allIn
  <2>1. t \in Seats /\ NoBet[t] = 0 /\ d[t] \in Nat /\ st[t] \in Nat
    BY <1>1 DEF NoBet
  <2>2. NoBet[t] + p.balance[t] = st[t] - d[t] + GivenBack(p.pots, d, t)
    BY <1>2, <2>1
  <2>3. QED
    BY <2>2 DEF CanAct
<1>4. QED
  BY <1>1, <1>2, <1>3 DEF StacksFit

-----------------------------------------------------------------------------
(* The refund of what nobody has matched.                                  *)

\* Who gets the top pot back is in as deep as the pots went; all the others who are
\* still in the hand are all-in on a pot below it.
LEMMA RefundFits ==
  ASSUME NEW q \in PotState, BetsInRange(q), q.pots # <<>>, q.actionAmount > 0,
         NEW c, NEW level, NEW d, BetOnTop(q, c, level, d), CutAt(q.pots, c, level),
         \A t \in Live(q) : d[t] >= level + q.actionAmount,
         NEW st \in [Seats -> Nat], StacksFit(q, q.inPlay, c, st),
         NEW s \in Seats, TopPotRefundees(q, Layered(q)) = {s},
         NEW p, p.folded = q.folded, p.allIn = q.allIn,
         p.pots = SubSeq(Layered(q), 1, Len(Layered(q)) - 1),
         p.balance = [q.balance EXCEPT ![s] = @ + Layered(q)[Len(Layered(q))].amount],
         NEW less \in 0 .. level + q.actionAmount,
         CutAt(p.pots, d, less),
         \A t \in Layered(q)[Len(Layered(q))].allIn : less < d[t],
         CutAt(Layered(q), d, level + q.actionAmount),
         \A t \in Seats : d[t] <= level + q.actionAmount
  PROVE  StacksFit(p, NoBet, d, st)
<1> DEFINE layers == Layered(q)
           low    == SubSeq(layers, 1, Len(layers) - 1)
           top    == layers[Len(layers)]
           most   == level + q.actionAmount
<1>1. layers \in Seq(Pot) /\ layers # <<>>
  BY LayeredFacts
<1>2. /\ \A t \in Alive(q) : q.allIn[t] /\ q.inPlay[t] # 0 =>
           \E k \in 1 .. Len(layers) : t \in layers[k].allIn
      /\ \A j \in 1 .. Len(q.pots) : \A t \in q.pots[j].allIn :
           \E k \in 1 .. Len(layers) : t \in layers[k].allIn
      /\ \A t \in top.allIn : t \in Alive(q) /\ q.allIn[t] /\ q.inPlay[t] = q.actionAmount
  BY LayersListTheAllIn
<1>3. ASSUME NEW t \in Alive(q)
      PROVE  /\ t \in Seats /\ d[t] \in Nat /\ q.balance[t] \in Nat
             /\ q.balance[t] = st[t] - d[t]
             /\ CanAct(q, t) => q.balance[t] > 0
             /\ q.allIn[t] /\ q.inPlay[t] = 0 =>
                  \E k \in 1 .. Len(q.pots) : t \in q.pots[k].allIn
  BY BeforeCollecting
<1>4. /\ level \in Nat /\ q.actionAmount \in Nat /\ most \in Nat /\ less \in Nat
      /\ c \in [Seats -> Nat] /\ d \in [Seats -> Nat]
  <2>1. level \in Nat /\ c \in [Seats -> Nat] /\ d \in [Seats -> Nat]
    BY DEF BetOnTop
  <2>2. q.actionAmount \in Nat
    BY DEF PotState
  <2>3. most \in Nat /\ less \in Nat
    BY <2>1, <2>2
  <2>4. QED
    BY <2>1, <2>2, <2>3
<1>5. TopPotRefundees(q, layers) = IF Live(q) = {} THEN top.allIn
                                   ELSE IF top.allIn = {} THEN Live(q) ELSE {}
  BY Zenon DEF TopPotRefundees
<1> HIDE DEF layers
<1>6. /\ TopPotRefundees(q, layers) = {s} /\ p.pots = low
      /\ p.balance = [q.balance EXCEPT ![s] = @ + top.amount]
      /\ CutAt(low, d, less) /\ (\A t \in top.allIn : less < d[t])
      /\ CutAt(layers, d, most)
  BY DEF layers
<1>7. /\ low \in Seq(Pot) /\ Len(low) = Len(layers) - 1 /\ Len(layers) \in Nat \ {0}
      /\ \A k \in 1 .. Len(low) : low[k] = layers[k]
      /\ top.amount \in Nat /\ PotTotal(layers) = PotTotal(low) + top.amount
      /\ PotTotal(low) \in Nat
  <2>1. /\ low \in Seq(Pot) /\ Len(low) = Len(layers) - 1
        /\ top.amount \in Nat /\ PotTotal(layers) = PotTotal(low) + top.amount
    BY <1>1, PotTotalLast
  <2>2. Len(layers) \in Nat \ {0} /\ \A k \in 1 .. Len(low) : low[k] = layers[k]
    BY <1>1, <2>1
  <2>3. PotTotal(low) \in Nat
    BY <2>1, PotTotalNat
  <2>4. QED
    BY <2>1, <2>2, <2>3
<1> HIDE DEF low, top
<1>8. CASE (Live(q) = {} /\ top.allIn = {s}) \/ (Live(q) = {s} /\ top.allIn = {})
  <2>1. s \in Alive(q) /\ d[s] = most
    <3>1. CASE Live(q) = {} /\ top.allIn = {s}
      <4>1. s \in Alive(q) /\ q.inPlay[s] = q.actionAmount
        BY <1>2, <3>1
      <4>2. q.inPlay[s] # 0 /\ d[s] = c[s] + q.inPlay[s] /\ (q.inPlay[s] # 0 => c[s] = level)
        BY <4>1, <1>4 DEF BetOnTop
      <4>3. QED
        BY <4>1, <4>2
    <3>2. CASE Live(q) = {s} /\ top.allIn = {}
      <4>1. s \in Alive(q)
        BY <3>2 DEF Live, CanAct, Alive
      <4>2. d[s] >= most /\ d[s] <= most /\ d[s] \in Nat
        BY <1>4, <3>2
      <4>3. QED
        BY <1>4, <4>1, <4>2
    <3>3. QED
      BY <1>8, <3>1, <3>2
\* Everybody else is on a list that is left.
  <2>2. ASSUME NEW t \in Alive(q), t # s
        PROVE  /\ q.allIn[t] /\ ~CanAct(q, t) /\ GivenBack(low, d, t) = 0
               /\ \E k \in 1 .. Len(low) : t \in low[k].allIn
    <3>1. t \in Seats /\ d[t] \in Nat
      BY <1>3
    <3>2. t \notin Live(q) /\ t \notin top.allIn
      BY <1>8, <2>2
    <3>3. q.allIn[t] /\ ~CanAct(q, t)
      BY <3>1, <3>2 DEF Live, CanAct, Alive
    <3>4. PICK k \in 1 .. Len(layers) : t \in layers[k].allIn
      <4>1. CASE q.inPlay[t] # 0
        BY <1>2, <3>3, <4>1
      <4>2. CASE q.inPlay[t] = 0
        <5>1. \E j \in 1 .. Len(q.pots) : t \in q.pots[j].allIn
          BY <1>3, <3>3, <4>2
        <5>2. QED
          BY <1>2, <5>1
      <4>3. QED
        BY <4>1, <4>2
    <3>5. k # Len(layers)
      BY <3>2, <3>4 DEF top
    <3>6. k \in 1 .. Len(low) /\ t \in low[k].allIn
      BY <1>7, <3>4, <3>5
    <3>7. d[t] <= less
      BY <1>6, <3>6 DEF CutAt
    <3>8. PotTotal(low) = WinnableFor(d, less)
      BY <1>6 DEF CutAt
    <3>9. GivenBack(low, d, t) = 0
      BY <1>4, <3>1, <3>7, <3>8, GivenBackFacts
    <3>10. QED
      BY <3>3, <3>6, <3>9
\* He has got back what the top pot held.
  <2>3. GivenBack(low, d, s) = top.amount /\ (less < d[s] => GivenBack(low, d, s) > 0)
    <3>1. PotTotal(low) = WinnableFor(d, less) /\ PotTotal(layers) = WinnableFor(d, most)
      BY <1>6 DEF CutAt
    <3>2. IF d[s] <= less THEN GivenBack(low, d, s) = 0
          ELSE /\ GivenBack(low, d, s) > 0
               /\ GivenBack(low, d, s) = WinnableFor(d, d[s]) - PotTotal(low)
      BY <1>4, <3>1, GivenBackFacts
    <3>3. CASE d[s] <= less
      <4>1. less = most
        BY <1>4, <2>1, <3>3
      <4>2. top.amount = 0
        BY <1>7, <3>1, <4>1
      <4>3. ~(less < d[s])
        BY <1>4, <2>1, <4>1
      <4>4. QED
        BY <3>2, <3>3, <4>2, <4>3
    <3>4. CASE ~(d[s] <= less)
      BY <1>7, <2>1, <3>1, <3>2, <3>4
    <3>5. QED
      BY <3>3, <3>4
  <2>4. Alive(p) = Alive(q) /\ \A t \in Seats : CanAct(p, t) <=> CanAct(q, t)
    BY DEF Alive, CanAct
  <2>5. ASSUME NEW t \in Alive(q)
        PROVE  /\ NoBet[t] + p.balance[t] = st[t] - d[t] + GivenBack(p.pots, d, t)
               /\ CanAct(p, t) => p.balance[t] > 0
               /\ p.allIn[t] =>
                    \/ GivenBack(p.pots, d, t) > 0
                    \/ \E k \in 1 .. Len(p.pots) : t \in p.pots[k].allIn
    <3>1. /\ t \in Seats /\ NoBet[t] = 0 /\ d[t] \in Nat /\ st[t] \in Nat
          /\ q.balance[t] \in Nat /\ q.balance[t] = st[t] - d[t]
          /\ CanAct(q, t) => q.balance[t] > 0
      BY <1>3 DEF NoBet
    <3>2. q.balance \in [Seats -> Nat]
      BY DEF PotState
    <3>3. CASE t = s
      <4>1. p.balance[t] = q.balance[t] + top.amount
        BY <1>6, <3>1, <3>2, <3>3
      <4>2. NoBet[t] + p.balance[t] = st[t] - d[t] + GivenBack(p.pots, d, t)
        <5>1. GivenBack(p.pots, d, t) = top.amount
          BY <1>6, <2>3, <3>3
        <5>2. QED
          BY <1>7, <3>1, <4>1, <5>1
      <4>3. CanAct(p, t) => p.balance[t] > 0
        BY <1>7, <2>4, <3>1, <4>1
      <4>4. p.allIn[t] => GivenBack(p.pots, d, t) > 0
        <5>1. p.allIn[t] => t \notin Live(q)
          BY DEF Live, CanAct
        <5>2. p.allIn[t] => less < d[s]
          BY <1>6, <1>8, <3>3, <5>1
        <5>3. QED
          BY <1>6, <2>3, <3>3, <5>2
      <4>5. QED
        BY <4>2, <4>3, <4>4
    <3>4. CASE t # s
      <4>1. p.balance[t] = q.balance[t]
        BY <1>6, <3>1, <3>2, <3>4
      <4>2. GivenBack(p.pots, d, t) = 0 /\ ~CanAct(q, t)
        BY <1>6, <2>2, <3>4
      <4>3. NoBet[t] + p.balance[t] = st[t] - d[t] + GivenBack(p.pots, d, t)
        BY <3>1, <4>1, <4>2
      <4>4. \E k \in 1 .. Len(p.pots) : t \in p.pots[k].allIn
        BY <1>6, <2>2, <3>4
      <4>5. QED
        BY <2>4, <3>1, <4>2, <4>3, <4>4
    <3>5. QED
      BY <3>3, <3>4
  <2>6. ASSUME NEW t \in Alive(q), NEW u \in Alive(q),
               GivenBack(p.pots, d, t) > 0, GivenBack(p.pots, d, u) > 0
        PROVE  t = u
    <3>1. \A w \in Alive(q) : w # s => GivenBack(p.pots, d, w) = 0
      BY <1>6, <2>2
    <3>2. t = s /\ u = s
      BY <2>6, <3>1
    <3>3. QED
      BY <3>2
  <2>7. QED
    BY <2>4, <2>5, <2>6 DEF StacksFit
<1>9. QED
  <2>1. (IF Live(q) = {} THEN top.allIn
         ELSE IF top.allIn = {} THEN Live(q) ELSE {}) = {s}
    BY <1>5, <1>6
  <2>2. (Live(q) = {} /\ top.allIn = {s}) \/ (Live(q) = {s} /\ top.allIn = {})
    BY <2>1
  <2>3. QED
    BY <1>8, <2>2

\* calculatePot gives back what the pots do not hold, to one player at most.
LEMMA CollectingFits ==
  ASSUME NEW q \in PotState, BetsAreSettled(q),
         NEW c \in [Seats -> Nat], NEW d \in [Seats -> Nat], NEW level \in Nat,
         \A t \in Seats : d[t] = c[t] + q.inPlay[t],
         CutWhereTheyShould(q, c, level),
         NEW st \in [Seats -> Nat], StacksFit(q, q.inPlay, c, st)
  PROVE  StacksFit(CalculatePot(q), NoBet, d, st)
<1> DEFINE p    == CalculatePot(q)
           freed == [q EXCEPT !.needsPotCalculation = FALSE]
           most == level + q.actionAmount
<1>1. /\ q.inPlay \in [Seats -> Int] /\ q.actionAmount \in Nat
      /\ \A t \in Seats : q.inPlay[t] \in Int /\ 0 <= q.inPlay[t]
      /\ \A t \in Seats : q.inPlay[t] <= q.actionAmount
      /\ BetsInRange(q) /\ AllInBefore(q)
  BY DEF PotState, BetsAreSettled, BetsInRange
<1>3. /\ freed \in PotState /\ freed.pots = q.pots /\ freed.balance = q.balance
      /\ freed.allIn = q.allIn /\ freed.folded = q.folded
  BY DEF PotState
<1> HIDE DEF freed, p
\* Nothing is in play.
<1>4. CASE ~q.needsPotCalculation \/ q.actionAmount = 0
  <2>1. \A t \in Seats : q.inPlay[t] = 0
    BY <1>1, <1>4 DEF BetsAreSettled
  <2>2. /\ p.pots = q.pots /\ p.balance = q.balance
        /\ p.allIn = q.allIn /\ p.folded = q.folded
    BY <1>3, <1>4 DEF CalculatePot, p, freed
  <2>3. d = c /\ NoBet = q.inPlay
    BY <1>1, <2>1 DEF NoBet
  <2>4. QED
    BY <2>2, <2>3 DEF StacksFit, Alive, CanAct, p
\* The bets go on top of the pots.
<1>5. CASE q.needsPotCalculation /\ q.actionAmount # 0
  <2>1. /\ q.actionAmount > 0 /\ most \in Nat /\ q.pots # <<>>
        /\ CutAt(q.pots, c, level) /\ BetOnTop(q, c, level, d)
        /\ \A t \in Seats : d[t] <= most
        /\ \A t \in Live(q) : d[t] >= most
    BY <1>5, BetsGoOnTop
  <2>2. ASSUME NEW t \in Alive(q)
        PROVE  /\ t \in Seats /\ d[t] \in Nat /\ q.balance[t] \in Nat
               /\ q.balance[t] = st[t] - d[t]
               /\ CanAct(q, t) => q.balance[t] > 0
               /\ q.allIn[t] /\ q.inPlay[t] = 0 =>
                    \E k \in 1 .. Len(q.pots) : t \in q.pots[k].allIn
    BY <2>1, BeforeCollecting
  <2>3. CASE AllInAmounts(q) = {}
    <3> DEFINE open == OpenPots(q.pots)
               bets == SumSeats(q.inPlay)
               more == [open EXCEPT ![Len(open)].amount = @ + bets]
    <3>1. p = [freed EXCEPT !.pots = more]
      BY <1>5, <2>3, Zenon DEF CalculatePot, freed, p
    <3>2. CutAt(more, d, most)
      BY <1>1, <2>1, OnePotIsCut
    <3>3. /\ open \in Seq(Pot) /\ Len(open) \in Nat \ {0}
          /\ \A j \in 1 .. Len(q.pots) : \A s \in q.pots[j].allIn :
               j \in 1 .. Len(open) - 1 /\ open[j] = q.pots[j]
      BY <2>1, OpenPotsKeeps DEF PotState
    <3>4. bets \in Nat
      BY <1>1, CappedFacts
    <3> HIDE DEF open, bets
    <3>5. Len(more) = Len(open) /\ \A k \in 1 .. Len(open) : more[k].allIn = open[k].allIn
      <4>1. open # <<>>
        BY <3>3
      <4>2. QED
        BY <3>3, <3>4, <4>1, RaisedPotsKeep
    <3> HIDE DEF more
    <3>6. /\ p.pots = more /\ p.balance = q.balance
          /\ p.allIn = q.allIn /\ p.folded = q.folded
      BY <1>3, <3>1 DEF PotState
    <3>7. ASSUME NEW t \in Alive(q), q.allIn[t]
          PROVE  \E k \in 1 .. Len(p.pots) : t \in p.pots[k].allIn
      <4>1. q.inPlay[t] = 0
        <5>1. t \in Seats /\ ~q.folded[t]
          BY DEF Alive
        <5>2. t \in AllInFor(q, q.inPlay[t])
          BY <3>7, <5>1 DEF AllInFor
        <5>3. ~(q.inPlay[t] > 0)
          BY <2>3, <5>1, <5>2 DEF AllInAmounts
        <5>4. QED
          BY <1>1, <5>1, <5>3
      <4>2. PICK j \in 1 .. Len(q.pots) : t \in q.pots[j].allIn
        BY <2>2, <3>7, <4>1
      <4>3. j \in 1 .. Len(open) /\ t \in open[j].allIn
        BY <3>3, <4>2
      <4>4. j \in 1 .. Len(p.pots) /\ t \in p.pots[j].allIn
        BY <3>5, <3>6, <4>3
      <4>5. QED
        BY <4>4
    <3> HIDE DEF most
    <3>8. CutAt(p.pots, d, most)
      BY <3>2, <3>6
    <3>9. StacksFit(p, NoBet, d, st)
      BY <2>1, <2>2, <3>6, <3>7, <3>8, NothingBackFits
    <3>10. QED
      BY <3>9 DEF p
  <2>4. CASE AllInAmounts(q) # {}
    <3> DEFINE layers == Layered(q)
    <3>1. p = Refund(freed, layers)
      BY <1>5, <2>4, Zenon DEF CalculatePot, freed, p
    <3>2. layers \in Seq(Pot) /\ layers # <<>>
      BY <1>1, <2>1, LayeredFacts
    <3>3. CutAt(layers, d, most)
      BY <1>1, <2>1, LayersAreCut
    <3>4. /\ \A t \in Alive(q) : q.allIn[t] /\ q.inPlay[t] # 0 =>
               \E k \in 1 .. Len(layers) : t \in layers[k].allIn
          /\ \A j \in 1 .. Len(q.pots) : \A t \in q.pots[j].allIn :
               \E k \in 1 .. Len(layers) : t \in layers[k].allIn
      BY <1>1, <2>1, LayersListTheAllIn
    <3>5. TopPotRefundees(freed, layers) = TopPotRefundees(q, layers)
      BY <1>3 DEF TopPotRefundees, Live, CanAct
    <3> HIDE DEF layers, most
    <3>6. PICK less \in 0 .. most :
           /\ CutAt(p.pots, d, less)
           /\ \/ /\ less = most /\ p.pots = layers /\ p.balance = freed.balance
              \/ /\ \A t, u \in Live(freed) : t = u
                 /\ p.pots = SubSeq(layers, 1, Len(layers) - 1)
                 /\ \A t \in layers[Len(layers)].allIn : less < d[t]
                 /\ \E s \in Seats :
                      /\ TopPotRefundees(freed, layers) = {s}
                      /\ p.balance = [freed.balance EXCEPT ![s] = @ + layers[Len(layers)].amount]
      <4> DEFINE r == Refund(freed, layers)
      <4>1. p = r
        BY <3>1
      <4>2. \E less \in 0 .. most :
             /\ CutAt(r.pots, d, less)
             /\ \/ /\ less = most /\ r.pots = layers /\ r.balance = freed.balance
                \/ /\ \A t, u \in Live(freed) : t = u
                   /\ r.pots = SubSeq(layers, 1, Len(layers) - 1)
                   /\ \A t \in layers[Len(layers)].allIn : less < d[t]
                   /\ \E s \in Seats :
                        /\ TopPotRefundees(freed, layers) = {s}
                        /\ r.balance =
                             [freed.balance EXCEPT ![s] = @ + layers[Len(layers)].amount]
        BY <1>3, <2>1, <3>2, <3>3, RefundCuts
      <4> HIDE DEF r
      <4>3. QED
        BY <4>1, <4>2
    <3>7. p.allIn = q.allIn /\ p.folded = q.folded
      BY <1>3, <3>1, <3>2, RefundPots
    <3>8. CASE less = most /\ p.pots = layers /\ p.balance = freed.balance
      <4>1. ASSUME NEW t \in Alive(q), q.allIn[t]
            PROVE  \E k \in 1 .. Len(p.pots) : t \in p.pots[k].allIn
        BY <2>2, <3>4, <3>8, <4>1
      <4>2. CutAt(p.pots, d, most) /\ p.balance = q.balance
        BY <1>3, <3>6, <3>8
      <4>3. StacksFit(p, NoBet, d, st)
        BY <2>1, <2>2, <3>7, <4>1, <4>2, NothingBackFits
      <4>4. QED
        BY <4>3 DEF p
    <3>9. CASE /\ p.pots = SubSeq(layers, 1, Len(layers) - 1)
               /\ \A t \in layers[Len(layers)].allIn : less < d[t]
               /\ \E s \in Seats :
                    /\ TopPotRefundees(freed, layers) = {s}
                    /\ p.balance = [freed.balance EXCEPT ![s] = @ + layers[Len(layers)].amount]
      <4>1. PICK s \in Seats :
              /\ TopPotRefundees(q, layers) = {s}
              /\ p.balance = [q.balance EXCEPT ![s] = @ + layers[Len(layers)].amount]
        BY <1>3, <3>5, <3>9
      <4>2. StacksFit(p, NoBet, d, st)
        BY <1>1, <2>1, <3>3, <3>6, <3>7, <3>9, <4>1, RefundFits DEF layers, most
      <4>3. QED
        BY <4>2 DEF p
    <3>10. QED
      BY <3>6, <3>8, <3>9
  <2>5. QED
    BY <2>3, <2>4
<1>6. QED
  BY <1>4, <1>5

\* The stacks of a hand in play.
StacksAreRight ==
  payouts = NoPayouts => StacksFit(manager, manager.inPlay, InPots, satDownWith)

-----------------------------------------------------------------------------
(* The cuts and the stacks from step to step.                              *)

\* A step that leaves the pots and what is in them alone, and lets nobody back into
\* the betting, keeps the cuts.
LEMMA CutsAreKept ==
  ASSUME SidePotsAreCut, payouts' = payouts, InPots' = InPots, manager'.pots = manager.pots,
         \A t \in Seats :
           CanAct(manager', t) \/ manager'.inPlay[t] # 0 => CanAct(manager, t) \/ manager.inPlay[t] # 0,
         BettingIsOver(manager) => BettingIsOver(manager')
  PROVE  SidePotsAreCut'
<1> SUFFICES ASSUME payouts = NoPayouts
             PROVE  /\ InPots \in [Seats -> Nat]
                    /\ \E level \in Nat : CutWhereTheyShould(manager', InPots, level)
  BY DEF SidePotsAreCut
<1>1. InPots \in [Seats -> Nat]
  BY DEF SidePotsAreCut
<1>2. PICK level \in Nat : CutWhereTheyShould(manager, InPots, level)
  BY DEF SidePotsAreCut
<1>3. CutWhereTheyShould(manager', InPots, level)
  BY <1>2, Zenon DEF CutWhereTheyShould
<1>4. QED
  BY <1>1, <1>3

\* A step that gives nobody a chip, and leaves nobody without one who can still bet
\* or has just bet, keeps the stacks.
LEMMA StacksAreKept ==
  ASSUME StacksAreRight, payouts' = payouts, satDownWith' = satDownWith, InPots' = InPots,
         manager'.pots = manager.pots,
         \A t \in Alive(manager') :
           /\ t \in Alive(manager) /\ AllInAmount(manager', t) = AllInAmount(manager, t)
           /\ CanAct(manager', t) =>
                manager'.balance[t] > 0 \/ (CanAct(manager, t) /\ manager'.balance[t] = manager.balance[t])
           /\ manager'.allIn[t] /\ manager'.inPlay[t] = 0 => manager.allIn[t] /\ manager.inPlay[t] = 0
  PROVE  StacksAreRight'
<1> SUFFICES ASSUME payouts = NoPayouts
             PROVE  StacksFit(manager', manager'.inPlay, InPots, satDownWith)
  BY DEF StacksAreRight
<1>1. StacksFit(manager, manager.inPlay, InPots, satDownWith)
  BY DEF StacksAreRight
<1> DEFINE back(t) == GivenBack(manager.pots, InPots, t)
<1>2. \A t \in Seats : GivenBack(manager'.pots, InPots, t) = back(t)
  OBVIOUS
<1>3. ASSUME NEW t \in Alive(manager')
      PROVE  /\ t \in Seats /\ t \in Alive(manager)
             /\ manager'.inPlay[t] + manager'.balance[t] = satDownWith[t] - InPots[t] + back(t)
             /\ CanAct(manager', t) => manager'.balance[t] > 0
             /\ manager'.allIn[t] /\ manager'.inPlay[t] = 0 =>
                  back(t) > 0 \/ \E k \in 1 .. Len(manager'.pots) : t \in manager'.pots[k].allIn
  <2>1. t \in Seats /\ t \in Alive(manager)
    BY DEF Alive
  <2>2. /\ manager.inPlay[t] + manager.balance[t] = satDownWith[t] - InPots[t] + back(t)
        /\ CanAct(manager, t) => manager.balance[t] > 0
        /\ manager.allIn[t] /\ manager.inPlay[t] = 0 =>
             back(t) > 0 \/ \E k \in 1 .. Len(manager.pots) : t \in manager.pots[k].allIn
    BY <1>1, <2>1 DEF StacksFit
  <2>3. manager'.inPlay[t] + manager'.balance[t] = manager.inPlay[t] + manager.balance[t]
    BY DEF AllInAmount
  <2> HIDE DEF back
  <2>4. CanAct(manager', t) => manager'.balance[t] > 0
    BY <2>2
  <2>5. manager'.allIn[t] /\ manager'.inPlay[t] = 0 =>
          back(t) > 0 \/ \E k \in 1 .. Len(manager'.pots) : t \in manager'.pots[k].allIn
    BY <2>2
  <2>6. QED
    BY <2>1, <2>2, <2>3, <2>4, <2>5
<1>4. ASSUME NEW t \in Alive(manager'), NEW u \in Alive(manager'), back(t) > 0, back(u) > 0
      PROVE  t = u
  <2>1. t \in Alive(manager) /\ u \in Alive(manager)
    BY <1>3
  <2>2. QED
    BY <1>1, <1>4, <2>1 DEF StacksFit
<1> HIDE DEF back
<1>5. QED
  BY <1>2, <1>3, <1>4 DEF StacksFit

\* Betting puts nothing into the pots yet.
LEMMA BetsStayInPlay ==
  ASSUME PMTypeOK, PutIn, manager' \in PotState,
         \A t \in Seats : AllInAmount(manager', t) = AllInAmount(manager, t)
  PROVE  InPots' = InPots
<1>1. ASSUME NEW t \in Seats
      PROVE  put'[t] - manager'.inPlay[t] = put[t] - manager.inPlay[t]
  <2>1. /\ put[t] \in Nat /\ manager.balance[t] \in Nat /\ manager'.balance[t] \in Nat
        /\ manager.inPlay[t] \in Int /\ manager'.inPlay[t] \in Int
    BY DEF PMTypeOK, PotState
  <2>2. put'[t] = put[t] + manager.balance[t] - manager'.balance[t]
    BY DEF PutIn
  <2>3. manager'.inPlay[t] + manager'.balance[t] = manager.inPlay[t] + manager.balance[t]
    BY DEF AllInAmount
  <2>4. QED
    BY <2>1, <2>2, <2>3
<1>2. QED
  BY <1>1 DEF InPots

\* Nobody is in turn in a betting round once the betting is over.
LEMMA BettingGoesOn ==
  ASSUME NEW s, MayBet(manager, s)
  PROVE  ~BettingIsOver(manager)
BY DEF MayBet, InTurn, BettingIsOver

\* The initial pot holds the antes.
LEMMA InitIsCut ==
  ASSUME PMInit
  PROVE  SidePotsAreCut /\ StacksAreRight
<1>1. satDownWith \in [Seats -> TableStakes] /\ manager = Seated(satDownWith) /\ payouts = NoPayouts
      /\ put = [s \in Seats |-> satDownWith[s] - manager.balance[s]]
  BY DEF PMInit
<1>2. satDownWith \in [Seats -> Nat] /\ \A s \in Seats : Ante < satDownWith[s]
  BY <1>1, StakesFacts
<1>3. /\ Playing(manager, acted) /\ Chips(manager) = SumSeats(satDownWith)
      /\ \A s \in Seats : CanAct(manager, s) /\ manager.balance[s] = satDownWith[s] - Ante
      /\ manager.inPlay = [s \in Seats |-> 0] /\ Len(manager.pots) = 1
  BY <1>1, <1>2, SeatingKeeps
<1>4. N \in Nat /\ Seats = 0 .. N - 1 /\ Ante \in Nat /\ manager \in PotState
  BY <1>3, Constants DEF Seats, Playing
<1>5. InPots = [t \in Seats |-> Ante]
  <2>1. ASSUME NEW t \in Seats
        PROVE  put[t] - manager.inPlay[t] = Ante
    <3>1. satDownWith[t] \in Nat /\ Ante \in Nat
      BY <1>2, <1>4
    <3>2. put[t] = satDownWith[t] - manager.balance[t]
      BY <1>1
    <3>3. manager.balance[t] = satDownWith[t] - Ante /\ manager.inPlay[t] = 0
      BY <1>3
    <3>4. QED
      BY <3>1, <3>2, <3>3
  <2>2. QED
    BY <2>1 DEF InPots
<1>6. \A k \in 1 .. Len(manager.pots) : manager.pots[k].allIn = {}
  <2>1. ASSUME NEW k \in 1 .. Len(manager.pots), NEW s \in manager.pots[k].allIn
        PROVE  FALSE
    <3>1. manager.pots[k] \in Pot
      BY <1>4 DEF PotState
    <3>2. s \in Seats /\ manager.allIn[s]
      BY <1>3, <3>1 DEF Playing, AllInBefore, Pot
    <3>3. QED
      BY <1>3, <3>2 DEF CanAct
  <2>2. QED
    BY <2>1
<1>7. PotTotal(manager.pots) = WinnableFor(InPots, Ante)
  <2> DEFINE antes == [t \in Seats |-> Ante]
  <2>1. WinnableFor(InPots, Ante) = SumSeats(antes)
    <3>1. WinnableFor(InPots, Ante) =
            SumSeats([t \in Seats |-> IF InPots[t] < Ante THEN InPots[t] ELSE Ante])
      BY Zenon DEF WinnableFor
    <3>2. [t \in Seats |-> IF InPots[t] < Ante THEN InPots[t] ELSE Ante] = antes
      BY <1>5
    <3>3. QED
      BY <3>1, <3>2
  <2>2. SumSeats(satDownWith) = SumSeats(manager.balance) + SumSeats(antes)
    <3>1. \A t \in 0 .. N - 1 : /\ manager.balance[t] \in Int /\ antes[t] \in Int
                                /\ satDownWith[t] = manager.balance[t] + antes[t]
      BY <1>2, <1>3, <1>4
    <3> HIDE DEF antes
    <3>2. QED
      BY <1>4, <3>1, SumLinear DEF SumSeats
  <2>3. manager.amountInPlay = 0
    <3>1. \A t \in Seats : manager.inPlay[t] = 0
      BY <1>3
    <3>2. SumSeats(manager.inPlay) = 0
      BY <3>1, SumOfZeros
    <3>3. QED
      BY <1>3, <3>2 DEF Playing, BetsAddUp
  <2>4. PotTotal(manager.pots) \in Nat /\ SumSeats(manager.balance) \in Int /\ SumSeats(antes) \in Int
    <3>1. PotTotal(manager.pots) \in Nat
      BY <1>4, PotTotalNat DEF PotState
    <3>2. SumSeats(manager.balance) \in Int
      BY <1>4, SumInt DEF SumSeats, PotState
    <3>3. SumSeats(antes) \in Int
      BY <1>4, SumInt DEF SumSeats
    <3>4. QED
      BY <3>1, <3>2, <3>3
  <2> HIDE DEF antes
  <2>5. QED
    BY <1>3, <2>1, <2>2, <2>3, <2>4 DEF Chips, TotalOnTable
<1>8. CutAt(manager.pots, InPots, Ante)
  BY <1>3, <1>6, <1>7 DEF CutAt
<1>9. CutWhereTheyShould(manager, InPots, Ante)
  BY <1>4, <1>5, <1>8 DEF CutWhereTheyShould
<1>10. InPots \in [Seats -> Nat]
  BY <1>4, <1>5
<1>11. StacksFit(manager, manager.inPlay, InPots, satDownWith)
  <2>1. \A t \in Seats : GivenBack(manager.pots, InPots, t) = 0
    <3> DEFINE c == InPots
    <3>1. c \in [Seats -> Nat] /\ \A t \in Seats : c[t] <= Ante
      BY <1>4, <1>5
    <3>2. PotTotal(manager.pots) = WinnableFor(c, Ante)
      BY <1>7
    <3> HIDE DEF c
    <3>3. \A t \in Seats : GivenBack(manager.pots, c, t) = 0
      BY <1>4, <3>1, <3>2, GivenBackFacts
    <3>4. QED
      BY <3>3 DEF c
  <2>2. ASSUME NEW t \in Seats
        PROVE  /\ manager.inPlay[t] + manager.balance[t] = satDownWith[t] - InPots[t] + GivenBack(manager.pots, InPots, t)
               /\ manager.balance[t] > 0 /\ ~manager.allIn[t]
    <3>1. satDownWith[t] \in Nat /\ Ante \in Nat /\ Ante < satDownWith[t]
      BY <1>2, <1>4
    <3>2. /\ manager.balance[t] = satDownWith[t] - Ante /\ manager.inPlay[t] = 0 /\ InPots[t] = Ante
          /\ CanAct(manager, t)
      BY <1>3, <1>5
    <3>3. QED
      BY <2>1, <3>1, <3>2 DEF CanAct
  <2>3. \A t \in Alive(manager) : t \in Seats
    BY DEF Alive
  <2>4. QED
    BY <2>1, <2>2, <2>3 DEF StacksFit
<1>12. QED
  BY <1>4, <1>9, <1>10, <1>11 DEF SidePotsAreCut, StacksAreRight

\* The blinds: everybody could act and still can.
LEMMA PostBlindsCut ==
  ASSUME PMInv, SidePotsAreCut, StacksAreRight, PostBlinds
  PROVE  SidePotsAreCut' /\ StacksAreRight'
<1>1. /\ blindsDue /\ ~manager.isGameOver /\ ~IsRoundOver(manager) /\ ~manager.inDecisionRound
      /\ manager.actionAmount = 0 /\ manager.actionAtIndex \in {0, N}
      /\ manager' = PayBlinds(manager) /\ PutIn /\ payouts' = payouts /\ satDownWith' = satDownWith
  BY DEF PostBlinds, RoundIsFresh
<1>2. payouts = NoPayouts /\ Playing(manager, acted) /\ manager \in PotState /\ PMTypeOK
  BY <1>1 DEF PMInv, GameEndsWithTheRound, ManagedHandIsPlayed, Playing
<1>3. manager.actionAtIndex = 0 /\ \A s \in Seats : CanAct(manager, s) /\ manager.balance[s] > BigBlind
  <2>1. manager.actionAtIndex # N
    BY <1>1, Constants DEF IsRoundOver
  <2>2. QED
    BY <1>1, <1>2, <2>1 DEF PMInv, BlindsCanBePaid
<1>4. /\ Playing(manager', acted)
      /\ \A s \in Seats : CanAct(manager', s) /\ AllInAmount(manager', s) = manager.balance[s]
      /\ manager'.pots = manager.pots /\ manager'.actionAmount = BigBlind
  BY <1>1, <1>2, <1>3, BlindsKeep
<1>5. \A s \in Seats : AllInAmount(manager', s) = AllInAmount(manager, s)
  <2>1. \A s \in Seats : manager.inPlay[s] \in Int /\ 0 <= manager.inPlay[s] /\ manager.inPlay[s] <= 0
    BY <1>1, <1>2 DEF Playing, BetsAddUp, BetsInRange, PotState
  <2>2. \A s \in Seats : manager.inPlay[s] + manager.balance[s] = manager.balance[s]
    BY <1>2, <2>1 DEF PotState
  <2>3. QED
    BY <1>4, <2>2 DEF AllInAmount
<1>6. InPots' = InPots
  BY <1>1, <1>2, <1>4, <1>5, BetsStayInPlay DEF Playing
<1>7. ~BettingIsOver(manager)
  BY <1>1 DEF BettingIsOver
<1>8. SidePotsAreCut'
  BY <1>1, <1>3, <1>4, <1>6, <1>7, CutsAreKept
<1>9. ASSUME NEW t \in Seats
      PROVE  /\ AllInAmount(manager', t) = AllInAmount(manager, t)
             /\ manager'.balance[t] > 0 /\ ~manager'.allIn[t] /\ t \in Alive(manager)
  <2>1. manager.balance[t] > BigBlind /\ CanAct(manager, t) /\ CanAct(manager', t)
    BY <1>3, <1>4
  <2>2. /\ manager'.inPlay[t] + manager'.balance[t] = manager.balance[t] /\ manager'.inPlay[t] <= BigBlind
        /\ manager'.inPlay[t] \in Int /\ manager'.balance[t] \in Nat /\ manager.balance[t] \in Nat
    BY <1>2, <1>4 DEF AllInAmount, Playing, BetsAddUp, BetsInRange, PotState
  <2>3. manager'.balance[t] > 0
    BY <2>1, <2>2, Constants
  <2>4. QED
    BY <1>5, <2>1, <2>3 DEF CanAct, Alive
<1>10. \A t \in Alive(manager') : t \in Seats
  BY DEF Alive
<1>11. StacksAreRight'
  BY <1>1, <1>4, <1>6, <1>9, <1>10, StacksAreKept
<1>12. QED
  BY <1>8, <1>11

\* A payment, then on to the next turn: r is the manager with the amount to call and
\* the place of the turn as the payment finds them.
LEMMA PaymentsCut ==
  ASSUME PMInv, SidePotsAreCut, StacksAreRight, NEW s \in Seats, MayBet(manager, s),
         NEW r \in PotState, r.balance = manager.balance, r.inPlay = manager.inPlay,
         r.allIn = manager.allIn, r.folded = manager.folded, r.pots = manager.pots,
         NEW to \in Nat, manager.inPlay[s] < to,
         manager' = CompleteTurn(Adjust(r, s, to)), PutIn, payouts' = payouts, satDownWith' = satDownWith
  PROVE  SidePotsAreCut' /\ StacksAreRight'
<1> DEFINE p == Adjust(r, s, to)
<1>1. /\ p \in PotState /\ p.folded = manager.folded /\ p.pots = manager.pots
      /\ \A t \in Seats : AllInAmount(p, t) = AllInAmount(manager, t)
      /\ \A t \in Seats \ {s} : p.inPlay[t] = manager.inPlay[t] /\ p.allIn[t] = manager.allIn[t]
  <2>1. r.inPlay[s] <= to
    BY DEF PotState
  <2>2. p \in PotState /\ p.folded = r.folded /\ p.pots = r.pots
    BY <2>1, AdjustKeeps
  <2>3. \A t \in Seats : AllInAmount(p, t) = AllInAmount(r, t)
    BY <2>1, AdjustKeepsStacks
  <2>4. \A t \in Seats \ {s} : p.inPlay[t] = r.inPlay[t] /\ p.allIn[t] = r.allIn[t]
    BY <2>1, AdjustMoves
  <2> HIDE DEF p
  <2>5. QED
    BY <2>2, <2>3, <2>4 DEF AllInAmount
<1>2. manager' = CompleteTurn(p)
  OBVIOUS
\* He has something to bet with, so that he bets something.
<1>9. /\ Playing(manager, acted) /\ CanAct(manager, s) /\ payouts = NoPayouts
      /\ 0 <= manager.inPlay[s] /\ manager.inPlay[s] \in Int /\ manager.balance[s] \in Nat
  <2>1. InTurn(manager, s) /\ ~manager.inDecisionRound
    BY DEF MayBet
  <2>2. Playing(manager, acted) /\ payouts = NoPayouts /\ manager \in PotState
    BY <2>1, SomebodyActs
  <2>3. MayAct(manager, s)
    BY <2>1, <2>2, TurnFacts
  <2>4. QED
    BY <2>1, <2>2, <2>3 DEF MayAct, CanAct, Playing, BetsAddUp, BetsInRange, PotState
<1>10. manager.balance[s] > 0
  <2>1. s \in Alive(manager)
    BY <1>9 DEF CanAct, Alive
  <2>2. QED
    BY <1>9, <2>1 DEF StacksAreRight, StacksFit
<1>11. p.inPlay[s] # 0 /\ (~p.allIn[s] => p.balance[s] > 0)
  <2> DEFINE due  == to - r.inPlay[s]
             paid == IF due >= r.balance[s] THEN r.balance[s] ELSE due
  <2>1. r.inPlay[s] <= to /\ due \in Nat /\ due > 0 /\ r.balance[s] > 0
    BY <1>9, <1>10
  <2>2. /\ p.balance = [r.balance EXCEPT ![s] = @ - paid]
        /\ p.inPlay = [r.inPlay EXCEPT ![s] = @ + paid]
        /\ p.allIn = [r.allIn EXCEPT ![s] = @ \/ due >= r.balance[s]]
    BY <2>1, AdjustFields
  <2>3. /\ r.balance \in [Seats -> Nat] /\ r.inPlay \in [Seats -> Int]
        /\ r.allIn \in [Seats -> BOOLEAN]
    BY DEF PotState
  <2>4. paid \in Nat /\ paid > 0
    BY <1>9, <2>1
  <2>5. ~(due >= r.balance[s]) => r.balance[s] - paid > 0
    BY <1>9, <2>1
  <2> HIDE DEF p, due, paid
  <2>6. /\ p.balance[s] = r.balance[s] - paid /\ p.inPlay[s] = r.inPlay[s] + paid
        /\ p.allIn[s] <=> (r.allIn[s] \/ due >= r.balance[s])
    BY <2>2, <2>3
  <2>7. QED
    BY <1>9, <2>4, <2>5, <2>6
<1>15. \A t \in Seats \ {s} : p.balance[t] = manager.balance[t]
  <2>1. r.inPlay[s] <= to /\ r.balance \in [Seats -> Nat]
    BY DEF PotState
  <2> DEFINE due  == to - r.inPlay[s]
             paid == IF due >= r.balance[s] THEN r.balance[s] ELSE due
  <2>2. p.balance = [r.balance EXCEPT ![s] = @ - paid]
    BY <2>1, AdjustFields
  <2> HIDE DEF p, due, paid
  <2>3. QED
    BY <2>1, <2>2
<1> HIDE DEF p
<1>3. /\ manager' \in PotState /\ manager'.balance = p.balance /\ manager'.inPlay = p.inPlay
      /\ manager'.allIn = p.allIn /\ manager'.folded = p.folded /\ manager'.pots = p.pots
  BY <1>1, <1>2, CompleteTurnFields
<1>4. InPots' = InPots
  <2>1. \A t \in Seats : AllInAmount(manager', t) = AllInAmount(manager, t)
    BY <1>1, <1>3 DEF AllInAmount
  <2>2. QED
    BY <1>3, <2>1, BetsStayInPlay DEF PMInv
<1>6. \A t \in Seats :
        CanAct(manager', t) \/ manager'.inPlay[t] # 0 => CanAct(manager, t) \/ manager.inPlay[t] # 0
  BY <1>1, <1>3, <1>9 DEF CanAct
<1>7. ~BettingIsOver(manager)
  BY BettingGoesOn
<1>8. SidePotsAreCut'
  BY <1>1, <1>3, <1>4, <1>6, <1>7, CutsAreKept
<1>12. ASSUME NEW t \in Alive(manager')
       PROVE  /\ t \in Alive(manager) /\ AllInAmount(manager', t) = AllInAmount(manager, t)
              /\ CanAct(manager', t) =>
                   manager'.balance[t] > 0 \/ (CanAct(manager, t) /\ manager'.balance[t] = manager.balance[t])
              /\ manager'.allIn[t] /\ manager'.inPlay[t] = 0 => manager.allIn[t] /\ manager.inPlay[t] = 0
  <2>1. t \in Seats /\ t \in Alive(manager) /\ AllInAmount(manager', t) = AllInAmount(manager, t)
    BY <1>1, <1>3 DEF Alive, AllInAmount
  <2>2. CASE t = s
    BY <1>3, <1>11, <2>1, <2>2 DEF CanAct
  <2>3. CASE t # s
    <3>1. manager'.inPlay[t] = manager.inPlay[t] /\ manager'.allIn[t] = manager.allIn[t]
      BY <1>1, <1>3, <2>1, <2>3
    <3>4. manager'.balance[t] = manager.balance[t]
      BY <1>1, <1>3, <1>15, <2>1, <2>3
    <3>5. QED
      BY <1>1, <1>3, <2>1, <3>1, <3>4 DEF CanAct
  <2>4. QED
    BY <2>2, <2>3
<1>13. StacksAreRight'
  BY <1>1, <1>3, <1>4, <1>12, StacksAreKept
<1>14. QED
  BY <1>8, <1>13

\* The steps of a participant.
LEMMA BettingCuts ==
  ASSUME PMInv, SidePotsAreCut, StacksAreRight, NEW s \in Seats,
         \/ ParticipantFolds(s) \/ ParticipantChecks(s) \/ ParticipantCalls(s)
         \/ \E bet \in Int : ParticipantBetsOrRaises(s, bet)
  PROVE  SidePotsAreCut' /\ StacksAreRight'
<1>1. MayBet(manager, s) /\ InTurn(manager, s) /\ payouts' = payouts /\ satDownWith' = satDownWith
  BY DEF ParticipantFolds, ParticipantChecks, ParticipantCalls, ParticipantBetsOrRaises,
         MayCheck, MayCall, MayRaise, MayBet
<1>2. /\ Playing(manager, acted) /\ manager \in PotState /\ ~BettingIsOver(manager)
      /\ manager.inPlay[s] <= manager.actionAmount /\ manager.actionAmount \in Nat
      /\ manager.inPlay[s] \in Int
  <2>1. Playing(manager, acted) /\ manager \in PotState
    BY <1>1, SomebodyActs
  <2>2. QED
    BY <1>1, <2>1, BettingGoesOn DEF Playing, BetsAddUp, BetsInRange, PotState
<1>3. CASE ParticipantFolds(s)
  <2> DEFINE r == [manager EXCEPT !.folded[s] = TRUE]
  <2>1. manager' = CompleteTurn(r) /\ put' = put
    BY <1>3 DEF ParticipantFolds, Fold
  <2>2. /\ r \in PotState /\ r.inPlay = manager.inPlay /\ r.allIn = manager.allIn /\ r.pots = manager.pots
        /\ r.balance = manager.balance
        /\ \A t \in Seats : ~r.folded[t] => ~manager.folded[t]
    BY <1>2 DEF PotState
  <2> HIDE DEF r
  <2>3. /\ manager'.inPlay = manager.inPlay /\ manager'.allIn = manager.allIn /\ manager'.pots = manager.pots
        /\ manager'.folded = r.folded /\ manager'.balance = manager.balance
    BY <2>1, <2>2, CompleteTurnFields
  <2>4. InPots' = InPots
    BY <2>1, <2>3 DEF InPots
  <2>5. SidePotsAreCut'
    BY <1>1, <1>2, <2>2, <2>3, <2>4, CutsAreKept DEF CanAct
  <2>6. StacksAreRight'
    BY <1>1, <2>2, <2>3, <2>4, StacksAreKept DEF CanAct, Alive, AllInAmount
  <2>7. QED
    BY <2>5, <2>6
<1>4. CASE ParticipantChecks(s)
  <2>1. manager' = CompleteTurn(manager) /\ put' = put
    BY <1>4 DEF ParticipantChecks, Check
  <2>2. /\ manager'.inPlay = manager.inPlay /\ manager'.allIn = manager.allIn /\ manager'.pots = manager.pots
        /\ manager'.folded = manager.folded /\ manager'.balance = manager.balance
    BY <1>2, <2>1, CompleteTurnFields
  <2>3. InPots' = InPots
    BY <2>1, <2>2 DEF InPots
  <2>4. SidePotsAreCut'
    BY <1>1, <1>2, <2>2, <2>3, CutsAreKept DEF CanAct
  <2>5. StacksAreRight'
    BY <1>1, <2>2, <2>3, StacksAreKept DEF CanAct, Alive, AllInAmount
  <2>6. QED
    BY <2>4, <2>5
<1>5. CASE ParticipantCalls(s)
  <2>1. manager' = CompleteTurn(Adjust(manager, s, manager.actionAmount)) /\ PutIn
        /\ manager.inPlay[s] < manager.actionAmount
    BY <1>5 DEF ParticipantCalls, MayCall, Call
  <2>2. QED
    BY <1>1, <1>2, <2>1, PaymentsCut
<1>6. CASE \E bet \in Int : ParticipantBetsOrRaises(s, bet)
  <2>1. PICK bet \in Int : ParticipantBetsOrRaises(s, bet)
    BY <1>6
  <2> DEFINE raised == [manager EXCEPT !.actionStartIndex = s,
                                  !.actionAtIndex    = 0,
                                  !.actionDiffAmount = bet - manager.actionAmount,
                                  !.actionAmount     = bet]
  <2>2. /\ bet > manager.actionAmount /\ bet > manager.inPlay[s]
        /\ manager' = BetOrRaise(manager, s, bet) /\ PutIn
    BY <2>1 DEF ParticipantBetsOrRaises, MayRaise
  <2>3. bet \in Nat /\ bet - manager.actionAmount \in Nat /\ manager.inPlay[s] < bet /\ 0 \in 0 .. N
    BY <1>2, <2>2, Constants
  <2>4. /\ raised \in PotState
        /\ raised.balance = manager.balance /\ raised.inPlay = manager.inPlay
        /\ raised.allIn = manager.allIn /\ raised.folded = manager.folded /\ raised.pots = manager.pots
    BY <1>2, <2>3 DEF PotState
  <2>5. manager' = CompleteTurn(Adjust(raised, s, bet))
    BY <2>2, Zenon DEF BetOrRaise
  <2> HIDE DEF raised
  <2>6. QED
    BY <1>1, <2>2, <2>3, <2>4, <2>5, PaymentsCut
<1>7. QED
  BY <1>3, <1>4, <1>5, <1>6

\* In a decision round nothing is bet, so that the betting stays over if it was.
LEMMA DecisionsCut ==
  ASSUME PMInv, SidePotsAreCut, StacksAreRight, DecisionRoundStarts \/ \E s \in Seats : DecisionAdvances(s)
  PROVE  SidePotsAreCut' /\ StacksAreRight'
<1>1. CASE DecisionRoundStarts
  <2>1. /\ ~manager.isGameOver /\ manager.actionAmount = 0 /\ ~manager.needsPotCalculation
        /\ manager' = StartDecisionRound(manager) /\ put' = put /\ payouts' = payouts
        /\ satDownWith' = satDownWith
    BY <1>1 DEF DecisionRoundStarts, RoundIsFresh
  <2>2. Playing(manager, acted)
    BY <2>1 DEF PMInv, GameEndsWithTheRound, ManagedHandIsPlayed
  <2>3. /\ manager'.allIn = manager.allIn /\ manager'.folded = manager.folded /\ manager'.pots = manager.pots
        /\ manager'.inPlay = [s \in Seats |-> 0] /\ manager'.inDecisionRound
        /\ manager'.balance = manager.balance
    BY <2>1, <2>2, DecisionRoundKeeps
  <2>4. \A t \in Seats : manager.inPlay[t] = 0
    <3>1. \A t \in Seats : manager.inPlay[t] \in Int /\ 0 <= manager.inPlay[t] /\ manager.inPlay[t] <= 0
      BY <2>1, <2>2 DEF Playing, BetsAddUp, BetsInRange, PotState
    <3>2. QED
      BY <3>1
  <2>5. InPots' = InPots
    BY <2>1, <2>3, <2>4 DEF InPots
  <2>6. BettingIsOver(manager) => BettingIsOver(manager')
    BY <2>3 DEF BettingIsOver, Live, CanAct
  <2>7. SidePotsAreCut'
    BY <2>1, <2>3, <2>5, <2>6, CutsAreKept DEF CanAct
  <2>8. StacksAreRight'
    <3>1. \A t \in Seats : manager'.inPlay[t] = manager.inPlay[t]
      BY <2>3, <2>4
    <3>2. QED
      BY <2>1, <2>3, <2>5, <3>1, StacksAreKept DEF CanAct, Alive, AllInAmount
  <2>9. QED
    BY <2>7, <2>8
<1>2. ASSUME NEW s \in Seats, DecisionAdvances(s)
      PROVE  SidePotsAreCut' /\ StacksAreRight'
  <2>1. /\ manager' = CompleteTurn(manager) /\ put' = put /\ payouts' = payouts /\ InTurn(manager, s)
        /\ satDownWith' = satDownWith
    BY <1>2 DEF DecisionAdvances, AdvanceDecision
  <2>2. manager \in PotState
    BY <2>1, SomebodyActs
  <2>3. /\ manager'.inPlay = manager.inPlay /\ manager'.allIn = manager.allIn /\ manager'.pots = manager.pots
        /\ manager'.folded = manager.folded /\ manager'.inDecisionRound = manager.inDecisionRound
        /\ manager.inDecisionRound /\ manager'.balance = manager.balance
    BY <1>2, <2>1, <2>2, CompleteTurnFields DEF DecisionAdvances
  <2>4. InPots' = InPots
    BY <2>1, <2>3 DEF InPots
  <2>5. BettingIsOver(manager) => BettingIsOver(manager')
    BY <2>3 DEF BettingIsOver, Live, CanAct
  <2>6. SidePotsAreCut'
    BY <2>1, <2>3, <2>4, <2>5, CutsAreKept DEF CanAct
  <2>7. StacksAreRight'
    BY <2>1, <2>3, <2>4, StacksAreKept DEF CanAct, Alive, AllInAmount
  <2>8. QED
    BY <2>6, <2>7
<1>3. QED
  BY <1>1, <1>2

\* EndGame leaves the pots alone.
LEMMA GameEndsCut ==
  ASSUME PMInv, SidePotsAreCut, StacksAreRight, GameEnds
  PROVE  SidePotsAreCut' /\ StacksAreRight'
<1>1. /\ manager' = EndGame(manager) /\ put' = put /\ payouts' = payouts /\ ~manager.isGameOver
      /\ satDownWith' = satDownWith
  BY DEF GameEnds
<1>2. Playing(manager, acted)
  BY <1>1 DEF PMInv, GameEndsWithTheRound, ManagedHandIsPlayed
<1>3. /\ manager'.inPlay = manager.inPlay /\ manager'.allIn = manager.allIn /\ manager'.pots = manager.pots
      /\ manager'.folded = manager.folded /\ manager'.actionAtIndex = manager.actionAtIndex
      /\ manager'.balance = manager.balance
  BY <1>1, <1>2, EndGameKeeps
<1>4. manager'.inDecisionRound = manager.inDecisionRound
  BY <1>1, <1>2 DEF EndGame, Playing, PotState
<1>5. InPots' = InPots
  BY <1>1, <1>3 DEF InPots
<1>6. BettingIsOver(manager) => BettingIsOver(manager')
  BY <1>3, <1>4 DEF BettingIsOver, Live, CanAct, IsRoundOver
<1>7. SidePotsAreCut'
  BY <1>1, <1>3, <1>5, <1>6, CutsAreKept DEF CanAct
<1>8. StacksAreRight'
  BY <1>1, <1>3, <1>5, StacksAreKept DEF CanAct, Alive, AllInAmount
<1>9. QED
  BY <1>7, <1>8

\* The bets of a round that is over are settled.
LEMMA RoundIsSettled ==
  ASSUME NEW who, Playing(manager, who), IsRoundOver(manager)
  PROVE  manager \in PotState /\ BetsAreSettled(manager)
<1>1. manager \in PotState /\ BetsInRange(manager) /\ AllInBefore(manager)
  BY DEF Playing, BetsAddUp
<1>2. manager.actionAmount > 0 => manager.pots # <<>>
  BY DEF Playing, PotIsOpen
<1>3. ASSUME manager.needsPotCalculation, NEW t \in Live(manager)
      PROVE  manager.inPlay[t] = manager.actionAmount
  <2>1. t \in Seats /\ CanAct(manager, t)
    BY DEF Live
  <2>2. PICK i \in 0 .. N - 1 : SeatAt(manager, i) = t
    BY <1>1, <2>1, SeatAtReachesAll
  <2>3. i \in 0 .. manager.actionAtIndex - 1 /\ i < N
    BY <1>1, Constants DEF IsRoundOver, PotState
  <2>4. QED
    BY <1>3, <2>1, <2>2, <2>3 DEF Playing, MatchedBehind
<1>4. manager.needsPotCalculation /\ manager.actionAmount > 0 =>
        \E t \in Seats : manager.inPlay[t] = manager.actionAmount
  BY DEF Playing, BetIsHeld, Alive
<1>5. ~manager.needsPotCalculation => \A t \in Seats : manager.inPlay[t] = 0
  BY DEF Playing, TurnsInOrder
<1>6. QED
  BY <1>1, <1>2, <1>3, <1>4, <1>5 DEF BetsAreSettled

\* What NextRound and PayWinners collect is cut where it should be, and what is not in
\* the pots then has been given back.
LEMMA CollectedIsRight ==
  ASSUME PMInv, SidePotsAreCut, StacksAreRight, payouts = NoPayouts, IsRoundOver(manager)
  PROVE  /\ manager \in PotState /\ put \in [Seats -> Nat] /\ satDownWith \in [Seats -> Nat]
         /\ StacksFit(CalculatePot(manager), NoBet, put, satDownWith)
         /\ \E less \in Nat :
              /\ CutAt(CalculatePot(manager).pots, put, less)
              /\ \A t \in Live(manager) : put[t] >= less
              /\ (\A t \in Seats : put[t] <= less) \/ \A s, t \in Live(manager) : s = t
<1>1. Playing(manager, acted) /\ put \in [Seats -> Nat] /\ satDownWith \in [Seats -> Nat]
  BY TableStakesAssumption DEF PMInv, ManagedHandIsPlayed, PMTypeOK
<1>2. manager \in PotState /\ BetsAreSettled(manager)
  BY <1>1, RoundIsSettled
<1> DEFINE c == InPots
<1>3. c \in [Seats -> Nat] /\ \A t \in Seats : put[t] = c[t] + manager.inPlay[t]
  <2>1. c \in [Seats -> Nat]
    BY DEF SidePotsAreCut
  <2>2. \A t \in Seats : put[t] = (put[t] - manager.inPlay[t]) + manager.inPlay[t]
    BY <1>1, <1>2 DEF PotState
  <2>3. QED
    BY <2>1, <2>2 DEF InPots
<1>4. PICK level \in Nat : CutWhereTheyShould(manager, c, level)
  BY DEF SidePotsAreCut
<1>5. StacksFit(manager, manager.inPlay, c, satDownWith)
  BY DEF StacksAreRight
<1> HIDE DEF c
<1>6. StacksFit(CalculatePot(manager), NoBet, put, satDownWith)
  BY <1>1, <1>2, <1>3, <1>4, <1>5, CollectingFits
<1>7. \E less \in Nat :
        /\ CutAt(CalculatePot(manager).pots, put, less)
        /\ \A t \in Live(manager) : put[t] >= less
        /\ (\A t \in Seats : put[t] <= less) \/ \A s, t \in Live(manager) : s = t
  BY <1>1, <1>2, <1>3, <1>4, CollectingCuts
<1>8. QED
  BY <1>1, <1>2, <1>6, <1>7

\* NextRound collects the bets; when somebody has got a refund no round opens.
LEMMA RoundEndsCut ==
  ASSUME PMInv, SidePotsAreCut, StacksAreRight, RoundEnds
  PROVE  SidePotsAreCut' /\ StacksAreRight'
<1>1. /\ ~manager.isGameOver /\ IsRoundOver(manager) /\ manager' = NextRound(manager)
      /\ put' = put /\ payouts' = payouts /\ satDownWith' = satDownWith
  BY DEF RoundEnds
<1>2. payouts = NoPayouts /\ Playing(manager, acted)
  BY <1>1 DEF PMInv, GameEndsWithTheRound, ManagedHandIsPlayed
<1>3. /\ manager'.allIn = manager.allIn /\ manager'.folded = manager.folded
      /\ manager'.inPlay = [s \in Seats |-> 0]
      /\ manager'.actionAtIndex \in {0, N}
      /\ manager'.pots = CalculatePot(manager).pots
      /\ manager'.actionAtIndex = 0 => \E s, t \in Live(manager') : s # t
  <2> DEFINE p == NextRound(manager)
  <2>1. /\ Playing(p, acted)
        /\ p.allIn = manager.allIn /\ p.folded = manager.folded
        /\ p.inPlay = [s \in Seats |-> 0]
        /\ p.actionAtIndex \in {0, N}
        /\ p.pots = CalculatePot(manager).pots
        /\ p.actionAtIndex = 0 => \E s, t \in Live(p) : s # t
    BY <1>1, <1>2, NextRoundKeeps
  <2>2. QED
    BY <1>1, <2>1
<1>4. /\ put \in [Seats -> Nat]
      /\ StacksFit(CalculatePot(manager), NoBet, put, satDownWith)
      /\ \E less \in Nat :
           /\ CutAt(CalculatePot(manager).pots, put, less)
           /\ \A t \in Live(manager) : put[t] >= less
           /\ (\A t \in Seats : put[t] <= less) \/ \A s, t \in Live(manager) : s = t
  BY <1>1, <1>2, CollectedIsRight
<1>7. PICK less \in Nat :
        /\ CutAt(CalculatePot(manager).pots, put, less)
        /\ \A t \in Live(manager) : put[t] >= less
        /\ (\A t \in Seats : put[t] <= less) \/ \A s, t \in Live(manager) : s = t
  BY <1>4
<1>8. InPots' = put
  <2>1. \A t \in Seats : put[t] - 0 = put[t]
    BY <1>4
  <2>2. QED
    BY <1>1, <1>3, <1>4, <2>1 DEF InPots
<1>9. Live(manager') = Live(manager)
  BY <1>3 DEF Live, CanAct
<1>10. CutWhereTheyShould(manager', put, less)
  <2>1. CutAt(manager'.pots, put, less)
    BY <1>3, <1>7
  <2>2. \A t \in Seats : CanAct(manager', t) \/ manager'.inPlay[t] # 0 => put[t] >= less
    BY <1>3, <1>7, <1>9 DEF Live
  <2>3. ASSUME \A s, t \in Live(manager) : s = t
        PROVE  BettingIsOver(manager')
    <3>1. manager'.actionAtIndex = N
      BY <1>3, <1>9, <2>3
    <3>2. IsRoundOver(manager')
      BY <3>1, Constants DEF IsRoundOver
    <3>3. QED
      BY <1>3, <1>9, <2>3, <3>2 DEF BettingIsOver
  <2>4. QED
    BY <1>7, <2>1, <2>2, <2>3 DEF CutWhereTheyShould
<1>11. SidePotsAreCut'
  BY <1>4, <1>8, <1>10 DEF SidePotsAreCut
<1>12. StacksFit(manager', manager'.inPlay, put, satDownWith)
  <2> DEFINE q == CalculatePot(manager)
             r == [q EXCEPT !.inDecisionRound = FALSE]
  <2>1. q \in PotState /\ q.allIn = manager.allIn /\ q.folded = manager.folded
    BY <1>2, CollectingFacts
  <2>2. StacksFit(q, NoBet, put, satDownWith) /\ manager'.pots = q.pots
    BY <1>3, <1>4
  <2>3. manager' = Reset(r)
    BY <1>1 DEF NextRound
  <2> HIDE DEF q
  <2>4. r \in PotState /\ r.balance = q.balance
    BY <2>1 DEF PotState
  <2> HIDE DEF r
  <2>5. manager'.balance = q.balance
    BY <2>3, <2>4, ResetFields
  <2>6. manager'.inPlay = NoBet
    BY <1>3 DEF NoBet
  <2>7. Alive(manager') = Alive(q) /\ \A t \in Seats : CanAct(manager', t) <=> CanAct(q, t)
    BY <1>3, <2>1 DEF Alive, CanAct
  <2>8. \A t \in Alive(q) : t \in Seats
    BY DEF Alive
  <2>9. QED
    BY <1>3, <2>1, <2>2, <2>5, <2>6, <2>7, <2>8 DEF StacksFit
<1>13. StacksAreRight'
  BY <1>1, <1>8, <1>12 DEF StacksAreRight
<1>14. QED
  BY <1>11, <1>13

\* No step cuts a pot anywhere else.
LEMMA NextCuts ==
  ASSUME PMInv, SidePotsAreCut, StacksAreRight, [PMNext]_pmVars
  PROVE  SidePotsAreCut' /\ StacksAreRight'
<1> DEFINE Goal == SidePotsAreCut' /\ StacksAreRight'
<1>1. ASSUME PostBlinds PROVE Goal
  BY <1>1, PostBlindsCut
<1>2. ASSUME NEW s \in Seats,
             \/ ParticipantFolds(s) \/ ParticipantChecks(s) \/ ParticipantCalls(s)
             \/ \E bet \in Int : ParticipantBetsOrRaises(s, bet)
      PROVE  Goal
  BY <1>2, BettingCuts
<1>3. ASSUME DecisionRoundStarts \/ \E s \in Seats : DecisionAdvances(s)
      PROVE  Goal
  BY <1>3, DecisionsCut
<1>4. ASSUME RoundEnds PROVE Goal
  BY <1>4, RoundEndsCut
<1>5. ASSUME GameEnds PROVE Goal
  BY <1>5, GameEndsCut
<1>6. ASSUME NEW ranks \in HandStrengths, WinnersArePaid(ranks) PROVE Goal
  <2>1. payouts' # NoPayouts
    BY <1>6, WinnersArePaidFacts, NoPayoutsAssumption
  <2>2. QED
    BY <2>1 DEF SidePotsAreCut, StacksAreRight
<1>7. ASSUME UNCHANGED pmVars PROVE Goal
  BY <1>7 DEF pmVars, SidePotsAreCut, StacksAreRight, InPots
<1>8. QED
  BY <1>1, <1>2, <1>3, <1>4, <1>5, <1>6, <1>7 DEF PMNext, HandIsPaid

\* The pots up to one are what its all-in players can win together.
LEMMA CutsMatch ==
  ASSUME PMInv, SidePotsAreCut
  PROVE  SidePotsMatchContributions
<1> SUFFICES ASSUME payouts = NoPayouts, NEW k \in 1 .. Len(manager.pots), NEW s \in manager.pots[k].allIn
             PROVE  PotTotal(SubSeq(manager.pots, 1, k)) = WinnableFor(InPots, InPots[s])
  BY Zenon DEF SidePotsMatchContributions, InPots
<1>1. manager.pots \in Seq(Pot)
  BY DEF PMInv, PMTypeOK, PotState
<1>2. PICK level \in Nat : CutWhereTheyShould(manager, InPots, level)
  BY DEF SidePotsAreCut
<1>3. UpTo(manager.pots, k) = WinnableFor(InPots, InPots[s])
  BY <1>2 DEF CutWhereTheyShould, CutAt
<1> DEFINE low == SubSeq(manager.pots, 1, k)
<1>4. low \in Seq(Pot) /\ Len(low) = k /\ \A i \in 1 .. k : low[i] = manager.pots[i]
  BY <1>1
<1> HIDE DEF low
<1>5. UpTo(low, k) = UpTo(manager.pots, k)
  <2>1. /\ k \in 0 .. Len(manager.pots) /\ k <= Len(low)
        /\ \A i \in 1 .. k : low[i].amount = manager.pots[i].amount
    BY <1>1, <1>4
  <2>2. QED
    BY <1>1, <1>4, <2>1, UpToSame
<1>6. PotTotal(low) = UpTo(low, k)
  BY <1>4, UpToIsTotal
<1>7. QED
  BY <1>3, <1>5, <1>6 DEF low

-----------------------------------------------------------------------------
(* What the best hands are paid.                                           *)

\* The lower of two levels.
Lower(a, b) == IF a <= b THEN a ELSE b

\* Nobody of the group has put in more than d.
IsDeepest(d, group, c) == d \in group /\ \A t \in group : c[t] <= c[d]

\* Everybody of the group is in all the pots, up to the level, or is all-in on one.
InOrAllIn(group, pots, c, level) ==
  \A t \in group : c[t] >= level \/ \E k \in 1 .. Len(pots) : t \in pots[k].allIn

\* At most one of the group has got something back.
OneGotBack(group, pots, c) ==
  \A s, t \in group : GivenBack(pots, c, s) > 0 /\ GivenBack(pots, c, t) > 0 => s = t

\* The group is the first of the tiers, and nobody in it is in another.
IsFirst(group, tiers) ==
  group = Group(tiers, 1) /\ \A k \in 2 .. Len(tiers) : tiers[k] \cap group = {}

\* What everybody has got back.
Back(pots, c) == [s \in Seats |-> GivenBack(pots, c, s)]

\* A pot somebody is all-in on is not empty: it is cut higher than the one below it.
LEMMA CutPotsHoldChips ==
  ASSUME NEW pots \in Seq(Pot), NEW c \in [Seats -> Nat], NEW level \in Nat,
         CutAt(pots, c, level), NEW k \in 1 .. Len(pots), NEW s \in pots[k].allIn
  PROVE  pots[k].amount # 0
<1>1. k - 1 \in 0 .. Len(pots) - 1 /\ k \in Nat /\ k - 1 \in Nat /\ (k - 1) + 1 = k
  BY AmountsAreNat
<1>2. s \in Seats /\ c[s] \in Nat /\ 0 < c[s] /\ UpTo(pots, k) = WinnableFor(c, c[s])
  <2>1. pots[k] \in Pot
    OBVIOUS
  <2>2. s \in Seats
    BY <2>1 DEF Pot
  <2>3. QED
    BY <2>2 DEF CutAt
<1>3. UpTo(pots, k) = UpTo(pots, k - 1) + pots[k].amount
  <2>1. \A i \in 0 .. k - 1 : Amounts(pots)[i] \in Int
    BY <1>1, AmountsAreNat
  <2>2. Sum(Amounts(pots), (k - 1) + 1) = Sum(Amounts(pots), k - 1) + Amounts(pots)[k - 1]
    BY <1>1, SumStep
  <2>3. Amounts(pots)[k - 1] = pots[k].amount
    BY <1>1 DEF Amounts
  <2>4. QED
    BY <1>1, <2>2, <2>3 DEF UpTo
<1>4. UpTo(pots, k - 1) < UpTo(pots, k) /\ UpTo(pots, k - 1) \in Nat
  <2>1. CASE k = 1
    <3>1. UpTo(pots, k - 1) = 0 /\ WinnableFor(c, 0) = 0
      BY <2>1, SumZero, NothingToWin DEF UpTo
    <3>2. WinnableFor(c, 0) < WinnableFor(c, c[s])
      BY <1>2, WinnableGrows
    <3>3. QED
      BY <1>2, <3>1, <3>2
  <2>2. CASE k # 1
    <3>1. k - 1 \in 1 .. Len(pots) - 1 /\ k - 1 \in 1 .. Len(pots) /\ k - 1 <= k /\ k - 1 # k
      BY <1>1, <2>2
    <3>2. pots[k - 1] \in Pot /\ pots[k - 1].allIn # {}
      BY <3>1 DEF CutAt
    <3>3. PICK t \in Seats : t \in pots[k - 1].allIn
      BY <3>2 DEF Pot
    <3>4. UpTo(pots, k - 1) = WinnableFor(c, c[t]) /\ c[t] < c[s]
      BY <3>1, <3>3 DEF CutAt
    <3>5. WinnableFor(c, c[t]) < WinnableFor(c, c[s]) /\ WinnableFor(c, c[t]) \in Nat
      BY <1>2, <3>4, WinnableGrows
    <3>6. QED
      BY <1>2, <3>4, <3>5
  <2>3. QED
    BY <2>1, <2>2
<1>5. QED
  BY <1>3, <1>4

\* The pots the best group wins: up to the one the deepest of them is all-in on, or all
\* of them when one of the group is all-in on none.
LEMMA BestGroupsPots ==
  ASSUME NEW pots \in Seq(Pot), NEW c \in [Seats -> Nat], NEW level \in Nat,
         CutAt(pots, c, level),
         NEW group \in SUBSET Seats, NEW deep, IsDeepest(deep, group, c),
         InOrAllIn(group, pots, c, level)
  PROVE  \E m \in 0 .. Len(pots) :
           /\ GoesThrough(group, pots, m)
           /\ UpTo(pots, m) = WinnableFor(c, Lower(c[deep], level))
<1>1. /\ Len(pots) \in Nat /\ deep \in group /\ deep \in Seats /\ c[deep] \in Nat
      /\ \A t \in group : c[t] <= c[deep]
  BY DEF IsDeepest
<1>2. CASE \E x \in group : \A k \in 1 .. Len(pots) : x \notin pots[k].allIn
  <2>1. PICK x \in group : \A k \in 1 .. Len(pots) : x \notin pots[k].allIn
    BY <1>2
  <2>2. x \in Staying(group, pots, Len(pots) - 1)
    BY <1>1, <2>1 DEF Staying
  <2>3. x \in Seats /\ c[x] \in Nat /\ c[x] >= level /\ c[x] <= c[deep]
    BY <1>1, <2>1 DEF InOrAllIn
  <2>4. level = Lower(c[deep], level)
    BY <1>1, <2>3 DEF Lower
  <2>5. UpTo(pots, Len(pots)) = WinnableFor(c, level)
    BY UpToIsTotal DEF CutAt
  <2>6. Len(pots) \in 0 .. Len(pots)
    BY <1>1
  <2>7. QED
    BY <1>1, <2>2, <2>4, <2>5, <2>6 DEF GoesThrough
<1>3. CASE \A x \in group : \E k \in 1 .. Len(pots) : x \in pots[k].allIn
  <2>1. PICK m \in 1 .. Len(pots) : deep \in pots[m].allIn
    BY <1>1, <1>3
  <2>2. /\ c[deep] <= level /\ UpTo(pots, m) = WinnableFor(c, c[deep])
        /\ Lower(c[deep], level) = c[deep]
    BY <2>1 DEF CutAt, Lower
  <2>3. deep \in Staying(group, pots, m - 1)
    <3>1. ASSUME NEW j \in 1 .. m - 1
          PROVE  deep \notin pots[j].allIn
      <4>1. j \in 1 .. Len(pots) /\ j <= m /\ j # m
        BY <1>1
      <4>2. deep \in pots[j].allIn => c[deep] < c[deep]
        BY <2>1, <4>1 DEF CutAt
      <4>3. QED
        BY <1>1, <4>2
    <3>2. QED
      BY <1>1, <3>1 DEF Staying
  <2>4. ASSUME NEW w \in group
        PROVE  \E j \in 1 .. m : pots[j].amount # 0 /\ w \in pots[j].allIn
    <3>1. PICK l \in 1 .. Len(pots) : w \in pots[l].allIn
      BY <1>3
    <3>2. c[w] \in Nat /\ c[w] <= c[deep]
      BY <1>1
    <3>3. l <= m
      <4>1. ASSUME ~(l <= m)
            PROVE  FALSE
        <5>1. m <= l /\ m # l
          BY <4>1
        <5>2. c[deep] < c[w]
          BY <2>1, <3>1, <5>1 DEF CutAt
        <5>3. QED
          BY <1>1, <3>2, <5>2
      <4>2. QED
        BY <4>1
    <3>4. pots[l].amount # 0
      BY <3>1, CutPotsHoldChips
    <3>5. QED
      BY <3>1, <3>3, <3>4
  <2>5. Staying(group, pots, m) = {}
    BY <2>4 DEF Staying
  <2>6. m \in 0 .. Len(pots) /\ m # 0
    BY <1>1
  <2>7. QED
    BY <2>2, <2>3, <2>5, <2>6 DEF GoesThrough
<1>4. QED
  BY <1>2, <1>3

\* What the group has got back, together: what the deepest of them can win above the pots.
LEMMA GroupsRefunds ==
  ASSUME NEW pots, NEW c \in [Seats -> Nat], NEW level \in Nat,
         PotTotal(pots) = WinnableFor(c, level),
         NEW group \in SUBSET Seats, NEW deep, IsDeepest(deep, group, c),
         OneGotBack(group, pots, c)
  PROVE  /\ Back(pots, c) \in [Seats -> Nat]
         /\ SumSeats(Of(group, Back(pots, c))) + WinnableFor(c, Lower(c[deep], level)) =
              WinnableFor(c, c[deep])
<1> DEFINE back(s) == GivenBack(pots, c, s)
           f       == Of(group, Back(pots, c))
<1>1. /\ N \in Nat /\ Seats = 0 .. N - 1
      /\ deep \in group /\ deep \in Seats /\ c[deep] \in Nat
      /\ \A t \in group : c[t] <= c[deep]
  BY Constants DEF Seats, IsDeepest
<1>2. WinnableFor(c, level) \in Nat /\ \A s \in Seats : WinnableFor(c, c[s]) \in Nat
  <2>1. ASSUME NEW s \in Seats
        PROVE  WinnableFor(c, c[s]) \in Nat
    <3>1. c[s] \in Nat /\ c[s] <= c[s]
      OBVIOUS
    <3>2. QED
      BY <3>1, WinnableGrows
  <2>2. level <= level
    OBVIOUS
  <2>3. WinnableFor(c, level) \in Nat
    BY <2>2, WinnableGrows
  <2>4. QED
    BY <2>1, <2>3
<1>3. ASSUME NEW s \in Seats
      PROVE  IF c[s] <= level THEN back(s) = 0
             ELSE back(s) > 0 /\ back(s) = WinnableFor(c, c[s]) - PotTotal(pots)
  BY GivenBackFacts
<1>4. \A s \in Seats : back(s) \in Nat
  BY <1>2, <1>3
<1>5. \A s \in Seats : f[s] = IF s \in group THEN back(s) ELSE 0
  BY DEF Of, Back
<1>10. Back(pots, c) \in [Seats -> Nat]
  BY <1>4 DEF Back
<1>6. \A s, t \in group : back(s) > 0 /\ back(t) > 0 => s = t
  BY DEF OneGotBack
<1> HIDE DEF back, f
<1>7. CASE c[deep] <= level
  <2>1. \A s \in group : c[s] <= level
    BY <1>1, <1>7
  <2>2. \A s \in Seats : f[s] = 0
    BY <1>3, <1>5, <2>1
  <2>3. SumSeats(f) = 0
    BY <2>2, SumOfZeros
  <2>4. QED
    BY <1>1, <1>2, <1>7, <1>10, <2>3 DEF Lower, f
<1>8. CASE ~(c[deep] <= level)
  <2> DEFINE none == [s \in Seats |-> 0]
  <2>1. back(deep) > 0 /\ back(deep) = WinnableFor(c, c[deep]) - WinnableFor(c, level)
    BY <1>1, <1>3, <1>8
  <2>2. ASSUME NEW s \in Seats, s # deep
        PROVE  f[s] = 0
    <3>1. CASE s \in group
      <4>1. ~(back(s) > 0) /\ back(s) \in Nat
        BY <1>1, <1>4, <1>6, <2>1, <2>2, <3>1
      <4>2. QED
        BY <1>5, <4>1
    <3>2. QED
      BY <1>5, <3>1
  <2>3. \A s \in Seats : none[s] = 0
    OBVIOUS
  <2> HIDE DEF none
  <2>4. SumSeats(none) = 0
    BY <2>3, SumOfZeros
  <2>5. Sum(f, N) = Sum(none, N) + back(deep)
    <3>1. PICK j \in 0 .. N - 1 : j = deep
      BY <1>1
    <3>2. f[j] = none[j] + back(deep) /\ back(deep) \in Int
      BY <1>1, <1>4, <1>5, <2>3, <3>1
    <3>3. \A i \in 0 .. N - 1 : none[i] \in Int /\ (i # j => f[i] = none[i])
      BY <1>1, <2>2, <2>3, <3>1
    <3>4. QED
      BY <1>1, <3>2, <3>3, SumChange
  <2>6. SumSeats(f) = WinnableFor(c, c[deep]) - WinnableFor(c, level)
    BY <1>1, <1>2, <2>1, <2>4, <2>5 DEF SumSeats
  <2>7. QED
    BY <1>1, <1>2, <1>8, <1>10, <2>6 DEF Lower, f
<1>9. QED
  BY <1>7, <1>8

\* What the group is paid and has got back is what the deepest of them can win, but
\* for some of the cents of the pots.
CollectsAll(group, pots, tiers, c, deep) ==
  /\ Back(pots, c) \in [Seats -> Nat]
  /\ WinnableFor(c, c[deep])
       - (SumSeats(Of(group, Payouts(pots, tiers))) + SumSeats(Of(group, Back(pots, c))))
       \in 0 .. OddCents(pots)

\* What the best group is paid and what it has got back is, together, what the deepest
\* of them can win.
LEMMA BestGroupsShare ==
  ASSUME NEW pots \in Seq(Pot), NEW c \in [Seats -> Nat], NEW level \in Nat,
         CutAt(pots, c, level),
         NEW tiers \in Seq(SUBSET Seats), NEW group \in SUBSET Seats, IsFirst(group, tiers),
         NEW deep, IsDeepest(deep, group, c), InOrAllIn(group, pots, c, level),
         OneGotBack(group, pots, c)
  PROVE  CollectsAll(group, pots, tiers, c, deep)
<1> DEFINE low == Lower(c[deep], level)
<1>1. \E m \in 0 .. Len(pots) : GoesThrough(group, pots, m) /\ UpTo(pots, m) = WinnableFor(c, low)
  BY BestGroupsPots
<1>2. /\ Back(pots, c) \in [Seats -> Nat]
      /\ SumSeats(Of(group, Back(pots, c))) + WinnableFor(c, low) = WinnableFor(c, c[deep])
  <2>1. PotTotal(pots) = WinnableFor(c, level)
    BY DEF CutAt
  <2>2. QED
    BY <2>1, GroupsRefunds
<1>3. low \in Nat
  <2>1. c[deep] \in Nat
    BY DEF IsDeepest
  <2>2. QED
    BY <2>1 DEF Lower
<1> HIDE DEF low
<1>4. PICK m \in 0 .. Len(pots) : GoesThrough(group, pots, m) /\ UpTo(pots, m) = WinnableFor(c, low)
  BY <1>1
<1>5. /\ WinnableFor(c, low) - SumSeats(Of(group, Payouts(pots, tiers))) \in 0 .. OddCents(pots)
      /\ OddCents(pots) \in Nat
  <2>1. WinFirst(group, pots, tiers, m)
    BY <1>4, FirstGroupWins DEF IsFirst
  <2>2. SumSeats(Of(group, Payouts(pots, tiers))) = UpTo(ChipsOf(pots), m)
    BY <2>1, PayoutsToGroup
  <2>3. UpTo(pots, m) - UpTo(ChipsOf(pots), m) \in 0 .. OddCents(pots) /\ OddCents(pots) \in Nat
    BY ChipsOfPots
  <2>4. QED
    BY <1>4, <2>2, <2>3
<1>6. /\ WinnableFor(c, low) \in Int /\ SumSeats(Of(group, Back(pots, c))) \in Int
      /\ SumSeats(Of(group, Payouts(pots, tiers))) \in Int
  <2>1. low <= low
    BY <1>3
  <2>2. WinnableFor(c, low) \in Nat
    BY <1>3, <2>1, WinnableGrows
  <2>3. N \in Nat /\ \A i \in 0 .. N - 1 : Of(group, Back(pots, c))[i] \in Int
    BY <1>2, Constants DEF Of, Seats
  <2>4. SumSeats(Of(group, Back(pots, c))) \in Int
    BY <2>3, SumInt DEF SumSeats
  <2>5. SumSeats(Of(group, Payouts(pots, tiers))) \in Int
    <3>1. Payouts(pots, tiers) \in [Seats -> Nat]
      BY PayoutsType
    <3>2. \A i \in 0 .. N - 1 : Of(group, Payouts(pots, tiers))[i] \in Int
      BY <2>3, <3>1 DEF Of, Seats
    <3>3. QED
      BY <2>3, <3>2, SumInt DEF SumSeats
  <2>6. QED
    BY <2>2, <2>4, <2>5
<1> DEFINE paid == SumSeats(Of(group, Payouts(pots, tiers)))
           back == SumSeats(Of(group, Back(pots, c)))
           due  == WinnableFor(c, low)
<1>7. due \in Int /\ back \in Int /\ paid \in Int /\ WinnableFor(c, c[deep]) = back + due
  BY <1>2, <1>6
<1>8. OddCents(pots) \in Nat /\ due - paid \in 0 .. OddCents(pots)
  BY <1>5
<1> HIDE DEF paid, back, due
<1>9. WinnableFor(c, c[deep]) - (paid + back) \in 0 .. OddCents(pots)
  BY <1>7, <1>8
<1>10. QED
  BY <1>2, <1>9 DEF CollectsAll, paid, back

\* Somebody of a group has put in the most.
LEMMA DeepestExists ==
  ASSUME NEW group \in SUBSET Seats, group # {}, NEW c \in [Seats -> Nat]
  PROVE  \E d \in group : \A t \in group : c[t] <= c[d]
<1> DEFINE among(i) == {t \in group : t < i}
           T == {i \in 0 .. N : among(i) # {} => \E d \in among(i) : \A t \in among(i) : c[t] <= c[d]}
<1>1. N \in Nat /\ Seats = 0 .. N - 1
  BY Constants DEF Seats
<1>2. 0 \in T
  <2>1. among(0) = {}
    <3>1. \A t \in group : t \in Nat
      BY <1>1
    <3>2. QED
      BY <3>1
  <2> HIDE DEF among
  <2>2. QED
    BY <1>1, <2>1
<1>3. ASSUME NEW i \in 1 .. N, i - 1 \in T
      PROVE  i \in T
  <2>1. i \in 0 .. N /\ \A t \in group : t < i <=> (t < i - 1 \/ t = i - 1)
    BY <1>1
  <2>2. CASE i - 1 \notin group
    <3>1. among(i) = among(i - 1)
      BY <2>1, <2>2
    <3>2. QED
      BY <1>3, <2>1, <3>1
  <2>3. CASE i - 1 \in group
    <3>1. i - 1 \in among(i) /\ among(i) = among(i - 1) \cup {i - 1}
      BY <2>1, <2>3
    <3>2. \A t \in group : c[t] \in Nat
      OBVIOUS
    <3>3. CASE among(i - 1) = {}
      <4>1. \A t \in among(i) : c[t] <= c[i - 1]
        BY <2>3, <3>1, <3>2, <3>3
      <4>2. QED
        BY <2>1, <3>1, <4>1
    <3>4. CASE among(i - 1) # {}
      <4>1. PICK d \in among(i - 1) : \A t \in among(i - 1) : c[t] <= c[d]
        BY <1>3, <3>4
      <4>2. d \in group /\ d \in among(i)
        BY <3>1
      <4>3. CASE c[i - 1] <= c[d]
        <5>1. \A t \in among(i) : c[t] <= c[d]
          BY <3>1, <4>1, <4>3
        <5>2. QED
          BY <2>1, <4>2, <5>1
      <4>4. CASE ~(c[i - 1] <= c[d])
        <5>1. \A t \in among(i - 1) : t \in group /\ c[t] <= c[i - 1]
          BY <2>3, <3>2, <4>1, <4>2, <4>4
        <5>2. \A t \in among(i) : c[t] <= c[i - 1]
          BY <2>3, <3>1, <3>2, <5>1
        <5>3. QED
          BY <2>1, <3>1, <5>2
      <4>5. QED
        BY <4>3, <4>4
    <3>5. QED
      BY <3>3, <3>4
  <2>4. QED
    BY <2>2, <2>3
<1>4. N \in T
  <2> HIDE DEF T
  <2>1. \A i \in 0 .. N : i \in T
    BY <1>1, <1>2, <1>3, IntervalInduction
  <2>2. QED
    BY <1>1, <2>1
<1>5. among(N) = group
  <2>1. \A t \in group : t \in 0 .. N - 1
    BY <1>1
  <2>2. \A t \in group : t < N
    BY <1>1, <2>1
  <2>3. QED
    BY <2>2
<1>6. QED
  BY <1>4, <1>5

\* PayWinners pays the best hands, with what they have got back, what the deepest of
\* them can win.
LEMMA BestHandsAreDue ==
  ASSUME PMInv, SidePotsAreCut, StacksAreRight,
         NEW ranks \in HandStrengths, WinnersArePaid(ranks)
  PROVE  BestHandsWinTheirPots'
<1> DEFINE calc   == CalculatePot(manager)
           tiers  == SortedTiers(Alive(calc), ranks)
           paying == Payouts(calc.pots, tiers)
           group  == Group(tiers, 1)
<1>1. /\ payouts = NoPayouts /\ IsRoundOver(manager) /\ Playing(manager, acted)
      /\ calc \in PotState /\ Contested(calc)
      /\ ranks \in [Seats -> 1 .. N]
      /\ manager' = Paid(calc, paying) /\ payouts' = paying /\ paying \in [Seats -> Nat]
      /\ strength' = ranks /\ satDownWith' = satDownWith /\ put' = put
  BY WinnersArePaidFacts
<1>2. calc.allIn = manager.allIn /\ calc.folded = manager.folded
  BY <1>1, CollectingFacts
<1>3. /\ put \in [Seats -> Nat] /\ satDownWith \in [Seats -> Nat]
      /\ StacksFit(calc, NoBet, put, satDownWith)
      /\ \E less \in Nat :
           /\ CutAt(calc.pots, put, less)
           /\ \A t \in Live(manager) : put[t] >= less
  BY <1>1, CollectedIsRight
<1>4. PICK less \in Nat : /\ CutAt(calc.pots, put, less)
                          /\ \A t \in Live(manager) : put[t] >= less
  BY <1>3
<1> HIDE DEF calc
<1>6. /\ calc.pots \in Seq(Pot) /\ calc.balance \in [Seats -> Nat]
      /\ Alive(calc) \in SUBSET Seats /\ Alive(calc) # {}
  BY <1>1 DEF PotState, Alive, Contested
<1>7. tiers \in Seq(SUBSET Seats)
  BY <1>1, <1>6, SortedTiersType
<1>8. /\ group = {s \in Alive(calc) : \A t \in Alive(calc) : ranks[t] <= ranks[s]}
      /\ group # {}
      /\ \A k \in 2 .. Len(tiers) : tiers[k] \cap group = {}
  BY <1>1, <1>6, FirstGroupIsBest
<1>9. /\ manager'.balance = [s \in Seats |-> calc.balance[s] + paying[s]]
      /\ manager'.folded = calc.folded /\ manager'.pots = calc.pots
  BY <1>1 DEF Paid, PotState
<1>10. Best' = group
  <2>1. Alive(manager') = Alive(calc)
    BY <1>9 DEF Alive
  <2>2. Best' = {s \in Alive(manager') : \A t \in Alive(manager') : strength'[t] <= strength'[s]}
    BY DEF Best
  <2> HIDE DEF group
  <2>3. QED
    BY <1>1, <1>8, <2>1, <2>2
<1> HIDE DEF tiers
<1>11. group \in SUBSET Seats /\ group \subseteq Alive(calc)
  BY <1>6, <1>8
<1>12. \E d \in group : \A t \in group : put[t] <= put[d]
  BY <1>3, <1>8, <1>11, DeepestExists
<1>13. PICK d \in group : \A t \in group : put[t] <= put[d]
  BY <1>12
<1> HIDE DEF group
<1>14. ASSUME NEW t \in group
       PROVE  put[t] >= less \/ \E k \in 1 .. Len(calc.pots) : t \in calc.pots[k].allIn
  <2>1. t \in Alive(calc) /\ t \in Seats /\ ~manager.folded[t]
    BY <1>2, <1>11 DEF Alive
  <2>2. CASE ~manager.allIn[t]
    BY <1>4, <2>1, <2>2 DEF Live, CanAct
  <2>3. CASE manager.allIn[t]
    <3>1. NoBet[t] = 0 /\ calc.allIn[t]
      BY <1>2, <2>1, <2>3 DEF NoBet
    <3>2. \/ GivenBack(calc.pots, put, t) > 0
          \/ \E k \in 1 .. Len(calc.pots) : t \in calc.pots[k].allIn
      BY <1>3, <2>1, <3>1 DEF StacksFit
    <3>3. ASSUME GivenBack(calc.pots, put, t) > 0
          PROVE  put[t] >= less
      <4>1. PotTotal(calc.pots) = WinnableFor(put, less)
        BY <1>4 DEF CutAt
      <4>2. IF put[t] <= less THEN GivenBack(calc.pots, put, t) = 0
            ELSE GivenBack(calc.pots, put, t) > 0
        BY <1>3, <2>1, <4>1, GivenBackFacts
      <4>3. put[t] \in Nat
        BY <1>3, <2>1
      <4>4. QED
        BY <3>3, <4>2, <4>3
    <3>4. QED
      BY <3>2, <3>3
  <2>4. QED
    BY <2>2, <2>3
<1> DEFINE all  == [s \in Seats |-> IF s \in Best' THEN Collected(s)' ELSE 0]
           won  == Of(group, paying)
           back == Of(group, Back(calc.pots, put))
<1>15. /\ Back(calc.pots, put) \in [Seats -> Nat]
       /\ WinnableFor(put, put[d]) - (SumSeats(won) + SumSeats(back)) \in 0 .. OddCents(calc.pots)
  <2> DEFINE pots == calc.pots
  <2>1. pots \in Seq(Pot) /\ CutAt(pots, put, less)
    BY <1>4, <1>6
  <2>3. InOrAllIn(group, pots, put, less) /\ IsDeepest(d, group, put)
    BY <1>13, <1>14 DEF InOrAllIn, IsDeepest
  <2>4. OneGotBack(group, pots, put)
    BY <1>3, <1>11 DEF StacksFit, OneGotBack
  <2> HIDE DEF pots
  <2>5. IsFirst(group, tiers)
    BY <1>8 DEF IsFirst, group
  <2>6. tiers \in Seq(SUBSET Seats) /\ group \in SUBSET Seats /\ put \in [Seats -> Nat]
    BY <1>3, <1>7, <1>11
  <2>7. CollectsAll(group, pots, tiers, put, d)
    BY <2>1, <2>3, <2>4, <2>5, <2>6, BestGroupsShare
  <2>8. QED
    BY <2>7 DEF pots, CollectsAll
<1> HIDE DEF paying
<1>16. ASSUME NEW s \in Seats
       PROVE  won[s] \in Int /\ back[s] \in Int /\ all[s] = won[s] + back[s]
  <2> DEFINE got == GivenBack(calc.pots, put, s)
  <2>1. all[s] = IF s \in group THEN Collected(s)' ELSE 0
    BY <1>10
  <2>2. got \in Nat /\ Back(calc.pots, put)[s] = got
    BY <1>15 DEF Back
  <2>3. /\ won[s] = IF s \in group THEN paying[s] ELSE 0
        /\ back[s] = IF s \in group THEN got ELSE 0
    BY <2>2 DEF Of
  <2>4. /\ paying[s] \in Nat
        /\ calc.balance[s] \in Nat /\ satDownWith[s] \in Nat /\ put[s] \in Nat
    BY <1>1, <1>3, <1>6
  <2>5. Collected(s)' = (calc.balance[s] + paying[s]) - (satDownWith[s] - put[s])
    BY <1>1, <1>9 DEF Collected
  <2>6. ASSUME s \in group
        PROVE  NoBet[s] + calc.balance[s] = satDownWith[s] - put[s] + got /\ NoBet[s] = 0
    BY <1>3, <1>11, <2>6 DEF StacksFit, NoBet
  <2> HIDE DEF all, won, back, got
  <2>7. QED
    BY <2>1, <2>2, <2>3, <2>4, <2>5, <2>6
<1> HIDE DEF all, won, back
<1>19. WinnableFor(put, put[d]) - SumSeats(all) \in 0 .. OddCents(calc.pots)
  <2>1. N \in Nat /\ Seats = 0 .. N - 1
    BY Constants DEF Seats
  <2>2. \A i \in 0 .. N - 1 : won[i] \in Int /\ back[i] \in Int /\ all[i] = won[i] + back[i]
    BY <1>16, <2>1
  <2>3. SumSeats(all) = SumSeats(won) + SumSeats(back)
    BY <2>1, <2>2, SumLinear DEF SumSeats
  <2>4. QED
    BY <1>15, <2>3
<1>17. ASSUME NEW e, e = CHOOSE s \in Best' : \A t \in Best' : put'[t] <= put'[s]
       PROVE  put'[e] = put[d]
  <2>1. e \in group /\ \A t \in group : put[t] <= put[e]
    BY <1>1, <1>10, <1>13, <1>17
  <2>2. put[e] \in Nat /\ put[d] \in Nat /\ put[e] <= put[d] /\ put[d] <= put[e]
    BY <1>3, <1>11, <1>13, <2>1
  <2>3. QED
    BY <1>1, <2>2
<1>18. QED
  <2> DEFINE e == CHOOSE s \in Best' : \A t \in Best' : put'[t] <= put'[s]
  <2>1. put'[e] = put[d]
    BY <1>17
  <2> HIDE DEF e
  <2>2. WinnableFor(put', put'[e]) - SumSeats(all) \in 0 .. OddCents(manager'.pots)
    BY <1>1, <1>9, <1>19, <2>1
  <2>3. QED
    BY <2>2, Zenon DEF BestHandsWinTheirPots, all, e

\* Nothing else is done to the payouts, and nothing at all once they are made.
LEMMA NextPaysTheBest ==
  ASSUME PMInv, SidePotsAreCut, StacksAreRight, BestHandsWinTheirPots,
         [PMNext]_pmVars
  PROVE  BestHandsWinTheirPots'
<1>1. ASSUME payouts = NoPayouts, payouts' = payouts
      PROVE  BestHandsWinTheirPots'
  BY <1>1 DEF BestHandsWinTheirPots
<1>2. ~manager.isGameOver => payouts = NoPayouts
  BY DEF PMInv, GameEndsWithTheRound
<1>3. ASSUME PostBlinds \/ DecisionRoundStarts \/ RoundEnds \/ GameEnds
      PROVE  BestHandsWinTheirPots'
  BY <1>1, <1>2, <1>3 DEF PostBlinds, DecisionRoundStarts, RoundEnds, GameEnds
<1>4. ASSUME NEW s \in Seats,
             \/ ParticipantFolds(s) \/ ParticipantChecks(s) \/ ParticipantCalls(s)
             \/ DecisionAdvances(s) \/ \E bet \in Int : ParticipantBetsOrRaises(s, bet)
      PROVE  BestHandsWinTheirPots'
  <2>1. InTurn(manager, s) /\ payouts' = payouts
    BY <1>4 DEF ParticipantFolds, ParticipantChecks, ParticipantCalls, DecisionAdvances,
                ParticipantBetsOrRaises, MayBet, MayCheck, MayCall, MayRaise
  <2>2. QED
    BY <1>1, <2>1, SomebodyActs
<1>5. ASSUME NEW ranks \in HandStrengths, WinnersArePaid(ranks)
      PROVE  BestHandsWinTheirPots'
  BY <1>5, BestHandsAreDue
<1>6. ASSUME UNCHANGED pmVars
      PROVE  BestHandsWinTheirPots'
  BY <1>6 DEF pmVars, BestHandsWinTheirPots, Best, Collected
<1>7. QED
  BY <1>3, <1>4, <1>5, <1>6 DEF PMNext, HandIsPaid

-----------------------------------------------------------------------------
(* The theorems.                                                           *)

\* No balance and no pot is ever negative, and every index stays in its range,
\* for every number of players and all stakes, antes and blinds.
THEOREM PMTypeCorrect == PMSpec => []PMTypeOK
<1>1. PMInv => PMTypeOK
  BY DEF PMInv
<1>2. QED
  BY <1>1, Invariance, PTL

\* Bets, all-ins, side pots, refunds and new rounds neither make nor lose chips:
\* what adjustParticipant takes and what calculatePot cuts into layers adds up.
THEOREM ChipsAreConserved == PMSpec => []ChipsConserved
<1>1. PMInv => ChipsConserved
  BY DEF PMInv, ManagedHandIsPlayed, Chips, ChipsConserved
<1>2. QED
  BY <1>1, Invariance, PTL

\* completeTurn and reset never leave the turn on somebody who cannot act.
THEOREM TurnIsRight == PMSpec => []TurnIsOnSomebodyWhoMayAct
<1>1. PMInv => TurnIsOnSomebodyWhoMayAct
  BY DEF PMInv, ManagedHandIsPlayed, GameEndsWithTheRound, Playing, TurnsInOrder,
         TurnIsOnSomebodyWhoMayAct
<1>2. QED
  BY <1>1, Invariance, PTL

\* A betting round ends only when all who can still act have acted since the last
\* raise and have matched it.
THEOREM RoundsEndSettled == PMSpec => []RoundEndsSettled
<1>1. PMInv => RoundEndsSettled
  <2> SUFFICES ASSUME PMInv, manager.needsPotCalculation
               PROVE  /\ IsRoundOver(manager)
                      /\ \A s \in Live(manager) : s \in acted /\ manager.inPlay[s] = manager.actionAmount
    BY DEF RoundEndsSettled
  <2>1. Playing(manager, acted)
    BY DEF PMInv, ManagedHandIsPlayed, GameEndsWithTheRound
  <2>2. IsRoundOver(manager)
    BY <2>1 DEF Playing, TurnsInOrder
  <2>3. ASSUME NEW s \in Live(manager)
        PROVE  s \in acted /\ manager.inPlay[s] = manager.actionAmount
    <3>1. manager \in PotState /\ s \in Seats /\ CanAct(manager, s)
      BY <2>1 DEF Playing, Live
    <3>2. PICK i \in 0 .. N - 1 : SeatAt(manager, i) = s
      BY <3>1, SeatAtReachesAll
    <3>3. i \in 0 .. manager.actionAtIndex - 1 /\ i < N
      BY <2>2, <3>1, Constants DEF IsRoundOver, PotState
    <3>4. QED
      BY <2>1, <3>1, <3>2, <3>3 DEF Playing, MatchedBehind
  <2>4. QED
    BY <2>2, <2>3
<1>2. QED
  BY <1>1, Invariance, PTL

\* PayWinners hands out every whole chip, whatever the stakes, the antes and the
\* blinds: through all side pots and ties somebody who is still in the hand collects
\* each pot, and the shares of a pot add up to its chips, odd ones included.  The
\* cents of a pot that make no chip, which roundedWinnings drops, are all that is lost.
THEOREM ThePotsArePaid == PMSpec => []PotsArePaidToTheChip
<1>1. PMInit => PotsArePaidToTheChip
  BY DEF PMInit, PotsArePaidToTheChip
<1>2. PMInv /\ PotsArePaidToTheChip /\ [PMNext]_pmVars => PotsArePaidToTheChip'
  BY NextPaysToTheChip
<1>3. QED
  BY <1>1, <1>2, Invariance, PTL DEF PMSpec

\* The side pots are cut where they should be: the pots up to the one a player is
\* all-in on hold what he can win, all that everybody has put in up to as much as he
\* has, through the all-ins of several rounds, folds and refunds.
THEOREM SidePotsAreRight == PMSpec => []SidePotsMatchContributions
<1>1. PMInit => SidePotsAreCut /\ StacksAreRight
  BY InitIsCut
<1>2. PMInv /\ SidePotsAreCut /\ StacksAreRight /\ [PMNext]_pmVars =>
        SidePotsAreCut' /\ StacksAreRight'
  BY NextCuts
<1>3. PMInv /\ SidePotsAreCut => SidePotsMatchContributions
  BY CutsMatch
<1>4. QED
  BY <1>1, <1>2, <1>3, Invariance, PTL DEF PMSpec

\* PayWinners gives the best hands, together, all that the deepest of them can win:
\* the pots up to the one he is all-in on, or all the pots when one of them is all-in
\* on none, and what calculatePot has given back; a worse hand gets into none of it,
\* and only cents that make no chip stay behind.
THEOREM BestHandsArePaid == PMSpec => []BestHandsWinTheirPots
<1>1. PMInit => SidePotsAreCut /\ StacksAreRight /\ BestHandsWinTheirPots
  <2>1. PMInit => payouts = NoPayouts
    BY DEF PMInit
  <2>2. QED
    BY <2>1, InitIsCut DEF BestHandsWinTheirPots
<1>2. PMInv /\ SidePotsAreCut /\ StacksAreRight /\ [PMNext]_pmVars =>
        SidePotsAreCut' /\ StacksAreRight'
  BY NextCuts
<1>3. PMInv /\ SidePotsAreCut /\ StacksAreRight /\ BestHandsWinTheirPots
        /\ [PMNext]_pmVars => BestHandsWinTheirPots'
  BY NextPaysTheBest
<1>4. QED
  BY <1>1, <1>2, <1>3, Invariance, PTL DEF PMSpec

-----------------------------------------------------------------------------
(***************************************************************************)
(* A hand of Hold'em.                                                      *)
(***************************************************************************)

-----------------------------------------------------------------------------
(* Transitions.                                                            *)

\* The dealer of a game.
Sound(d) == DOMAIN d = {"state", "pending", "panicked", "behind"}

\* While a transition is pending the dealer state is Waiting, in which nobody can
\* act and no branch of Tick but the pending one is taken.
Settled(d) == Sound(d) /\ (d.pending # None => d.state = "Waiting")

Calm == Settled(dealer) /\ acting \in [Actors -> Places]

\* The participants' goroutines and the run loop are not the same.
LEMMA ActorsFacts ==
  /\ RunLoop \in Actors /\ RunLoop \notin Seats
  /\ \A s \in Seats : s \in Actors /\ s # RunLoop
<1>1. N \in Nat /\ N \notin 0 .. N - 1
  BY Constants
<1>2. QED
  BY <1>1 DEF Actors, RunLoop, Seats

\* setPendingDealerState where nothing is pending.
LEMMA Scheduled ==
  ASSUME NEW d, Sound(d), d.pending = None, NEW next, NEW a
  PROVE  LET e == Schedule(d, next, a) IN
         /\ Sound(e) /\ e.state = "Waiting" /\ e.pending = next
         /\ e.panicked = d.panicked /\ e.behind = Busy \ {a}
<1> DEFINE behind == Busy \ {a}
<1>1. Schedule(d, next, a) =
        [d EXCEPT !.pending = next, !.state = "Waiting", !.behind = behind]
  BY DEF Schedule
<1> HIDE DEF behind
<1>2. LET e == Schedule(d, next, a) IN
      /\ Sound(e) /\ e.state = "Waiting" /\ e.pending = next
      /\ e.panicked = d.panicked /\ e.behind = behind
  BY <1>1 DEF Sound
<1>3. QED
  BY <1>2 DEF behind

\* setPendingDealerState where another state is pending.
LEMMA Collided ==
  ASSUME NEW d, Sound(d), d.pending # None, NEW next, NEW a
  PROVE  LET e == Schedule(d, next, a) IN
         /\ Sound(e) /\ e.state = d.state /\ e.pending = d.pending
         /\ e.panicked = d.panicked \cup {a} /\ e.behind = d.behind
<1>1. Schedule(d, next, a) = [d EXCEPT !.panicked = @ \cup {a}]
  BY DEF Schedule
<1>2. QED
  BY <1>1 DEF Sound

\* Either way the dealer of a pending transition is left waiting.
LEMMA ScheduleIsCalm ==
  ASSUME NEW d, Settled(d), NEW next, NEW a
  PROVE  Settled(Schedule(d, next, a))
<1>1. CASE d.pending = None
  BY <1>1, Scheduled DEF Settled
<1>2. CASE d.pending # None
  BY <1>2, Collided DEF Settled
<1>3. QED
  BY <1>1, <1>2

\* What a move does.
LEMMA Moved ==
  ASSUME Calm, NEW a \in Actors, NEW place \in Places, Moves(a, place)
  PROVE  /\ acting' \in [Actors -> Places] /\ acting'[a] = place
         /\ \A b \in Actors : b # a => acting'[b] = acting[b]
BY DEF Calm, Moves

\* A new game has nothing pending.
LEMMA InitIsCalm == Init => Calm
<1>1. Init => Settled(dealer)
  BY DEF Init, Settled, Sound
<1>2. Init => acting \in [Actors -> Places]
  BY DEF Init, Places
<1>3. QED
  BY <1>1, <1>2 DEF Calm

\* An action of a player leaves the dealer alone and moves the player.
LEMMA ActionMoves ==
  ASSUME NEW s \in Seats, Action(s)
  PROVE  /\ dealer' = dealer /\ acting[s] = "idle" /\ Up /\ InDecisionRound
         /\ InTurn(pm, s)
         /\ \E place \in {"folded", "acted"} : Moves(s, place)
         /\ UNCHANGED <<variant, community, finished, stake>>
<1>1. CASE ActionDiscard(s)
  BY <1>1 DEF Action, ActionDiscard, Acted, InDecisionRound, OnTheClock
<1>2. CASE ActionCheck(s)
  BY <1>2 DEF Action, ActionCheck, Acted, InDecisionRound, MayCheck, MayBet
<1>3. CASE ActionCall(s)
  BY <1>3 DEF Action, ActionCall, Acted, InDecisionRound, MayCall, MayBet
<1>4. CASE ActionFold(s)
  BY <1>4 DEF Action, ActionFold, Acted, InDecisionRound, MayBet
<1>5. ASSUME NEW amount, ActionBetOrRaise(s, amount)
      PROVE  /\ dealer' = dealer /\ acting[s] = "idle" /\ InDecisionRound
             /\ InTurn(pm, s)
             /\ Moves(s, "acted")
             /\ UNCHANGED <<variant, community, finished, stake>>
  BY <1>5 DEF ActionBetOrRaise, Acted, InDecisionRound, MayRaise, MayBet
<1>6. QED
  BY <1>1, <1>2, <1>3, <1>4, <1>5 DEF Action

LEMMA ActionIsCalm ==
  ASSUME Calm, NEW s \in Seats, Action(s)
  PROVE  Calm'
<1>1. PICK place \in {"folded", "acted"} : dealer' = dealer /\ Moves(s, place)
  BY ActionMoves
<1>2. s \in Actors /\ place \in Places
  BY ActorsFacts DEF Places
<1>3. QED
  BY <1>1, <1>2, Moved DEF Calm

\* What goes on may schedule a state, or panic.
LEMMA ContinuesIsCalm ==
  ASSUME Calm, NEW a \in Actors, Continues(a)
  PROVE  Calm'
<1>1. \/ dealer' = dealer
      \/ \E next : dealer' = Schedule(dealer, next, a)
  BY DEF Continues, FoldIsHandled, RoundIsChecked, NextIsScheduled
<1>2. \E place \in Places : Moves(a, place)
  BY DEF Continues, FoldIsHandled, RoundIsChecked, NextIsScheduled, Places
<1>3. Settled(dealer')
  BY <1>1, ScheduleIsCalm DEF Calm
<1>4. QED
  BY <1>2, <1>3, Moved DEF Calm

LEMMA TickIsCalm ==
  ASSUME Calm, Tick
  PROVE  Calm'
<1>1. CASE TickStart
  <2>1. CASE variant = "Pineapple"
    BY <1>1, <2>1 DEF TickStart, Enter, Calm, Settled, Sound
  <2>2. CASE variant # "Pineapple"
    BY <1>1, <2>2, ScheduleIsCalm DEF TickStart, Calm
  <2> QED
    BY <2>1, <2>2
<1>2. CASE TickPending
  BY <1>2 DEF TickPending, Calm, Settled, Sound
<1>3. CASE TickDealCommunity
  BY <1>3 DEF TickDealCommunity, Enter, Calm, Settled, Sound
<1>4. CASE TickRoundOver
  <2>1. RunLoop \in Actors /\ "next" \in Places
    BY ActorsFacts DEF Places
  <2>2. QED
    BY <1>4, <2>1, Moved DEF TickRoundOver, Calm
<1>5. CASE TickRevealWinner
  BY <1>5, ScheduleIsCalm DEF TickRevealWinner, Calm
<1>6. CASE TickEnd
  BY <1>6 DEF TickEnd, Calm
<1> QED
  BY <1>1, <1>2, <1>3, <1>4, <1>5, <1>6 DEF Tick

\* A pending transition and a player's turn exclude each other in every reachable state.
THEOREM AlwaysCalm == Spec => []Calm
<1>1. Calm /\ [Next]_vars => Calm'
  <2> SUFFICES ASSUME Calm, [Next]_vars PROVE Calm'
    OBVIOUS
  <2>1. CASE Tick
    BY <2>1, TickIsCalm
  <2>2. ASSUME NEW s \in Seats, Action(s) PROVE Calm'
    BY <2>2, ActionIsCalm
  <2>3. ASSUME NEW a \in Actors, Continues(a) PROVE Calm'
    BY <2>3, ContinuesIsCalm
  <2>4. CASE HandIsOver \/ UNCHANGED vars
    BY <2>4 DEF HandIsOver, vars, Calm
  <2> QED
    BY <2>1, <2>2, <2>3, <2>4 DEF Next
<1> QED
  BY InitIsCalm, <1>1, PTL DEF Spec

-----------------------------------------------------------------------------
(* Collisions.                                                             *)

\* While a state is pending, whoever may still find it had begun before it was
\* scheduled.
Raced ==
  /\ dealer.panicked \subseteq dealer.behind
  /\ dealer.pending # None =>
       \A a \in Actors : acting[a] \in {"folded", "next"} => a \in dealer.behind

\* A state is scheduled by one who moves on: the others who are busy are behind it.
LEMMA SchedulingRaces ==
  ASSUME Calm, Up, Raced, NEW a \in Actors, NEW next, dealer' = Schedule(dealer, next, a),
         acting[a] \in {"folded", "next"} \/ dealer.pending = None,
         acting'[a] \notin {"folded", "next"},
         \A b \in Actors : b # a => acting'[b] = acting[b]
  PROVE  Raced'
<1>1. CASE dealer.pending = None
  <2>1. dealer'.panicked = {} /\ dealer'.behind = Busy \ {a}
    BY <1>1, Scheduled DEF Calm, Settled, Up
  <2>2. \A b \in Actors : acting'[b] \in {"folded", "next"} => b \in Busy \ {a}
    BY DEF Busy
  <2>3. QED
    BY <2>1, <2>2 DEF Raced
<1>2. CASE dealer.pending # None
  <2>1. /\ dealer'.panicked = {a} /\ dealer'.behind = dealer.behind
        /\ dealer'.pending = dealer.pending
    BY <1>2, Collided DEF Calm, Settled, Up
  <2>2. a \in dealer.behind
    BY <1>2 DEF Raced
  <2>3. \A b \in Actors : acting'[b] \in {"folded", "next"} => b \in dealer.behind
    BY <1>2 DEF Raced
  <2>4. QED
    BY <2>1, <2>2, <2>3 DEF Raced
<1>3. QED
  BY <1>1, <1>2

\* No step lets somebody find a pending state who was not overtaken by it.
LEMMA NextRaces == Calm /\ Raced /\ [Next]_vars => Raced'
<1> SUFFICES ASSUME Calm, Raced, [Next]_vars PROVE Raced'
  OBVIOUS
<1>1. CASE Tick
  <2>1. Up /\ acting[RunLoop] = "idle" /\ RunLoop \in Actors
    BY <1>1, ActorsFacts DEF Tick
  <2>2. CASE TickStart /\ variant = "Pineapple"
    <3>1. dealer'.pending = None /\ dealer'.panicked = {}
      BY <2>1, <2>2 DEF TickStart, Enter, Up, Calm, Settled, Sound
    <3>2. QED
      BY <3>1 DEF Raced
  <2>3. CASE TickStart /\ variant # "Pineapple"
    BY <2>1, <2>3, SchedulingRaces DEF TickStart
  <2>4. CASE TickPending
    <3>1. dealer'.pending = None /\ dealer'.panicked = {}
      BY <2>1, <2>4 DEF TickPending, Up, Calm, Settled, Sound
    <3>2. QED
      BY <3>1 DEF Raced
  <2>5. CASE TickDealCommunity
    <3>1. dealer'.pending = None /\ dealer'.panicked = {}
      BY <2>1, <2>5 DEF TickDealCommunity, Enter, Up, Calm, Settled, Sound
    <3>2. QED
      BY <3>1 DEF Raced
  <2>6. CASE TickRoundOver \/ TickEnd
    BY <2>6 DEF TickRoundOver, TickEnd, Raced
  <2>7. CASE TickRevealWinner
    BY <2>1, <2>7, SchedulingRaces DEF TickRevealWinner
  <2>8. QED
    BY <1>1, <2>2, <2>3, <2>4, <2>5, <2>6, <2>7 DEF Tick
<1>2. ASSUME NEW s \in Seats, Action(s) PROVE Raced'
  <2>1. dealer' = dealer /\ InDecisionRound
    BY <1>2, ActionMoves
  <2>2. dealer.pending = None
    BY <2>1 DEF Calm, Settled, InDecisionRound, InBettingRound, BettingStages
  <2>3. QED
    BY <2>1, <2>2 DEF Raced
<1>3. ASSUME NEW a \in Actors, Continues(a) PROVE Raced'
  <2>1. Up
    BY <1>3 DEF Continues
  <2>2. CASE dealer' = dealer
    <3>1. PICK place \in Places : /\ Moves(a, place)
                                  /\ place \in {"folded", "next"} => dealer.pending = None
      BY <1>3 DEF Continues, FoldIsHandled, RoundIsChecked, NextIsScheduled, Places
    <3>2. acting'[a] = place /\ \A b \in Actors : b # a => acting'[b] = acting[b]
      BY <3>1, Moved
    <3>3. QED
      BY <2>2, <3>1, <3>2 DEF Raced
  <2>3. CASE \E next : dealer' = Schedule(dealer, next, a)
    <3>1. PICK next : dealer' = Schedule(dealer, next, a)
      BY <2>3
    <3>2. CASE FoldIsHandled(a) \/ NextIsScheduled(a)
      <4>1. /\ acting[a] \in {"folded", "next"}
            /\ \E place \in {"acted", "idle"} : Moves(a, place)
        BY <3>2 DEF FoldIsHandled, NextIsScheduled
      <4>2. acting'[a] \in {"acted", "idle"} /\ \A b \in Actors : b # a => acting'[b] = acting[b]
        BY <4>1, Moved DEF Places
      <4>3. QED
        BY <2>1, <3>1, <4>1, <4>2, SchedulingRaces
    <3>3. CASE RoundIsChecked(a)
      BY <2>2, <3>3 DEF RoundIsChecked
    <3>4. QED
      BY <1>3, <3>2, <3>3 DEF Continues
  <2>4. QED
    BY <1>3, <2>2, <2>3 DEF Continues, FoldIsHandled, RoundIsChecked, NextIsScheduled
<1>4. CASE HandIsOver \/ UNCHANGED vars
  BY <1>4 DEF HandIsOver, vars, Raced
<1>5. QED
  BY <1>1, <1>2, <1>3, <1>4 DEF Next

\* Whoever finds a state pending where he is about to schedule one, and panics, was in
\* the middle of his action, or of his tick, when somebody else scheduled it: in calls
\* that come one after the other, in whatever order, setPendingDealerState never does.
THEOREM OnlyRacesCollide == Spec => []CollisionsAreRaces
<1>1. Init => Raced
  BY DEF Init, Raced
<1>2. Raced => CollisionsAreRaces
  BY DEF Raced, CollisionsAreRaces
<1>3. QED
  BY <1>1, <1>2, NextRaces, AlwaysCalm, PTL DEF Spec

-----------------------------------------------------------------------------
(* The invariant.                                                          *)

\* The stage the hand is in, or on its way to.
Coming == IF dealer.pending # None THEN dealer.pending ELSE dealer.state

\* Two players can still bet.
TwoCanAct(q) == \E s, t \in Live(q) : s # t

\* The fold that leaves fewer than two who can bet is about to end the hand.
EarlyDue == ~TwoCanAct(pm) /\ \E s \in Seats : acting[s] = "folded"

\* Somebody whose turn is still to come may have matched the bet already, in a
\* round in which nobody has bet and as the big blind; then a fold leaves another
\* who can bet, and everybody can call.
FoldsAreSafe(q) ==
  (\E i \in q.actionAtIndex .. N - 1 :
     CanAct(q, SeatAt(q, i)) /\ q.inPlay[SeatAt(q, i)] = q.actionAmount) =>
    /\ TwoCanAct(q)
    /\ q.actionAmount = 0 \/ \A s \in Seats : AllInAmount(q, s) > q.actionAmount

HandIsPlayed ==
  Coming # "End" =>
    Playing(pm, Seats) /\ Chips(pm) = SumSeats(stake) /\ ~pm.isGameOver

\* The cards on the table when a stage begins.
CommunityFitsTheStage ==
  /\ Coming \in {"Start", "DiscardRound", "PreFlop", "DealFlop"} => community = 0
  /\ Coming \in {"Flop", "DealTurn"} => community = 3
  /\ Coming \in {"Turn", "DealRiver"} => community = 4
  /\ Coming = "Final" => community = 5
  /\ Coming \in {"RevealWinner", "End"} => community = 5 \/ Cardinality(Live(pm)) < 2

\* Until the blinds are posted nobody has bet or folded, and all can post them.
BlindsCanBePosted ==
  /\ Coming \in {"Start", "DiscardRound"} \/ dealer.pending = "PreFlop" =>
       /\ pm.actionAmount = 0
       /\ \A s \in Seats : CanAct(pm, s) /\ pm.balance[s] > BigBlind
  /\ dealer.state = "Start" \/ (dealer.pending = "PreFlop" /\ ~IsRoundOver(pm)) =>
       pm.actionAtIndex = 0 /\ ~pm.inDecisionRound /\ ~pm.needsPotCalculation

\* What a stage is entered with.
StagesAreReady ==
  /\ dealer.pending \in {"DealFlop", "DealTurn", "DealRiver"} => IsRoundOver(pm)
  /\ dealer.state \in {"DealFlop", "DealTurn", "DealRiver"} =>
       pm.actionAmount = 0 /\ (IsRoundOver(pm) \/ TwoCanAct(pm))
  /\ dealer.state \in BettingStages => FoldsAreSafe(pm) \/ EarlyDue
  /\ dealer.state = "RevealWinner" => ~pm.needsPotCalculation
  /\ Coming = "End" =>
       ~pm.needsPotCalculation /\ (IsRoundOver(pm) => pm.amountInPlay = 0)
  /\ finished => dealer.state = "End"
  /\ dealer.pending \in
       {None, "PreFlop", "DealFlop", "DealTurn", "DealRiver", "RevealWinner", "End"}

\* Actions are under way in the rounds players act in, and until the next stage is
\* entered; who is about to schedule it has found the round over.
BusyStages == BettingStages \cup {"DiscardRound", "Waiting"}

ActorsFit ==
  /\ acting[RunLoop] \in {"idle", "next"}
  /\ \A a \in Actors : acting[a] # "idle" => dealer.state \in BusyStages
  /\ \A a \in Actors : acting[a] = "next" => IsRoundOver(pm)

HInv ==
  /\ TypeOK
  /\ HandIsPlayed
  /\ CommunityFitsTheStage
  /\ BlindsCanBePosted
  /\ StagesAreReady
  /\ ActorsFit

\* The exception: before the fold that was to end the hand early got there, the last
\* one who could bet has folded too.  Nobody can act any more, and both are going to
\* end the hand: the second one panics.
Broken ==
  /\ Live(pm) = {} /\ IsRoundOver(pm)
  /\ ~finished /\ Coming # "End"
  /\ dealer.state \in BettingStages \cup {"Waiting"}
  /\ \/ ~Up
     \/ dealer.pending # None /\ \E s \in Seats : acting[s] = "folded"
     \/ \E s, t \in Seats : s # t /\ acting[s] = "folded" /\ acting[t] = "folded"


-----------------------------------------------------------------------------
(* The stages.                                                             *)

\* The stage that follows each stage.
LEMMA NextStages ==
  /\ NextStage("DiscardRound") = "PreFlop"
  /\ NextStage("PreFlop") = "DealFlop"
  /\ NextStage("DealFlop") = "Flop"
  /\ NextStage("Flop") = "DealTurn"
  /\ NextStage("DealTurn") = "Turn"
  /\ NextStage("Turn") = "DealRiver"
  /\ NextStage("DealRiver") = "Final"
  /\ NextStage("Final") = "RevealWinner"
<1>1. DOMAIN Stages = 1 .. 11
  BY DEF Stages
<1>2. /\ Stages[1] = "Start" /\ Stages[2] = "DiscardRound" /\ Stages[3] = "PreFlop"
      /\ Stages[4] = "DealFlop" /\ Stages[5] = "Flop" /\ Stages[6] = "DealTurn"
      /\ Stages[7] = "Turn" /\ Stages[8] = "DealRiver" /\ Stages[9] = "Final"
      /\ Stages[10] = "RevealWinner" /\ Stages[11] = "End"
  BY DEF Stages
<1>3. \A i \in 1 .. 11 : i = 1 \/ i = 2 \/ i = 3 \/ i = 4 \/ i = 5 \/ i = 6
                         \/ i = 7 \/ i = 8 \/ i = 9 \/ i = 10 \/ i = 11
  OBVIOUS
<1>4. \A i \in 1 .. 11, j \in 1 .. 11 : Stages[i] = Stages[j] => i = j
  BY <1>2, <1>3
<1> HIDE DEF Stages
<1>5. ASSUME NEW j \in 1 .. 11
      PROVE  NextStage(Stages[j]) = Stages[1 + j]
  <2>1. (CHOOSE i \in 1 .. 11 : Stages[i] = Stages[j]) = j
    BY <1>4
  <2>2. QED
    BY <1>1, <2>1 DEF NextStage
<1>6. /\ NextStage(Stages[2]) = Stages[3] /\ NextStage(Stages[3]) = Stages[4]
      /\ NextStage(Stages[4]) = Stages[5] /\ NextStage(Stages[5]) = Stages[6]
      /\ NextStage(Stages[6]) = Stages[7] /\ NextStage(Stages[7]) = Stages[8]
      /\ NextStage(Stages[8]) = Stages[9] /\ NextStage(Stages[9]) = Stages[10]
  <2>1. /\ 1 + 2 = 3 /\ 1 + 3 = 4 /\ 1 + 4 = 5 /\ 1 + 5 = 6 /\ 1 + 6 = 7 /\ 1 + 7 = 8
        /\ 1 + 8 = 9 /\ 1 + 9 = 10
    OBVIOUS
  <2>2. /\ 2 \in 1 .. 11 /\ 3 \in 1 .. 11 /\ 4 \in 1 .. 11 /\ 5 \in 1 .. 11 /\ 6 \in 1 .. 11
        /\ 7 \in 1 .. 11 /\ 8 \in 1 .. 11 /\ 9 \in 1 .. 11
    OBVIOUS
  <2>3. QED
    BY <1>5, <2>1, <2>2
<1>7. QED
  BY <1>2, <1>6

\* None is none of the stages.
LEMMA NoneIsNoStage ==
  /\ None # "Start" /\ None # "DiscardRound" /\ None # "PreFlop" /\ None # "DealFlop"
  /\ None # "Flop" /\ None # "DealTurn" /\ None # "Turn" /\ None # "DealRiver"
  /\ None # "Final" /\ None # "RevealWinner" /\ None # "End"
BY NoneAssumption DEF Stages

\* Not fewer than two are two.
LEMMA TwoAreLeft ==
  ASSUME NEW q, ~(Cardinality(Live(q)) < 2)
  PROVE  TwoCanAct(q)
<1>1. CASE Live(q) = {}
  BY <1>1, FS_EmptySet
<1>2. CASE Live(q) # {} /\ ~TwoCanAct(q)
  <2>1. PICK s \in Live(q) : TRUE
    BY <1>2
  <2>2. Live(q) = {s}
    BY <1>2, <2>1 DEF TwoCanAct
  <2>3. Cardinality(Live(q)) = 1
    BY <2>2, FS_Singleton
  <2>4. QED
    BY <2>3
<1>3. QED
  BY <1>1, <1>2

-----------------------------------------------------------------------------
(* Folds are safe: nobody folds who is the only one that can still bet and *)
(* has matched the bet.                                                    *)

\* What FoldsAreSafe is for.
LEMMA FoldIsAllowed ==
  ASSUME NEW q, NEW who, Playing(q, who), FoldsAreSafe(q), NEW s, InTurn(q, s),
         ~q.inDecisionRound, Live(q) = {s}
  PROVE  q.inPlay[s] < q.actionAmount
<1>1. /\ q \in PotState /\ s \in Seats /\ SeatAt(q, q.actionAtIndex) = s
      /\ q.actionAtIndex \in 0 .. N - 1
  BY TurnFacts
<1>2. CanAct(q, s)
  BY DEF Live
<1>3. ~TwoCanAct(q)
  BY DEF TwoCanAct
<1>4. q.actionAtIndex \in q.actionAtIndex .. N - 1
  BY <1>1, Constants
<1>5. q.inPlay[s] # q.actionAmount
  BY <1>1, <1>2, <1>3, <1>4 DEF FoldsAreSafe
<1>6. q.inPlay[s] \in Int /\ q.actionAmount \in Int /\ q.inPlay[s] <= q.actionAmount
  BY <1>1 DEF Playing, BetsAddUp, BetsInRange, PotState
<1>7. QED
  BY <1>5, <1>6

\* Completing a turn leaves fewer ahead.
LEMMA PassIsSafe ==
  ASSUME NEW q \in PotState, FoldsAreSafe(q)
  PROVE  FoldsAreSafe(CompleteTurn(q))
<1> DEFINE p == CompleteTurn(q)
<1>1. /\ p \in PotState /\ p.balance = q.balance /\ p.inPlay = q.inPlay
      /\ p.allIn = q.allIn /\ p.folded = q.folded
      /\ p.actionStartIndex = q.actionStartIndex /\ p.actionAmount = q.actionAmount
      /\ \/ p.actionAtIndex \in q.actionAtIndex + 1 .. N - 1
         \/ p.actionAtIndex = N
  BY CompleteTurnFields
<1>2. q.actionAtIndex \in 0 .. N /\ N \in Nat
  BY Constants DEF PotState
<1> HIDE DEF p
<1>3. \A i \in p.actionAtIndex .. N - 1 : i \in q.actionAtIndex .. N - 1
  BY <1>1, <1>2
<1>4. \A i : SeatAt(p, i) = SeatAt(q, i)
  BY <1>1 DEF SeatAt
<1>5. Live(p) = Live(q)
  BY <1>1 DEF Live, CanAct
<1>6. \A s : CanAct(p, s) = CanAct(q, s) /\ AllInAmount(p, s) = AllInAmount(q, s)
  BY <1>1 DEF CanAct, AllInAmount
<1>7. QED
  BY <1>1, <1>3, <1>4, <1>5, <1>6 DEF FoldsAreSafe, TwoCanAct, p

\* A fold that leaves two who can bet.
LEMMA FoldIsSafe ==
  ASSUME NEW q \in PotState, FoldsAreSafe(q), NEW s \in Seats, TwoCanAct(Fold(q, s))
  PROVE  FoldsAreSafe(Fold(q, s))
<1> DEFINE r == [q EXCEPT !.folded[s] = TRUE]
<1>1. /\ r \in PotState /\ r.balance = q.balance /\ r.inPlay = q.inPlay
      /\ r.allIn = q.allIn /\ r.folded = [q.folded EXCEPT ![s] = TRUE]
      /\ r.actionStartIndex = q.actionStartIndex /\ r.actionAtIndex = q.actionAtIndex
      /\ r.actionAmount = q.actionAmount
  BY DEF PotState
<1>2. Fold(q, s) = CompleteTurn(r)
  BY DEF Fold
<1> HIDE DEF r
<1>3. Live(CompleteTurn(r)) = Live(r)
  BY <1>1, CompleteTurnFields DEF Live, CanAct
<1>4. TwoCanAct(r)
  BY <1>2, <1>3 DEF TwoCanAct
<1>5. \A t \in Seats : CanAct(r, t) => CanAct(q, t)
  BY <1>1 DEF CanAct, PotState
<1>6. \A t : AllInAmount(r, t) = AllInAmount(q, t)
  BY <1>1 DEF AllInAmount
<1>7. FoldsAreSafe(r)
  <2> SUFFICES ASSUME NEW i \in r.actionAtIndex .. N - 1,
                      CanAct(r, SeatAt(r, i)), r.inPlay[SeatAt(r, i)] = r.actionAmount
               PROVE  r.actionAmount = 0 \/ \A t \in Seats : AllInAmount(r, t) > r.actionAmount
    BY <1>4 DEF FoldsAreSafe
  <2>1. i \in 0 .. N - 1 /\ i \in q.actionAtIndex .. N - 1
    BY <1>1 DEF PotState
  <2>2. SeatAt(r, i) \in Seats /\ SeatAt(q, i) = SeatAt(r, i)
    BY <1>1, <2>1, SeatAtIsSeat DEF SeatAt
  <2>3. CanAct(q, SeatAt(q, i)) /\ q.inPlay[SeatAt(q, i)] = q.actionAmount
    BY <1>1, <1>5, <2>2
  <2>4. QED
    BY <1>1, <1>6, <2>1, <2>3 DEF FoldsAreSafe
<1>8. QED
  BY <1>1, <1>2, <1>7, PassIsSafe

\* A call: if anybody ahead has matched the bet, the caller can afford it.
LEMMA CallIsSafe ==
  ASSUME NEW q, NEW who, Playing(q, who), FoldsAreSafe(q), NEW s, MayCall(q, s)
  PROVE  FoldsAreSafe(Call(q, s))
<1> DEFINE to == q.actionAmount
           r  == Adjust(q, s, to)
<1>1. /\ q \in PotState /\ s \in Seats /\ q.actionAtIndex \in 0 .. N - 1
      /\ to \in Nat /\ q.inPlay[s] <= to /\ q.inPlay[s] # to
      /\ SeatAt(q, q.actionAtIndex) = s
  <2>1. InTurn(q, s) /\ to > q.inPlay[s]
    BY DEF MayCall, MayBet
  <2>2. q \in PotState /\ s \in Seats /\ q.actionAtIndex \in 0 .. N - 1
        /\ SeatAt(q, q.actionAtIndex) = s
    BY <2>1, TurnFacts
  <2>3. q.inPlay[s] \in Int /\ to \in Nat
    BY <2>2 DEF PotState
  <2>4. QED
    BY <2>1, <2>2, <2>3
<1>2. Call(q, s) = CompleteTurn(r)
  BY DEF Call
<1>3. r = Adjust(q, s, to)
  OBVIOUS
<1>4. q.inPlay[s] \in Nat
  BY <1>1 DEF Playing, BetsAddUp, BetsInRange, PotState
<1> HIDE DEF r, to
<1>5. /\ r \in PotState /\ r.folded = q.folded
      /\ r.actionStartIndex = q.actionStartIndex /\ r.actionAtIndex = q.actionAtIndex
      /\ r.actionAmount = q.actionAmount
  BY <1>1, <1>3, AdjustKeeps
<1>6. PICK paid \in Nat :
           /\ SumSeats(r.balance) = SumSeats(q.balance) - paid
           /\ SumSeats(r.inPlay) = SumSeats(q.inPlay) + paid
           /\ r.amountInPlay = q.amountInPlay + paid
           /\ q.inPlay[s] <= r.inPlay[s] /\ r.inPlay[s] <= to
           /\ \A t \in Seats : r.balance[t] <= q.balance[t]
           /\ \A t \in Seats \ {s} : /\ r.inPlay[t] = q.inPlay[t]
                                     /\ r.balance[t] = q.balance[t]
                                     /\ r.allIn[t] = q.allIn[t]
           /\ ~r.allIn[s] => r.inPlay[s] = to
           /\ to - q.inPlay[s] < q.balance[s] => r.allIn[s] = q.allIn[s]
  BY <1>1, <1>3, AdjustMoves
<1>7. \A t \in Seats : AllInAmount(r, t) = AllInAmount(q, t)
  BY <1>1, <1>3, AdjustKeepsStacks
<1> DEFINE p == CompleteTurn(r)
<1>8. /\ p.balance = r.balance /\ p.inPlay = r.inPlay
      /\ p.allIn = r.allIn /\ p.folded = r.folded
      /\ p.actionStartIndex = r.actionStartIndex /\ p.actionAmount = r.actionAmount
      /\ \/ p.actionAtIndex \in r.actionAtIndex + 1 .. N - 1
         \/ p.actionAtIndex = N
  BY <1>5, CompleteTurnFields
<1> HIDE DEF p
<1>9. ASSUME NEW i \in p.actionAtIndex .. N - 1,
             CanAct(p, SeatAt(p, i)), p.inPlay[SeatAt(p, i)] = p.actionAmount
      PROVE  /\ TwoCanAct(p)
             /\ \A t \in Seats : AllInAmount(p, t) > p.actionAmount
  <2>1. i \in 0 .. N - 1 /\ i > q.actionAtIndex /\ i \in q.actionAtIndex .. N - 1
    <3>1. N \in Nat /\ q.actionAtIndex \in Nat /\ r.actionAtIndex = q.actionAtIndex
      BY <1>1, <1>5, Constants
    <3>2. p.actionAtIndex # N
      BY <3>1
    <3>3. p.actionAtIndex \in q.actionAtIndex + 1 .. N - 1
      BY <1>8, <3>1, <3>2
    <3>4. QED
      BY <3>1, <3>3
  <2>2. SeatAt(p, i) = SeatAt(q, i)
    BY <1>5, <1>8 DEF SeatAt
  <2> DEFINE t == SeatAt(q, i)
  <2>3. t \in Seats
    BY <1>1, <2>1, SeatAtIsSeat
  <2>4. t # s
    <3>1. q.actionAtIndex # i
      BY <2>1
    <3>2. QED
      BY <1>1, <2>1, <3>1, SeatAtInjective
  <2>5. CanAct(q, t) /\ q.inPlay[t] = q.actionAmount
    <3>1. r.inPlay[t] = q.inPlay[t] /\ r.allIn[t] = q.allIn[t]
      BY <1>6, <2>3, <2>4
    <3>2. QED
      BY <1>5, <1>8, <1>9, <2>2, <3>1 DEF CanAct
  <2>6. q.actionAmount # 0
    BY <1>1, <1>4 DEF to
  <2>7. TwoCanAct(q) /\ \A u \in Seats : AllInAmount(q, u) > q.actionAmount
    BY <2>1, <2>5, <2>6 DEF FoldsAreSafe
  <2>8. r.allIn[s] = q.allIn[s]
    <3>1. q.inPlay[s] + q.balance[s] > to
      BY <1>1, <2>7 DEF AllInAmount, to
    <3>2. q.balance[s] \in Nat
      BY <1>1 DEF PotState
    <3>3. to - q.inPlay[s] < q.balance[s]
      BY <1>1, <1>4, <3>1, <3>2
    <3>4. QED
      BY <1>6, <3>3
  <2>9. Live(p) = Live(q)
    <3>1. \A u \in Seats : r.allIn[u] = q.allIn[u]
      BY <1>6, <2>8
    <3>2. QED
      BY <1>5, <1>8, <3>1 DEF Live, CanAct
  <2>10. \A u \in Seats : AllInAmount(p, u) = AllInAmount(q, u)
    BY <1>7, <1>8 DEF AllInAmount
  <2>11. QED
    BY <1>5, <1>8, <2>7, <2>9, <2>10 DEF TwoCanAct
<1>10. QED
  BY <1>2, <1>9 DEF FoldsAreSafe, p

\* A raise: nobody ahead has put in as much.
LEMMA RaiseIsSafe ==
  ASSUME NEW q, NEW who, Playing(q, who), NEW s, NEW bet \in Int, MayRaise(q, s, bet)
  PROVE  FoldsAreSafe(BetOrRaise(q, s, bet))
<1> DEFINE raised == [q EXCEPT !.actionStartIndex = s,
                               !.actionAtIndex    = 0,
                               !.actionDiffAmount = bet - q.actionAmount,
                               !.actionAmount     = bet]
           r      == Adjust(raised, s, bet)
           p      == CompleteTurn(r)
<1>1. /\ q \in PotState /\ s \in Seats /\ bet \in Nat
      /\ bet > q.actionAmount /\ bet > q.inPlay[s] /\ q.inPlay[s] \in Int
      /\ q.actionAmount \in Nat /\ bet - q.actionAmount \in Nat
      /\ N \in Nat /\ 0 \in 0 .. N
  <2>1. InTurn(q, s) /\ bet > q.actionAmount /\ bet > q.inPlay[s]
    BY DEF MayRaise, MayBet
  <2>2. q \in PotState /\ s \in Seats
    BY <2>1, TurnFacts
  <2>3. q.inPlay[s] \in Int /\ q.actionAmount \in Nat
    BY <2>2 DEF PotState
  <2>4. QED
    BY <2>1, <2>2, <2>3, Constants
<1>2. BetOrRaise(q, s, bet) = p
  BY Zenon DEF BetOrRaise
<1>3. /\ raised \in PotState /\ raised.balance = q.balance /\ raised.inPlay = q.inPlay
      /\ raised.actionStartIndex = s /\ raised.actionAtIndex = 0 /\ raised.actionAmount = bet
  BY <1>1 DEF PotState
<1> HIDE DEF raised, r, p
<1>4. raised.inPlay[s] <= bet /\ r = Adjust(raised, s, bet)
  BY <1>1, <1>3 DEF r
<1>5. s \in Seats /\ bet \in Nat /\ raised \in PotState
  BY <1>1, <1>3
<1>6. /\ r \in PotState
      /\ r.actionStartIndex = raised.actionStartIndex /\ r.actionAtIndex = raised.actionAtIndex
      /\ r.actionAmount = raised.actionAmount
  BY <1>4, <1>5, AdjustKeeps
<1>7. PICK paid \in Nat :
           /\ paid = raised.balance[s] \/ paid = bet - raised.inPlay[s]
           /\ bet - raised.inPlay[s] <= raised.balance[s] => paid = bet - raised.inPlay[s]
           /\ r.balance = [raised.balance EXCEPT ![s] = @ - paid]
           /\ r.inPlay = [raised.inPlay EXCEPT ![s] = @ + paid]
  BY <1>4, <1>5, AdjustPays
<1>8. /\ p.inPlay = r.inPlay /\ p.actionAmount = r.actionAmount
      /\ p.actionStartIndex = r.actionStartIndex
      /\ \/ p.actionAtIndex \in r.actionAtIndex + 1 .. N - 1
         \/ p.actionAtIndex = N
  BY <1>6, CompleteTurnFields DEF p
<1>9. ASSUME NEW i \in p.actionAtIndex .. N - 1
      PROVE  p.inPlay[SeatAt(p, i)] # p.actionAmount
  <2>1. i \in 1 .. N - 1 /\ i \in 0 .. N - 1 /\ 0 \in 0 .. N - 1 /\ i # 0
    BY <1>1, <1>3, <1>6, <1>8
  <2>2. SeatAt(p, i) = SeatAt(r, i)
    BY <1>8 DEF SeatAt
  <2>3. SeatAt(r, i) \in Seats /\ SeatAt(r, i) # SeatAt(r, 0)
    BY <1>6, <2>1, SeatAtIsSeat, SeatAtInjective
  <2>4. SeatAt(r, 0) = s
    BY <1>3, <1>6, SeatAtStart
  <2>5. p.inPlay[SeatAt(p, i)] = q.inPlay[SeatAt(r, i)]
    <3>1. q.inPlay \in [Seats -> Int]
      BY <1>1 DEF PotState
    <3>2. QED
      BY <1>3, <1>7, <1>8, <2>2, <2>3, <2>4, <3>1
  <2>6. q.inPlay[SeatAt(r, i)] <= q.actionAmount /\ q.inPlay[SeatAt(r, i)] \in Int
    BY <1>1, <2>3 DEF Playing, BetsAddUp, BetsInRange, PotState
  <2>7. p.actionAmount = bet
    BY <1>3, <1>6, <1>8
  <2>8. QED
    BY <1>1, <2>5, <2>6, <2>7
<1>10. QED
  BY <1>2, <1>9 DEF FoldsAreSafe

-----------------------------------------------------------------------------
(* Who is under way.                                                       *)

LEMMA NobodyIsBusy ==
  ASSUME HInv, dealer.state \notin BusyStages
  PROVE  \A a \in Actors : acting[a] = "idle"
BY DEF HInv, ActorsFit

LEMMA IdleFits ==
  ASSUME \A a \in Actors : acting[a] = "idle", acting' = acting
  PROVE  ActorsFit'
<1>1. acting'[RunLoop] = "idle" /\ \A a \in Actors : acting'[a] = "idle"
  BY ActorsFacts
<1>2. QED
  BY <1>1 DEF ActorsFit

\* A step that only moves somebody on, or panics.
LEMMA StandsStill ==
  ASSUME HInv, ActorsFit', acting' \in [Actors -> Places],
         UNCHANGED <<variant, pm, cards, community, finished, stake>>,
         dealer'.state = dealer.state, dealer'.pending = dealer.pending,
         dealer'.panicked \subseteq Actors, dealer'.behind \subseteq Actors,
         dealer.state \in BettingStages => FoldsAreSafe(pm) \/ EarlyDue'
  PROVE  HInv'
<1>1. Coming' = Coming
  BY DEF Coming
<1>2. TypeOK'
  BY DEF HInv, TypeOK
<1>3. HandIsPlayed' /\ CommunityFitsTheStage' /\ BlindsCanBePosted'
  BY <1>1 DEF HInv, HandIsPlayed, CommunityFitsTheStage, BlindsCanBePosted
<1>4. FoldsAreSafe(pm') = FoldsAreSafe(pm)
  OBVIOUS
<1>5. StagesAreReady'
  BY <1>1, <1>4 DEF HInv, StagesAreReady
<1>6. QED
  BY <1>2, <1>3, <1>5 DEF HInv

LEMMA FewerCanAct ==
  ASSUME NEW p, NEW q, Live(p) \subseteq Live(q), ~TwoCanAct(q)
  PROVE  ~TwoCanAct(p)
BY DEF TwoCanAct

-----------------------------------------------------------------------------
(* Actions of the players.                                                 *)

\* What the pot manager's part of an action owes the invariant: a hand still in play,
\* and in a betting round a fold that leaves two who can bet, or ends the hand.
LEMMA ActedKeeps ==
  ASSUME HInv, Calm, InDecisionRound, NEW s \in Seats, ~IsRoundOver(pm),
         NEW mgr, NEW place \in {"folded", "acted"}, Acted(s, mgr, place),
         cards' \in [Seats -> 0 .. 3],
         Playing(mgr, Seats), Chips(mgr) = SumSeats(stake), ~mgr.isGameOver,
         dealer.state \in BettingStages =>
           \/ FoldsAreSafe(mgr)
           \/ ~TwoCanAct(mgr) /\ (place = "folded" \/ EarlyDue),
         dealer.state = "DiscardRound" =>
           /\ mgr.actionAmount = 0
           /\ \A t \in Seats : CanAct(mgr, t) /\ mgr.balance[t] > BigBlind
  PROVE  HInv'
<1>1. /\ pm' = mgr /\ dealer' = dealer /\ acting[s] = "idle" /\ Moves(s, place)
      /\ UNCHANGED <<variant, community, finished, stake>>
  BY DEF Acted
<1>2. /\ dealer.state \in {"DiscardRound", "PreFlop", "Flop", "Turn", "Final"}
      /\ dealer.pending = None
  BY DEF InDecisionRound, InBettingRound, BettingStages, Calm, Settled
<1>3. /\ acting' \in [Actors -> Places] /\ acting'[s] = place
      /\ \A a \in Actors : a # s => acting'[a] = acting[a]
      /\ s \in Actors /\ RunLoop \in Actors /\ RunLoop # s /\ Seats \subseteq Actors
  BY <1>1, Moved, ActorsFacts DEF Places
<1>4. Coming' = dealer.state /\ Coming = dealer.state
  BY <1>1, <1>2 DEF Coming
<1>5. TypeOK'
  BY <1>1, <1>3 DEF HInv, TypeOK, Playing
<1>6. HandIsPlayed' /\ CommunityFitsTheStage'
  BY <1>1, <1>2, <1>4 DEF HInv, HandIsPlayed, CommunityFitsTheStage
<1>7. dealer.pending \notin {"PreFlop", "DealFlop", "DealTurn", "DealRiver"}
  BY <1>2, NoneIsNoStage
<1>8. BlindsCanBePosted'
  BY <1>1, <1>2, <1>4, <1>7 DEF BlindsCanBePosted
<1>9. dealer.state \in BettingStages => FoldsAreSafe(pm') \/ EarlyDue'
  <2>1. place = "folded" => \E t \in Seats : acting'[t] = "folded"
    BY <1>3
  <2>2. (\E t \in Seats : acting[t] = "folded") => \E t \in Seats : acting'[t] = "folded"
    BY <1>1, <1>3
  <2>3. QED
    BY <1>1, <2>1, <2>2 DEF EarlyDue
<1>10. StagesAreReady'
  <2>1. ~finished
    BY <1>2 DEF HInv, StagesAreReady
  <2>2. QED
    BY <1>1, <1>2, <1>4, <1>7, <1>9, <2>1 DEF StagesAreReady, BettingStages
<1>11. ActorsFit'
  <2>1. \A a \in Actors : acting[a] # "next"
    BY DEF HInv, ActorsFit
  <2>2. \A a \in Actors : acting'[a] # "next"
    BY <1>3, <2>1
  <2>3. acting'[RunLoop] \in {"idle", "next"}
    BY <1>3 DEF HInv, ActorsFit
  <2>4. dealer'.state \in BusyStages
    BY <1>1, <1>2 DEF BusyStages, BettingStages
  <2>5. QED
    BY <2>2, <2>3, <2>4 DEF ActorsFit
<1>12. QED
  BY <1>5, <1>6, <1>8, <1>10, <1>11 DEF HInv

\* What an action starts from.
LEMMA ActionFacts ==
  ASSUME HInv, Calm, InDecisionRound
  PROVE  /\ pm \in PotState /\ Playing(pm, Seats) /\ Chips(pm) = SumSeats(stake)
         /\ ~pm.isGameOver /\ dealer.pending = None
         /\ dealer.state \in BettingStages => FoldsAreSafe(pm) \/ EarlyDue
         /\ dealer.state = "DiscardRound" =>
              /\ pm.actionAmount = 0
              /\ \A s \in Seats : CanAct(pm, s) /\ pm.balance[s] > BigBlind
<1>1. dealer.state \in BettingStages \cup {"DiscardRound"} /\ dealer.pending = None
  BY DEF InDecisionRound, InBettingRound, BettingStages, Calm, Settled
<1>2. Coming = dealer.state /\ Coming # "End"
  BY <1>1 DEF Coming, BettingStages
<1>3. QED
  BY <1>1, <1>2 DEF HInv, TypeOK, HandIsPlayed, StagesAreReady, BlindsCanBePosted

LEMMA ActionDiscardHInv ==
  ASSUME HInv, Calm, NEW s \in Seats, ActionDiscard(s)
  PROVE  HInv'
<1> DEFINE mgr == CompleteTurn(pm)
<1>1. /\ dealer.state = "DiscardRound" /\ InDecisionRound /\ InTurn(pm, s)
      /\ cards[s] > 0 /\ cards' = [cards EXCEPT ![s] = @ - 1]
      /\ Acted(s, mgr, "acted")
  BY DEF ActionDiscard, OnTheClock, AdvanceDecision
<1>2. /\ pm \in PotState /\ Playing(pm, Seats) /\ Chips(pm) = SumSeats(stake)
      /\ ~pm.isGameOver /\ pm.actionAmount = 0
      /\ \A t \in Seats : CanAct(pm, t) /\ pm.balance[t] > BigBlind
  BY <1>1, ActionFacts
<1>3. pm.inPlay[s] = pm.actionAmount
  <2>1. pm.inPlay[s] \in Int /\ 0 <= pm.inPlay[s] /\ pm.inPlay[s] <= 0
    BY <1>2 DEF Playing, BetsAddUp, BetsInRange, PotState
  <2>2. QED
    BY <1>2, <2>1
<1>4. Playing(mgr, Seats) /\ Chips(mgr) = SumSeats(stake)
  <2>1. Playing(mgr, Seats \cup {s}) /\ Chips(mgr) = Chips(pm)
    BY <1>1, <1>2, <1>3, PassKeeps
  <2>2. Seats \cup {s} = Seats
    OBVIOUS
  <2>3. QED
    BY <1>2, <2>1, <2>2
<1>5. /\ ~mgr.isGameOver /\ mgr.actionAmount = 0
      /\ \A t \in Seats : CanAct(mgr, t) /\ mgr.balance[t] > BigBlind
  BY <1>2, CompleteTurnFields DEF CanAct
<1>6. cards' \in [Seats -> 0 .. 3]
  BY <1>1 DEF HInv, TypeOK
<1> HIDE DEF mgr
<1>7. ~IsRoundOver(pm)
  BY <1>1 DEF InTurn
<1>8. QED
  BY <1>1, <1>4, <1>5, <1>6, <1>7, ActedKeeps DEF BettingStages

LEMMA ActionCheckHInv ==
  ASSUME HInv, Calm, NEW s \in Seats, ActionCheck(s)
  PROVE  HInv'
<1> DEFINE mgr == CompleteTurn(pm)
<1>1. /\ dealer.state \in BettingStages /\ InDecisionRound /\ InTurn(pm, s)
      /\ pm.inPlay[s] = pm.actionAmount
      /\ UNCHANGED cards /\ Acted(s, mgr, "acted")
  BY DEF ActionCheck, MayCheck, MayBet, InBettingRound, InDecisionRound, Check
<1>2. /\ pm \in PotState /\ Playing(pm, Seats) /\ Chips(pm) = SumSeats(stake)
      /\ ~pm.isGameOver /\ (FoldsAreSafe(pm) \/ EarlyDue)
  BY <1>1, ActionFacts
<1>3. Playing(mgr, Seats) /\ Chips(mgr) = SumSeats(stake)
  <2>1. Playing(mgr, Seats \cup {s}) /\ Chips(mgr) = Chips(pm)
    BY <1>1, <1>2, PassKeeps
  <2>2. Seats \cup {s} = Seats
    OBVIOUS
  <2>3. QED
    BY <1>2, <2>1, <2>2
<1>4. ~mgr.isGameOver /\ (FoldsAreSafe(mgr) \/ (~TwoCanAct(mgr) /\ EarlyDue))
  <2>1. ~mgr.isGameOver /\ Live(mgr) = Live(pm)
    BY <1>2, CompleteTurnFields DEF Live, CanAct
  <2>2. QED
    BY <1>2, <2>1, PassIsSafe, FewerCanAct DEF EarlyDue
<1>5. cards' \in [Seats -> 0 .. 3]
  BY <1>1 DEF HInv, TypeOK
<1> HIDE DEF mgr
<1>6. ~IsRoundOver(pm)
  BY <1>1 DEF InTurn
<1>7. QED
  BY <1>1, <1>3, <1>4, <1>5, <1>6, ActedKeeps DEF BettingStages

\* A call may only take the caller from those who can act.
LEMMA CallLeavesTheOthers ==
  ASSUME NEW q, NEW who, Playing(q, who), NEW s, MayCall(q, s), s \in Live(q)
  PROVE  Live(Call(q, s)) \subseteq Live(q)
<1> DEFINE r == Adjust(q, s, q.actionAmount)
           p == CompleteTurn(r)
<1>1. /\ q \in PotState /\ s \in Seats
      /\ q.actionAmount \in Nat /\ q.inPlay[s] <= q.actionAmount
  <2>1. q \in PotState /\ s \in Seats
    BY DEF Playing, Live
  <2>2. q.actionAmount \in Nat /\ q.inPlay[s] \in Int /\ q.actionAmount > q.inPlay[s]
    BY <2>1 DEF MayCall, PotState
  <2>3. QED
    BY <2>1, <2>2
<1>2. Call(q, s) = p /\ r = Adjust(q, s, q.actionAmount)
  BY DEF Call
<1>3. p = CompleteTurn(r)
  OBVIOUS
<1> HIDE DEF r, p
<1>4. r \in PotState /\ r.folded = q.folded
  BY <1>1, <1>2, AdjustKeeps
<1>5. \A t \in Seats \ {s} : r.allIn[t] = q.allIn[t]
  BY <1>1, <1>2, AdjustMoves
<1>6. p.allIn = r.allIn /\ p.folded = r.folded
  BY <1>3, <1>4, CompleteTurnFields
<1>7. QED
  BY <1>2, <1>4, <1>5, <1>6 DEF Live, CanAct

LEMMA ActionCallHInv ==
  ASSUME HInv, Calm, NEW s \in Seats, ActionCall(s)
  PROVE  HInv'
<1> DEFINE mgr == Call(pm, s)
<1>1. /\ dealer.state \in BettingStages /\ InDecisionRound /\ MayCall(pm, s)
      /\ UNCHANGED cards /\ Acted(s, mgr, "acted")
  BY DEF ActionCall, InBettingRound, InDecisionRound
<1>2. /\ pm \in PotState /\ Playing(pm, Seats) /\ Chips(pm) = SumSeats(stake)
      /\ ~pm.isGameOver /\ (FoldsAreSafe(pm) \/ EarlyDue)
  BY <1>1, ActionFacts
<1>3. Playing(mgr, Seats) /\ Chips(mgr) = SumSeats(stake)
  <2>1. Playing(mgr, Seats \cup {s}) /\ Chips(mgr) = Chips(pm)
    BY <1>1, <1>2, CallKeeps
  <2>2. Seats \cup {s} = Seats
    OBVIOUS
  <2>3. QED
    BY <1>2, <2>1, <2>2
<1>4. FoldsAreSafe(mgr) \/ (~TwoCanAct(mgr) /\ EarlyDue)
  <2>1. CASE FoldsAreSafe(pm)
    BY <1>1, <1>2, <2>1, CallIsSafe
  <2>2. CASE EarlyDue
    <3>1. InTurn(pm, s) /\ ~pm.inDecisionRound
      BY <1>1 DEF MayCall, MayBet
    <3>2. s \in Live(pm)
      BY <1>2, <3>1, TurnFacts DEF MayAct, Live
    <3>3. Live(mgr) \subseteq Live(pm)
      BY <1>1, <1>2, <3>2, CallLeavesTheOthers
    <3>4. QED
      BY <2>2, <3>3, FewerCanAct DEF EarlyDue
  <2>3. QED
    BY <1>2, <2>1, <2>2
<1>5. ~mgr.isGameOver
  <2> DEFINE r == Adjust(pm, s, pm.actionAmount)
  <2>1. pm.actionAmount \in Nat /\ pm.inPlay[s] <= pm.actionAmount
    BY <1>2 DEF Playing, BetsAddUp, BetsInRange, PotState
  <2>2. mgr = CompleteTurn(r) /\ r = Adjust(pm, s, pm.actionAmount)
    BY DEF Call
  <2> HIDE DEF r, mgr
  <2>3. r \in PotState /\ r.isGameOver = pm.isGameOver
    BY <1>2, <2>1, <2>2, AdjustKeeps
  <2>4. QED
    BY <1>2, <2>2, <2>3, CompleteTurnFields
<1>6. cards' \in [Seats -> 0 .. 3]
  BY <1>1 DEF HInv, TypeOK
<1> HIDE DEF mgr
<1>7. ~IsRoundOver(pm)
  BY <1>1 DEF MayCall, MayRaise, MayBet, InTurn
<1>8. QED
  BY <1>1, <1>3, <1>4, <1>5, <1>6, <1>7, ActedKeeps DEF BettingStages

\* The fold of the last one who can bet, while another fold is about to end the hand.
LEMMA LastFoldBreaks ==
  ASSUME HInv, Calm, NEW s \in Seats, ActionFold(s), EarlyDue
  PROVE  TypeOK' /\ Broken'
<1> DEFINE mgr == Fold(pm, s)
           r   == [pm EXCEPT !.folded[s] = TRUE]
<1>1. /\ dealer.state \in BettingStages /\ InDecisionRound
      /\ InTurn(pm, s) /\ ~pm.inDecisionRound
      /\ UNCHANGED cards /\ Acted(s, mgr, "folded")
  BY DEF ActionFold, MayBet, InBettingRound, InDecisionRound
<1>2. pm \in PotState /\ Playing(pm, Seats) /\ dealer.pending = None
  BY <1>1, ActionFacts
<1>3. /\ pm' = mgr /\ dealer' = dealer /\ acting[s] = "idle" /\ Moves(s, "folded")
      /\ UNCHANGED <<variant, community, finished, stake>>
  BY <1>1 DEF Acted
<1>4. Live(pm) = {s}
  <2>1. s \in Live(pm)
    BY <1>1, <1>2, TurnFacts DEF MayAct, Live
  <2>2. QED
    BY <2>1 DEF EarlyDue, TwoCanAct
<1>5. /\ r \in PotState /\ r.folded = [pm.folded EXCEPT ![s] = TRUE] /\ r.allIn = pm.allIn
      /\ r.inDecisionRound = pm.inDecisionRound /\ r.actionAtIndex = pm.actionAtIndex
  BY <1>2 DEF PotState
<1>6. mgr = CompleteTurn(r)
  BY DEF Fold
<1> HIDE DEF mgr, r
<1>7. Live(r) = {}
  <2>1. pm.folded \in [Seats -> BOOLEAN]
    BY <1>2 DEF PotState
  <2>2. \A t \in Seats : CanAct(r, t) => CanAct(pm, t) /\ t # s
    BY <1>5, <2>1 DEF CanAct
  <2>3. QED
    BY <1>4, <2>2 DEF Live
<1>8. mgr \in PotState /\ Live(mgr) = {} /\ IsRoundOver(mgr)
  <2>1. /\ mgr \in PotState /\ mgr.folded = r.folded /\ mgr.allIn = r.allIn
        /\ \/ /\ mgr.actionAtIndex \in r.actionAtIndex + 1 .. N - 1
              /\ MayAct(r, SeatAt(r, mgr.actionAtIndex))
           \/ mgr.actionAtIndex = N
    BY <1>5, <1>6, CompleteTurnFields
  <2>2. ~(/\ mgr.actionAtIndex \in r.actionAtIndex + 1 .. N - 1
          /\ MayAct(r, SeatAt(r, mgr.actionAtIndex)))
    <3>1. ASSUME mgr.actionAtIndex \in r.actionAtIndex + 1 .. N - 1
          PROVE  SeatAt(r, mgr.actionAtIndex) \in Seats
      <4>1. mgr.actionAtIndex \in 0 .. N - 1
        BY <1>5, <3>1, Constants DEF PotState
      <4>2. QED
        BY <1>5, <4>1, SeatAtIsSeat
    <3>2. QED
      BY <1>1, <1>5, <1>7, <3>1 DEF MayAct, Live
  <2>3. IsRoundOver(mgr)
    BY <2>1, <2>2, Constants DEF IsRoundOver
  <2>4. Live(mgr) = {}
    BY <1>7, <2>1 DEF Live, CanAct
  <2>5. QED
    BY <2>1, <2>3, <2>4
<1>9. /\ acting' \in [Actors -> Places] /\ acting'[s] = "folded"
      /\ \A a \in Actors : a # s => acting'[a] = acting[a]
      /\ Seats \subseteq Actors /\ s \in Actors
  BY <1>3, Moved, ActorsFacts DEF Places
<1>10. TypeOK'
  BY <1>1, <1>3, <1>8, <1>9 DEF HInv, TypeOK
<1>11. PICK t \in Seats : acting[t] = "folded"
  BY DEF EarlyDue
<1>12. acting'[t] = "folded" /\ t # s
  BY <1>3, <1>9, <1>11
<1>13. ~finished' /\ Coming' # "End" /\ dealer'.state \in BettingStages
  BY <1>1, <1>2, <1>3 DEF HInv, StagesAreReady, Coming, BettingStages
<1>14. Broken'
  BY <1>3, <1>8, <1>9, <1>12, <1>13 DEF Broken
<1>15. QED
  BY <1>10, <1>14

LEMMA ActionFoldHInv ==
  ASSUME HInv, Calm, NEW s \in Seats, ActionFold(s), ~EarlyDue
  PROVE  HInv'
<1> DEFINE mgr == Fold(pm, s)
<1>1. /\ dealer.state \in BettingStages /\ InDecisionRound
      /\ InTurn(pm, s) /\ ~pm.inDecisionRound
      /\ UNCHANGED cards /\ Acted(s, mgr, "folded")
  BY DEF ActionFold, MayBet, InBettingRound, InDecisionRound
<1>2. /\ pm \in PotState /\ Playing(pm, Seats) /\ Chips(pm) = SumSeats(stake)
      /\ FoldsAreSafe(pm) /\ ~pm.isGameOver
  BY <1>1, ActionFacts
<1>3. Live(pm) = {s} => pm.inPlay[s] < pm.actionAmount
  BY <1>1, <1>2, FoldIsAllowed
<1>4. Playing(mgr, Seats) /\ Chips(mgr) = SumSeats(stake)
  <2>1. Playing(mgr, Seats \cup {s}) /\ Chips(mgr) = Chips(pm)
    BY <1>1, <1>2, <1>3, FoldKeeps
  <2>2. Seats \cup {s} = Seats
    OBVIOUS
  <2>3. QED
    BY <1>2, <2>1, <2>2
<1>5. FoldsAreSafe(mgr) \/ ~TwoCanAct(mgr)
  BY <1>2, FoldIsSafe
<1>6. ~mgr.isGameOver
  <2> DEFINE r == [pm EXCEPT !.folded[s] = TRUE]
  <2>1. r \in PotState /\ r.isGameOver = pm.isGameOver
    BY <1>2 DEF PotState
  <2>2. mgr = CompleteTurn(r)
    BY DEF Fold
  <2> HIDE DEF r, mgr
  <2>3. QED
    BY <1>2, <2>1, <2>2, CompleteTurnFields
<1>7. cards' \in [Seats -> 0 .. 3]
  BY <1>1 DEF HInv, TypeOK
<1>8. ~IsRoundOver(pm)
  BY <1>1 DEF InTurn
<1> HIDE DEF mgr
<1>9. QED
  BY <1>1, <1>4, <1>5, <1>6, <1>7, <1>8, ActedKeeps DEF BettingStages

LEMMA ActionBetOrRaiseHInv ==
  ASSUME HInv, Calm, NEW s \in Seats, NEW amount \in Int, ActionBetOrRaise(s, amount)
  PROVE  HInv'
<1> DEFINE mgr == BetOrRaise(pm, s, amount)
<1>1. /\ dealer.state \in BettingStages /\ InDecisionRound /\ MayRaise(pm, s, amount)
      /\ UNCHANGED cards /\ Acted(s, mgr, "acted")
  BY DEF ActionBetOrRaise, InBettingRound, InDecisionRound
<1>2. /\ pm \in PotState /\ Playing(pm, Seats) /\ Chips(pm) = SumSeats(stake)
      /\ ~pm.isGameOver
  BY <1>1, ActionFacts
<1>3. Playing(mgr, Seats) /\ Chips(mgr) = SumSeats(stake)
  <2>1. Playing(mgr, {s}) /\ Chips(mgr) = Chips(pm)
    BY <1>1, <1>2, RaiseKeeps
  <2>2. {s} \subseteq Seats
    OBVIOUS
  <2> HIDE DEF mgr
  <2>3. QED
    BY <1>2, <2>1, <2>2, MorePlaying
<1>4. FoldsAreSafe(mgr)
  BY <1>1, <1>2, RaiseIsSafe
<1>5. ~mgr.isGameOver
  <2> DEFINE raised == [pm EXCEPT !.actionStartIndex = s,
                                  !.actionAtIndex    = 0,
                                  !.actionDiffAmount = amount - pm.actionAmount,
                                  !.actionAmount     = amount]
             r      == Adjust(raised, s, amount)
  <2>1. /\ amount \in Nat /\ amount - pm.actionAmount \in Nat /\ 0 \in 0 .. N
        /\ pm.inPlay[s] \in Int /\ pm.inPlay[s] <= amount
    BY <1>1, <1>2, Constants DEF PotState, MayRaise
  <2>2. /\ raised \in PotState /\ raised.isGameOver = pm.isGameOver
        /\ raised.inPlay = pm.inPlay
    BY <1>2, <2>1 DEF PotState
  <2>3. mgr = CompleteTurn(r) /\ r = Adjust(raised, s, amount)
    BY Zenon DEF BetOrRaise
  <2> HIDE DEF raised, r, mgr
  <2>4. raised.inPlay[s] <= amount
    BY <2>1, <2>2
  <2>5. r \in PotState /\ r.isGameOver = raised.isGameOver
    BY <2>1, <2>2, <2>3, <2>4, AdjustKeeps
  <2>6. QED
    BY <1>2, <2>2, <2>3, <2>5, CompleteTurnFields
<1>6. cards' \in [Seats -> 0 .. 3]
  BY <1>1 DEF HInv, TypeOK
<1> HIDE DEF mgr
<1>7. ~IsRoundOver(pm)
  BY <1>1 DEF MayCall, MayRaise, MayBet, InTurn
<1>8. QED
  BY <1>1, <1>3, <1>4, <1>5, <1>6, <1>7, ActedKeeps DEF BettingStages

-----------------------------------------------------------------------------
(* What is under way goes on.                                              *)

\* What it starts from.
LEMMA BusyFacts ==
  ASSUME HInv, Calm, NEW a \in Actors, acting[a] # "idle"
  PROVE  /\ dealer.pending = None =>
              /\ dealer.state \in {"DiscardRound", "PreFlop", "Flop", "Turn", "Final"}
              /\ Coming = dealer.state
         /\ dealer.pending # None => dealer.state \notin BettingStages
         /\ ~finished /\ Sound(dealer)
<1>1. dealer.state \in BusyStages /\ (dealer.state = "Waiting" <=> dealer.pending # None)
  BY DEF HInv, ActorsFit, TypeOK
<1>2. ~finished
  BY <1>1 DEF HInv, StagesAreReady, BusyStages, BettingStages
<1>3. QED
  BY <1>1, <1>2 DEF Coming, Calm, Settled, BusyStages, BettingStages

\* Moving on from a fold, from an action or from a tick.
LEMMA MovingFits ==
  ASSUME HInv, Calm, NEW a \in Actors, acting[a] # "idle",
         NEW place \in Places, Moves(a, place), place # "folded",
         a = RunLoop => place \in {"idle", "next"},
         place = "next" => IsRoundOver(pm), pm' = pm,
         dealer'.state \in BusyStages
  PROVE  ActorsFit' /\ acting' \in [Actors -> Places]
<1>1. /\ acting' \in [Actors -> Places] /\ acting'[a] = place
      /\ \A b \in Actors : b # a => acting'[b] = acting[b]
  BY Moved
<1>2. acting'[RunLoop] \in {"idle", "next"}
  BY <1>1, ActorsFacts DEF HInv, ActorsFit
<1>3. \A b \in Actors : acting'[b] = "next" => IsRoundOver(pm')
  BY <1>1 DEF HInv, ActorsFit
<1>4. QED
  BY <1>1, <1>2, <1>3 DEF ActorsFit

LEMMA FoldIsHandledHInv ==
  ASSUME HInv, Calm, NEW a \in Actors, FoldIsHandled(a)
  PROVE  HInv'
<1>1. /\ acting[a] = "folded" /\ Moves(a, "acted")
      /\ dealer' = IF Cardinality(Live(pm)) < 2 THEN Schedule(dealer, "RevealWinner", a)
                   ELSE dealer
      /\ UNCHANGED <<variant, pm, cards, community, finished, stake>>
  BY DEF FoldIsHandled
<1>2. /\ dealer.pending = None =>
            /\ dealer.state \in {"DiscardRound", "PreFlop", "Flop", "Turn", "Final"}
            /\ Coming = dealer.state
      /\ dealer.pending # None => dealer.state \notin BettingStages
      /\ ~finished /\ Sound(dealer) /\ dealer.state \in BusyStages
  BY <1>1, BusyFacts DEF HInv, ActorsFit
<1>3. a # RunLoop
  BY <1>1 DEF HInv, ActorsFit
<1>4. ASSUME dealer'.state \in BusyStages
      PROVE  ActorsFit' /\ acting' \in [Actors -> Places]
  BY <1>1, <1>3, <1>4, MovingFits DEF Places
<1>5. dealer.panicked \subseteq Actors /\ dealer.behind \subseteq Actors
  BY DEF HInv, TypeOK
<1>6. CASE Cardinality(Live(pm)) < 2 /\ dealer.pending = None
  <2>1. /\ dealer'.state = "Waiting" /\ dealer'.pending = "RevealWinner"
        /\ dealer'.panicked = dealer.panicked /\ dealer'.behind = Busy \ {a}
    BY <1>1, <1>2, <1>6, Scheduled
  <2>2. Coming' = "RevealWinner" /\ dealer'.pending # None
    BY <2>1, NoneIsNoStage DEF Coming
  <2>3. ActorsFit' /\ acting' \in [Actors -> Places]
    BY <1>4, <2>1 DEF BusyStages
  <2>4. TypeOK'
    BY <1>1, <1>5, <2>1, <2>2, <2>3 DEF HInv, TypeOK, Busy
  <2>5. HandIsPlayed' /\ CommunityFitsTheStage'
    BY <1>1, <1>2, <1>6, <2>2 DEF HInv, HandIsPlayed, CommunityFitsTheStage
  <2>6. BlindsCanBePosted' /\ StagesAreReady'
    BY <1>1, <1>2, <2>1, <2>2 DEF BlindsCanBePosted, StagesAreReady, BettingStages
  <2>7. QED
    BY <2>3, <2>4, <2>5, <2>6 DEF HInv
<1>7. CASE Cardinality(Live(pm)) < 2 /\ dealer.pending # None
  <2>1. /\ dealer'.state = dealer.state /\ dealer'.pending = dealer.pending
        /\ dealer'.panicked = dealer.panicked \cup {a} /\ dealer'.behind = dealer.behind
    BY <1>1, <1>2, <1>7, Collided
  <2>2. QED
    BY <1>1, <1>2, <1>4, <1>5, <1>7, <2>1, StandsStill
<1>8. CASE ~(Cardinality(Live(pm)) < 2)
  <2>1. dealer' = dealer /\ TwoCanAct(pm)
    BY <1>1, <1>8, TwoAreLeft
  <2>2. dealer.state \in BettingStages => FoldsAreSafe(pm)
    BY <2>1 DEF HInv, StagesAreReady, EarlyDue
  <2>3. QED
    BY <1>1, <1>2, <1>4, <1>5, <2>1, <2>2, StandsStill
<1>9. QED
  BY <1>6, <1>7, <1>8

LEMMA RoundIsCheckedHInv ==
  ASSUME HInv, Calm, NEW a \in Actors, RoundIsChecked(a)
  PROVE  HInv'
<1> DEFINE place == IF IsRoundOver(pm) /\ dealer.pending = None THEN "next" ELSE "idle"
<1>1. /\ acting[a] = "acted" /\ Moves(a, place)
      /\ UNCHANGED <<variant, pm, dealer, cards, community, finished, stake>>
  BY DEF RoundIsChecked
<1>2. /\ place \in Places /\ place \in {"idle", "next"}
      /\ place = "next" => IsRoundOver(pm)
  BY DEF Places
<1> HIDE DEF place
<1>3. dealer.state \in BusyStages
  BY <1>1 DEF HInv, ActorsFit
<1>4. ActorsFit' /\ acting' \in [Actors -> Places]
  BY <1>1, <1>2, <1>3, MovingFits
<1>5. EarlyDue => EarlyDue'
  <2>1. ASSUME NEW t \in Seats, acting[t] = "folded"
        PROVE  acting'[t] = "folded"
    BY <1>1, <1>2, <2>1, Moved, ActorsFacts
  <2>2. QED
    BY <1>1, <2>1 DEF EarlyDue, TwoCanAct
<1>6. QED
  BY <1>1, <1>4, <1>5, StandsStill DEF HInv, StagesAreReady, TypeOK

LEMMA NextIsScheduledHInv ==
  ASSUME HInv, Calm, NEW a \in Actors, NextIsScheduled(a)
  PROVE  HInv'
<1>1. /\ acting[a] = "next" /\ Moves(a, "idle")
      /\ dealer' = Schedule(dealer, NextStage(dealer.state), a)
      /\ UNCHANGED <<variant, pm, cards, community, finished, stake>>
  BY DEF NextIsScheduled
<1>2. /\ dealer.pending = None =>
            /\ dealer.state \in {"DiscardRound", "PreFlop", "Flop", "Turn", "Final"}
            /\ Coming = dealer.state
      /\ dealer.pending # None => dealer.state \notin BettingStages
      /\ ~finished /\ Sound(dealer) /\ dealer.state \in BusyStages
      /\ IsRoundOver(pm)
  BY <1>1, BusyFacts DEF HInv, ActorsFit
<1>3. ASSUME dealer'.state \in BusyStages
      PROVE  ActorsFit' /\ acting' \in [Actors -> Places]
  BY <1>1, <1>3, MovingFits DEF Places
<1>4. dealer.panicked \subseteq Actors /\ dealer.behind \subseteq Actors
  BY DEF HInv, TypeOK
<1>5. CASE dealer.pending = None
  <2> DEFINE next == NextStage(dealer.state)
  <2>1. /\ next \in {"PreFlop", "DealFlop", "DealTurn", "DealRiver", "RevealWinner"}
        /\ next = "PreFlop" => dealer.state = "DiscardRound"
        /\ next = "DealFlop" => dealer.state = "PreFlop"
        /\ next = "DealTurn" => dealer.state = "Flop"
        /\ next = "DealRiver" => dealer.state = "Turn"
        /\ next = "RevealWinner" => dealer.state = "Final"
    BY <1>2, <1>5, NextStages
  <2>2. /\ dealer'.state = "Waiting" /\ dealer'.pending = next
        /\ dealer'.panicked = dealer.panicked /\ dealer'.behind = Busy \ {a}
    BY <1>1, <1>2, <1>5, Scheduled
  <2> HIDE DEF next
  <2>3. Coming' = next /\ dealer'.pending # None /\ Coming = dealer.state
    BY <1>2, <1>5, <2>1, <2>2, NoneIsNoStage DEF Coming
  <2>4. ActorsFit' /\ acting' \in [Actors -> Places]
    BY <1>3, <2>2 DEF BusyStages
  <2>5. TypeOK'
    BY <1>1, <1>4, <2>2, <2>3, <2>4 DEF HInv, TypeOK, Busy
  <2>6. HandIsPlayed' /\ CommunityFitsTheStage'
    BY <1>1, <1>2, <1>5, <2>1, <2>3 DEF HInv, HandIsPlayed, CommunityFitsTheStage
  <2>7. BlindsCanBePosted'
    BY <1>1, <1>2, <1>5, <2>1, <2>2, <2>3 DEF HInv, BlindsCanBePosted
  <2>8. StagesAreReady'
    BY <1>1, <1>2, <2>1, <2>2, <2>3 DEF StagesAreReady, BettingStages
  <2>9. QED
    BY <2>4, <2>5, <2>6, <2>7, <2>8 DEF HInv
<1>6. CASE dealer.pending # None
  <2>1. /\ dealer'.state = dealer.state /\ dealer'.pending = dealer.pending
        /\ dealer'.panicked = dealer.panicked \cup {a} /\ dealer'.behind = dealer.behind
    BY <1>1, <1>2, <1>6, Collided
  <2>2. QED
    BY <1>1, <1>2, <1>3, <1>4, <1>6, <2>1, StandsStill
<1>7. QED
  BY <1>5, <1>6

-----------------------------------------------------------------------------
(* Ticks.                                                                  *)

\* The types of the dealer state's names.
LEMMA StageNames ==
  \A x \in {"Start", "DiscardRound", "PreFlop", "DealFlop", "Flop", "DealTurn", "Turn",
            "DealRiver", "Final", "RevealWinner", "End"} :
    x \in {Stages[i] : i \in DOMAIN Stages}
<1>1. DOMAIN Stages = 1 .. 11
  BY DEF Stages
<1>2. /\ Stages[1] = "Start" /\ Stages[2] = "DiscardRound" /\ Stages[3] = "PreFlop"
      /\ Stages[4] = "DealFlop" /\ Stages[5] = "Flop" /\ Stages[6] = "DealTurn"
      /\ Stages[7] = "Turn" /\ Stages[8] = "DealRiver" /\ Stages[9] = "Final"
      /\ Stages[10] = "RevealWinner" /\ Stages[11] = "End"
  BY DEF Stages
<1> HIDE DEF Stages
<1>3. \A i \in 1 .. 11 : Stages[i] \in {Stages[j] : j \in DOMAIN Stages}
  BY <1>1
<1>4. /\ 1 \in 1 .. 11 /\ 2 \in 1 .. 11 /\ 3 \in 1 .. 11 /\ 4 \in 1 .. 11
      /\ 5 \in 1 .. 11 /\ 6 \in 1 .. 11 /\ 7 \in 1 .. 11 /\ 8 \in 1 .. 11
      /\ 9 \in 1 .. 11 /\ 10 \in 1 .. 11 /\ 11 \in 1 .. 11
  OBVIOUS
<1>5. QED
  BY <1>2, <1>3, <1>4

\* Entering a stage changes two fields of the dealer.
LEMMA Entered ==
  ASSUME NEW d, Sound(d), NEW state, NEW pending
  PROVE  /\ [d EXCEPT !.state = state].state = state
         /\ [d EXCEPT !.state = state].pending = d.pending
         /\ [d EXCEPT !.state = state].panicked = d.panicked
         /\ [d EXCEPT !.state = state].behind = d.behind
         /\ [d EXCEPT !.state = state, !.pending = pending].state = state
         /\ [d EXCEPT !.state = state, !.pending = pending].pending = pending
         /\ [d EXCEPT !.state = state, !.pending = pending].panicked = d.panicked
         /\ [d EXCEPT !.state = state, !.pending = pending].behind = d.behind
BY DEF Sound

\* A new hand: the antes are paid, and everybody can post the blinds.
LEMMA InitHInv == Init => HInv
<1> SUFFICES ASSUME Init PROVE HInv
  OBVIOUS
<1>1. /\ stake \in [Seats -> Stakes] /\ pm = Seated(stake) /\ variant \in Variants
      /\ dealer.state = "Start" /\ dealer.pending = None
      /\ dealer.panicked = {} /\ dealer.behind = {}
      /\ acting \in [Actors -> Places] /\ \A a \in Actors : acting[a] = "idle"
      /\ cards = [s \in Seats |-> 0] /\ community = 0 /\ finished = FALSE
  BY DEF Init, Places
<1>2. stake \in [Seats -> Nat] /\ \A s \in Seats : Ante < stake[s] /\ BigBlind < stake[s] - Ante
  <2>1. \A s \in Seats : stake[s] \in Nat /\ stake[s] > Ante + BigBlind
    BY <1>1, StakesAssumption
  <2>2. QED
    BY <1>1, <2>1, Constants
<1>3. /\ Playing(pm, Seats) /\ Chips(pm) = SumSeats(stake)
      /\ \A s \in Seats : CanAct(pm, s) /\ pm.balance[s] = stake[s] - Ante
      /\ pm.inPlay = [s \in Seats |-> 0] /\ pm.actionAmount = 0 /\ pm.actionAtIndex = 0
      /\ ~pm.needsPotCalculation /\ ~pm.isGameOver /\ ~pm.inDecisionRound
  BY <1>1, <1>2, SeatingKeeps
<1>4. Coming = "Start"
  BY <1>1 DEF Coming
<1>5. TypeOK
  <2>1. cards \in [Seats -> 0 .. 3]
    BY <1>1
  <2>2. dealer.state \in {Stages[i] : i \in DOMAIN Stages}
    BY <1>1, StageNames
  <2>3. pm \in PotState
    BY <1>3 DEF Playing
  <2>4. dealer.state = "Waiting" <=> dealer.pending # None
    BY <1>1
  <2>5. community \in 0 .. 5
    BY <1>1
  <2>6. finished \in BOOLEAN
    BY <1>1, Zenon
  <2>7. dealer.panicked \subseteq Actors /\ dealer.behind \subseteq Actors
    BY <1>1
  <2> QED
    BY <1>1, <2>1, <2>2, <2>3, <2>4, <2>5, <2>6, <2>7, Zenon DEF TypeOK
<1>6. HandIsPlayed /\ CommunityFitsTheStage
  BY <1>1, <1>3, <1>4 DEF HandIsPlayed, CommunityFitsTheStage
<1>7. BlindsCanBePosted
  BY <1>2, <1>3 DEF BlindsCanBePosted
<1>8. StagesAreReady
  BY <1>1, <1>4, NoneIsNoStage DEF StagesAreReady, BettingStages
<1>9. ActorsFit
  BY <1>1, ActorsFacts DEF ActorsFit
<1>10. QED
  BY <1>5, <1>6, <1>7, <1>8, <1>9 DEF HInv

\* The cards are dealt, and the decision round opens or the blinds are due.
LEMMA TickStartHInv ==
  ASSUME HInv, Calm, TickStart
  PROVE  HInv'
<1>1. /\ dealer.pending = None /\ dealer.state = "Start" /\ Sound(dealer)
      /\ cards' = [s \in Seats |-> IF variant = "Standard" THEN 2 ELSE 3]
      /\ UNCHANGED <<variant, acting, community, finished, stake>>
  BY DEF TickStart, Calm, Settled
<1>2. Coming = "Start"
  BY <1>1 DEF Coming
<1>3. /\ Playing(pm, Seats) /\ Chips(pm) = SumSeats(stake) /\ ~pm.isGameOver
      /\ pm.actionAmount = 0 /\ \A s \in Seats : CanAct(pm, s) /\ pm.balance[s] > BigBlind
      /\ pm.actionAtIndex = 0 /\ ~pm.inDecisionRound /\ ~pm.needsPotCalculation
      /\ community = 0 /\ ~finished
  BY <1>1, <1>2 DEF HInv, HandIsPlayed, BlindsCanBePosted, CommunityFitsTheStage, StagesAreReady
<1>4. cards' \in [Seats -> 0 .. 3] /\ ActorsFit'
  <2>1. \A a \in Actors : acting[a] = "idle"
    BY <1>1, NobodyIsBusy DEF BusyStages, BettingStages
  <2>2. QED
    BY <1>1, <2>1, IdleFits
<1>5. CASE variant = "Pineapple"
  <2>1. dealer' = [dealer EXCEPT !.state = "DiscardRound"] /\ pm' = StartDecisionRound(pm)
    BY <1>5 DEF TickStart, Enter
  <2>2. /\ dealer'.state = "DiscardRound" /\ dealer'.pending = None
        /\ dealer'.panicked = dealer.panicked /\ dealer'.behind = dealer.behind
    BY <1>1, <2>1, Entered
  <2>3. /\ Playing(pm', Seats) /\ Chips(pm') = Chips(pm)
        /\ pm'.balance = pm.balance /\ pm'.allIn = pm.allIn /\ pm'.folded = pm.folded
        /\ pm'.inPlay = [s \in Seats |-> 0]
        /\ pm'.actionAmount = 0 /\ pm'.actionAtIndex \in {0, N}
        /\ pm'.isGameOver = pm.isGameOver /\ pm'.inDecisionRound /\ ~pm'.needsPotCalculation
    BY <1>3, <2>1, DecisionRoundKeeps
  <2>4. Coming' = "DiscardRound"
    BY <2>2 DEF Coming
  <2>5. TypeOK'
    <3>1. dealer'.state \in {Stages[i] : i \in DOMAIN Stages}
      BY <2>2, StageNames
    <3>2. QED
      BY <1>1, <1>4, <2>2, <2>3, <3>1 DEF HInv, TypeOK, Playing
  <2>6. HandIsPlayed' /\ CommunityFitsTheStage'
    BY <1>1, <1>3, <2>3, <2>4 DEF HandIsPlayed, CommunityFitsTheStage
  <2>7. BlindsCanBePosted'
    BY <1>3, <2>2, <2>3, NoneIsNoStage DEF BlindsCanBePosted, CanAct
  <2>8. StagesAreReady'
    BY <1>1, <1>3, <2>2, <2>4, NoneIsNoStage DEF StagesAreReady, BettingStages
  <2>9. QED
    BY <1>4, <2>5, <2>6, <2>7, <2>8 DEF HInv
<1>6. CASE variant # "Pineapple"
  <2>1. dealer' = Schedule(dealer, "PreFlop", RunLoop) /\ pm' = pm
    BY <1>6 DEF TickStart
  <2>2. /\ dealer'.state = "Waiting" /\ dealer'.pending = "PreFlop" /\ "PreFlop" # None
        /\ dealer'.panicked = dealer.panicked /\ dealer'.behind \subseteq Actors
    BY <1>1, <2>1, Scheduled, NoneIsNoStage DEF Busy
  <2>3. Coming' = "PreFlop"
    BY <2>2 DEF Coming
  <2>4. TypeOK'
    BY <1>1, <1>4, <2>1, <2>2 DEF HInv, TypeOK
  <2>5. HandIsPlayed' /\ CommunityFitsTheStage'
    BY <1>1, <1>3, <2>1, <2>3 DEF HandIsPlayed, CommunityFitsTheStage
  <2>6. BlindsCanBePosted'
    BY <1>3, <2>1, <2>2 DEF BlindsCanBePosted
  <2>7. StagesAreReady'
    BY <1>1, <1>3, <2>2, <2>3 DEF StagesAreReady, BettingStages
  <2>8. QED
    BY <1>4, <2>4, <2>5, <2>6, <2>7 DEF HInv
<1>7. QED
  BY <1>5, <1>6

\* newRoundSetup: the bets of a round that is over are collected.
LEMMA SetupKeeps ==
  ASSUME NEW q, Playing(q, Seats), NEW p, p = IF IsRoundOver(q) THEN NextRound(q) ELSE q
  PROVE  /\ Playing(p, Seats) /\ Chips(p) = Chips(q) /\ p.isGameOver = q.isGameOver
         /\ p.allIn = q.allIn /\ p.folded = q.folded /\ Live(p) = Live(q)
         /\ ~p.needsPotCalculation
         /\ AllInAmounts(q) = {} => p.balance = q.balance
         /\ IsRoundOver(q) =>
              /\ p.actionAmount = 0 /\ ~p.inDecisionRound
              /\ IsRoundOver(p) \/ TwoCanAct(p)
              /\ TwoCanAct(p) => p.actionAtIndex = 0
<1>1. CASE IsRoundOver(q)
  <2>1. p = NextRound(q)
    BY <1>1
  <2>2. /\ Playing(p, Seats) /\ Chips(p) = Chips(q)
        /\ p.allIn = q.allIn /\ p.folded = q.folded
        /\ p.inPlay = [s \in Seats |-> 0]
        /\ p.actionAmount = 0 /\ p.actionAtIndex \in {0, N}
        /\ p.isGameOver = q.isGameOver /\ ~p.inDecisionRound /\ ~p.needsPotCalculation
        /\ AllInAmounts(q) = {} => p.balance = q.balance
        /\ (\E s, t \in Live(p) : s # t) => p.actionAtIndex = 0
        /\ p.actionAtIndex = 0 => \E s, t \in Live(p) : s # t
    BY <1>1, <2>1, NextRoundKeeps
  <2>3. Live(p) = Live(q)
    BY <2>2 DEF Live, CanAct
  <2>4. p.actionAtIndex = N => IsRoundOver(p)
    BY Constants DEF IsRoundOver
  <2>5. QED
    BY <2>2, <2>3, <2>4 DEF TwoCanAct
<1>2. CASE ~IsRoundOver(q)
  <2>1. p = q
    BY <1>2
  <2>2. ~q.needsPotCalculation
    BY <1>2 DEF Playing, TurnsInOrder
  <2>3. QED
    BY <1>2, <2>1, <2>2
<1>3. QED
  BY <1>1, <1>2

\* A pending state is entered when nobody is in the middle of anything.
LEMMA PendingIsEntered ==
  ASSUME TickPending
  PROVE  ActorsFit'
<1>1. acting' = acting /\ \A a \in Actors : acting[a] = "idle"
  BY DEF TickPending, Busy
<1>2. QED
  BY <1>1, IdleFits

\* The blinds are posted: everybody keeps more than the big blind to play with.
LEMMA PreFlopHInv ==
  ASSUME HInv, Calm, TickPending, dealer.pending = "PreFlop"
  PROVE  HInv'
<1> DEFINE fresh == IF IsRoundOver(pm) THEN NextRound(pm) ELSE pm
<1>1. /\ Sound(dealer) /\ "PreFlop" # None
      /\ dealer' = [dealer EXCEPT !.state = "PreFlop", !.pending = None]
      /\ pm' = RoundSetup(pm, "PreFlop")
      /\ UNCHANGED <<variant, acting, cards, community, finished, stake>>
  BY NoneIsNoStage DEF TickPending, Calm, Settled
<1>2. pm' = PayBlinds(fresh)
  BY <1>1 DEF RoundSetup
<1>3. fresh = IF IsRoundOver(pm) THEN NextRound(pm) ELSE pm
  OBVIOUS
<1> HIDE DEF fresh
<1>4. Coming = "PreFlop"
  BY <1>1 DEF Coming
<1>5. /\ Playing(pm, Seats) /\ Chips(pm) = SumSeats(stake) /\ ~pm.isGameOver
      /\ pm.actionAmount = 0 /\ \A s \in Seats : CanAct(pm, s) /\ pm.balance[s] > BigBlind
      /\ ~IsRoundOver(pm) => pm.actionAtIndex = 0 /\ ~pm.inDecisionRound
      /\ community = 0
  BY <1>4 DEF HInv, HandIsPlayed, BlindsCanBePosted, CommunityFitsTheStage
<1>6. ~finished
  BY <1>1 DEF HInv, TypeOK, StagesAreReady
<1>7. /\ Playing(fresh, Seats) /\ Chips(fresh) = Chips(pm) /\ fresh.isGameOver = pm.isGameOver
      /\ fresh.allIn = pm.allIn /\ fresh.folded = pm.folded
      /\ ~fresh.needsPotCalculation
      /\ AllInAmounts(pm) = {} => fresh.balance = pm.balance
      /\ IsRoundOver(pm) =>
           /\ fresh.actionAmount = 0 /\ ~fresh.inDecisionRound
           /\ IsRoundOver(fresh) \/ TwoCanAct(fresh)
           /\ TwoCanAct(fresh) => fresh.actionAtIndex = 0
  BY <1>3, <1>5, SetupKeeps
<1>8. fresh.balance = pm.balance
  <2>1. AllInAmounts(pm) = {}
    BY <1>5 DEF CanAct, AllInAmounts, AllInFor
  <2>2. QED
    BY <1>7, <2>1
<1>9. /\ \A s \in Seats : CanAct(fresh, s) /\ fresh.balance[s] > BigBlind
      /\ TwoCanAct(fresh)
  <2>1. \A s \in Seats : CanAct(fresh, s) /\ fresh.balance[s] > BigBlind
    BY <1>5, <1>7, <1>8 DEF CanAct
  <2>2. 0 \in Live(fresh) /\ 1 \in Live(fresh)
    BY <2>1, SeatsAreNat DEF Live
  <2>3. QED
    BY <2>1, <2>2 DEF TwoCanAct
<1>10. /\ ~IsRoundOver(fresh) /\ ~fresh.inDecisionRound
       /\ fresh.actionAmount = 0 /\ fresh.actionAtIndex = 0
  <2>1. /\ ~fresh.inDecisionRound /\ fresh.actionAmount = 0 /\ fresh.actionAtIndex = 0
    BY <1>3, <1>5, <1>7, <1>9
  <2>2. QED
    BY <2>1, Constants DEF IsRoundOver
<1>11. /\ Playing(pm', Seats)
       /\ Chips(pm') = Chips(fresh)
       /\ \A s \in Seats : /\ CanAct(pm', s) /\ pm'.balance[s] <= fresh.balance[s]
                           /\ AllInAmount(pm', s) = fresh.balance[s]
       /\ pm'.actionAmount = BigBlind /\ pm'.actionAtIndex = 0 /\ ~pm'.needsPotCalculation
       /\ pm'.isGameOver = fresh.isGameOver /\ ~pm'.inDecisionRound
  BY <1>2, <1>7, <1>9, <1>10, BlindsKeep
<1>12. /\ dealer'.state = "PreFlop" /\ dealer'.pending = None /\ Coming' = "PreFlop"
       /\ dealer'.panicked = dealer.panicked /\ dealer'.behind = dealer.behind
  BY <1>1, Entered DEF Coming
<1>13. FoldsAreSafe(pm)'
  <2>1. 0 \in Live(pm') /\ 1 \in Live(pm')
    BY <1>11, SeatsAreNat DEF Live
  <2>2. \A s \in Seats : AllInAmount(pm', s) > pm'.actionAmount
    BY <1>9, <1>11
  <2>3. QED
    BY <2>1, <2>2 DEF FoldsAreSafe, TwoCanAct
<1>14. TypeOK'
  <2>1. dealer'.state \in {Stages[i] : i \in DOMAIN Stages}
    BY <1>12, StageNames
  <2>2. QED
    BY <1>1, <1>11, <1>12, <2>1 DEF HInv, TypeOK, Playing
<1>15. HandIsPlayed' /\ CommunityFitsTheStage'
  BY <1>1, <1>5, <1>7, <1>11, <1>12 DEF HandIsPlayed, CommunityFitsTheStage
<1>16. BlindsCanBePosted'
  BY <1>12, NoneIsNoStage DEF BlindsCanBePosted
<1>17. StagesAreReady'
  BY <1>1, <1>6, <1>12, <1>13, NoneIsNoStage DEF StagesAreReady, BettingStages
<1>18. ActorsFit'
  BY PendingIsEntered
<1>19. QED
  BY <1>14, <1>15, <1>16, <1>17, <1>18 DEF HInv

\* A later stage is entered, the bets of the last round having been collected.
LEMMA LaterStageHInv ==
  ASSUME HInv, Calm, TickPending,
         dealer.pending \in {"DealFlop", "DealTurn", "DealRiver", "RevealWinner"}
  PROVE  HInv'
<1> DEFINE next == dealer.pending
<1>1. /\ Sound(dealer) /\ next # None
      /\ next \in {"DealFlop", "DealTurn", "DealRiver", "RevealWinner"}
      /\ dealer' = [dealer EXCEPT !.state = next, !.pending = None]
      /\ pm' = RoundSetup(pm, next)
      /\ UNCHANGED <<variant, acting, cards, community, finished, stake>>
  BY DEF TickPending, Calm, Settled
<1>2. Coming = next
  BY <1>1 DEF Coming
<1>3. dealer.pending = next
  OBVIOUS
<1> HIDE DEF next
<1>4. pm' = IF IsRoundOver(pm) THEN NextRound(pm) ELSE pm
  BY <1>1 DEF RoundSetup
<1>5. /\ Playing(pm, Seats) /\ Chips(pm) = SumSeats(stake) /\ ~pm.isGameOver
  BY <1>1, <1>2 DEF HInv, HandIsPlayed
<1>6. /\ ~finished
      /\ next # "RevealWinner" => IsRoundOver(pm)
  BY <1>1, <1>3 DEF HInv, TypeOK, StagesAreReady
<1>7. /\ Playing(pm', Seats) /\ Chips(pm') = Chips(pm) /\ pm'.isGameOver = pm.isGameOver
      /\ Live(pm') = Live(pm)
      /\ ~pm'.needsPotCalculation
      /\ IsRoundOver(pm) =>
           pm'.actionAmount = 0 /\ (IsRoundOver(pm') \/ TwoCanAct(pm'))
  BY <1>4, <1>5, SetupKeeps
<1>8. /\ dealer'.state = next /\ dealer'.pending = None /\ Coming' = next
      /\ dealer'.panicked = dealer.panicked /\ dealer'.behind = dealer.behind
  BY <1>1, Entered DEF Coming
<1>9. TypeOK'
  <2>1. dealer'.state \in {Stages[i] : i \in DOMAIN Stages}
    BY <1>1, <1>8, StageNames
  <2>2. dealer'.state # "Waiting"
    BY <1>1, <1>8
  <2>3. QED
    BY <1>1, <1>7, <1>8, <2>1, <2>2 DEF HInv, TypeOK, Playing
<1>10. HandIsPlayed'
  BY <1>1, <1>5, <1>7 DEF HandIsPlayed
<1>11. CommunityFitsTheStage'
  BY <1>1, <1>2, <1>7, <1>8 DEF HInv, CommunityFitsTheStage
<1>12. BlindsCanBePosted'
  BY <1>1, <1>8, NoneIsNoStage DEF BlindsCanBePosted
<1>13. StagesAreReady'
  BY <1>1, <1>6, <1>7, <1>8, NoneIsNoStage DEF StagesAreReady, BettingStages
<1>14. ActorsFit'
  BY PendingIsEntered
<1>15. QED
  BY <1>9, <1>10, <1>11, <1>12, <1>13, <1>14 DEF HInv

\* After the winners are paid there is nothing to collect.
LEMMA SetupEnds ==
  ASSUME NEW q \in PotState, ~q.needsPotCalculation,
         NEW p, p = IF IsRoundOver(q) THEN NextRound(q) ELSE q
  PROVE  /\ p \in PotState /\ p.balance = q.balance /\ Live(p) = Live(q)
         /\ ~p.needsPotCalculation /\ p.pots = q.pots
         /\ p.amountInPlay = IF IsRoundOver(q) THEN 0 ELSE q.amountInPlay
         /\ ~IsRoundOver(q) => ~IsRoundOver(p)
<1>1. CASE IsRoundOver(q)
  <2> DEFINE r == [q EXCEPT !.inDecisionRound = FALSE]
  <2>1. /\ r \in PotState /\ r.balance = q.balance /\ r.allIn = q.allIn /\ r.folded = q.folded
        /\ ~r.needsPotCalculation /\ r.pots = q.pots
    BY DEF PotState
  <2>2. p = Reset(r)
    BY <1>1 DEF NextRound, CalculatePot
  <2> HIDE DEF r
  <2>3. /\ p \in PotState /\ p.balance = r.balance /\ p.allIn = r.allIn /\ p.folded = r.folded
        /\ p.amountInPlay = 0 /\ p.needsPotCalculation = r.needsPotCalculation
        /\ p.pots = r.pots
    BY <2>1, <2>2, ResetFields
  <2>4. Live(p) = Live(q)
    BY <2>1, <2>3 DEF Live, CanAct
  <2>5. QED
    BY <1>1, <2>1, <2>3, <2>4
<1>2. CASE ~IsRoundOver(q)
  BY <1>2
<1>3. QED
  BY <1>1, <1>2

\* The end: the result is about to be ready.
LEMMA EndHInv ==
  ASSUME HInv, Calm, TickPending, dealer.pending = "End"
  PROVE  HInv'
<1>1. /\ Sound(dealer) /\ "End" # None
      /\ dealer' = [dealer EXCEPT !.state = "End", !.pending = None]
      /\ pm' = RoundSetup(pm, "End")
      /\ UNCHANGED <<variant, acting, cards, community, finished, stake>>
  BY NoneIsNoStage DEF TickPending, Calm, Settled
<1>2. Coming = "End"
  BY <1>1 DEF Coming
<1>3. pm' = IF IsRoundOver(pm) THEN NextRound(pm) ELSE pm
  BY <1>1 DEF RoundSetup
<1>4. /\ pm \in PotState /\ ~pm.needsPotCalculation
      /\ community = 5 \/ Cardinality(Live(pm)) < 2
  BY <1>2 DEF HInv, TypeOK, StagesAreReady, CommunityFitsTheStage
<1>5. /\ pm' \in PotState /\ Live(pm') = Live(pm) /\ ~pm'.needsPotCalculation
      /\ pm'.amountInPlay = IF IsRoundOver(pm) THEN 0 ELSE pm.amountInPlay
      /\ ~IsRoundOver(pm) => ~IsRoundOver(pm')
  BY <1>3, <1>4, SetupEnds
<1>6. /\ dealer'.state = "End" /\ dealer'.pending = None /\ Coming' = "End"
      /\ dealer'.panicked = dealer.panicked /\ dealer'.behind = dealer.behind
  BY <1>1, Entered DEF Coming
<1>7. TypeOK'
  <2>1. dealer'.state \in {Stages[i] : i \in DOMAIN Stages}
    BY <1>6, StageNames
  <2>2. QED
    BY <1>1, <1>5, <1>6, <2>1 DEF HInv, TypeOK
<1>8. HandIsPlayed' /\ CommunityFitsTheStage'
  BY <1>1, <1>4, <1>5, <1>6 DEF HandIsPlayed, CommunityFitsTheStage
<1>9. BlindsCanBePosted'
  BY <1>6, NoneIsNoStage DEF BlindsCanBePosted
<1>10. StagesAreReady'
  BY <1>5, <1>6, NoneIsNoStage DEF StagesAreReady, BettingStages
<1>11. ActorsFit'
  BY PendingIsEntered
<1>12. QED
  BY <1>7, <1>8, <1>9, <1>10, <1>11 DEF HInv

\* The flop, the turn or the river: nobody has bet in the round that follows, and
\* two can bet unless it is over already.
LEMMA TickDealCommunityHInv ==
  ASSUME HInv, Calm, TickDealCommunity
  PROVE  HInv'
<1>1. /\ Sound(dealer) /\ dealer.pending = None
      /\ dealer.state \in {"DealFlop", "DealTurn", "DealRiver"}
      /\ community' = community + (IF dealer.state = "DealFlop" THEN 3 ELSE 1)
      /\ dealer' = [dealer EXCEPT !.state = NextStage(dealer.state)]
      /\ UNCHANGED <<variant, pm, acting, cards, finished, stake>>
  BY DEF TickDealCommunity, Enter, Calm, Settled
<1>2. Coming = dealer.state
  BY <1>1 DEF Coming
<1>3. /\ Playing(pm, Seats) /\ Chips(pm) = SumSeats(stake) /\ ~pm.isGameOver
      /\ pm.actionAmount = 0 /\ (IsRoundOver(pm) \/ TwoCanAct(pm)) /\ ~finished
  BY <1>1, <1>2 DEF HInv, HandIsPlayed, StagesAreReady
<1>4. /\ dealer'.pending = None /\ Coming' = dealer'.state
      /\ dealer'.panicked = dealer.panicked /\ dealer'.behind = dealer.behind
      /\ dealer.state = "DealFlop" => dealer'.state = "Flop"
      /\ dealer.state = "DealTurn" => dealer'.state = "Turn"
      /\ dealer.state = "DealRiver" => dealer'.state = "Final"
  BY <1>1, Entered, NextStages DEF Coming
<1>5. /\ dealer.state = "DealFlop" => community' = 3
      /\ dealer.state = "DealTurn" => community' = 4
      /\ dealer.state = "DealRiver" => community' = 5
  BY <1>1, <1>2 DEF HInv, CommunityFitsTheStage
<1>6. FoldsAreSafe(pm)
  <2>1. CASE TwoCanAct(pm)
    BY <1>3, <2>1 DEF FoldsAreSafe
  <2>2. CASE IsRoundOver(pm)
    <3>1. pm.actionAtIndex \in 0 .. N /\ pm.actionAtIndex >= N
      BY <1>3, <2>2 DEF Playing, PotState, IsRoundOver
    <3>2. pm.actionAtIndex .. N - 1 = {}
      BY <3>1, Constants
    <3>3. QED
      BY <3>2 DEF FoldsAreSafe
  <2>3. QED
    BY <1>3, <2>1, <2>2
<1>7. TypeOK'
  <2>1. dealer'.state \in {"Flop", "Turn", "Final"}
    BY <1>1, <1>4
  <2>2. dealer'.state \in {Stages[i] : i \in DOMAIN Stages} /\ dealer'.state # "Waiting"
    BY <2>1, StageNames
  <2>3. community' \in 0 .. 5
    BY <1>1, <1>5
  <2>4. QED
    BY <1>1, <1>4, <2>2, <2>3 DEF HInv, TypeOK
<1>8. HandIsPlayed'
  BY <1>1, <1>3 DEF HandIsPlayed
<1>9. CommunityFitsTheStage'
  BY <1>1, <1>4, <1>5 DEF CommunityFitsTheStage
<1>10. BlindsCanBePosted'
  BY <1>1, <1>4, NoneIsNoStage DEF BlindsCanBePosted
<1>11. StagesAreReady'
  BY <1>1, <1>3, <1>4, <1>6, NoneIsNoStage DEF StagesAreReady, BettingStages
<1>12. ActorsFit'
  <2>1. \A a \in Actors : acting[a] = "idle"
    BY <1>1, NobodyIsBusy DEF BusyStages, BettingStages
  <2>2. QED
    BY <1>1, <2>1, IdleFits
<1>13. QED
  BY <1>7, <1>8, <1>9, <1>10, <1>11, <1>12 DEF HInv

\* A tick that finds a betting round over goes on to schedule the next stage.
LEMMA TickRoundOverHInv ==
  ASSUME HInv, Calm, acting[RunLoop] = "idle", TickRoundOver
  PROVE  HInv'
<1>1. /\ dealer.state \in BettingStages /\ IsRoundOver(pm) /\ Moves(RunLoop, "next")
      /\ UNCHANGED <<variant, pm, dealer, cards, community, finished, stake>>
  BY DEF TickRoundOver, NextMoveDue, InBettingRound
<1>2. /\ acting' \in [Actors -> Places] /\ acting'[RunLoop] = "next"
      /\ \A a \in Actors : a # RunLoop => acting'[a] = acting[a]
  BY <1>1, Moved, ActorsFacts DEF Places
<1>3. ActorsFit'
  BY <1>1, <1>2 DEF HInv, ActorsFit, BusyStages
<1>4. EarlyDue => EarlyDue'
  <2>1. ASSUME NEW t \in Seats, acting[t] = "folded"
        PROVE  acting'[t] = "folded"
    BY <1>2, <2>1, ActorsFacts
  <2>2. QED
    BY <1>1, <2>1 DEF EarlyDue, TwoCanAct
<1>5. QED
  BY <1>1, <1>2, <1>3, <1>4, StandsStill DEF HInv, StagesAreReady, TypeOK

\* endGame: nothing is left to collect, so the winners are paid from the pots.
LEMMA RevealFacts ==
  ASSUME HInv, Calm, TickRevealWinner
  PROVE  LET over == EndGame(pm) IN
         /\ Playing(pm, Seats) /\ Chips(pm) = SumSeats(stake)
         /\ Playing(over, Seats) /\ Chips(over) = SumSeats(stake)
         /\ ~over.needsPotCalculation /\ over.isGameOver
         /\ over.folded = pm.folded /\ over.allIn = pm.allIn
         /\ \E ranks \in [Seats -> 1 .. N] :
              pm' = Paid(over, Payouts(over.pots, SortedTiers(Alive(over), ranks)))
<1> DEFINE over == EndGame(pm)
<1>1. dealer.state = "RevealWinner" /\ dealer.pending = None
  BY DEF TickRevealWinner
<1>2. Coming = "RevealWinner"
  BY <1>1 DEF Coming
<1>3. Playing(pm, Seats) /\ Chips(pm) = SumSeats(stake) /\ ~pm.needsPotCalculation
  BY <1>1, <1>2 DEF HInv, HandIsPlayed, StagesAreReady
<1>4. /\ Playing(over, Seats) /\ Chips(over) = Chips(pm) /\ over.isGameOver
      /\ over.folded = pm.folded /\ over.allIn = pm.allIn
      /\ over.needsPotCalculation = pm.needsPotCalculation
  BY <1>3, EndGameKeeps
<1>5. CalculatePot(over) = over
  BY <1>3, <1>4 DEF CalculatePot
<1> HIDE DEF over
<1>6. PICK ranks \in Strengths :
        pm' = Paid(CalculatePot(over),
                   Payouts(CalculatePot(over).pots, SortedTiers(Alive(CalculatePot(over)), ranks)))
  BY Zenon DEF TickRevealWinner, over
<1>7. ranks \in [Seats -> 1 .. N]
  BY DEF Strengths
<1>8. pm' = Paid(over, Payouts(over.pots, SortedTiers(Alive(over), ranks)))
  BY <1>5, <1>6
<1>9. QED
  BY <1>3, <1>4, <1>7, <1>8 DEF over

\* Paying only changes the balances.
LEMMA PayingFacts ==
  ASSUME NEW q \in PotState, NEW ranks \in [Seats -> 1 .. N], NEW seats \in SUBSET Seats,
         NEW p, p = Paid(q, Payouts(q.pots, SortedTiers(seats, ranks)))
  PROVE  /\ p \in PotState /\ p.actionAtIndex = q.actionAtIndex
         /\ p.allIn = q.allIn /\ p.folded = q.folded /\ p.amountInPlay = q.amountInPlay
         /\ p.needsPotCalculation = q.needsPotCalculation
         /\ p.pots = q.pots /\ p.isGameOver = q.isGameOver
<1> DEFINE tiers   == SortedTiers(seats, ranks)
           paying  == Payouts(q.pots, tiers)
           balance == [s \in Seats |-> q.balance[s] + paying[s]]
<1>1. tiers \in Seq(SUBSET Seats)
  BY SortedTiersType
<1>2. paying \in [Seats -> Nat]
  <2> HIDE DEF tiers
  <2>1. q.pots \in Seq(Pot)
    BY DEF PotState
  <2>2. QED
    BY <1>1, <2>1, PayoutsType
<1> HIDE DEF tiers, paying
<1>3. p = Paid(q, paying)
  BY DEF tiers, paying
<1>4. p = [q EXCEPT !.balance = balance]
  BY <1>3, Zenon DEF Paid
<1>5. balance \in [Seats -> Nat]
  BY <1>2 DEF PotState
<1> HIDE DEF balance
<1>6. QED
  BY <1>4, <1>5 DEF PotState

\* The winners are paid: a round that was over has nothing in play.
LEMMA TickRevealWinnerHInv ==
  ASSUME HInv, Calm, TickRevealWinner
  PROVE  HInv'
<1> DEFINE over == EndGame(pm)
<1>1. /\ Playing(over, Seats) /\ Chips(over) = SumSeats(stake)
      /\ ~over.needsPotCalculation /\ over.isGameOver
      /\ over.folded = pm.folded /\ over.allIn = pm.allIn
      /\ \E ranks \in [Seats -> 1 .. N] :
           pm' = Paid(over, Payouts(over.pots, SortedTiers(Alive(over), ranks)))
  BY RevealFacts
<1> HIDE DEF over
<1>2. over \in PotState
  BY <1>1 DEF Playing
<1>3. /\ pm' \in PotState /\ pm'.actionAtIndex = over.actionAtIndex
      /\ pm'.allIn = over.allIn /\ pm'.folded = over.folded
      /\ pm'.amountInPlay = over.amountInPlay
      /\ pm'.needsPotCalculation = over.needsPotCalculation
  <2>1. Alive(over) \in SUBSET Seats
    BY DEF Alive
  <2>2. QED
    BY <1>1, <1>2, <2>1, PayingFacts
<1>4. IsRoundOver(over) => over.amountInPlay = 0
  <2> SUFFICES ASSUME IsRoundOver(over) PROVE over.amountInPlay = 0
    OBVIOUS
  <2>1. \A s \in Seats : over.inPlay[s] = 0
    BY <1>1 DEF Playing, TurnsInOrder
  <2>2. over.amountInPlay = SumSeats(over.inPlay)
    BY <1>1 DEF Playing, BetsAddUp
  <2>3. QED
    BY <2>1, <2>2, SumOfZeros
<1>5. /\ dealer.pending = None /\ dealer.state = "RevealWinner" /\ Sound(dealer)
      /\ dealer' = Schedule(dealer, "End", RunLoop)
      /\ UNCHANGED <<variant, acting, cards, community, finished, stake>>
  BY DEF TickRevealWinner, Calm, Settled
<1>6. /\ dealer'.state = "Waiting" /\ dealer'.pending = "End" /\ "End" # None
      /\ dealer'.panicked = dealer.panicked /\ dealer'.behind \subseteq Actors
  BY <1>5, Scheduled, NoneIsNoStage DEF Busy
<1>7. Coming' = "End"
  BY <1>6 DEF Coming
<1>8. /\ community = 5 \/ Cardinality(Live(pm)) < 2
      /\ ~finished
  BY <1>5 DEF HInv, CommunityFitsTheStage, StagesAreReady, Coming
<1>9. Live(pm') = Live(pm)
  BY <1>1, <1>3 DEF Live, CanAct
<1>10. TypeOK'
  BY <1>3, <1>5, <1>6 DEF HInv, TypeOK
<1>11. HandIsPlayed' /\ CommunityFitsTheStage'
  BY <1>5, <1>7, <1>8, <1>9 DEF HandIsPlayed, CommunityFitsTheStage
<1>12. BlindsCanBePosted'
  BY <1>6, <1>7 DEF BlindsCanBePosted
<1>13. StagesAreReady'
  BY <1>1, <1>3, <1>4, <1>5, <1>6, <1>7, <1>8
     DEF StagesAreReady, BettingStages, IsRoundOver
<1>14. ActorsFit'
  <2>1. \A a \in Actors : acting[a] = "idle"
    BY <1>5, NobodyIsBusy DEF BusyStages, BettingStages
  <2>2. QED
    BY <1>5, <2>1, IdleFits
<1>15. QED
  BY <1>10, <1>11, <1>12, <1>13, <1>14 DEF HInv
-----------------------------------------------------------------------------
(* Every step.                                                             *)

\* A step of the exception that moves somebody else than a fold, and changes nothing
\* else.
LEMMA BrokenMoves ==
  ASSUME TypeOK, Broken, Calm, NEW a \in Actors, acting[a] # "folded",
         NEW place \in Places, Moves(a, place),
         UNCHANGED <<variant, pm, dealer, cards, community, finished, stake>>
  PROVE  TypeOK' /\ Broken'
<1>1. /\ acting' \in [Actors -> Places]
      /\ \A b \in Actors : b # a => acting'[b] = acting[b]
  BY Moved
<1>2. \A s \in Seats : acting[s] = "folded" => acting'[s] = "folded"
  BY <1>1, ActorsFacts
<1>3. TypeOK'
  BY <1>1 DEF TypeOK
<1>4. Coming' = Coming /\ Up' = Up /\ Live(pm)' = Live(pm) /\ IsRoundOver(pm)' = IsRoundOver(pm)
  BY DEF Coming, Up
<1>5. Broken'
  BY <1>2, <1>4 DEF Broken
<1>6. QED
  BY <1>3, <1>5

\* A step of the exception that schedules a state: the first one leaves a fold that
\* will find it pending, and the second one is a panic.
LEMMA BrokenSchedules ==
  ASSUME TypeOK, Broken, Calm, Up, NEW a \in Actors, NEW place \in {"acted", "idle"},
         Moves(a, place), NEW next, dealer' = Schedule(dealer, next, a),
         dealer.pending = None =>
           next \in {"DealFlop", "DealTurn", "DealRiver", "RevealWinner"},
         UNCHANGED <<variant, pm, cards, community, finished, stake>>
  PROVE  TypeOK' /\ Broken'
<1>1. /\ acting' \in [Actors -> Places]
      /\ \A b \in Actors : b # a => acting'[b] = acting[b]
  BY Moved DEF Places
<1>2. Live(pm)' = {} /\ IsRoundOver(pm') /\ ~finished'
  BY DEF Broken
<1>3. CASE dealer.pending = None
  <2>1. /\ dealer'.state = "Waiting" /\ dealer'.pending = next
        /\ dealer'.panicked = dealer.panicked /\ dealer'.behind \subseteq Actors
    BY <1>3, Scheduled DEF Calm, Settled, Busy
  <2>2. dealer'.pending # None /\ Coming' # "End"
    BY <1>3, <2>1, NoneIsNoStage DEF Coming
  <2>3. PICK s \in Seats : acting'[s] = "folded"
    <3>1. PICK u \in Seats, t \in Seats : u # t /\ acting[u] = "folded" /\ acting[t] = "folded"
      BY <1>3 DEF Broken
    <3>2. u # a \/ t # a
      BY <3>1
    <3>3. QED
      BY <1>1, <3>1, <3>2, ActorsFacts
  <2>4. TypeOK'
    BY <1>1, <2>1, <2>2 DEF TypeOK
  <2>5. Broken'
    BY <1>2, <2>1, <2>2, <2>3 DEF Broken
  <2>6. QED
    BY <2>4, <2>5
<1>4. CASE dealer.pending # None
  <2>1. /\ dealer'.state = dealer.state /\ dealer'.pending = dealer.pending
        /\ dealer'.panicked = dealer.panicked \cup {a} /\ dealer'.behind = dealer.behind
    BY <1>4, Collided DEF Calm, Settled
  <2>2. Coming' = Coming /\ ~Up'
    BY <2>1 DEF Coming, Up
  <2>3. TypeOK'
    BY <1>1, <2>1 DEF TypeOK
  <2>4. Broken'
    BY <1>2, <2>1, <2>2 DEF Broken
  <2>5. QED
    BY <2>3, <2>4
<1>5. QED
  BY <1>3, <1>4

\* The exception ends in the panic: nobody acts, and no pending state is entered.
LEMMA BrokenStays ==
  TypeOK /\ Broken /\ Calm /\ [Next]_vars => TypeOK' /\ Broken'
<1> SUFFICES ASSUME TypeOK, Broken, Calm, [Next]_vars PROVE TypeOK' /\ Broken'
  OBVIOUS
<1>1. CASE Tick
  <2>1. Up /\ acting[RunLoop] = "idle"
    BY <1>1 DEF Tick
  <2>2. \E s \in Seats : acting[s] = "folded"
    BY <2>1 DEF Broken
  <2>3. Busy # {}
    BY <2>2, ActorsFacts DEF Busy
  <2>4. TickRoundOver
    BY <1>1, <2>3 DEF Tick, TickStart, TickPending, TickDealCommunity, TickRevealWinner,
                      TickEnd, Broken, BettingStages
  <2>5. QED
    BY <2>1, <2>4, BrokenMoves, ActorsFacts DEF TickRoundOver, Places
<1>2. ASSUME NEW s \in Seats, Action(s) PROVE FALSE
  <2>1. InTurn(pm, s)
    BY <1>2, ActionMoves
  <2>2. QED
    BY <2>1 DEF InTurn, Broken
<1>3. ASSUME NEW a \in Actors, Continues(a) PROVE TypeOK' /\ Broken'
  <2>1. Up
    BY <1>3 DEF Continues
  <2>2. CASE FoldIsHandled(a)
    <3>1. Cardinality(Live(pm)) < 2
      <4>1. Live(pm) = {}
        BY DEF Broken
      <4>2. QED
        BY <4>1, FS_EmptySet
    <3>2. /\ Moves(a, "acted") /\ dealer' = Schedule(dealer, "RevealWinner", a)
          /\ UNCHANGED <<variant, pm, cards, community, finished, stake>>
      BY <2>2, <3>1 DEF FoldIsHandled
    <3>3. QED
      BY <2>1, <3>2, BrokenSchedules
  <2>3. CASE RoundIsChecked(a)
    <3>1. acting[a] # "folded" /\ \E place \in Places : Moves(a, place)
      BY <2>3 DEF RoundIsChecked, Places
    <3>2. QED
      BY <2>3, <3>1, BrokenMoves DEF RoundIsChecked
  <2>4. CASE NextIsScheduled(a)
    <3>1. dealer.pending = None =>
            NextStage(dealer.state) \in {"DealFlop", "DealTurn", "DealRiver", "RevealWinner"}
      BY NextStages DEF Broken, TypeOK, BettingStages
    <3>2. QED
      BY <2>1, <2>4, <3>1, BrokenSchedules DEF NextIsScheduled
  <2>5. QED
    BY <1>3, <2>2, <2>3, <2>4 DEF Continues
<1>4. CASE HandIsOver \/ UNCHANGED vars
  <2>1. UNCHANGED vars
    BY <1>4 DEF HandIsOver
  <2>2. Coming' = Coming /\ Up' = Up
    BY <2>1 DEF vars, Coming, Up
  <2>3. TypeOK'
    BY <2>1 DEF vars, TypeOK
  <2>4. Broken'
    BY <2>1, <2>2 DEF vars, Broken
  <2>5. QED
    BY <2>3, <2>4
<1>5. QED
  BY <1>1, <1>2, <1>3, <1>4 DEF Next

\* No other step breaks the invariant.
LEMMA NextHInv ==
  HInv /\ Calm /\ [Next]_vars => HInv' \/ (TypeOK' /\ Broken')
<1> SUFFICES ASSUME HInv, Calm, [Next]_vars PROVE HInv' \/ (TypeOK' /\ Broken')
  OBVIOUS
<1>1. CASE TickStart
  BY <1>1, TickStartHInv
<1>2. CASE TickPending
  <2>1. dealer.pending \in
          {"PreFlop", "DealFlop", "DealTurn", "DealRiver", "RevealWinner", "End"}
    BY <1>2 DEF TickPending, HInv, StagesAreReady
  <2>2. QED
    BY <1>2, <2>1, PreFlopHInv, LaterStageHInv, EndHInv
<1>3. CASE TickDealCommunity
  BY <1>3, TickDealCommunityHInv
<1>4. CASE acting[RunLoop] = "idle" /\ TickRoundOver
  BY <1>4, TickRoundOverHInv
<1>5. CASE TickRevealWinner
  BY <1>5, TickRevealWinnerHInv
<1>6. CASE TickEnd
  <2>1. /\ dealer.state = "End" /\ finished' = TRUE
        /\ UNCHANGED <<variant, pm, dealer, acting, cards, community, stake>>
    BY <1>6 DEF TickEnd
  <2>2. Coming' = Coming
    BY <2>1 DEF Coming
  <2>3. TypeOK'
    BY <2>1 DEF HInv, TypeOK
  <2>4. HandIsPlayed' /\ CommunityFitsTheStage' /\ BlindsCanBePosted' /\ ActorsFit'
    BY <2>1, <2>2 DEF HInv, HandIsPlayed, CommunityFitsTheStage, BlindsCanBePosted, ActorsFit
  <2>5. StagesAreReady'
    BY <2>1, <2>2 DEF HInv, StagesAreReady, FoldsAreSafe, BettingStages
  <2>6. QED
    BY <2>3, <2>4, <2>5 DEF HInv
<1>7. ASSUME NEW s \in Seats, Action(s) PROVE HInv' \/ (TypeOK' /\ Broken')
  <2>1. ASSUME NEW amount \in pm.actionAmount + 1 .. AllInAmount(pm, s),
               ActionBetOrRaise(s, amount)
        PROVE  HInv'
    <3>1. amount \in Int
      OBVIOUS
    <3>2. QED
      BY <2>1, <3>1, ActionBetOrRaiseHInv
  <2>2. QED
    BY <1>7, <2>1, ActionDiscardHInv, ActionCheckHInv, ActionCallHInv, ActionFoldHInv,
       LastFoldBreaks DEF Action
<1>8. ASSUME NEW a \in Actors, Continues(a) PROVE HInv'
  BY <1>8, FoldIsHandledHInv, RoundIsCheckedHInv, NextIsScheduledHInv DEF Continues
<1>9. CASE HandIsOver \/ UNCHANGED vars
  <2>1. UNCHANGED vars
    BY <1>9 DEF HandIsOver
  <2>2. Coming' = Coming
    BY <2>1 DEF vars, Coming
  <2>3. TypeOK' /\ HandIsPlayed'
    BY <2>1, <2>2 DEF vars, HInv, TypeOK, HandIsPlayed
  <2>4. CommunityFitsTheStage' /\ BlindsCanBePosted' /\ ActorsFit'
    BY <2>1, <2>2 DEF vars, HInv, CommunityFitsTheStage, BlindsCanBePosted, ActorsFit
  <2>5. StagesAreReady'
    BY <2>1, <2>2 DEF vars, HInv, StagesAreReady, FoldsAreSafe, EarlyDue
  <2>6. QED
    BY <2>3, <2>4, <2>5 DEF HInv
<1>10. QED
  BY <1>1, <1>2, <1>3, <1>4, <1>5, <1>6, <1>7, <1>8, <1>9 DEF Next, Tick

\* In every reachable state of a hand the invariant holds, or two folds are on their
\* way to a panic.
HandHolds == TypeOK /\ (HInv \/ Broken)

THEOREM HandInvariant == Spec => []HandHolds
<1>1. Init => HandHolds
  BY InitHInv DEF HandHolds, HInv
<1>2. HandHolds /\ Calm /\ [Next]_vars => HandHolds'
  BY NextHInv, BrokenStays DEF HandHolds, HInv
<1>3. QED
  BY <1>1, <1>2, AlwaysCalm, PTL DEF Spec

\* The pot manager, the cards and the table stay in their ranges, and the dealer
\* waits exactly while a transition is pending.
THEOREM TypeCorrect == Spec => []TypeOK
<1>1. HandHolds => TypeOK
  BY DEF HandHolds
<1>2. QED
  BY <1>1, HandInvariant, PTL

\* Hands are only compared before the river when at most one player could still
\* have bet, whatever the stakes, whoever folds or is all-in, and wherever the
\* goroutines are when others act.
THEOREM Showdown == Spec => []ShowdownAfterTheRiver
<1>1. HandHolds => ShowdownAfterTheRiver
  <2> SUFFICES ASSUME HandHolds, dealer.state \in {"RevealWinner", "End"}, community < 5
               PROVE  Cardinality(Live(pm)) < 2
    BY DEF ShowdownAfterTheRiver
  <2>1. Coming = dealer.state /\ community # 5
    BY DEF HandHolds, TypeOK, Coming
  <2>2. HInv
    BY DEF HandHolds, Broken, BettingStages
  <2>3. QED
    BY <2>1, <2>2 DEF HInv, CommunityFitsTheStage
<1>2. QED
  BY <1>1, HandInvariant, PTL

-----------------------------------------------------------------------------
(* What becomes of the chips of a hand.                                    *)

\* When the winners are paid all the chips are with the players, but for bets that
\* were never collected and the cents that make no chip.
ChipsAreAccounted ==
  Coming = "End" =>
    SumSeats(pm.balance) + pm.amountInPlay + OddCents(pm.pots) = SumSeats(stake)

\* Nothing that goes on ends the game by itself, or touches a chip.
LEMMA ContinuingLeavesTheEndAlone ==
  ASSUME HInv, Calm, NEW a \in Actors, Continues(a)
  PROVE  pm' = pm /\ stake' = stake /\ (Coming' = Coming \/ Coming' # "End")
<1>1. acting[a] # "idle" /\ pm' = pm /\ stake' = stake
  BY DEF Continues, FoldIsHandled, RoundIsChecked, NextIsScheduled
<1>2. /\ dealer.pending = None =>
            /\ dealer.state \in {"DiscardRound", "PreFlop", "Flop", "Turn", "Final"}
            /\ Coming = dealer.state
      /\ Sound(dealer)
  BY <1>1, BusyFacts
<1>3. ASSUME NEW next, dealer' = Schedule(dealer, next, a), dealer.pending # None
      PROVE  Coming' = Coming
  BY <1>2, <1>3, Collided DEF Coming
<1>4. ASSUME NEW next, dealer' = Schedule(dealer, next, a), dealer.pending = None,
             next \in {"PreFlop", "DealFlop", "DealTurn", "DealRiver", "RevealWinner"}
      PROVE  Coming' # "End"
  BY <1>2, <1>4, Scheduled, NoneIsNoStage DEF Coming
<1>5. dealer.pending = None =>
        NextStage(dealer.state) \in {"PreFlop", "DealFlop", "DealTurn", "DealRiver", "RevealWinner"}
  BY <1>2, NextStages
<1>6. \/ dealer' = dealer
      \/ dealer' = Schedule(dealer, "RevealWinner", a)
      \/ dealer' = Schedule(dealer, NextStage(dealer.state), a)
  BY DEF Continues, FoldIsHandled, RoundIsChecked, NextIsScheduled
<1>7. CASE dealer' = dealer
  BY <1>1, <1>7 DEF Coming
<1>8. CASE dealer' # dealer
  BY <1>1, <1>3, <1>4, <1>5, <1>6, <1>8
<1>9. QED
  BY <1>7, <1>8

\* Nor does an action of a player.
LEMMA ActingLeavesTheEndAlone ==
  ASSUME Calm, NEW s \in Seats, Action(s)
  PROVE  Coming' # "End"
<1>1. dealer' = dealer /\ InDecisionRound
  BY ActionMoves
<1>2. dealer.state \in BettingStages \cup {"DiscardRound"} /\ dealer.pending = None
  BY <1>1 DEF InDecisionRound, InBettingRound, BettingStages, Calm, Settled
<1>3. QED
  BY <1>1, <1>2 DEF Coming, BettingStages

\* The winners are paid all there is in the pots, to the chip.
LEMMA WinnersGetThePots ==
  ASSUME HInv, Calm, TickRevealWinner
  PROVE  SumSeats(pm'.balance) + pm'.amountInPlay + OddCents(pm'.pots) = SumSeats(stake)
<1> DEFINE over == EndGame(pm)
<1>1. /\ Playing(pm, Seats)
      /\ Playing(over, Seats) /\ Chips(over) = SumSeats(stake)
      /\ \E ranks \in [Seats -> 1 .. N] :
           pm' = Paid(over, Payouts(over.pots, SortedTiers(Alive(over), ranks)))
  BY RevealFacts
<1> HIDE DEF over
<1>2. over \in PotState /\ Contested(over)
  BY <1>1 DEF Playing
<1>3. PICK ranks \in [Seats -> 1 .. N] :
        pm' = Paid(over, Payouts(over.pots, SortedTiers(Alive(over), ranks)))
  BY <1>1
<1>4. SumSeats(pm'.balance) + OddCents(over.pots) = SumSeats(over.balance) + PotTotal(over.pots)
  BY <1>2, <1>3, PotsArePaid
<1>5. pm'.amountInPlay = over.amountInPlay /\ pm'.pots = over.pots /\ pm' \in PotState
  <2>1. Alive(over) \in SUBSET Seats
    BY DEF Alive
  <2>2. QED
    BY <1>2, <1>3, <2>1, PayingFacts
<1>6. SumSeats(over.balance) + (over.amountInPlay + PotTotal(over.pots)) = SumSeats(stake)
  BY <1>1 DEF Chips, TotalOnTable
<1>7. ASSUME NEW q \in PotState
      PROVE  SumSeats(q.balance) \in Int /\ q.amountInPlay \in Int /\ PotTotal(q.pots) \in Int
  <2>1. q.balance \in [Seats -> Nat] /\ q.pots \in Seq(Pot) /\ q.amountInPlay \in Nat
    BY DEF PotState
  <2>2. PotTotal(q.pots) \in Nat
    BY <2>1, PotTotalNat
  <2>3. SumSeats(q.balance) \in Int
    <3>1. \A i \in Seats : q.balance[i] \in Nat
      BY <2>1
    <3>2. \A i \in 0 .. N - 1 : q.balance[i] \in Int
      BY <3>1 DEF Seats
    <3>3. N \in Nat
      BY Constants
    <3>4. QED
      BY <3>2, <3>3, SumInt DEF SumSeats
  <2>4. QED
    BY <2>1, <2>2, <2>3
<1>8. OddCents(over.pots) \in Int
  <2>1. over.pots \in Seq(Pot)
    BY <1>2 DEF PotState
  <2>2. QED
    BY <2>1, ChipsOfPots
<1>9. QED
  BY <1>2, <1>4, <1>5, <1>6, <1>7, <1>8

\* No step loses a chip, but the bets of a round that was cut short.
LEMMA NextKeepsAccount ==
  ASSUME HInv, Calm, ChipsAreAccounted, [Next]_vars
  PROVE  ChipsAreAccounted'
<1>1. CASE TickStart
  <2>1. CASE variant = "Pineapple"
    BY <1>1, <2>1 DEF TickStart, Enter, Coming, Calm, Settled, Sound, ChipsAreAccounted
  <2>2. CASE variant # "Pineapple"
    <3>1. dealer'.pending = "PreFlop" /\ "PreFlop" # None
      BY <1>1, <2>2, Scheduled, NoneIsNoStage DEF TickStart, Calm, Settled
    <3>2. QED
      BY <3>1 DEF Coming, ChipsAreAccounted
  <2>3. QED
    BY <2>1, <2>2
<1>2. CASE TickPending
  <2>1. /\ Coming = dealer.pending /\ dealer'.state = dealer.pending
        /\ dealer'.pending = None /\ Coming' = dealer.pending /\ stake' = stake
    BY <1>2, Entered DEF TickPending, Coming, Calm, Settled
  <2>2. CASE dealer.pending = "End"
    <3>1. /\ pm \in PotState /\ ~pm.needsPotCalculation
          /\ IsRoundOver(pm) => pm.amountInPlay = 0
      BY <2>1, <2>2 DEF HInv, TypeOK, StagesAreReady
    <3>2. pm' = IF IsRoundOver(pm) THEN NextRound(pm) ELSE pm
      BY <1>2, <2>2 DEF TickPending, RoundSetup
    <3>3. /\ pm'.balance = pm.balance /\ pm'.pots = pm.pots
          /\ pm'.amountInPlay = IF IsRoundOver(pm) THEN 0 ELSE pm.amountInPlay
      BY <3>1, <3>2, SetupEnds
    <3>4. pm'.amountInPlay = pm.amountInPlay
      BY <3>1, <3>3
    <3>5. QED
      BY <2>1, <2>2, <3>3, <3>4 DEF ChipsAreAccounted
  <2>3. CASE dealer.pending # "End"
    BY <2>1, <2>3 DEF ChipsAreAccounted
  <2>4. QED
    BY <2>2, <2>3
<1>3. CASE TickDealCommunity
  <2>1. /\ dealer.pending = None /\ Sound(dealer)
        /\ dealer.state \in {"DealFlop", "DealTurn", "DealRiver"}
        /\ dealer' = [dealer EXCEPT !.state = NextStage(dealer.state)]
    BY <1>3 DEF TickDealCommunity, Enter, Calm, Settled
  <2>2. Coming' \in {"Flop", "Turn", "Final"}
    BY <2>1, Entered, NextStages DEF Coming
  <2>3. QED
    BY <2>2 DEF ChipsAreAccounted
<1>4. CASE TickRevealWinner
  <2>1. stake' = stake
    BY <1>4 DEF TickRevealWinner
  <2>2. QED
    BY <1>4, <2>1, WinnersGetThePots DEF ChipsAreAccounted
<1>5. CASE TickRoundOver \/ TickEnd \/ HandIsOver \/ UNCHANGED vars
  <2>1. pm' = pm /\ dealer' = dealer /\ stake' = stake
    BY <1>5 DEF TickRoundOver, TickEnd, HandIsOver, vars
  <2>2. QED
    BY <2>1 DEF ChipsAreAccounted, Coming
<1>6. ASSUME NEW s \in Seats, Action(s) PROVE ChipsAreAccounted'
  BY <1>6, ActingLeavesTheEndAlone DEF ChipsAreAccounted
<1>7. ASSUME NEW a \in Actors, Continues(a) PROVE ChipsAreAccounted'
  BY <1>7, ContinuingLeavesTheEndAlone DEF ChipsAreAccounted
<1>8. QED
  BY <1>1, <1>2, <1>3, <1>4, <1>5, <1>6, <1>7 DEF Next, Tick

\* Whatever the stakes, the antes and the blinds, nothing is lost between the players
\* and the pots, through every street, side pot and early end, except the bets of a
\* round that was cut short, which PayWinners never sees, and what each pot holds
\* beyond its last whole chip.
THEOREM OnlyBetsAreLost == Spec => []OnlyUncollectedBetsAreLost
<1>1. Init => ChipsAreAccounted
  BY DEF Init, Coming, ChipsAreAccounted
<1>2. Broken' => ChipsAreAccounted'
  BY DEF Broken, ChipsAreAccounted
<1>3. HandHolds /\ HandHolds' /\ Calm /\ ChipsAreAccounted /\ [Next]_vars => ChipsAreAccounted'
  <2>1. HInv /\ Calm /\ ChipsAreAccounted /\ [Next]_vars => ChipsAreAccounted'
    BY NextKeepsAccount
  <2>2. TypeOK /\ Broken /\ Calm /\ [Next]_vars => Broken'
    BY BrokenStays
  <2>3. QED
    BY <1>2, <2>1, <2>2 DEF HandHolds
<1>4. HandHolds /\ ChipsAreAccounted => OnlyUncollectedBetsAreLost
  <2> SUFFICES ASSUME HandHolds, ChipsAreAccounted, finished
               PROVE  SumSeats(pm.balance) + pm.amountInPlay + OddCents(pm.pots) = SumSeats(stake)
    BY DEF OnlyUncollectedBetsAreLost
  <2>1. HInv
    BY DEF HandHolds, Broken
  <2>2. dealer.state = "End" /\ dealer.pending = None
    BY <2>1 DEF HInv, StagesAreReady, TypeOK
  <2>3. QED
    BY <2>2 DEF ChipsAreAccounted, Coming
<1>5. QED
  BY <1>1, <1>3, <1>4, HandInvariant, AlwaysCalm, PTL DEF Spec

-----------------------------------------------------------------------------
(***************************************************************************)
(* A hand of Little L.                                                     *)
(***************************************************************************)

\* Nobody posts blinds: who has not had his turn since the last raise is behind it.
UnmatchedAhead(q) ==
  q.actionAmount > 0 =>
    \A i \in q.actionAtIndex .. N - 1 : q.inPlay[SeatAt(q, i)] < q.actionAmount

\* The hand goes on, unless everybody left is all-in, those who were all-in on the
\* ante included.
InHand(q) ==
  /\ ~q.isGameOver
  /\ Frozen(q) \/ (Playing(q, Seats) /\ UnmatchedAhead(q))

\* No bet is left to collect, or the round is over and it will be.
BetsAreIn(q) == q.actionAmount = 0 \/ IsRoundOver(q)

\* The turn passes, past nobody who has matched the last raise.
LEMMA AheadStaysUnmatched ==
  ASSUME NEW r \in PotState, r.actionAtIndex \in 0 .. N - 1,
         r.actionAmount > 0 =>
           \A i \in r.actionAtIndex + 1 .. N - 1 : r.inPlay[SeatAt(r, i)] < r.actionAmount
  PROVE  UnmatchedAhead(CompleteTurn(r))
<1> DEFINE p == CompleteTurn(r)
<1>1. /\ p.inPlay = r.inPlay /\ p.actionStartIndex = r.actionStartIndex
      /\ p.actionAmount = r.actionAmount /\ p.actionAtIndex \in r.actionAtIndex + 1 .. N
  BY Constants, CompleteTurnFields
<1> HIDE DEF p
<1>2. \A i : SeatAt(p, i) = SeatAt(r, i)
  BY <1>1 DEF SeatAt
<1>3. \A i \in p.actionAtIndex .. N - 1 : i \in r.actionAtIndex + 1 .. N - 1
  BY <1>1, Constants
<1>4. QED
  BY <1>1, <1>2, <1>3 DEF UnmatchedAhead, p

\* Whose turn it is in a betting round has not matched the bet, and is not all-in.
LEMMA BettorFacts ==
  ASSUME NEW q, InHand(q), NEW s, MayBet(q, s)
  PROVE  /\ q \in PotState /\ Playing(q, Seats) /\ UnmatchedAhead(q)
         /\ InTurn(q, s) /\ ~q.inDecisionRound
         /\ s \in Seats /\ SeatAt(q, q.actionAtIndex) = s /\ q.actionAtIndex \in 0 .. N - 1
         /\ CanAct(q, s) /\ ~q.isGameOver
         /\ q.actionAmount > 0 => q.inPlay[s] < q.actionAmount
<1>1. InTurn(q, s) /\ ~q.inDecisionRound /\ ~IsRoundOver(q)
  BY DEF MayBet, InTurn
<1>2. Playing(q, Seats) /\ UnmatchedAhead(q) /\ ~q.isGameOver
  BY <1>1 DEF InHand, Frozen
<1>3. /\ q \in PotState /\ s \in Seats /\ SeatAt(q, q.actionAtIndex) = s
      /\ q.actionAtIndex \in 0 .. N - 1 /\ MayAct(q, s)
  BY <1>1, <1>2, TurnFacts
<1>4. q.actionAtIndex \in q.actionAtIndex .. N - 1
  BY <1>3
<1>5. q.actionAmount > 0 => q.inPlay[s] < q.actionAmount
  BY <1>2, <1>3, <1>4 DEF UnmatchedAhead
<1>6. QED
  BY <1>1, <1>2, <1>3, <1>5 DEF MayAct

\* What the turns leave alone.
SameHand(p, q) ==
  /\ p.isGameOver = q.isGameOver /\ p.inDecisionRound = q.inDecisionRound
  /\ Chips(p) = Chips(q)

\* ParticipantChecks goes on with the hand.
LEMMA CheckGoesOn ==
  ASSUME NEW q, InHand(q), NEW s, MayCheck(q, s)
  PROVE  InHand(Check(q)) /\ SameHand(Check(q), q)
<1>1. MayBet(q, s) /\ q.inPlay[s] = q.actionAmount
  BY DEF MayCheck
<1>2. /\ q \in PotState /\ Playing(q, Seats) /\ UnmatchedAhead(q) /\ InTurn(q, s)
      /\ s \in Seats /\ q.actionAtIndex \in 0 .. N - 1 /\ ~q.isGameOver
  BY <1>1, BettorFacts
<1>3. Playing(CompleteTurn(q), Seats \cup {s}) /\ Chips(CompleteTurn(q)) = Chips(q)
  BY <1>1, <1>2, PassKeeps
<1>4. UnmatchedAhead(CompleteTurn(q))
  BY <1>2, AheadStaysUnmatched DEF UnmatchedAhead
<1>5. /\ CompleteTurn(q).isGameOver = q.isGameOver
      /\ CompleteTurn(q).inDecisionRound = q.inDecisionRound
  BY <1>2, CompleteTurnFields
<1>6. Seats \cup {s} = Seats
  BY <1>2
<1>7. QED
  BY <1>2, <1>3, <1>4, <1>5, <1>6 DEF Check, InHand, SameHand

\* What a payment into the pot leaves alone: the others' bets and the turns.
LEMMA AdjustLeaves ==
  ASSUME NEW q \in PotState, NEW s \in Seats, NEW to \in Nat, q.inPlay[s] <= to,
         NEW r, r = Adjust(q, s, to)
  PROVE  /\ r \in PotState
         /\ \A t \in Seats \ {s} : r.inPlay[t] = q.inPlay[t]
         /\ r.actionStartIndex = q.actionStartIndex /\ r.actionAtIndex = q.actionAtIndex
         /\ r.actionAmount = q.actionAmount
         /\ r.isGameOver = q.isGameOver /\ r.inDecisionRound = q.inDecisionRound
BY AdjustKeeps, AdjustMoves

\* ParticipantCalls goes on with the hand.
LEMMA CallGoesOn ==
  ASSUME NEW q, InHand(q), NEW s, MayCall(q, s)
  PROVE  InHand(Call(q, s)) /\ SameHand(Call(q, s), q)
<1> DEFINE r == Adjust(q, s, q.actionAmount)
<1>1. MayBet(q, s) /\ q.actionAmount > q.inPlay[s]
  BY DEF MayCall
<1>2. /\ q \in PotState /\ Playing(q, Seats) /\ UnmatchedAhead(q) /\ InTurn(q, s)
      /\ s \in Seats /\ SeatAt(q, q.actionAtIndex) = s
      /\ q.actionAtIndex \in 0 .. N - 1 /\ ~q.isGameOver
  BY <1>1, BettorFacts
<1>3. Playing(Call(q, s), Seats \cup {s}) /\ Chips(Call(q, s)) = Chips(q)
  BY <1>2, CallKeeps
<1>4. q.actionAmount \in Nat /\ q.inPlay[s] \in Int
  BY <1>2 DEF PotState
<1>5. /\ r \in PotState /\ \A t \in Seats \ {s} : r.inPlay[t] = q.inPlay[t]
      /\ r.actionStartIndex = q.actionStartIndex /\ r.actionAtIndex = q.actionAtIndex
      /\ r.actionAmount = q.actionAmount
      /\ r.isGameOver = q.isGameOver /\ r.inDecisionRound = q.inDecisionRound
  BY <1>1, <1>2, <1>4, AdjustLeaves
<1>6. Call(q, s) = CompleteTurn(r)
  BY DEF Call
<1> HIDE DEF r
<1>7. ASSUME NEW i \in r.actionAtIndex + 1 .. N - 1, r.actionAmount > 0
      PROVE  r.inPlay[SeatAt(r, i)] < r.actionAmount
  <2>1. i \in 0 .. N - 1 /\ i \in q.actionAtIndex .. N - 1 /\ i # q.actionAtIndex
    BY <1>2, <1>5
  <2>2. SeatAt(r, i) = SeatAt(q, i) /\ SeatAt(q, i) \in Seats
    BY <1>2, <1>5, <2>1, SeatAtIsSeat DEF SeatAt
  <2>3. SeatAt(q, i) # s
    BY <1>2, <2>1, SeatAtInjective
  <2>4. q.inPlay[SeatAt(q, i)] < q.actionAmount
    BY <1>2, <1>5, <1>7, <2>1 DEF UnmatchedAhead
  <2>5. QED
    BY <1>5, <2>2, <2>3, <2>4
<1>8. UnmatchedAhead(CompleteTurn(r))
  <2>1. r.actionAtIndex \in 0 .. N - 1
    BY <1>2, <1>5
  <2>2. QED
    BY <1>5, <1>7, <2>1, AheadStaysUnmatched
<1>9. /\ CompleteTurn(r).isGameOver = r.isGameOver
      /\ CompleteTurn(r).inDecisionRound = r.inDecisionRound
  BY <1>5, CompleteTurnFields
<1>10. Seats \cup {s} = Seats
  BY <1>2
<1>11. QED
  BY <1>2, <1>3, <1>5, <1>6, <1>8, <1>9, <1>10 DEF InHand, SameHand

\* ParticipantBetsOrRaises goes on with the hand.
LEMMA RaiseGoesOn ==
  ASSUME NEW q, InHand(q), NEW s, NEW bet \in Int, MayRaise(q, s, bet)
  PROVE  InHand(BetOrRaise(q, s, bet)) /\ SameHand(BetOrRaise(q, s, bet), q)
<1> DEFINE raised == [q EXCEPT !.actionStartIndex = s,
                               !.actionAtIndex    = 0,
                               !.actionDiffAmount = bet - q.actionAmount,
                               !.actionAmount     = bet]
           r      == Adjust(raised, s, bet)
<1>1. MayBet(q, s) /\ bet > q.actionAmount /\ bet > q.inPlay[s]
  BY DEF MayRaise
<1>2. /\ q \in PotState /\ Playing(q, Seats) /\ s \in Seats /\ ~q.isGameOver
      /\ N \in Nat /\ 0 \in 0 .. N - 1 /\ 0 \in 0 .. N
  BY <1>1, BettorFacts, Constants
<1>3. Playing(BetOrRaise(q, s, bet), {s}) /\ Chips(BetOrRaise(q, s, bet)) = Chips(q)
  BY <1>2, RaiseKeeps
<1>4. q.actionAmount \in Nat /\ q.inPlay \in [Seats -> Int] /\ BetsInRange(q)
  BY <1>2 DEF PotState, Playing, BetsAddUp
<1>5. BetOrRaise(q, s, bet) = CompleteTurn(r)
  BY Zenon DEF BetOrRaise
<1>6. /\ raised \in PotState /\ raised.inPlay = q.inPlay
      /\ raised.actionAmount = bet /\ raised.actionAtIndex = 0 /\ raised.actionStartIndex = s
      /\ raised.isGameOver = q.isGameOver /\ raised.inDecisionRound = q.inDecisionRound
  <2>1. bet \in Nat /\ bet - q.actionAmount \in Nat
    BY <1>1, <1>4
  <2>2. raised \in PotState
    BY <1>2, <2>1 DEF PotState
  <2>3. QED
    BY <1>2, <2>2 DEF PotState
<1> HIDE DEF raised
<1>7. /\ r \in PotState /\ \A t \in Seats \ {s} : r.inPlay[t] = q.inPlay[t]
      /\ r.actionStartIndex = s /\ r.actionAtIndex = 0 /\ r.actionAmount = bet
      /\ r.isGameOver = q.isGameOver /\ r.inDecisionRound = q.inDecisionRound
  <2>1. bet \in Nat /\ raised.inPlay[s] <= bet
    BY <1>1, <1>2, <1>4, <1>6
  <2>2. QED
    BY <1>2, <1>6, <2>1, AdjustLeaves
<1> HIDE DEF r
<1>8. ASSUME NEW i \in r.actionAtIndex + 1 .. N - 1
      PROVE  r.inPlay[SeatAt(r, i)] < r.actionAmount
  <2>1. i \in 0 .. N - 1 /\ i # 0
    BY <1>2, <1>7
  <2>2. SeatAt(r, i) \in Seats /\ SeatAt(r, 0) = s
    BY <1>7, <2>1, SeatAtIsSeat, SeatAtStart
  <2>3. SeatAt(r, i) # s
    BY <1>2, <1>7, <2>1, <2>2, SeatAtInjective
  <2>4. q.inPlay[SeatAt(r, i)] <= q.actionAmount
    BY <1>4, <2>2 DEF BetsInRange
  <2>5. r.inPlay[SeatAt(r, i)] = q.inPlay[SeatAt(r, i)]
    BY <1>7, <2>2, <2>3
  <2>6. QED
    BY <1>1, <1>4, <1>7, <2>2, <2>4, <2>5
<1>9. UnmatchedAhead(CompleteTurn(r))
  <2>1. r.actionAtIndex \in 0 .. N - 1
    BY <1>2, <1>7
  <2>2. QED
    BY <1>7, <1>8, <2>1, AheadStaysUnmatched
<1>10. /\ CompleteTurn(r).isGameOver = r.isGameOver
       /\ CompleteTurn(r).inDecisionRound = r.inDecisionRound
  BY <1>7, CompleteTurnFields
<1>11. Playing(BetOrRaise(q, s, bet), Seats)
  BY <1>2, <1>3, MorePlaying
<1>12. QED
  BY <1>2, <1>3, <1>5, <1>7, <1>9, <1>10, <1>11 DEF InHand, SameHand

\* Fold takes the participant out and passes the turn.
LEMMA FoldFields ==
  ASSUME NEW q \in PotState, NEW s \in Seats, q.actionAtIndex \in 0 .. N - 1
  PROVE  LET p == Fold(q, s) IN
         /\ p \in PotState
         /\ p.balance = q.balance /\ p.inPlay = q.inPlay /\ p.pots = q.pots
         /\ p.actionAmount = q.actionAmount /\ p.amountInPlay = q.amountInPlay
         /\ p.isGameOver = q.isGameOver /\ p.inDecisionRound = q.inDecisionRound
         /\ Live(p) = Live(q) \ {s} /\ Alive(p) = Alive(q) \ {s}
         /\ UnmatchedAhead(q) => UnmatchedAhead(p)
         /\ IsRoundOver(p) \/ MayAct(p, SeatAt(p, p.actionAtIndex))
<1> DEFINE r == [q EXCEPT !.folded[s] = TRUE]
           p == Fold(q, s)
<1>1. /\ r \in PotState
      /\ r.balance = q.balance /\ r.inPlay = q.inPlay /\ r.allIn = q.allIn /\ r.pots = q.pots
      /\ r.actionStartIndex = q.actionStartIndex /\ r.actionAtIndex = q.actionAtIndex
      /\ r.actionAmount = q.actionAmount /\ r.amountInPlay = q.amountInPlay
      /\ r.isGameOver = q.isGameOver /\ r.inDecisionRound = q.inDecisionRound
      /\ \A t \in Seats : r.folded[t] = (q.folded[t] \/ t = s)
  BY DEF PotState
<1>2. p = CompleteTurn(r)
  BY Zenon DEF Fold
<1> HIDE DEF r, p
<1>3. /\ p \in PotState
      /\ p.balance = r.balance /\ p.inPlay = r.inPlay /\ p.pots = r.pots
      /\ p.allIn = r.allIn /\ p.folded = r.folded
      /\ p.actionStartIndex = r.actionStartIndex
      /\ p.actionAmount = r.actionAmount /\ p.amountInPlay = r.amountInPlay
      /\ p.isGameOver = r.isGameOver /\ p.inDecisionRound = r.inDecisionRound
      /\ \/ /\ p.actionAtIndex \in r.actionAtIndex + 1 .. N - 1
            /\ MayAct(r, SeatAt(r, p.actionAtIndex))
         \/ p.actionAtIndex = N
  BY <1>1, <1>2, CompleteTurnFields
<1>4. Live(p) = Live(q) \ {s} /\ Alive(p) = Alive(q) \ {s}
  BY <1>1, <1>3 DEF Live, Alive, CanAct
<1>5. ASSUME UnmatchedAhead(q) PROVE UnmatchedAhead(p)
  <2>1. ASSUME NEW i \in r.actionAtIndex + 1 .. N - 1, r.actionAmount > 0
        PROVE  r.inPlay[SeatAt(r, i)] < r.actionAmount
    <3>1. i \in q.actionAtIndex .. N - 1 /\ SeatAt(r, i) = SeatAt(q, i)
      BY <1>1 DEF SeatAt
    <3>2. QED
      BY <1>1, <1>5, <2>1, <3>1 DEF UnmatchedAhead
  <2>2. r.actionAtIndex \in 0 .. N - 1
    BY <1>1
  <2>3. QED
    BY <1>1, <1>2, <2>1, <2>2, AheadStaysUnmatched
<1>6. IsRoundOver(p) \/ MayAct(p, SeatAt(p, p.actionAtIndex))
  <2>1. CASE p.actionAtIndex = N
    BY <2>1, Constants DEF IsRoundOver
  <2>2. CASE MayAct(r, SeatAt(r, p.actionAtIndex))
    <3>1. SeatAt(p, p.actionAtIndex) = SeatAt(r, p.actionAtIndex)
      BY <1>3 DEF SeatAt
    <3>2. QED
      BY <1>3, <2>2, <3>1 DEF MayAct, CanAct
  <2>3. QED
    BY <1>3, <2>1, <2>2
<1>7. QED
  BY <1>1, <1>3, <1>4, <1>5, <1>6 DEF p

\* ParticipantFolds goes on with the hand.
LEMMA FoldGoesOn ==
  ASSUME NEW q, InHand(q), NEW s, MayBet(q, s)
  PROVE  InHand(Fold(q, s)) /\ SameHand(Fold(q, s), q)
<1> DEFINE p == Fold(q, s)
<1>1. /\ q \in PotState /\ Playing(q, Seats) /\ UnmatchedAhead(q) /\ InTurn(q, s)
      /\ ~q.inDecisionRound /\ s \in Seats /\ q.actionAtIndex \in 0 .. N - 1
      /\ CanAct(q, s) /\ ~q.isGameOver
      /\ q.actionAmount > 0 => q.inPlay[s] < q.actionAmount
  BY BettorFacts
<1>2. /\ p \in PotState
      /\ p.balance = q.balance /\ p.inPlay = q.inPlay /\ p.pots = q.pots
      /\ p.actionAmount = q.actionAmount /\ p.amountInPlay = q.amountInPlay
      /\ p.isGameOver = q.isGameOver /\ p.inDecisionRound = q.inDecisionRound
      /\ Live(p) = Live(q) \ {s} /\ Alive(p) = Alive(q) \ {s}
      /\ UnmatchedAhead(p)
      /\ IsRoundOver(p) \/ MayAct(p, SeatAt(p, p.actionAtIndex))
  BY <1>1, FoldFields
<1> HIDE DEF p
<1>3. SameHand(p, q)
  BY <1>2 DEF SameHand, Chips, TotalOnTable
<1>4. CASE Live(q) = {s} /\ ~(q.inPlay[s] < q.actionAmount)
  <2>1. q.actionAmount = 0
    BY <1>1, <1>4 DEF PotState
  <2>2. \A t \in Seats : q.inPlay[t] = 0
    <3>1. BetsInRange(q) /\ q.inPlay \in [Seats -> Int]
      BY <1>1 DEF Playing, BetsAddUp, PotState
    <3>2. QED
      BY <2>1, <3>1 DEF BetsInRange
  <2>3. q.amountInPlay = 0
    <3>1. BetsInRange(q) /\ q.amountInPlay = SumSeats(q.inPlay)
      BY <1>1 DEF Playing, BetsAddUp
    <3>2. QED
      BY <1>1, <2>1, <3>1, NoBets
  <2>4. Live(p) = {}
    BY <1>2, <1>4
  <2>5. IsRoundOver(p)
    <3> SUFFICES ASSUME ~IsRoundOver(p)
                 PROVE  FALSE
      OBVIOUS
    <3>1. p.actionAtIndex \in 0 .. N - 1
      BY <1>2, Constants DEF PotState, IsRoundOver
    <3>2. SeatAt(p, p.actionAtIndex) \in Seats
      BY <1>2, <3>1, SeatAtIsSeat
    <3>3. CanAct(p, SeatAt(p, p.actionAtIndex))
      BY <1>1, <1>2 DEF MayAct
    <3>4. QED
      BY <2>4, <3>2, <3>3 DEF Live
  <2>6. Frozen(p)
    BY <1>2, <2>1, <2>2, <2>3, <2>4, <2>5 DEF Frozen
  <2>7. QED
    BY <1>1, <1>2, <1>3, <2>6 DEF InHand, p
<1>5. CASE Live(q) = {s} => q.inPlay[s] < q.actionAmount
  <2>1. Playing(p, Seats)
    <3>1. Playing(p, Seats \cup {s})
      BY <1>1, <1>5, FoldKeeps DEF p
    <3>2. Seats \cup {s} = Seats
      BY <1>1
    <3>3. QED
      BY <3>1, <3>2
  <2>2. QED
    BY <1>1, <1>2, <1>3, <2>1 DEF InHand, p
<1>6. QED
  BY <1>4, <1>5

\* When one player is left, no bet is left to call or the round is over.
LEMMA LastBetsAreIn ==
  ASSUME NEW q, InHand(q), NEW seats \in SUBSET Seats, Alive(q) \subseteq seats,
         LastOneLeft(seats)
  PROVE  BetsAreIn(q)
<1> SUFFICES ASSUME ~BetsAreIn(q)
             PROVE  FALSE
  OBVIOUS
<1>1. q.actionAmount # 0 /\ ~IsRoundOver(q)
  BY DEF BetsAreIn
<1>2. Playing(q, Seats) /\ UnmatchedAhead(q) /\ q \in PotState
  BY <1>1 DEF InHand, Frozen, Playing
<1>3. q.actionAmount > 0
  BY <1>1, <1>2 DEF PotState
<1>4. PICK t \in Alive(q) : q.inPlay[t] = q.actionAmount
  BY <1>1, <1>2, <1>3 DEF Playing, BetIsHeld
<1>5. q.actionAtIndex \in q.actionAtIndex .. N - 1 /\ q.actionAtIndex \in 0 .. N - 1
  BY <1>1, <1>2, Constants DEF PotState, IsRoundOver
<1> DEFINE u == SeatAt(q, q.actionAtIndex)
<1>6. u \in Seats /\ MayAct(q, u)
  BY <1>1, <1>2, <1>5, SeatAtIsSeat DEF Playing, TurnsInOrder
<1>7. q.inPlay[u] < q.actionAmount
  BY <1>2, <1>3, <1>5 DEF UnmatchedAhead
<1>8. u \in Alive(q)
  BY <1>6 DEF Alive, MayAct, CanAct
<1> HIDE DEF u
<1>9. t # u
  BY <1>2, <1>4, <1>6, <1>7 DEF PotState, Alive
<1>10. IsFiniteSet(seats)
  <2>1. seats \subseteq 0 .. N - 1
    BY DEF Seats
  <2>2. IsFiniteSet(0 .. N - 1)
    BY Constants, FS_Interval, 0 \in Int, N - 1 \in Int
  <2>3. QED
    BY <2>1, <2>2, FS_Subset
<1>11. \E x : seats = {x}
  BY <1>10, FS_Singleton DEF LastOneLeft
<1>12. QED
  BY <1>4, <1>8, <1>9, <1>11

\* AdvanceDecision goes on with the decision round.
LEMMA DecisionGoesOn ==
  ASSUME NEW q, InHand(q), NEW s, InTurn(q, s), q.inDecisionRound
  PROVE  InHand(AdvanceDecision(q)) /\ SameHand(AdvanceDecision(q), q)
<1> DEFINE p == CompleteTurn(q)
<1>1. q \in PotState /\ ~q.isGameOver
  BY DEF InHand, Frozen, Playing
<1>2. /\ p \in PotState
      /\ p.balance = q.balance /\ p.inPlay = q.inPlay
      /\ p.allIn = q.allIn /\ p.folded = q.folded /\ p.pots = q.pots
      /\ p.actionAmount = q.actionAmount /\ p.amountInPlay = q.amountInPlay
      /\ p.isGameOver = q.isGameOver /\ p.inDecisionRound = q.inDecisionRound
  BY <1>1, CompleteTurnFields
<1> HIDE DEF p
<1>3. SameHand(p, q)
  BY <1>2 DEF SameHand, Chips, TotalOnTable
<1>4. CASE Frozen(q)
  <2>1. Live(p) = Live(q)
    BY <1>2 DEF Live, CanAct
  <2>2. Frozen(p)
    BY <1>2, <1>4, <2>1 DEF Frozen
  <2>3. QED
    BY <1>1, <1>2, <1>3, <2>2 DEF InHand, AdvanceDecision, p
<1>5. CASE Playing(q, Seats) /\ UnmatchedAhead(q)
  <2>1. q.actionAmount = 0 /\ s \in Seats
    BY <1>5, TurnFacts DEF Playing, TurnsInOrder
  <2>2. q.inPlay[s] = q.actionAmount
    <3>1. BetsInRange(q) /\ q.inPlay \in [Seats -> Int]
      BY <1>1, <1>5 DEF Playing, BetsAddUp, PotState
    <3>2. QED
      BY <2>1, <3>1 DEF BetsInRange
  <2>3. Playing(p, Seats \cup {s})
    BY <1>5, <2>2, PassKeeps DEF p
  <2>4. Seats \cup {s} = Seats
    BY <2>1
  <2>5. UnmatchedAhead(p)
    BY <1>2, <2>1 DEF UnmatchedAhead
  <2>6. QED
    BY <1>1, <1>2, <1>3, <2>3, <2>4, <2>5 DEF InHand, AdvanceDecision, p
<1>6. QED
  BY <1>4, <1>5 DEF InHand

\* With no bet there is nothing to collect.
LEMMA NothingCollected ==
  ASSUME NEW q \in PotState, q.actionAmount = 0
  PROVE  LET p == CalculatePot(q) IN
         /\ p \in PotState
         /\ p.balance = q.balance /\ p.pots = q.pots
         /\ p.allIn = q.allIn /\ p.folded = q.folded
         /\ p.isGameOver = q.isGameOver /\ p.inDecisionRound = q.inDecisionRound
<1> DEFINE freed == [q EXCEPT !.needsPotCalculation = FALSE]
<1>1. CalculatePot(q) = q \/ CalculatePot(q) = freed
  BY Zenon DEF CalculatePot
<1>2. /\ freed \in PotState
      /\ freed.balance = q.balance /\ freed.pots = q.pots
      /\ freed.allIn = q.allIn /\ freed.folded = q.folded
      /\ freed.isGameOver = q.isGameOver /\ freed.inDecisionRound = q.inDecisionRound
  BY DEF PotState
<1> HIDE DEF freed
<1>3. QED
  BY <1>1, <1>2

\* NextRound goes on with the hand, in a betting round without bets.
LEMMA NextRoundGoesOn ==
  ASSUME NEW q, InHand(q), IsRoundOver(q)
  PROVE  LET p == NextRound(q) IN
         /\ InHand(p) /\ Chips(p) = Chips(q)
         /\ ~p.inDecisionRound /\ p.actionAmount = 0
         /\ Alive(p) = Alive(q)
<1> DEFINE p == NextRound(q)
<1>1. CASE Playing(q, Seats)
  <2>1. /\ Playing(p, Seats) /\ Chips(p) = Chips(q)
        /\ p.actionAmount = 0 /\ p.isGameOver = q.isGameOver /\ ~p.inDecisionRound
        /\ p.folded = q.folded
    BY <1>1, NextRoundKeeps
  <2> HIDE DEF p
  <2>2. UnmatchedAhead(p)
    BY <2>1 DEF UnmatchedAhead
  <2>3. Alive(p) = Alive(q)
    BY <2>1 DEF Alive
  <2>4. QED
    BY <2>1, <2>2, <2>3 DEF InHand, p
<1>2. CASE Frozen(q)
  <2> DEFINE c == CalculatePot(q)
             r == [c EXCEPT !.inDecisionRound = FALSE]
  <2>1. q \in PotState /\ q.actionAmount = 0 /\ q.amountInPlay = 0 /\ Live(q) = {}
    BY <1>2 DEF Frozen
  <2>2. /\ c \in PotState
        /\ c.balance = q.balance /\ c.pots = q.pots
        /\ c.allIn = q.allIn /\ c.folded = q.folded /\ c.isGameOver = q.isGameOver
    BY <2>1, NothingCollected
  <2>3. p = Reset(r)
    BY Zenon DEF NextRound
  <2> HIDE DEF c
  <2>4. /\ r \in PotState
        /\ r.balance = q.balance /\ r.pots = q.pots
        /\ r.allIn = q.allIn /\ r.folded = q.folded
        /\ r.isGameOver = q.isGameOver /\ ~r.inDecisionRound
    BY <2>2 DEF PotState
  <2> HIDE DEF r, p
  <2>5. /\ p \in PotState
        /\ p.balance = r.balance /\ p.inPlay = [s \in Seats |-> 0]
        /\ p.allIn = r.allIn /\ p.folded = r.folded /\ p.pots = r.pots
        /\ p.actionAmount = 0 /\ p.amountInPlay = 0
        /\ p.isGameOver = r.isGameOver /\ p.inDecisionRound = r.inDecisionRound
    BY <2>3, <2>4, ResetFields
  <2>6. \A s \in Seats : ~MayAct(r, s)
    BY <2>1, <2>4 DEF MayAct, CanAct, Live
  <2>7. p.actionAtIndex = N
    BY <2>3, <2>4, <2>6, ResetOpens
  <2>8. Live(p) = {}
    BY <2>1, <2>4, <2>5 DEF Live, CanAct
  <2>9. Frozen(p)
    BY <2>5, <2>7, <2>8, Constants DEF Frozen, IsRoundOver
  <2>10. Chips(p) = Chips(q)
    BY <2>1, <2>4, <2>5 DEF Chips, TotalOnTable
  <2>11. p.folded = q.folded /\ Alive(p) = Alive(q)
    BY <2>4, <2>5 DEF Alive
  <2>12. QED
    BY <2>4, <2>5, <2>9, <2>10, <2>11 DEF InHand, p
<1>3. QED
  BY <1>1, <1>2 DEF InHand

\* endGame collects every bet: all the chips are in the balances and the pots.
LEMMA EndingCollects ==
  ASSUME NEW q, InHand(q), BetsAreIn(q)
  PROVE  LET over == CalculatePot(EndGame(q)) IN
         /\ over \in PotState /\ over.isGameOver
         /\ over.folded = q.folded
         /\ SumSeats(over.balance) + PotTotal(over.pots) = Chips(q)
<1> DEFINE e    == EndGame(q)
           over == CalculatePot(e)
<1>1. q \in PotState
  BY DEF InHand, Frozen, Playing
<1>2. /\ e \in PotState
      /\ e.balance = q.balance /\ e.pots = q.pots /\ e.inPlay = q.inPlay
      /\ e.actionAmount = q.actionAmount /\ e.amountInPlay = q.amountInPlay
      /\ e.actionAtIndex = q.actionAtIndex /\ e.isGameOver /\ e.folded = q.folded
  BY <1>1 DEF EndGame, PotState
<1> HIDE DEF e
<1>3. CASE Frozen(q)
  <2>1. e.actionAmount = 0 /\ e.amountInPlay = 0
    BY <1>2, <1>3 DEF Frozen
  <2>2. /\ over \in PotState /\ over.isGameOver /\ over.folded = q.folded
        /\ over.balance = q.balance /\ over.pots = q.pots
    BY <1>2, <2>1, NothingCollected
  <2>3. Chips(q) = SumSeats(q.balance) + PotTotal(q.pots)
    <3>1. q.amountInPlay = 0
      BY <1>2, <2>1
    <3>2. PotTotal(q.pots) \in Nat
      BY <1>1, PotTotalNat DEF PotState
    <3>3. QED
      BY <3>1, <3>2 DEF Chips, TotalOnTable
  <2>4. QED
    BY <2>2, <2>3 DEF e
<1>4. CASE Playing(q, Seats)
  <2>1. Playing(e, Seats) /\ Chips(e) = Chips(q)
    BY <1>4, EndGameKeeps DEF e
  <2>2. /\ over \in PotState /\ over.isGameOver = e.isGameOver /\ over.folded = e.folded
        /\ IsRoundOver(e) => SumSeats(over.balance) + PotTotal(over.pots) = Chips(e)
        /\ ~IsRoundOver(e) => over = e
    BY <2>1, CollectingFacts
  <2>3. SumSeats(over.balance) + PotTotal(over.pots) = Chips(q)
    <3>1. CASE IsRoundOver(e)
      BY <2>1, <2>2, <3>1
    <3>2. CASE ~IsRoundOver(e)
      <4>1. q.actionAmount = 0 /\ over = e
        BY <1>2, <2>2, <3>2 DEF BetsAreIn, IsRoundOver
      <4>2. e.amountInPlay = 0
        <5>1. BetsInRange(e) /\ e.amountInPlay = SumSeats(e.inPlay) /\ e.actionAmount = 0
          BY <1>2, <2>1, <4>1 DEF Playing, BetsAddUp
        <5>2. QED
          BY <1>2, <5>1, NoBets
      <4>3. PotTotal(e.pots) \in Nat
        BY <1>2, PotTotalNat DEF PotState
      <4>4. QED
        BY <2>1, <4>1, <4>2, <4>3 DEF Chips, TotalOnTable
    <3>3. QED
      BY <3>1, <3>2
  <2>4. QED
    BY <1>2, <2>2, <2>3 DEF e
<1>5. QED
  BY <1>3, <1>4 DEF InHand

\* A hand of Little L until it is paid: all the chips are there.
HandGoesOn ==
  /\ InHand(potManager)
  /\ Chips(potManager) = SumSeats(boughtIn)

\* And after that: the chips are back, but those nobody could win and the odd cents.
HandIsSettled ==
  /\ potManager \in PotState /\ potManager.isGameOver
  /\ SumSeats(boughtIn) - SumSeats(potManager.balance) \in 0 .. Deserted

\* The trade-in goes from the first seat to the last: nobody has folded or bet.
TradeInInTurn ==
  /\ potManager.inDecisionRound
  /\ potManager.actionStartIndex = 0 /\ potManager.amountInPlay = 0
  /\ \A s \in Seats : ~potManager.folded[s]
  /\ folding = {}
  /\ traded = 0 .. potManager.actionAtIndex - 1

\* Cards are in the deck or the discards, or somewhere else.
CardsAreCounted ==
  /\ hand \in [Seats -> 0 .. InitialDeal]
  /\ deck \in Nat /\ discards \in Nat /\ deck + discards <= 52

LLInv ==
  /\ llRound \in TradeInRound .. RevealWinner
  /\ CardsAreCounted
  /\ endGameAt \in BOOLEAN /\ done \in BOOLEAN
  /\ boughtIn \in [Seats -> LLStakes]
  /\ folding \subseteq Seats /\ panicked \in BOOLEAN
  /\ gameOver <=> llRound = RevealWinner
  /\ IF gameOver THEN HandIsSettled ELSE HandGoesOn
  /\ IF llRound = TradeInRound THEN TradeInInTurn
     ELSE traded = Seats /\ (~gameOver => ~potManager.inDecisionRound)

\* The last step of a hand pays it, to those who have not folded as far as the game
\* knows.
LEMMA HandIsPaidOut ==
  ASSUME NEW mgr, InHand(mgr), BetsAreIn(mgr), Chips(mgr) = SumSeats(boughtIn),
         NEW seats \in SUBSET Seats, Alive(mgr) \subseteq seats,
         EndGames(mgr, seats), boughtIn' = boughtIn
  PROVE  HandIsSettled' /\ gameOver' = TRUE /\ llRound' = RevealWinner
<1> DEFINE over == CalculatePot(EndGame(mgr))
<1>1. PICK ranks \in LLStrengths :
        /\ potManager' = Paid(over, Payouts(over.pots, SortedTiers(seats, ranks)))
        /\ gameOver' = TRUE
        /\ llRound' = RevealWinner
  BY Zenon DEF EndGames
<1>2. ranks \in [Seats -> 1 .. N]
  BY DEF LLStrengths
<1>3. /\ over \in PotState /\ over.isGameOver /\ over.folded = mgr.folded
      /\ SumSeats(over.balance) + PotTotal(over.pots) = SumSeats(boughtIn)
  BY EndingCollects
<1>4. Alive(over) \subseteq seats
  BY <1>3 DEF Alive
<1> HIDE DEF over
<1>5. /\ potManager' \in PotState /\ potManager'.isGameOver
      /\ potManager'.folded = over.folded /\ potManager'.pots = over.pots
  BY <1>1, <1>2, <1>3, PayingFacts
<1> DEFINE lost == [k \in DOMAIN over.pots |->
                      IF OutOfReach(over, k) THEN over.pots[k]
                      ELSE [over.pots[k] EXCEPT !.amount = @ % Chip]]
<1>6. (SumSeats(over.balance) + PotTotal(over.pots)) - SumSeats(potManager'.balance)
        \in 0 .. PotTotal(lost)
  BY <1>1, <1>2, <1>3, <1>4, PotsInReachArePaid
<1>7. Deserted' = PotTotal(lost)
  <2>1. \A k : OutOfReach(potManager', k) <=> OutOfReach(over, k)
    BY <1>5 DEF OutOfReach, Alive
  <2>2. Deserted' = PotTotal([k \in DOMAIN potManager'.pots |->
                      IF OutOfReach(potManager', k) THEN potManager'.pots[k]
                      ELSE [potManager'.pots[k] EXCEPT !.amount = @ % Chip]])
    BY Zenon DEF Deserted, OutOfReach
  <2>3. [k \in DOMAIN potManager'.pots |->
           IF OutOfReach(potManager', k) THEN potManager'.pots[k]
           ELSE [potManager'.pots[k] EXCEPT !.amount = @ % Chip]] = lost
    BY <1>5, <2>1, Zenon
  <2>4. QED
    BY <2>2, <2>3
<1> HIDE DEF lost
<1>8. SumSeats(boughtIn') = SumSeats(over.balance) + PotTotal(over.pots)
  BY <1>3, Zenon
<1>9. SumSeats(boughtIn') - SumSeats(potManager'.balance) \in 0 .. Deserted'
  BY <1>6, <1>7, <1>8, Zenon
<1>10. QED
  BY <1>1, <1>5, <1>9 DEF HandIsSettled

-----------------------------------------------------------------------------
(* The steps of Little L.                                                  *)

\* NewGame: everybody is in the trade-in, the all-in on the ante included.
LEMMA TradeInOpens ==
  ASSUME NEW st \in [Seats -> Nat]
  PROVE  LET p == StartDecisionRound(Seated(st)) IN
         /\ InHand(p) /\ Chips(p) = SumSeats(st)
         /\ p.inDecisionRound /\ p.actionStartIndex = 0 /\ p.actionAtIndex = 0
         /\ p.amountInPlay = 0 /\ \A s \in Seats : ~p.folded[s]
<1> DEFINE q == Seated(st)
           r == [q EXCEPT !.inDecisionRound = TRUE]
           p == StartDecisionRound(q)
<1>1. /\ q \in PotState /\ Chips(q) = SumSeats(st)
      /\ IF Live(q) = {} THEN Frozen(q) ELSE Playing(q, Seats)
      /\ \A s \in Seats : ~q.folded[s]
      /\ q.inPlay = [s \in Seats |-> 0] /\ q.actionAmount = 0 /\ q.amountInPlay = 0
      /\ ~q.needsPotCalculation /\ ~q.isGameOver /\ ~q.inDecisionRound
  BY SeatingAnybodyKeeps
<1> HIDE DEF q
<1>2. /\ r \in PotState
      /\ r.balance = q.balance /\ r.allIn = q.allIn /\ r.folded = q.folded
      /\ r.pots = q.pots /\ r.isGameOver = q.isGameOver /\ r.inDecisionRound
  BY <1>1 DEF PotState
<1>3. p = Reset(r)
  BY Zenon DEF StartDecisionRound
<1>5. Live(q) # {} => Playing(p, Seats)
  BY <1>1, DecisionRoundKeeps
<1> HIDE DEF r, p
<1>6. /\ p \in PotState
      /\ p.balance = r.balance /\ p.inPlay = [s \in Seats |-> 0]
      /\ p.allIn = r.allIn /\ p.folded = r.folded /\ p.pots = r.pots
      /\ p.actionAmount = 0 /\ p.amountInPlay = 0
      /\ p.isGameOver = r.isGameOver /\ p.inDecisionRound = r.inDecisionRound
  BY <1>2, <1>3, ResetFields
<1>7. {s \in Seats : MayAct(r, s)} = Seats /\ \E s, t \in Seats : s # t
  <2>1. 0 \in Seats /\ 1 \in Seats
    BY SeatsAreNat
  <2>2. QED
    BY <1>1, <1>2, <2>1 DEF MayAct
<1>8. p.actionAtIndex = 0
  BY <1>2, <1>3, <1>7, ResetOpens
<1>9. p.actionStartIndex = 0
  <2>1. p.actionStartIndex = Least(Seats)
    BY <1>2, <1>3, <1>7 DEF Reset, PotState
  <2>2. Least(Seats) = 0
    <3>1. Seats \in SUBSET Nat /\ 0 \in Seats
      BY SeatsAreNat
    <3> DEFINE least == Least(Seats)
    <3>2. least \in Seats /\ least <= 0
      BY <3>1, LeastIsLeast
    <3> HIDE DEF least
    <3>3. least \in Nat
      BY <3>1, <3>2
    <3>4. least = 0
      BY <3>2, <3>3
    <3>5. QED
      BY <3>4 DEF least
  <2>3. QED
    BY <2>1, <2>2
<1>10. InHand(p)
  <2>1. CASE Live(q) = {}
    <3>1. Live(p) = {}
      BY <1>2, <1>6, <2>1 DEF Live, CanAct
    <3>2. QED
      BY <1>1, <1>2, <1>6, <3>1 DEF InHand, Frozen
  <2>2. CASE Live(q) # {}
    BY <1>1, <1>2, <1>5, <1>6, <2>2 DEF InHand, UnmatchedAhead
  <2>3. QED
    BY <2>1, <2>2
<1>11. Chips(p) = SumSeats(st)
  BY <1>1, <1>2, <1>6 DEF Chips, TotalOnTable
<1>12. QED
  BY <1>1, <1>2, <1>6, <1>8, <1>9, <1>10, <1>11 DEF p, q

\* The assumptions on the constants, as the proofs use them.
LEMMA LLFacts ==
  /\ LLStakes \subseteq Nat
  /\ InitialDeal \in Nat /\ InitialDeal * N \in Nat /\ InitialDeal * N + 3 <= 52
  /\ TradeIns \subseteq 0 .. InitialDeal
  /\ TradeInRound = 0 /\ RevealWinner = 5
BY LittleLAssumption, Constants DEF TradeInRound, RevealWinner

\* NewGame sets the hand up.
LEMMA LLInitLLInv == LLInit => LLInv
<1> SUFFICES ASSUME LLInit
             PROVE  LLInv
  OBVIOUS
<1>1. boughtIn \in [Seats -> LLStakes] /\ boughtIn \in [Seats -> Nat]
  BY LLFacts DEF LLInit
<1>2. potManager = StartDecisionRound(Seated(boughtIn))
  BY DEF LLInit, TradeInRoundOpens
<1>3. HandGoesOn
  BY <1>1, <1>2, TradeInOpens DEF HandGoesOn
<1>4. TradeInInTurn
  <2>1. traded = 0 .. 0 - 1 /\ folding = {}
    BY DEF LLInit
  <2>2. /\ potManager.inDecisionRound /\ potManager.actionStartIndex = 0
        /\ potManager.actionAtIndex = 0 /\ potManager.amountInPlay = 0
        /\ \A s \in Seats : ~potManager.folded[s]
    BY <1>1, <1>2, TradeInOpens
  <2>3. QED
    BY <2>1, <2>2 DEF TradeInInTurn
<1>5. CardsAreCounted
  <2>1. deck = 52 - InitialDeal * N - 3 /\ discards = 0 /\ hand = [s \in Seats |-> InitialDeal]
    BY DEF LLInit
  <2> DEFINE dealt == InitialDeal * N
  <2>2. dealt \in Nat /\ dealt + 3 <= 52 /\ deck = 52 - dealt - 3 /\ InitialDeal \in Nat
    BY <2>1, LLFacts
  <2> HIDE DEF dealt
  <2>3. deck \in Nat /\ discards \in Nat /\ deck + discards <= 52
    BY <2>1, <2>2
  <2>4. hand \in [Seats -> 0 .. InitialDeal]
    BY <2>1, <2>2
  <2>5. QED
    BY <2>3, <2>4 DEF CardsAreCounted
<1>6. llRound = 0 /\ gameOver = FALSE /\ endGameAt = FALSE /\ done = FALSE
  BY LLFacts DEF LLInit
<1>7. /\ llRound \in TradeInRound .. RevealWinner
      /\ llRound = TradeInRound /\ llRound # RevealWinner
  BY <1>6, LLFacts
<1>8. ~gameOver /\ endGameAt \in BOOLEAN /\ done \in BOOLEAN
  BY <1>6, Zenon
<1>9. folding \subseteq Seats /\ panicked \in BOOLEAN
  BY Zenon DEF LLInit
<1>10. QED
  BY <1>1, <1>3, <1>4, <1>5, <1>7, <1>8, <1>9, Zenon DEF LLInv

\* Only a hand that goes on has somebody in turn.
LEMMA InTurnInHand ==
  ASSUME LLInv, NEW s, InTurn(potManager, s)
  PROVE  /\ ~gameOver /\ HandGoesOn /\ potManager \in PotState
         /\ ~potManager.inDecisionRound => llRound # TradeInRound
BY DEF LLInv, HandIsSettled, HandGoesOn, InHand, Frozen, Playing, InTurn, TradeInInTurn

\* A call of Check, Call, Fold or BetOrRaise that leaves the hand going on.
LEMMA BettingLLInv ==
  ASSUME LLInv, NEW s, MayBet(potManager, s),
         InHand(potManager'), SameHand(potManager', potManager),
         UNCHANGED <<llRound, gameOver, llCards, ending, panicked>>,
         folding' \subseteq Seats
  PROVE  LLInv'
<1>1. /\ ~gameOver /\ HandGoesOn
      /\ ~potManager.inDecisionRound /\ llRound # TradeInRound
  BY InTurnInHand DEF MayBet
<1>2. /\ llRound' = llRound /\ gameOver' = gameOver /\ hand' = hand /\ traded' = traded
      /\ deck' = deck /\ discards' = discards
      /\ endGameAt' = endGameAt /\ done' = done /\ boughtIn' = boughtIn
      /\ panicked' = panicked
  BY DEF llCards, ending
<1>3. HandGoesOn'
  BY <1>1, <1>2 DEF HandGoesOn, SameHand
<1>4. CardsAreCounted'
  BY <1>2 DEF LLInv, CardsAreCounted
<1>5. ~potManager'.inDecisionRound
  BY <1>1 DEF SameHand
<1>6. QED
  BY <1>1, <1>2, <1>3, <1>4, <1>5 DEF LLInv

\* AdvanceDecision passes the turn to the next seat: nobody has folded.
LEMMA TradeInGoesOn ==
  ASSUME LLInv, llRound = TradeInRound, NEW s, InTurn(potManager, s),
         potManager' = AdvanceDecision(potManager), traded' = traded \cup {s},
         folding' = folding
  PROVE  TradeInInTurn'
<1> DEFINE at == potManager.actionAtIndex
<1>1. /\ TradeInInTurn /\ potManager \in PotState
  BY InTurnInHand DEF LLInv
<1>2. at \in 0 .. N - 1 /\ s = SeatAt(potManager, at) /\ N \in Nat
  BY <1>1, Constants DEF InTurn, IsRoundOver, PotState
<1>3. /\ potManager.actionStartIndex = 0 /\ potManager.inDecisionRound
      /\ potManager.amountInPlay = 0 /\ \A t \in Seats : ~potManager.folded[t]
      /\ traded = 0 .. at - 1 /\ folding' = {}
  BY <1>1 DEF TradeInInTurn
<1>4. \A i \in 0 .. N - 1 : SeatAt(potManager, i) = i
  <2> SUFFICES ASSUME NEW i \in 0 .. N - 1
               PROVE  (0 + i) % N = i
    BY <1>3 DEF SeatAt
  <2>1. 0 \in Seats /\ i + 0 = 0 + i /\ 0 + i < N
    BY <1>2, SeatsAreNat
  <2>2. QED
    BY <1>2, <2>1, SeatAtValue
<1>5. s = at
  BY <1>2, <1>4
<1>6. \A i \in at + 1 .. N - 1 : MayAct(potManager, SeatAt(potManager, i))
  <2> SUFFICES ASSUME NEW i \in at + 1 .. N - 1
               PROVE  MayAct(potManager, SeatAt(potManager, i))
    OBVIOUS
  <2>1. i \in 0 .. N - 1 /\ i \in Seats
    BY <1>2 DEF Seats
  <2>2. QED
    BY <1>3, <1>4, <2>1 DEF MayAct
<1> DEFINE next == potManager'.actionAtIndex
<1>7. /\ potManager'.inDecisionRound /\ potManager'.actionStartIndex = 0
      /\ potManager'.amountInPlay = 0 /\ potManager'.folded = potManager.folded
      /\ next \in at + 1 .. N
      /\ \A i \in at + 1 .. N - 1 : i < next => ~MayAct(potManager, SeatAt(potManager, i))
  <2>1. potManager' = CompleteTurn(potManager)
    BY DEF AdvanceDecision
  <2>2. QED
    BY <1>1, <1>2, <1>3, <2>1, CompleteTurnFields
<1>8. next = at + 1
  <2>1. CASE next > at + 1
    <3>1. at + 1 \in at + 1 .. N - 1
      BY <1>2, <1>7, <2>1
    <3>2. QED
      BY <1>6, <1>7, <2>1, <3>1
  <2>2. QED
    BY <1>2, <1>7, <2>1
<1>9. traded' = 0 .. next - 1
  BY <1>2, <1>3, <1>5, <1>8
<1>10. QED
  BY <1>3, <1>7, <1>9 DEF TradeInInTurn

\* tradeCardsForParticipant keeps the cards within the deck.
LEMMA TradeLLInv ==
  ASSUME LLInv, NEW s \in Seats, NEW n \in TradeIns, Trade(s, n)
  PROVE  LLInv'
<1>1. /\ llRound = TradeInRound /\ InTurn(potManager, s) /\ n <= hand[s]
      /\ llRound' = llRound /\ gameOver' = gameOver
      /\ endGameAt' = endGameAt /\ done' = done /\ boughtIn' = boughtIn
      /\ folding' = folding /\ panicked' = panicked
  BY DEF Trade, ending, folds
<1>2. /\ ~gameOver /\ HandGoesOn /\ TradeInInTurn /\ CardsAreCounted
  BY <1>1, InTurnInHand DEF LLInv
<1>3. n \in Nat /\ hand \in [Seats -> 0 .. InitialDeal] /\ InitialDeal \in Nat
      /\ deck \in Nat /\ discards \in Nat /\ deck + discards <= 52
  BY <1>2, LLFacts DEF CardsAreCounted
<1>4. CASE n <= deck + discards
  <2>1. /\ deck' = IF n <= deck THEN deck - n ELSE deck + discards - n
        /\ discards' = (IF n <= deck THEN discards ELSE 0) + n
        /\ hand' = hand
        /\ traded' = traded \cup {s}
        /\ potManager' = AdvanceDecision(potManager)
    BY <1>4 DEF Trade
  <2>2. TradeInInTurn'
    BY <1>1, <2>1, TradeInGoesOn
  <2>3. CardsAreCounted'
    BY <1>3, <1>4, <2>1 DEF CardsAreCounted
  <2>4. InHand(potManager') /\ Chips(potManager') = Chips(potManager)
    <3>1. InHand(potManager) /\ potManager.inDecisionRound
      BY <1>2 DEF HandGoesOn, TradeInInTurn
    <3>2. QED
      BY <1>1, <2>1, <3>1, DecisionGoesOn DEF SameHand
  <2>5. HandGoesOn'
    BY <1>1, <1>2, <2>4 DEF HandGoesOn
  <2>6. QED
    BY <1>1, <1>2, <2>2, <2>3, <2>5 DEF LLInv
<1>5. CASE ~(n <= deck + discards)
  <2>1. /\ deck' = 0 /\ discards' = 0
        /\ hand' = [hand EXCEPT ![s] = @ - 1]
        /\ potManager' = potManager /\ traded' = traded
    BY <1>5 DEF Trade
  <2>2. hand[s] - 1 \in 0 .. InitialDeal
    BY <1>1, <1>3, <1>5
  <2>3. CardsAreCounted'
    BY <1>3, <2>1, <2>2 DEF CardsAreCounted
  <2>4. HandGoesOn' /\ TradeInInTurn'
    BY <1>1, <1>2, <2>1 DEF HandGoesOn, TradeInInTurn
  <2>5. QED
    BY <1>1, <1>2, <2>3, <2>4 DEF LLInv
<1>6. QED
  BY <1>4, <1>5

\* ParticipantChecks
LEMMA LLCheckLLInv ==
  ASSUME LLInv, NEW s \in Seats, LLCheck(s)
  PROVE  LLInv'
<1>1. /\ MayCheck(potManager, s) /\ MayBet(potManager, s) /\ InTurn(potManager, s)
      /\ potManager' = Check(potManager)
      /\ UNCHANGED <<llRound, gameOver, llCards, ending, panicked>> /\ folding' = folding
  BY DEF LLCheck, Bets, MayCheck, MayBet, folds
<1>2. InHand(potManager) /\ potManager \in PotState
  BY <1>1, InTurnInHand DEF HandGoesOn
<1>3. InHand(potManager') /\ SameHand(potManager', potManager)
  BY <1>1, <1>2, CheckGoesOn
<1>4. folding' \subseteq Seats
  BY <1>1 DEF LLInv
<1>5. QED
  BY <1>1, <1>3, <1>4, BettingLLInv

\* ParticipantCalls
LEMMA LLCallLLInv ==
  ASSUME LLInv, NEW s \in Seats, LLCall(s)
  PROVE  LLInv'
<1>1. /\ MayCall(potManager, s) /\ MayBet(potManager, s) /\ InTurn(potManager, s)
      /\ potManager' = Call(potManager, s)
      /\ UNCHANGED <<llRound, gameOver, llCards, ending, panicked>> /\ folding' = folding
  BY DEF LLCall, Bets, MayCall, MayBet, folds
<1>2. InHand(potManager) /\ potManager \in PotState
  BY <1>1, InTurnInHand DEF HandGoesOn
<1>3. InHand(potManager') /\ SameHand(potManager', potManager)
  BY <1>1, <1>2, CallGoesOn
<1>4. folding' \subseteq Seats
  BY <1>1 DEF LLInv
<1>5. QED
  BY <1>1, <1>3, <1>4, BettingLLInv

\* ParticipantBetsOrRaises
LEMMA LLBetOrRaiseLLInv ==
  ASSUME LLInv, NEW s \in Seats,
         NEW bet \in potManager.actionAmount + 1 .. AllInAmount(potManager, s),
         LLBetOrRaise(s, bet)
  PROVE  LLInv'
<1>1. /\ MayRaise(potManager, s, bet) /\ MayBet(potManager, s) /\ InTurn(potManager, s)
      /\ potManager' = BetOrRaise(potManager, s, bet)
      /\ UNCHANGED <<llRound, gameOver, llCards, ending, panicked>> /\ folding' = folding
  BY DEF LLBetOrRaise, Bets, MayRaise, MayBet, folds
<1>2. InHand(potManager) /\ potManager \in PotState
  BY <1>1, InTurnInHand DEF HandGoesOn
<1>3. /\ potManager.inPlay[s] \in Int /\ potManager.actionAmount \in Nat
      /\ potManager.balance[s] \in Int /\ AllInAmount(potManager, s) \in Int
  BY <1>2 DEF PotState, AllInAmount
<1>4. /\ bet \in Nat /\ bet > potManager.actionAmount /\ potManager.inPlay[s] <= bet
  BY <1>1, <1>3 DEF MayRaise
<1>5. InHand(potManager') /\ SameHand(potManager', potManager)
  BY <1>1, <1>2, <1>4, RaiseGoesOn
<1>6. folding' \subseteq Seats
  BY <1>1 DEF LLInv
<1>7. QED
  BY <1>1, <1>5, <1>6, BettingLLInv

\* The hand is paid out, by a fold or after the last round.
LEMMA EndingLLInv ==
  ASSUME LLInv, ~gameOver, traded = Seats, NEW mgr, InHand(mgr), BetsAreIn(mgr),
         Chips(mgr) = SumSeats(boughtIn),
         NEW seats \in SUBSET Seats, Alive(mgr) \subseteq seats, EndGames(mgr, seats),
         UNCHANGED <<llCards, ending>>, folding' \subseteq Seats, panicked' \in BOOLEAN
  PROVE  LLInv'
<1>1. /\ hand' = hand /\ traded' = traded /\ deck' = deck /\ discards' = discards
      /\ endGameAt' = endGameAt /\ done' = done /\ boughtIn' = boughtIn
  BY DEF llCards, ending
<1>2. HandIsSettled' /\ gameOver' = TRUE /\ llRound' = RevealWinner
  BY <1>1, HandIsPaidOut, ZenonT(30)
<1>3. CardsAreCounted'
  BY <1>1 DEF LLInv, CardsAreCounted
<1>4. llRound' \in TradeInRound .. RevealWinner /\ llRound' # TradeInRound
  BY <1>2, LLFacts
<1>5. endGameAt' \in BOOLEAN /\ done' \in BOOLEAN /\ boughtIn' \in [Seats -> LLStakes]
  BY <1>1 DEF LLInv
<1>6. QED
  BY <1>1, <1>2, <1>3, <1>4, <1>5, Zenon DEF LLInv

\* ParticipantFolds, the pot manager's part.
LEMMA LLFoldLLInv ==
  ASSUME LLInv, NEW s \in Seats, LLFold(s)
  PROVE  LLInv'
<1>1. /\ MayBet(potManager, s) /\ InTurn(potManager, s)
      /\ potManager' = Fold(potManager, s) /\ folding' = folding \cup {s}
      /\ UNCHANGED <<llRound, gameOver, llCards, ending, panicked>>
  BY DEF LLFold, Bets, MayBet
<1>2. InHand(potManager) /\ folding \subseteq Seats
  BY <1>1, InTurnInHand DEF HandGoesOn, LLInv
<1>3. InHand(potManager') /\ SameHand(potManager', potManager)
  BY <1>1, <1>2, FoldGoesOn
<1>4. folding' \subseteq Seats
  BY <1>1, <1>2
<1>5. QED
  BY <1>1, <1>3, <1>4, BettingLLInv

\* Nothing of the hand moves: the end is scheduled and comes, or a fold is counted
\* that does not end it.
LEMMA NothingMovesLLInv ==
  ASSUME LLInv, UNCHANGED <<potManager, llRound, gameOver, llCards, boughtIn>>,
         endGameAt' \in BOOLEAN, done' \in BOOLEAN,
         folding' \subseteq folding, panicked' \in BOOLEAN
  PROVE  LLInv'
<1>1. /\ potManager' = potManager /\ llRound' = llRound /\ gameOver' = gameOver
      /\ hand' = hand /\ traded' = traded /\ deck' = deck /\ discards' = discards
      /\ boughtIn' = boughtIn
  BY DEF llCards
<1>2. CardsAreCounted' <=> CardsAreCounted
  BY <1>1 DEF CardsAreCounted
<1>3. TradeInInTurn => TradeInInTurn'
  BY <1>1 DEF TradeInInTurn
<1>4. HandGoesOn' <=> HandGoesOn
  BY <1>1 DEF HandGoesOn
<1>5. HandIsSettled' <=> HandIsSettled
  BY <1>1 DEF HandIsSettled, Deserted
<1>6. folding' \subseteq Seats
  BY DEF LLInv
<1>7. IF gameOver' THEN HandIsSettled' ELSE HandGoesOn'
  BY <1>1, <1>4, <1>5 DEF LLInv
<1>8. IF llRound' = TradeInRound THEN TradeInInTurn'
      ELSE traded' = Seats /\ (~gameOver' => ~potManager'.inDecisionRound)
  BY <1>1, <1>3 DEF LLInv
<1>9. /\ llRound' \in TradeInRound .. RevealWinner /\ CardsAreCounted'
      /\ boughtIn' \in [Seats -> LLStakes] /\ (gameOver' <=> llRound' = RevealWinner)
  BY <1>1, <1>2 DEF LLInv
<1>10. QED
  BY <1>6, <1>7, <1>8, <1>9 DEF LLInv

\* ParticipantFolds, the rest: the hand goes on, or ends with the last one left.
LEMMA FoldIsCountedLLInv ==
  ASSUME LLInv, NEW s \in Seats, FoldIsCounted(s)
  PROVE  LLInv'
<1> DEFINE left == Alive(potManager) \cup folding'
<1>1. /\ s \in folding /\ folding' = folding \ {s}
      /\ panicked' = (left = {} \/ (LastOneLeft(left) /\ gameOver))
      /\ IF LastOneLeft(left) /\ ~gameOver THEN EndGames(potManager, left)
         ELSE UNCHANGED <<potManager, llRound, gameOver>>
      /\ UNCHANGED <<llCards, ending>>
  BY Zenon DEF FoldIsCounted
<1>2. /\ folding' \subseteq folding /\ folding' \subseteq Seats
      /\ Alive(potManager) \subseteq left /\ left \in SUBSET Seats
  BY <1>1 DEF LLInv, Alive
<1> HIDE DEF left
<1>3. panicked' \in BOOLEAN
  BY <1>1, Zenon
<1>4. llRound # TradeInRound
  BY <1>1 DEF LLInv, TradeInInTurn
<1>5. CASE LastOneLeft(left) /\ ~gameOver
  <2>1. traded = Seats /\ HandGoesOn
    BY <1>4, <1>5 DEF LLInv
  <2>2. InHand(potManager) /\ Chips(potManager) = SumSeats(boughtIn)
    BY <2>1 DEF HandGoesOn
  <2>3. BetsAreIn(potManager)
    BY <1>2, <1>5, <2>2, LastBetsAreIn
  <2>4. EndGames(potManager, left)
    BY <1>1, <1>5
  <2>5. QED
    BY <1>1, <1>2, <1>3, <1>5, <2>1, <2>2, <2>3, <2>4, EndingLLInv
<1>6. CASE ~(LastOneLeft(left) /\ ~gameOver)
  <2>1. UNCHANGED <<potManager, llRound, gameOver>>
    BY <1>1, <1>6, Zenon
  <2>2. endGameAt' \in BOOLEAN /\ done' \in BOOLEAN /\ boughtIn' = boughtIn
    BY <1>1 DEF ending, LLInv
  <2>3. QED
    BY <1>1, <1>2, <1>3, <2>1, <2>2, NothingMovesLLInv
<1>7. QED
  BY <1>5, <1>6

\* NextRound: the trade-in ends with the last seat, the last round with the hand.
LEMMA TickNextRoundLLInv ==
  ASSUME LLInv, TickNextRound
  PROVE  LLInv'
<1> DEFINE mgr == NextRound(potManager)
<1>1. /\ ~gameOver /\ IsRoundOver(potManager)
      /\ IF llRound + 1 = RevealWinner
         THEN EndGames(mgr, StillAlive)
         ELSE potManager' = mgr /\ llRound' = llRound + 1 /\ gameOver' = gameOver
      /\ UNCHANGED <<llCards, ending>> /\ folding' = folding /\ panicked' = panicked
  BY Zenon DEF TickNextRound, RoundIsDone, folds
<1>2. HandGoesOn /\ InHand(potManager) /\ potManager \in PotState
  BY <1>1 DEF LLInv, HandGoesOn, InHand, Frozen, Playing
<1>3. /\ InHand(mgr) /\ Chips(mgr) = Chips(potManager)
      /\ ~mgr.inDecisionRound /\ mgr.actionAmount = 0
      /\ Alive(mgr) = Alive(potManager)
  BY <1>1, <1>2, NextRoundGoesOn
<1> HIDE DEF mgr
<1>4. /\ StillAlive \in SUBSET Seats /\ Alive(mgr) \subseteq StillAlive
      /\ folding' \subseteq Seats /\ panicked' \in BOOLEAN
  BY <1>1, <1>3 DEF StillAlive, Alive, LLInv
<1>5. Chips(mgr) = SumSeats(boughtIn) /\ BetsAreIn(mgr)
  BY <1>2, <1>3 DEF HandGoesOn, BetsAreIn
<1>6. traded = Seats
  <2>1. CASE llRound = TradeInRound
    <3>1. TradeInInTurn
      BY <2>1 DEF LLInv
    <3>2. potManager.actionAtIndex = N
      BY <1>1, <1>2, Constants DEF IsRoundOver, PotState
    <3>3. QED
      BY <3>1, <3>2 DEF TradeInInTurn, Seats
  <2>2. CASE llRound # TradeInRound
    BY <2>2 DEF LLInv
  <2>3. QED
    BY <2>1, <2>2
<1>7. CASE llRound + 1 = RevealWinner
  BY <1>1, <1>3, <1>4, <1>5, <1>6, <1>7, EndingLLInv
<1>8. CASE llRound + 1 # RevealWinner
  <2>1. potManager' = mgr /\ llRound' = llRound + 1 /\ gameOver' = gameOver
    BY <1>1, <1>8, Zenon
  <2>2. /\ hand' = hand /\ traded' = traded /\ deck' = deck /\ discards' = discards
        /\ endGameAt' = endGameAt /\ done' = done /\ boughtIn' = boughtIn
    BY <1>1 DEF llCards, ending
  <2>3. /\ llRound' \in TradeInRound .. RevealWinner
        /\ llRound' # TradeInRound /\ llRound' # RevealWinner
    <3>1. llRound \in TradeInRound .. RevealWinner /\ llRound # RevealWinner
      BY <1>1 DEF LLInv
    <3>2. QED
      BY <1>8, <2>1, <3>1, LLFacts
  <2>4. HandGoesOn'
    BY <1>3, <1>5, <2>1, <2>2 DEF HandGoesOn
  <2>5. CardsAreCounted'
    BY <2>2 DEF LLInv, CardsAreCounted
  <2>6. traded' = Seats /\ ~potManager'.inDecisionRound
    BY <1>3, <1>6, <2>1, <2>2
  <2>7. endGameAt' \in BOOLEAN /\ done' \in BOOLEAN /\ boughtIn' \in [Seats -> LLStakes]
    BY <2>2 DEF LLInv
  <2>8. ~gameOver'
    BY <1>1, <2>1
  <2>9. QED
    BY <1>4, <2>3, <2>4, <2>5, <2>6, <2>7, <2>8, Zenon DEF LLInv
<1>9. QED
  BY <1>7, <1>8

\* The end is scheduled and comes: nothing else moves.
LEMMA TickEndsLLInv ==
  ASSUME LLInv, TickSchedulesEnd \/ TickEnds \/ UNCHANGED llVars
  PROVE  LLInv'
<1>1. /\ UNCHANGED <<potManager, llRound, gameOver, llCards, boughtIn>>
      /\ folding' = folding /\ panicked' = panicked
  BY DEF TickSchedulesEnd, TickEnds, llVars, llCards, folds
<1>2. endGameAt' \in BOOLEAN /\ done' \in BOOLEAN
  <2>1. endGameAt \in BOOLEAN /\ done \in BOOLEAN
    BY DEF LLInv
  <2>2. CASE TickSchedulesEnd
    BY <2>1, <2>2, Zenon DEF TickSchedulesEnd
  <2>3. CASE TickEnds
    BY <2>3, Zenon DEF TickEnds
  <2>4. CASE UNCHANGED llVars
    BY <2>1, <2>4 DEF llVars
  <2>5. QED
    BY <2>2, <2>3, <2>4
<1>3. folding' \subseteq folding /\ panicked' \in BOOLEAN
  BY <1>1 DEF LLInv
<1>4. QED
  BY <1>1, <1>2, <1>3, NothingMovesLLInv

LEMMA LLNextLLInv == LLInv /\ [LLNext]_llVars => LLInv'
<1> SUFFICES ASSUME LLInv, [LLNext]_llVars
             PROVE  LLInv'
  OBVIOUS
<1>1. ASSUME NEW s \in Seats, LLAction(s)
      PROVE  LLInv'
  <2>1. CASE \E n \in TradeIns : Trade(s, n)
    BY <2>1, TradeLLInv
  <2>2. CASE LLCheck(s)
    BY <2>2, LLCheckLLInv
  <2>3. CASE LLCall(s)
    BY <2>3, LLCallLLInv
  <2>4. CASE LLFold(s)
    BY <2>4, LLFoldLLInv
  <2>5. CASE \E bet \in potManager.actionAmount + 1 .. AllInAmount(potManager, s) :
               LLBetOrRaise(s, bet)
    BY <2>5, LLBetOrRaiseLLInv
  <2>6. QED
    BY <1>1, <2>1, <2>2, <2>3, <2>4, <2>5 DEF LLAction
<1>2. CASE LLTick
  BY <1>2, TickNextRoundLLInv, TickEndsLLInv DEF LLTick
<1>3. CASE \E s \in Seats : FoldIsCounted(s)
  BY <1>3, FoldIsCountedLLInv
<1>4. CASE UNCHANGED llVars
  BY <1>4, TickEndsLLInv
<1>5. QED
  BY <1>1, <1>2, <1>3, <1>4 DEF LLNext

\* The inductive invariant of a hand of Little L: until it is paid all the chips are
\* in the balances, the pots and the bets, the turn passes nobody who has matched the
\* last raise, and the trade-in goes from seat to seat.
THEOREM LLInvariance == LLSpec => []LLInv
BY LLInitLLInv, LLNextLLInv, PTL DEF LLSpec

\* A hand of Little L keeps its types; the game is over when its last round is.
THEOREM LLTypeCorrect == LLSpec => []LLTypeOK
<1>1. LLInv => LLTypeOK
  <2> SUFFICES ASSUME LLInv
               PROVE  LLTypeOK
    OBVIOUS
  <2>1. potManager \in PotState
    BY DEF LLInv, HandIsSettled, HandGoesOn, InHand, Frozen, Playing
  <2>2. traded \subseteq Seats
    <3>1. CASE llRound = TradeInRound
      <4>1. traded = 0 .. potManager.actionAtIndex - 1 /\ potManager.actionAtIndex \in 0 .. N
        BY <2>1, <3>1 DEF LLInv, TradeInInTurn, PotState
      <4>2. QED
        BY <4>1, Constants DEF Seats
    <3>2. CASE llRound # TradeInRound
      BY <3>2 DEF LLInv
    <3>3. QED
      BY <3>1, <3>2
  <2>3. /\ hand \in [Seats -> 0 .. InitialDeal]
        /\ deck \in 0 .. 52 /\ discards \in 0 .. 52
    BY DEF LLInv, CardsAreCounted
  <2>4. QED
    BY <2>1, <2>2, <2>3, Zenon DEF LLInv, LLTypeOK
<1>2. QED
  BY <1>1, LLInvariance, PTL

\* Nobody bets before the last player has traded, and nobody is passed over, whatever
\* number of players there are and whoever is all-in on the ante.
THEOREM EverybodyTrades == LLSpec => []EverybodyTradesFirst
<1>1. LLInv => EverybodyTradesFirst
  <2> SUFFICES ASSUME LLInv, llRound # TradeInRound \/ potManager.amountInPlay > 0
               PROVE  traded = Seats
    BY DEF EverybodyTradesFirst
  <2>1. llRound # TradeInRound
    BY DEF LLInv, TradeInInTurn
  <2>2. QED
    BY <2>1 DEF LLInv
<1>2. QED
  BY <1>1, LLInvariance, PTL

\* Every chip of a hand is paid out, whatever the stakes, the side pots and the folds
\* that overtake each other or a tick, but those of the pots that everybody who could
\* win them has folded, and the cents that make no chip.
THEOREM OnlyDesertedAreLost == LLSpec => []OnlyDesertedPotsAreLost
<1>1. LLInv => OnlyDesertedPotsAreLost
  BY DEF LLInv, HandIsSettled, OnlyDesertedPotsAreLost
<1>2. QED
  BY <1>1, LLInvariance, PTL
=============================================================================
