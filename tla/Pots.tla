-------------------------------- MODULE Pots --------------------------------
(***************************************************************************)
(* The operations of potmanager.PotManager (src/pkg/playable/poker/        *)
(* potmanager) as operators from one state of the manager to the next, so  *)
(* that the manager's own specification (PotManager.tla) takes them one at *)
(* a time and a game that calls several of them in one handler             *)
(* (HoldEm.tla) can compose them inside one action.                        *)
(*                                                                         *)
(* A participant is identified with its tableIndex: seats are 0 .. N-1 in  *)
(* the order of tableOrder, the dealer last.  An operator is only applied  *)
(* where the code's early returns let the method run; those guards are the *)
(* operators named May...                                                  *)
(***************************************************************************)
EXTENDS Sums, Sequences, FiniteSets

CONSTANTS
  N,          \* len(tableOrder): the number of seated participants
  Ante,       \* PotManager.ante
  SmallBlind, \* what the game passes to PayBlinds
  BigBlind,
  Chip        \* PayWinners deals winnings in units of this many cents: 25

ASSUME PotsAssumption ==
  /\ N \in Nat /\ N >= 2              \* NewGame refuses fewer than two players
  /\ Ante \in Nat
  /\ SmallBlind \in Nat /\ BigBlind \in Nat /\ SmallBlind <= BigBlind
  /\ Chip \in Nat \ {0}

Seats == 0 .. N - 1

SumSeats(f) == Sum(f, N)

-----------------------------------------------------------------------------
(* Pots and the manager's state.                                           *)

\* A pot; allIn = {} stands for the nil map of a pot nobody is all-in on.
EmptyPot == [amount |-> 0, allIn |-> {}]

Pot == [amount: Nat, allIn: SUBSET Seats]

PotState ==
  [balance: [Seats -> Nat], inPlay: [Seats -> Int],
   allIn: [Seats -> BOOLEAN], folded: [Seats -> BOOLEAN],
   pots: Seq(Pot),
   actionStartIndex: Seats, actionAtIndex: 0 .. N,
   actionAmount: Nat, actionDiffAmount: Nat, amountInPlay: Nat,
   needsPotCalculation: BOOLEAN, isGameOver: BOOLEAN, inDecisionRound: BOOLEAN]

\* Pots.Total
PotTotal(pots) == Sum([i \in 0 .. Len(pots) - 1 |-> pots[i + 1].amount], Len(pots))

\* What of each pot makes no whole chip, all pots together.
OddCents(pots) == PotTotal([k \in DOMAIN pots |-> [pots[k] EXCEPT !.amount = @ % Chip]])

\* participantInPot.canAct
CanAct(pm, s) == ~pm.folded[s] /\ ~pm.allIn[s]

\* Who may act in the round in progress: a decision round includes the all-in.
MayAct(pm, s) == IF pm.inDecisionRound THEN ~pm.folded[s] ELSE CanAct(pm, s)

Alive(pm) == {s \in Seats : ~pm.folded[s]}
Live(pm)  == {s \in Seats : CanAct(pm, s)}

\* normalizedActionAtIndex, IsRoundOver, GetInTurnParticipant
SeatAt(pm, i)   == (pm.actionStartIndex + i) % N
IsRoundOver(pm) == pm.actionAtIndex >= N
InTurn(pm, s)   == ~pm.isGameOver /\ ~IsRoundOver(pm) /\ s = SeatAt(pm, pm.actionAtIndex)

\* GetTotalOnTable
TotalOnTable(pm) == pm.amountInPlay + PotTotal(pm.pots)

\* GetParticipantAllInAmount, GetPotLimitMaxBet
AllInAmount(pm, s) == pm.inPlay[s] + pm.balance[s]
PotLimitMaxBet(pm) ==
  LET s == SeatAt(pm, pm.actionAtIndex)
  IN  pm.actionAmount + TotalOnTable(pm) + (pm.actionAmount - pm.inPlay[s])

\* mutant of Adjust: forgets to cap the payment at the balance
AdjustUncapped(pm, s, to) ==
  LET due == to - pm.inPlay[s]
  IN  [pm EXCEPT !.allIn[s]     = @ \/ due >= pm.balance[s],
                 !.inPlay[s]    = @ + due,
                 !.balance[s]   = @ - due,
                 !.amountInPlay = @ + due]

\* adjustParticipant: raise what s has in play to "to", all-in if that takes it all.
Adjust(pm, s, to) ==
  LET due  == to - pm.inPlay[s]
      paid == IF due >= pm.balance[s] THEN pm.balance[s] ELSE due
  IN  [pm EXCEPT !.allIn[s]     = @ \/ due >= pm.balance[s],
                 !.inPlay[s]    = @ + paid,
                 !.balance[s]   = @ - paid,
                 !.amountInPlay = @ + paid]

\* reset: clear the round and open the next one at the first seat that may act,
\* or close it at once when at most one seat may.
Reset(pm) ==
  LET valid == {s \in Seats : MayAct(pm, s)}
      open  == \E s, t \in valid : s # t
  IN  [pm EXCEPT !.inPlay           = [s \in Seats |-> 0],
                 !.actionAmount     = 0,
                 !.actionDiffAmount = 0,
                 !.amountInPlay     = 0,
                 !.actionStartIndex = IF open THEN Least(valid) ELSE 0,
                 !.actionAtIndex    = IF open THEN 0 ELSE N]

-----------------------------------------------------------------------------
(* calculatePot: move what is in play into the main pot and side pots.     *)

\* What everybody has put in play up to "cap" each.
Capped(pm, cap) ==
  SumSeats([s \in Seats |-> IF pm.inPlay[s] > cap THEN cap ELSE pm.inPlay[s]])

\* Who is all-in for exactly this amount in this round (allInAmounts[amount]).
AllInFor(pm, amount) ==
  {s \in Seats : ~pm.folded[s] /\ pm.allIn[s] /\ pm.inPlay[s] = amount}

AllInAmounts(pm) ==
  {amount \in {pm.inPlay[s] : s \in Seats} : amount > 0 /\ AllInFor(pm, amount) # {}}

\* The elements of a finite set of integers in increasing order (sort.Ints).
Sorted(S) ==
  CHOOSE seq \in [1 .. Cardinality(S) -> S] :
    /\ \A i, j \in 1 .. Cardinality(S) : i < j => seq[i] < seq[j]
    /\ \A x \in S : \E i \in 1 .. Cardinality(S) : seq[i] = x

\* mutant of OpenPots: goes on filling a pot somebody is all-in on
OpenPotsReused(pots) == pots

\* The pot that collects: a new side pot when somebody is all-in on the last one.
OpenPots(pots) ==
  IF pots[Len(pots)].allIn # {} THEN Append(pots, EmptyPot) ELSE pots

\* One pot per all-in amount; the first layer goes on top of the open pot.
Layered(pm) ==
  LET pots     == OpenPots(pm.pots)
      last     == Len(pots)
      cuts     == AllInAmounts(pm) \cup {pm.actionAmount}
      level    == Sorted(cuts)
      under(k) == IF k = 1 THEN 0 ELSE level[k - 1]
      layer(k) == [amount |-> Capped(pm, level[k]) - Capped(pm, under(k)),
                   allIn  |-> AllInFor(pm, level[k])]
  IN  [i \in 1 .. last + Cardinality(cuts) - 1 |->
         IF i < last THEN pots[i]
         ELSE IF i = last THEN [layer(1) EXCEPT !.amount = @ + pots[last].amount]
         ELSE layer(i - last + 1)]

\* The top pot goes back to the only seat that could still contest it.
TopPotRefundees(pm, pots) ==
  LET top == pots[Len(pots)]
  IN  IF Live(pm) = {} THEN top.allIn
      ELSE IF top.allIn = {} THEN Live(pm) ELSE {}

\* mutant of Refund: returns the top pot and keeps it too
RefundKeepingPot(pm, pots) ==
  LET refundees == TopPotRefundees(pm, pots)
      top       == pots[Len(pots)].amount
  IN  [pm EXCEPT !.pots    = pots,
                 !.balance = [s \in Seats |-> IF refundees = {s} THEN @[s] + top ELSE @[s]]]

Refund(pm, pots) ==
  IF \E s \in Seats : TopPotRefundees(pm, pots) = {s}
  THEN LET s   == CHOOSE t \in Seats : TopPotRefundees(pm, pots) = {t}
           top == pots[Len(pots)].amount
       IN  [pm EXCEPT !.inPlay[s]  = @ - top,
                      !.balance[s] = @ + top,
                      !.pots       = SubSeq(pots, 1, Len(pots) - 1)]
  ELSE [pm EXCEPT !.pots = pots]

CalculatePot(pm) ==
  LET done == [pm EXCEPT !.needsPotCalculation = FALSE]
      open == OpenPots(pm.pots)
  IN  IF ~pm.needsPotCalculation THEN pm
      ELSE IF pm.actionAmount = 0 THEN done
      ELSE IF AllInAmounts(pm) = {}
      THEN [done EXCEPT !.pots = [open EXCEPT ![Len(open)].amount = @ + SumSeats(pm.inPlay)]]
      ELSE Refund(done, Layered(pm))

-----------------------------------------------------------------------------
(* The exported methods.                                                   *)

\* New, SeatParticipant for every player in turn, FinishSeatingParticipants.
Seated(stake) ==
  LET short == {s \in Seats : Ante >= stake[s]}
      paid  == [s \in Seats |-> IF s \in short THEN stake[s] ELSE Ante]
      pm    == [balance             |-> [s \in Seats |-> stake[s] - paid[s]],
                inPlay              |-> paid,
                allIn               |-> [s \in Seats |-> s \in short],
                folded              |-> [s \in Seats |-> FALSE],
                pots                |-> <<EmptyPot>>,
                actionStartIndex    |-> 0,
                actionAtIndex       |-> 0,
                actionAmount        |-> Ante,
                actionDiffAmount    |-> 0,
                amountInPlay        |-> SumSeats(paid),
                needsPotCalculation |-> TRUE,
                isGameOver          |-> FALSE,
                inDecisionRound     |-> FALSE]
  IN  Reset(CalculatePot(pm))

\* mutant of CompleteTurn: passes over the folded but not over the all-in
CompleteTurnToAllIn(pm) ==
  LET ahead == {i \in pm.actionAtIndex + 1 .. N - 1 : ~pm.folded[SeatAt(pm, i)]}
  IN  IF ahead # {}
      THEN [pm EXCEPT !.actionAtIndex = Least(ahead)]
      ELSE [pm EXCEPT !.actionAtIndex = N, !.needsPotCalculation = TRUE]

\* completeTurn: on to the next seat that may act; past the last one, the bets
\* of the round are due to be collected.
CompleteTurn(pm) ==
  LET ahead == {i \in pm.actionAtIndex + 1 .. N - 1 : MayAct(pm, SeatAt(pm, i))}
  IN  IF ahead # {}
      THEN [pm EXCEPT !.actionAtIndex = Least(ahead)]
      ELSE [pm EXCEPT !.actionAtIndex = N, !.needsPotCalculation = TRUE]

\* PayBlinds: heads-up the dealer is the small blind, otherwise the two seats
\* after the dealer; the round starts after the big blind.
PayBlinds(pm) ==
  LET sb == IF N = 2 THEN 1 ELSE 0
      bb == IF N = 2 THEN 0 ELSE 1
      opened == [pm EXCEPT !.actionStartIndex = IF N = 2 THEN 1 ELSE 2,
                           !.actionAmount     = BigBlind,
                           !.actionDiffAmount = BigBlind]
  IN  Adjust(Adjust(opened, sb, SmallBlind), bb, BigBlind)

\* The part of their early returns that the four betting methods share
\* (isInDecisionRound, getActiveParticipantInPot).
MayBet(pm, s) == ~pm.inDecisionRound /\ InTurn(pm, s)

MayCheck(pm, s) == MayBet(pm, s) /\ pm.inPlay[s] = pm.actionAmount
MayCall(pm, s)  == MayBet(pm, s) /\ pm.actionAmount > pm.inPlay[s]
MayRaise(pm, s, bet) ==
  /\ MayBet(pm, s)
  /\ bet > pm.actionAmount
  /\ bet > pm.inPlay[s]
  /\ bet <= AllInAmount(pm, s)

\* ParticipantFolds, ParticipantChecks, ParticipantCalls, ParticipantBetsOrRaises
Fold(pm, s) == CompleteTurn([pm EXCEPT !.folded[s] = TRUE])
Check(pm)   == CompleteTurn(pm)
Call(pm, s) == CompleteTurn(Adjust(pm, s, pm.actionAmount))
\* mutant of BetOrRaise: the round is not restarted from the raiser
BetOrRaiseInPlace(pm, s, bet) ==
  LET raised == [pm EXCEPT !.actionDiffAmount = bet - pm.actionAmount,
                           !.actionAmount     = bet]
  IN  CompleteTurn(Adjust(raised, s, bet))

BetOrRaise(pm, s, bet) ==
  LET raised == [pm EXCEPT !.actionStartIndex = s,
                           !.actionAtIndex    = 0,
                           !.actionDiffAmount = bet - pm.actionAmount,
                           !.actionAmount     = bet]
  IN  CompleteTurn(Adjust(raised, s, bet))

\* AdvanceDecision (applied where somebody is in turn), StartDecisionRound,
\* NextRound (applied where the round is over), EndGame
AdvanceDecision(pm)    == CompleteTurn(pm)
StartDecisionRound(pm) == Reset([pm EXCEPT !.inDecisionRound = TRUE])
NextRound(pm)          == Reset([CalculatePot(pm) EXCEPT !.inDecisionRound = FALSE])
EndGame(pm)            == [pm EXCEPT !.isGameOver = TRUE]

-----------------------------------------------------------------------------
(* PayWinners.  tiers is the sequence of sets of participants that         *)
(* WinManager.GetSortedTiers returns, best hand first.                     *)

\* mutant of SortedTiers: the worst hands come first
WorstTiersFirst(seats, strength) ==
  LET levels == Sorted({strength[s] : s \in seats})
  IN  [i \in 1 .. Len(levels) |-> {s \in seats : strength[s] = levels[i]}]

\* WinManager: the participants grouped by the strength of their hands.
SortedTiers(seats, strength) ==
  LET levels == Sorted({strength[s] : s \in seats})
      count  == Len(levels)
  IN  [i \in 1 .. count |-> {s \in seats : strength[s] = levels[count + 1 - i]}]

\* Who of the winners of a pot may go on to the next.
StillIn(seats, pot) == seats \ pot.allIn

\* The t-th group of winners, nobody when there are fewer.
Group(tiers, t) == IF t <= Len(tiers) THEN tiers[t] ELSE {}

\* Who goes on after this pot.  A group collects pot after pot and loses the
\* members who are all-in on the pot it has just collected; when none is left the
\* next group, whole, goes on with the next pot that still holds anything.
GoOn(claim, pot, tiers) ==
  LET left == StillIn(claim.seats, pot)
  IN  IF pot.amount = 0 THEN claim
      ELSE IF left # {} THEN [tier |-> claim.tier, seats |-> left]
      ELSE [tier |-> claim.tier + 1, seats |-> Group(tiers, claim.tier + 1)]

\* The seats that share each pot, the best group first.
PotWinners(pots, tiers) ==
  LET claim[k \in 0 .. Len(pots)] ==
        IF k = 0 THEN [tier |-> 1, seats |-> Group(tiers, 1)]
        ELSE GoOn(claim[k - 1], pots[k], tiers)
  IN  [k \in 1 .. Len(pots) |-> IF pots[k].amount = 0 THEN {} ELSE claim[k - 1].seats]

\* mutant of Winnings: the odd chips of a split pot are dropped
WinningsEven(amount, group, s) == Chip * ((amount \div Chip) \div Cardinality(group))

\* roundedWinnings: an equal number of chips each, the odd chips going to the
\* winners first in table order; cents that make no chip go to nobody.
Winnings(amount, group, s) ==
  LET chips == amount \div Chip
      size  == Cardinality(group)
      place == Cardinality({t \in group : t < s})
  IN  Chip * ((chips \div size) + (IF place < chips % size THEN 1 ELSE 0))

\* The payouts PayWinners returns, for the pots as calculatePot leaves them.
Payouts(pots, tiers) ==
  LET winners == PotWinners(pots, tiers)
      won(s)  == [i \in 0 .. Len(pots) - 1 |->
                    IF s \in winners[i + 1]
                    THEN Winnings(pots[i + 1].amount, winners[i + 1], s) ELSE 0]
  IN  [s \in Seats |-> Sum(won(s), Len(pots))]

\* PayWinners works on a copy of the pots: only balances change.
Paid(pm, payouts) ==
  [pm EXCEPT !.balance = [s \in Seats |-> @[s] + payouts[s]]]
=============================================================================
