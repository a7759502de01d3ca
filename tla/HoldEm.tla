------------------------------- MODULE HoldEm -------------------------------
(***************************************************************************)
(* A hand of Pot-Limit Texas Hold'em, Pineapple or Lazy Pineapple          *)
(* (src/pkg/playable/poker/texasholdem).  Two kinds of calls drive it, in  *)
(* any order: Action, from the goroutine of the client who acts, and Tick, *)
(* once a second, from the dealer's run loop.  The game moves on by        *)
(* scheduling the dealer state that comes next (setPendingDealerState),    *)
(* during which nobody can act, and entering it on a later tick.           *)
(*                                                                         *)
(* No lock keeps the goroutines apart.  What Action does after the pot     *)
(* manager's part, and a Tick that finds a betting round over, are steps   *)
(* of their own: others act between what is looked at and the scheduling.  *)
(* A method of the pot manager, setPendingDealerState and the other        *)
(* branches of Tick are one step each.  A pending state is entered a       *)
(* second or more after it was scheduled, and whatever was under way then  *)
(* has been done by that time.                                             *)
(*                                                                         *)
(* The chips are the pot manager's: each action of this module composes    *)
(* the operators of Pots.tla that its handler calls.  Cards are counted,   *)
(* and hands compared by an arbitrary order of strength.                   *)
(***************************************************************************)
EXTENDS Pots

CONSTANTS
  Stakes,  \* the balances players may sit down with
  None     \* no dealer state is pending

ASSUME StakesAssumption == Stakes \subseteq Nat /\ \A b \in Stakes : b > Ante + BigBlind

VARIABLES
  variant,   \* Options.Variant
  pm,        \* potManager
  dealer,    \* dealerState and pendingDealerState; who has panicked for finding a state
             \* pending, and (history) whom the pending state was scheduled behind
  acting,    \* where each goroutine is in Action, or in Tick
  cards,     \* len(participant.cards)
  community, \* len(community)
  finished,  \* the result is ready: GetEndOfGameDetails
  stake      \* what each participant sat down with

vars == <<variant, pm, dealer, acting, cards, community, finished, stake>>

Variants == {"Standard", "Pineapple", "LazyPineapple"}

\* The DealerState constants in order, so that state + 1 is the next one.
Stages ==
  <<"Start", "DiscardRound", "PreFlop", "DealFlop", "Flop", "DealTurn", "Turn",
    "DealRiver", "Final", "RevealWinner", "End">>

\* No pending transition is not a stage.
ASSUME NoneAssumption == \A i \in DOMAIN Stages : Stages[i] # None

NextStage(state) == Stages[1 + CHOOSE i \in DOMAIN Stages : Stages[i] = state]

BettingStages == {"PreFlop", "Flop", "Turn", "Final"}

\* The participants' goroutines and the run loop.
RunLoop == N
Actors  == Seats \cup {RunLoop}

\* Idle, after a fold, after the rest of an action, and about to schedule the next state.
Places == {"idle", "folded", "acted", "next"}

Init ==
  /\ variant \in Variants
  /\ stake \in [Seats -> Stakes]
  /\ pm = Seated(stake)
  /\ dealer = [state |-> "Start", pending |-> None, panicked |-> {}, behind |-> {}]
  /\ acting = [a \in Actors |-> "idle"]
  /\ cards = [s \in Seats |-> 0]
  /\ community = 0
  /\ finished = FALSE

-----------------------------------------------------------------------------
\* InBettingRound, InDecisionRound
InBettingRound  == dealer.state \in BettingStages
InDecisionRound == InBettingRound \/ dealer.state = "DiscardRound"

\* ActionsForParticipant offers s anything at all (GetCurrentTurn).
OnTheClock(s) == InDecisionRound /\ InTurn(pm, s)

\* Those who are in the middle of Action or Tick.
Busy == {a \in Actors : acting[a] # "idle"}

\* setPendingDealerState, called by a.
Schedule(d, next, a) ==
  IF d.pending # None THEN [d EXCEPT !.panicked = @ \cup {a}]
  ELSE [d EXCEPT !.pending = next, !.state = "Waiting", !.behind = Busy \ {a}]

\* A panic ends the program.
Up == dealer.panicked = {}

Moves(a, place) == acting' = [acting EXCEPT ![a] = place]

\* The pot manager's part of Action, by somebody who is not in the middle of another.
Acted(s, mgr, place) ==
  /\ acting[s] = "idle" /\ Moves(s, place)
  /\ pm' = mgr
  /\ UNCHANGED <<variant, dealer, community, finished, stake>>

ActionDiscard(s) ==
  /\ dealer.state = "DiscardRound" /\ OnTheClock(s)
  /\ variant = "Pineapple" /\ cards[s] > 0
  /\ cards' = [cards EXCEPT ![s] = @ - 1]
  /\ Acted(s, AdvanceDecision(pm), "acted")

ActionCheck(s) ==
  /\ InBettingRound /\ MayCheck(pm, s)
  /\ Acted(s, Check(pm), "acted")
  /\ UNCHANGED cards

ActionCall(s) ==
  /\ InBettingRound /\ MayCall(pm, s)
  /\ Acted(s, Call(pm, s), "acted")
  /\ UNCHANGED cards

ActionFold(s) ==
  /\ InBettingRound /\ MayBet(pm, s)
  /\ Acted(s, Fold(pm, s), "folded")
  /\ UNCHANGED cards

\* validateBetOrRaise: whole chips, within the pot limit, and at least the last
\* raise again, or the big blind for an opening bet, unless it is all-in.
ValidBetOrRaise(s, amount) ==
  LET allIn   == AllInAmount(pm, s)
      opening == CHOOSE m \in {Ante, BigBlind, Chip} : \A x \in {Ante, BigBlind, Chip} : x <= m
      minimum == IF pm.actionAmount > 0 THEN pm.actionDiffAmount + pm.actionAmount ELSE opening
  IN  /\ amount % Chip = 0
      /\ amount <= PotLimitMaxBet(pm)
      /\ amount >= allIn \/ amount >= minimum

\* Bet and Raise.
ActionBetOrRaise(s, amount) ==
  /\ InBettingRound /\ MayRaise(pm, s, amount)
  /\ ValidBetOrRaise(s, amount)
  /\ Acted(s, BetOrRaise(pm, s, amount), "acted")
  /\ UNCHANGED cards

\* mutant of FoldIsHandled: a fold that leaves two players ends the hand too
FoldIsHandledTooEarly(s) ==
  /\ acting[s] = "folded" /\ Moves(s, "acted")
  /\ dealer' = IF Cardinality(Live(pm)) <= 2 THEN Schedule(dealer, "RevealWinner", s) ELSE dealer
  /\ UNCHANGED <<variant, pm, cards, community, finished, stake>>

\* A fold that leaves fewer than two players who can act ends the hand early.
FoldIsHandled(s) ==
  /\ acting[s] = "folded" /\ Moves(s, "acted")
  /\ dealer' = IF Cardinality(Live(pm)) < 2 THEN Schedule(dealer, "RevealWinner", s) ELSE dealer
  /\ UNCHANGED <<variant, pm, cards, community, finished, stake>>

\* mutant of RoundIsChecked: does not look whether a state is already pending
RoundIsCheckedUnguarded(s) ==
  /\ acting[s] = "acted" /\ Moves(s, IF IsRoundOver(pm) THEN "next" ELSE "idle")
  /\ UNCHANGED <<variant, pm, dealer, cards, community, finished, stake>>

\* The end of Action: when the round is over the game is to move to the next state.
RoundIsChecked(s) ==
  /\ acting[s] = "acted"
  /\ Moves(s, IF IsRoundOver(pm) /\ dealer.pending = None THEN "next" ELSE "idle")
  /\ UNCHANGED <<variant, pm, dealer, cards, community, finished, stake>>

\* The state after this one is scheduled, by an action or by a tick.
NextIsScheduled(a) ==
  /\ acting[a] = "next" /\ Moves(a, "idle")
  /\ dealer' = Schedule(dealer, NextStage(dealer.state), a)
  /\ UNCHANGED <<variant, pm, cards, community, finished, stake>>

-----------------------------------------------------------------------------
(* Tick, one action per branch.                                            *)

Enter(state) == dealer' = [dealer EXCEPT !.state = state]

\* dealStartingCardsToEachParticipant
TickStart ==
  /\ dealer.pending = None /\ dealer.state = "Start"
  /\ cards' = [s \in Seats |-> IF variant = "Standard" THEN 2 ELSE 3]
  /\ IF variant = "Pineapple"
     THEN Enter("DiscardRound") /\ pm' = StartDecisionRound(pm)
     ELSE dealer' = Schedule(dealer, "PreFlop", RunLoop) /\ UNCHANGED pm
  /\ UNCHANGED <<variant, acting, community, finished, stake>>

\* newRoundSetup, which leaves everything alone when the round is not over, and
\* payBlinds.
RoundSetup(mgr, state) ==
  LET fresh == IF IsRoundOver(mgr) THEN NextRound(mgr) ELSE mgr
  IN  IF state = "PreFlop" THEN PayBlinds(fresh) ELSE fresh

\* The delay of the pending state has passed, and all that was under way is done.
TickPending ==
  /\ dealer.pending # None /\ Busy = {}
  /\ dealer' = [dealer EXCEPT !.state = dealer.pending, !.pending = None]
  /\ pm' = RoundSetup(pm, dealer.pending)
  /\ UNCHANGED <<variant, acting, cards, community, finished, stake>>

TickDealCommunity ==
  /\ dealer.pending = None /\ dealer.state \in {"DealFlop", "DealTurn", "DealRiver"}
  /\ community' = community + (IF dealer.state = "DealFlop" THEN 3 ELSE 1)
  /\ Enter(NextStage(dealer.state))
  /\ UNCHANGED <<variant, pm, acting, cards, finished, stake>>

\* mutant of NextMoveDue: waits for an action that ends the round
NextMoveDueAfterAction == InBettingRound /\ IsRoundOver(pm) /\ pm.needsPotCalculation

\* A betting round is over without anybody acting: at most one player can.
NextMoveDue == InBettingRound /\ IsRoundOver(pm)

TickRoundOver ==
  /\ dealer.pending = None /\ NextMoveDue
  /\ Moves(RunLoop, "next")
  /\ UNCHANGED <<variant, pm, dealer, cards, community, finished, stake>>

\* Strengths only matter by their order.
Strengths ==
  {r \in [Seats -> 1 .. N] : \A s \in Seats : r[s] > 1 => \E t \in Seats : r[t] = r[s] - 1}

\* endGame: EndGame, then PayWinners for those who have not folded.
TickRevealWinner ==
  /\ dealer.pending = None /\ dealer.state = "RevealWinner"
  /\ \E strength \in Strengths :
       LET over == CalculatePot(EndGame(pm))
       IN  pm' = Paid(over, Payouts(over.pots, SortedTiers(Alive(over), strength)))
  /\ dealer' = Schedule(dealer, "End", RunLoop)
  /\ UNCHANGED <<variant, acting, cards, community, finished, stake>>

TickEnd ==
  /\ dealer.pending = None /\ dealer.state = "End" /\ ~finished
  /\ finished' = TRUE
  /\ UNCHANGED <<variant, pm, dealer, acting, cards, community, stake>>

\* One tick at a time.
Tick ==
  /\ Up /\ acting[RunLoop] = "idle"
  /\ \/ TickStart
     \/ TickPending
     \/ TickDealCommunity
     \/ TickRoundOver
     \/ TickRevealWinner
     \/ TickEnd

Action(s) ==
  /\ Up
  /\ \/ ActionDiscard(s)
     \/ ActionCheck(s)
     \/ ActionCall(s)
     \/ ActionFold(s)
     \/ \E amount \in pm.actionAmount + 1 .. AllInAmount(pm, s) : ActionBetOrRaise(s, amount)

\* What is under way goes on.
Continues(a) == Up /\ (FoldIsHandled(a) \/ RoundIsChecked(a) \/ NextIsScheduled(a))

HandIsOver == (finished \/ ~Up) /\ UNCHANGED vars

Next ==
  \/ Tick
  \/ \E s \in Seats : Action(s)
  \/ \E a \in Actors : Continues(a)
  \/ HandIsOver

Spec == Init /\ [][Next]_vars

\* The dealer ticks the game every second, and what is under way goes on; nothing
\* makes a player act.
FairSpec == Spec /\ WF_vars(Tick) /\ \A a \in Actors : WF_vars(Continues(a))
-----------------------------------------------------------------------------
(* Properties.                                                             *)

\* The type of every variable; the dealer state is Waiting exactly while another
\* one is pending.
TypeOK ==
  /\ variant \in Variants
  /\ stake \in [Seats -> Stakes]
  /\ pm \in PotState
  /\ dealer.state \in {Stages[i] : i \in DOMAIN Stages} \cup {"Waiting"}
  /\ dealer.state = "Waiting" <=> dealer.pending # None
  /\ dealer.panicked \subseteq Actors /\ dealer.behind \subseteq Actors
  /\ acting \in [Actors -> Places]
  /\ cards \in [Seats -> 0 .. 3]
  /\ community \in 0 .. 5
  /\ finished \in BOOLEAN

\* No transition is scheduled on top of another one, which is a panic, by anybody who
\* was not overtaken: who panics had begun his action, or his tick, before somebody
\* else scheduled the one he finds.  A fold may end the hand early and the round too.
CollisionsAreRaces == dealer.panicked \subseteq dealer.behind

\* "cannot set pending dealer state if one is already present" (dealer_state.go:33-34).
TransitionsNeverCollide == dealer.panicked = {}

\* Hands are only compared before the river when at most one player could still
\* have bet: the all-in are otherwise dealt all five cards.
ShowdownAfterTheRiver ==
  dealer.state \in {"RevealWinner", "End"} /\ community < 5 => Cardinality(Live(pm)) < 2

\* Through every street, side pot and early end, the only chips that can get lost
\* are the bets of a round that was cut short, and the cents of a pot that make no chip.
OnlyUncollectedBetsAreLost ==
  finished =>
    SumSeats(pm.balance) + pm.amountInPlay + OddCents(pm.pots) = SumSeats(stake)

\* The results of a hand add up to nothing: what the losers lose the winners win
\* (every test that plays a hand to its end expects it, folded hands included:
\* texasholdem_test.go:420-424).
ResultsAddUp == finished => SumSeats(pm.balance) = SumSeats(stake)

\* However the players bet and fold, the game only ever waits for a player who is
\* on the clock; otherwise its ticks bring it to its end, unless it panics.
NeverHangs == []<>(finished \/ ~Up \/ \E s \in Seats : OnTheClock(s))
=============================================================================
