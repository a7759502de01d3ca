# TLA+ models of mondaynightpoker-server

The server lets friends play card games at virtual tables: web clients connect over
websockets, a *dealer* per table runs the game in a loop of its own, and the result of
every finished game is booked into the players' balances. These modules model that
program's own logic: the room, the seven games, the pot manager and the rules of the
cards. TLC checks them on small instances, and TLAPS proves the most important
invariants for every size. `PROJECT.json` lists every run, the source lines behind every
definition, the hazards and the theorems.

Paths below are relative to the repository; game packages are under `pkg/playable`.

## The system

| Component | State | Operations | Modules |
|---|---|---|---|
| Pot manager (`poker/potmanager`) | balances, bets in play, pots with who is all-in on them, whose turn it is | fold, check, call, bet or raise, blinds, decision rounds, `NextRound`, `EndGame`, `PayWinners` | `Pots`, `PotManager` |
| Texas Hold'em, Pineapple, Lazy Pineapple (`poker/texasholdem`) | dealer state, pending dealer state, cards, community | `Action`, `Tick` | `HoldEm` over `Pots` |
| Little L (`poker/littlel`) | round, hands, who has traded, deck and discards | `Action` (trade, bets), `Tick` | `LittleL` over `Pots` |
| Seven-Card and its variants (`poker/sevencard`) | round, bets, pot, who decides, mushrooms and extra cards | `Action`, `Tick`, the variants' callbacks | `SevenCard` |
| Guts, Bloody Guts (`guts`) | decisions, pending dealer action, pot, who faces the deck | `Action` on many goroutines, `Tick` | `Guts` |
| Acey Deucey (`aceydeucey`) | round with its games, pot, turn | `Action` (ace, bet, pass, half pot), `Tick` | `AceyDeucey` |
| Pass the Poop (`passthepoop`) | lives, cards, decision, pending trade, blocks | `Action` (stay, trade, accept, block, flip, go to deck), `Tick` | `PassThePoop` |
| Bourré (`bourre`) | hands (counted), folded players, tricks, pot of each game | `Action` (fold, discard, play), `Tick` | `Bourre`, `Tricks` |
| Hand analyzer (`poker/handanalyzer`) | none | `New`, `GetStrength`, with and without wild cards | `HandAnalyzer`, `Rules` |
| Contract of a game (`playable.go`) | - | `Action`, `Tick`, `GetEndOfGameDetails` | `Playable` |
| Dealer (`pkg/room/dealer.go`) | clients, game, ticker, pending game, two channels | run loop, `AddClient`, `RemoveClient`, `ReceivedMessage`, `endGame` | `Dealer` |
| PitBoss (`pkg/room/pitboss.go`) | dealer of each table, two channels | run loop, `ClientConnected`, `ClientDisconnected` | `PitBoss` |
| Game records (`pkg/model/game.go`, `adjust_balance`) | balance of each seat, results | `CreateGame`, `EndGame` | inside `Dealer` |
| Deck and hands (`pkg/deck`) | undrawn cards | `Draw`, `Discard`, ... | partly: the cards of `Rules`; counted elsewhere |
| Accounts, tokens, table and seat rows, factory, HTTP, JWT, configuration, commands | - | - | not modelled, see below |

How they interact:

```
 web client goroutines --connect/disconnect--> PitBoss goroutine --AddClient/RemoveClient--> Dealer
        |                                                                                      |
        +--ReceivedMessage: game.Action directly, all else as a func on execInRunLoop --------->+ run loop
                                                                                               |
             stateChanged: what to broadcast  <---- clients, PitBoss and the loop itself ------+
             ticker: game.Tick                      endGame --> CreateGame, EndGame (SQL) -----+

 Dealer --Action, Tick, GetEndOfGameDetails--> a game (Playable) --> pot manager, hand analyzer
```

What is hard in it:

* Three kinds of goroutines touch a dealer, although `architecture.md` says that all state
  changes go through its run loop. `AddClient` and `RemoveClient` run on the PitBoss
  goroutine, a game's `Action` and, after it, `endGame` on the client's. No lock keeps an
  `Action` apart from the loop's `Tick` and broadcasts, or from the `Action` of somebody else; in
  Guts everybody decides at once.
* The run loop's `select` serves its channels in any order, and the loop sends on a
  channel that it alone receives from.
* Settling a game takes several statements, any of which the database may refuse.
* The pot manager's turns wrap around the table after every raise, and all-ins of several
  rounds, folds and refunds decide together which side pots exist and who gets them.
* Games move on by ticks and delayed transitions that interleave with the players'
  actions; one action can end both the round and the hand, or leave a round that nobody
  but the tick can end.
* Pots are carried from game to game (Bourré) and from round to round (Guts, Acey Deucey),
  with ties, boots, penalties and re-antes, and are divided among several winners.
* Special cards act out of turn: Chiggs' mushroom, Baseball's fours, the aces of Acey
  Deucey and of Diarrhea.

What makes each component right: the pot manager neither makes nor loses chips, asks
the right player, and pays each pot to the best hand in it; a game adds up, never hangs
and never panics; the dealer settles each game exactly once and leaves no screen out of
date; PitBoss keeps the clients of a table together at one living dealer.

## Modules

### The contract of a game

`Playable` is the abstract specification the games are measured by, read off what
`Dealer` does with a `playable.Playable`: it settles a game once, with the adjustments it
reads when the game says it is over, and otherwise only ticks it. So the adjustments and
what lies on the table add up to nothing at every step (`Balanced`), the last step leaves
nothing on the table, nothing changes afterwards, and the game never stands still
without either waiting for a player or coming to its end (`Comes`). Each game module
instantiates it (`Game == INSTANCE Playable WITH ...`): *adjustment* is what
`GetEndOfGameDetails` would report, *table* the pot, and *status* says whether a player is
on turn, the game deals by itself, or is over.

| Game | What it is shown to implement |
|---|---|
| Guts, Pass the Poop | `Game!Spec`, all of it (at Pass the Poop a server that is down counts as "waits") |
| Bourré | `Game!SafeSpec`; and it moves on (`GamesMoveOn`) unless a trade-in names a card twice |
| Acey Deucey | `Game!Spec`, but for a pot that is overdrawn, which takes a bet below zero or an ante of odd cents (`ContractIsKept`), and for a panic (`RoundsMoveOn`) |
| Seven-Card | `Game!SafeSpec`, and `Comes` unless a mushroom has stranded the hand or the server has gone down |
| Little L | `Comes`, unless two folds at a time bring the server down (`KeepsPlaying`); `SafeSpec` is refuted (see *Known divergences*), `OnlyDesertedPotsAreLost` bounds what is lost |
| Hold'em | states the same directly: `OnlyUncollectedBetsAreLost`, `NeverHangs` |

Where a model bounds the number of rounds or games, reaching the bound counts as
"waits" (`OutOfRounds`, `OutOfGames`).

### The games

`Pots` - the methods of `PotManager` as operators from one state of the manager (a record)
to the next: `Adjust` is `adjustParticipant`, `CompleteTurn` is `completeTurn`,
`CalculatePot` is `calculatePot` with its helpers `OpenPots`, `Layered` and `Refund`, and
so on. Guards are the operators `May...`. Being operators, they can be composed by any
game that calls several of them in one handler. `PayWinners`' nested loops become a
recursive function over the pots (`PotWinners`): who shares pot *k* follows from who shared
pot *k - 1*.

`PotManager` - a state machine with one action per exported method, driven in every order
the poker games may use; the header says what callers owe it. History variables record
what everybody has put in and who has acted since the last raise.

Each game's `Action` runs on the goroutine of the client who sent it. Where others can see, or change,
what it has half done, the handler is several actions of the model, one for what happens
up to the next look at shared state; what is still one step is said here and in the module.

`HoldEm` - one action per player action and per branch of `Tick`, composing `Pots`. `Action` is the
pot manager's part, then `FoldIsHandled` (does a fold leave somebody to bet?), `RoundIsChecked`
(is the round over and nothing pending?) and `NextIsScheduled`; a `Tick` that finds a round over
(`TickRoundOver`) also schedules in a second step. `acting` says where each goroutine is, and
`dealer.behind` remembers who was in the middle of something when a state was scheduled.
One method of the pot manager, `setPendingDealerState`, and each other branch of `Tick` are one step;
a pending state is entered a second or more after it was scheduled, when what was under way
is taken to be done (`TickPending`). Cards are counted.

`LittleL` - the trade-in as a decision round of the pot manager, four betting rounds, and the
branches of `Tick` that advance a round nobody can bet in. A fold is `LLFold` and, after whatever
comes between, `FoldIsCounted`, which looks who is left, and may end the hand. The deck is counted and
replenished from the discards.

`SevenCard` - one record holds the hand, because a card that is dealt calls into the variant,
which may fold players, give an ante back or draw again before `Action` or `Tick` returns; the
operators are functions from hand to hand. It models the five variants that change money, turns or
cards (stud, Baseball, Coupons and Clippings, High Chicago, Chiggs); the others only mark
cards as wild. A panic is a state of the hand (`panicked`) in which nothing happens any more.
A check, call, bet, raise or fold is several steps (`handling`): its own part, then for a fold who is left
(`FoldIsCounted`), and, once `advanceDecision` has counted up, the rest of it (`Advances`). In between the run loop may
show the hand to everybody, which panics when the decision is with a player who has folded (`BroadcastPanics`). What
a mushroom does is one step, so are the start index and the count of decisions that a raise sets,
and actions of two players do not overlap.

`Guts` - a decision is two actions, recording it and looking whether one is missing, since
handlers run at the same time; each dealer action that `Tick` executes is an action.
A showdown is due a second after it was scheduled, and a handler is taken to be done by
then (`Executes` requires `recording = {}`).

`AceyDeucey` - the record `round` is the code's `Round`, with the games of a round reduced to
how many there are, which one is active and what they adjust. Amounts are cents, of any sign, as the
code takes them; the history `belowZero` remembers a bet of less than nothing. Calling an ace
is two steps, `SetAce` (the state) and `MarkAce` (the bit of the card), and `DealOnUncalledAce` is the tick between them.

`PassThePoop` - one action per player action, and `EndRound` of each edition. Players may send any
action when they are on turn, offered or not; `AcceptFromNobody` accepts a trade nobody has offered,
which panics. The history `unanswered` remembers a trade that the dealer has drawn
over. Passing an ace (`game.go:225-226`) is one step.

`Bourre` - the card that is played last either takes the lead of the trick or does not;
which cards may be played, and which one leads, is `Tricks`. A trade-in is how many cards it names;
`Twice` is one that names a card twice, which is accepted and then panics (`ReplaceDiscardsPanics`).

`HandAnalyzer` - what the code's walk over the sorted hand finds, as sets of ranks, for
every assignment of rank or suit mode to the wild cards. `Rules` deals cards one at a
time and compares: the worth of a hand against the best choice of its cards (`BestValue`)
and of everything its wild cards can stand for (`BestReplacement`), and the cards that
`Tricks` lets a player play against the rules of Bourré in the words of a player. To some large hands
(`LargeHands`) it adds wild cards up to the eight cards Baseball can deal.

In the games, hands of cards have an arbitrary order of strength, ties included, wherever
they are compared; that covers every answer the analyzer can give.

### The room

`Dealer` - every goroutine is a thread with a program counter (`thr[t].at`), and one
action is what it does between two shared reads or writes. A send on a full channel
blocks its thread. The game on the table is abstract: actions
and ticks may change what is seen, some action or tick makes it close down, and a later
tick ends it (in all games only `Tick` makes `GetEndOfGameDetails` true). A client's handler may
be overtaken by all of this, and then finds the game over itself and settles it as well; the history
`found` counts such handlers. `sendPlayerData` sends nothing when the players cannot be read, and
`missed` on a screen says that this was the last it heard of them. One player's row
stands for the balances, and a player has one connection. The permissions of a client are "queues the function or not".

`PitBoss` - the two channels, the run loop, and for each dealer its clients and whether
it is on shift.

`Sums` holds what the games share: `Sum` adds up what the players have, and `Those` are the
players of a list who are left. Both are recursive functions over an interval of the integers, so that
`SumProofs` can say what they return (an operator like `SelectSeq` takes an operator
as its argument, and its library theorems cannot be used here).
`MC...` modules give TLC its constants. `SumProofs`, `PotsProofs`, `PokerProofs` (`PotManager`, `HoldEm`
and `LittleL`), `RoomProofs` (`PitBoss`, `Dealer` and `Guts`), `SevenCardProofs`, `AceyDeuceyProofs`,
`PassThePoopProofs` and `BourreProofs` hold the proofs. Modules proved together have different names
for everything: the type invariant, the initial states and the steps of `PotManager` are `PMTypeOK`, `PMInit` and
`PMNext`, those of `LittleL`, `PitBoss` and `Guts` begin with `LL`, `PB` and `G`. A module that proves
about several specifications has the assumptions of all in scope; a proof cites none but those of the
specification it is about. Operators marked *mutant* are plausible
bugs, kept beside the definition they would replace: each property is known to fail with one
of them in its place.

## Runs

| Run | Shows | Bounds |
|---|---|---|
| `PotManager` | type, conservation of chips, pots paid to the last whole chip, whose turn, settled rounds, side pots as the contributions say, best hands paid | 3 players, stakes 6, 7 and 9, ante 1, blinds 2/4, chips of 2, two calls of `NextRound` |
| `HoldEm` | transitions collide only by a race, all-in hands see the river, only bets of a cut round and cents that make no chip are lost; a hand waits for a player or ends | 3 players, stakes 8 and 9, ante 2, blinds 2/4, chips of 2, all variants, all streets, all goroutines |
| `LittleL` | only deserted pots and cents are lost, everybody trades first, ticks carry the hand on | 4 players, stakes 1 and 3 (all-in on the ante, or not), ante 1, chips of 3, all rounds, folds and ticks at the same time |
| `SevenCard` | nobody owes at the end of a round, money paid out once, the deck lasts, only mushrooms strand a hand, only they and a fold during a broadcast break one | 3 players, 5 variants, all rounds, pot up to 8; a deck of 24 for 3 players, as tight as 52 are for 7 |
| `Guts` | the contract, nobody pays for staying out | 3 players, ante 2, maximum 5, a deck hand of 3, 3 rounds, both games |
| `AceyDeucey` | the contract, offered bets are accepted, aces are called, each with its exceptions | 2 players, antes 50 and 60, 4 ranks, 5 amounts, one of them below zero, 2 games a round, 3 rounds |
| `PassThePoop` | the contract, trades have a partner unless the dealer draws over them, kings stay, an ace costs one life | 3 players with 2 lives in all editions, 4 players with 1 life, ranks ace, 5, king; players send anything |
| `Bourre` | the contract, everybody reported once, out means out | 4 players, 2 games in a row, every outcome of a trick, cards named twice |
| `Rules` | hands ranked right, wild cards at their best, legal cards of a trick | hands of 6 cards of 7 ranks and 4 suits played with 3 or 5; up to 5 cards of 5 ranks, 1 or 2 wild; three kinds of 6 cards with 1 or 2 wild added; tricks of 3 players with 3 cards |
| `PitBoss` | clients of a table share one living dealer; no dealer without clients | 4 clients, 2 tables, channels of 3 |
| `DealerGame` | whoever finds a game over pays it once at most, never off the table unsettled, quiet screens are current | 2 clients that join, 1 of which may leave, 2 games, 2 messages of any kind, 1 failure |
| `DealerLive` | the balance is the sum of the committed results, and finished games leave the table, stragglers and failing commits included | 1 client, 1 game, 2 messages, 1 visible tick, 1 failure, fair |

Beside them, `DealerGames` (`MCDealer`; one client, two games, three messages) checks the same properties as
`DealerGame` where a handler that is late with the first game meets the second.

Why the bounds are enough. A chip is 25 cents in the code; here it is 2 units of money, or 3 in `LittleL`, and
antes and stakes are not all whole chips, so that all-ins for odd amounts and pots that are no
whole number of chips occur. Three players make three different all-ins, two side
pots, heads-up play after a fold, and a turn that wraps around. Three rounds let an all-in of an
earlier round meet a side pot of a later one. Hold'em's stakes exceed ante and blind, as in the
code (a table stake is at least $5.00, ante and blinds at most $2.50 together), so nobody is
all-in before he acts; Little L's do not, and there he may be: with four players two can be
all-in on the ante while the two others bet over them and fold, one after the other. In `Guts` pots of 6, 5 and 10 meet
two and three winners, so odd chips occur, penalties are below and at the maximum, and three
rounds carry a penalty into a pot that is played for again. In `AceyDeucey` the ranks are
neighbours, a gap of one, and both aces; the amounts include the least bet, more than the pot, one
that is no multiple of 25, and one below zero, next to the half-pot bet; an ante is a whole number of quarters or
is not; three rounds leave the first lap. Four
players at `PassThePoop` are needed for three of a kind against one, and for a tie of two that
leaves two. Four at `Bourre` make two winners who tie, one boot and one who is out, and the
second game is played by less than everybody. A hand of
six cards holds two sets of three, two flushes of three, and a straight with a card to spare; the
ranks reach from a wheel to the ace. The large hands are such that two wild cards complete two flushes, two
sets of four, or a straight and a full house. The dealer's hazards need two clients
and a game, or two, where one replaces the other; channels hold six events where the code's hold 256, enough never to be full.
Bounds of counters are in the guards (`MaxRounds`, `MaxGames`, `MaxPot`, `MaxMessages`,
`MaxTicks`, `MaxFailures`, `MaxLeaves`, `MaxDealers`).

Deadlock is checked for hands that say explicitly when they are over (`PotManager`, `HoldEm`).
The other games rest when they are done or out of rounds, `Dealer` and `PitBoss` when every client
has left or the bound on messages is used up; that no game rests too early is its `Comes`.

Fairness. Games: weak fairness of `Tick` only, since the dealer's ticker fires every second
as long as there is a game; players may think for ever. In `HoldEm`, `LittleL`, `SevenCard` and `Guts` also of each
handler that has begun. `Dealer`: weak fairness of the run loop and
of what a goroutine has begun, because Go schedules every goroutine that can run; strong
fairness of the loop's ticks, events and functions, because `select` chooses at random
among the ready cases. Clients are never forced to send anything, and the database's
failures are finitely many.

## Known divergences

What a comment, a document or a test says and the code does not do, met while modelling. Each of the
first table has a configuration of its own, next to the runs, in which TLC finds the property violated
(`tlc -config X.cfg` and the module).

| Configuration | Module, property | What is refuted, and why |
|---|---|---|
| `SidePotShare` | `MCPotManager`, `NobodyWinsMoreThanHisShare` | An all-in player "can only win" what his chips entitle him to (`pot_manager_test.go:288-290`). The all-in are dropped from a group only after *that group* has been paid the pot (`pot_manager.go:405`); behind a better hand they stay and share the next side pot. Four players, two of them to contest the side pot. |
| `EarlyEnd` | `MCHoldEm`, `ResultsAddUp` | The results of a hand add up (`texasholdem_test.go:420-424`). A fold that leaves one active player ends the hand in mid-round (`texasholdem_playable.go:71`); the bets in play are never collected. |
| `LittleLSettles` | `MCLittleL`, `ImplementsPlayable` | Results of all-ins add up (`littlel_test.go:488-496`). When everybody who can still bet folds to others who are all-in, the side pots above them go to nobody (`littlel.go:264`), or, when two or more are left, to one of them with a worse hand than the main pot's winner. |
| `SevenCardPanics` | `MCSevenCard`, `NeverPanics` | "endGame() already called": players who take only what they are offered reach that panic, by flipping a mushroom when the hand is already won (`variant_chiggs.go:223`). |
| `BourreRedeal` | `Bourre`, `CardsAreFresh` | `replaceDiscards` replaces cards "with fresh ones" (`bourre.go:433`). When the deck runs out, the discard pile becomes the deck and keeps its cards (`bourre.go:471-473`); eight players who trade four cards each are dealt a card twice. |
| `PoopTrade` | `MCPassThePoop`, `TradesAlwaysHaveAPartner` | Staying is refused while a trade waits for an answer (`game.go:185`); going to the deck (`game.go:192-208`) is not. A dealer whose client sends what it is not offered ends the round with the trade pending, and the first player of the next round is asked to accept it. |
| `PitBossStops` | `MCPitBoss`, `KeepsListening` | "The `PitBoss` listens" (`architecture.md:71`). It returns on a disconnection without a dealer (`pitboss.go:46`), and `select` may serve that before the connection. |
| `SettledTwice` | `MCDealer`, `GamesAreSettledOnce` | Game state changes only in the run loop (`dealer.go:347-348`, `architecture.md:73`). `endGame` also runs on client goroutines, where a tick can end the game between an action and the look whether it is over; then both settle it. |
| `GameEventAfterEnd` | `MCDealer`, `GameEventsFindAGame` | A game event without a game "should not happen" (`dealer.go:212`). `terminateGame` can be served before an older event, and the nil game is then used. |
| `CommitLost` | `MCDealer`, `EndedGamesAreSaved` | An `EndGame` without error has changed the balance (`game_test.go:22-26`). An error of `Commit` is only logged (`game.go:84`). |
| `BlockedLoop` | `MCDealer`, `PitBossIsNotHeldUp` | `AddClient` and `RemoveClient` "must return quickly" (`dealer.go:147`, `:182`). Both send on a channel on which the run loop sends too; when it is full, everybody waits for ever. A capacity of 2 shows what 256 delay. |

Those of the second table are refuted in the bounds of a listed run, or of a configuration above, with the
property given here in place of its own (an invariant; `ContractAlwaysKept` is temporal).

| Configuration | Property | What is refuted, and why |
|---|---|---|
| `HoldEm` | `TransitionsNeverCollide` | "cannot set pending dealer state if one is already present" (`dealer_state.go:33-34`). `Action` looks whether one is pending and schedules later (`texasholdem_playable.go:66-83`), on a client's goroutine, while the loop's `Tick` does the same (`texasholdem_tickable.go:92`), and so does a second player's `Action`. |
| `LittleL` | `NobodyFoldsTooLate` | "endGame already called" and "too many players folded" are panics (`littlel.go:264-281`, `:401`). The pot manager's part of a fold passes the turn on before `didFold` is set, so that two players can fold at the same time and both count who is left. |
| `AceyDeucey` | `ContractAlwaysKept` | The results of the players and the pot add up, and no win takes more than there is. `SetBet` takes a bet below zero, since `bet % 25 > 0` is false of it (`round.go:177`); losing it takes chips out of the pot, which may end below zero. |
| `AceyDeucey` | `NeverPanics` | `SetAce` moves the state on before it sets the bit of the card (`round.go:408`, `:417-418`); a tick in between deals the last card on an ace nobody has called, which panics (`round.go:226-228`). |
| `Bourre` | `TradesReturn` | A trade-in that names a card twice is refused (`bourre.go:416-427`). The duplicates are looked for by pointer, of which a decoded message has two; `replaceDiscards` then panics on the run loop (`bourre.go:466-469`). |
| `SevenCardPanics` | `HandsCanBeShown` | The decision is never "on a player who folded" (`sevencard.go:232`). It is, between `didFold` (`sevencard_actions.go:13`) and the end of `advanceDecision`, while the run loop may broadcast. |

Smaller ones are exceptions that the properties state. Of two flushes the analyzer takes the first
that is complete, also with wild cards, of which it then takes two (eight cards, `hand_analyzer.go:105`, `:517`); a lone wild card
is worth nothing; and next to four of a kind a wild card that is left over
is not always an ace (`NaturalHandsAreRanked`, `WildHandsAreBestReplacements`). A pot is paid to the last whole chip:
`pot.amount / 25` drops the cents that make none (`pot_manager.go:413`), and nothing keeps them out, since a table
stake may be any amount from $5 to $100 (`dealer.go:482-490`); `PotsArePaidToTheChip` and what is said of whole hands count them
(`OddCents`). A client's goroutine that is late with the end of one game takes the next one off the table,
stops its ticker, and announces the end when it likes (`dealer.go:678`), the exceptions of `ResultsAreNotLost` and
`QuietScreensAreCurrent`; and when the players cannot be read nobody is sent anything (`dealer.go:264-268`), so
screens stay as they were (`missed`). PitBoss writes the
dealer's `clients` while the run loop may be walking it (`WritesClients` in `Dealer`), and a client
whose disconnection is served before its connection, at a table that has a dealer, is seated
after it has left and never removed.

## Proofs

What TLC finds on a small instance, these theorems say of every value of the constants. The
assumptions are those named `...Assumption` next to the constants, which TLC evaluates in every
run, and the hypotheses named below.

**Pot manager** (`PotsProofs`, `PokerProofs`), for every number of players, all stakes, antes and blinds:
`PMTypeOK`, `ChipsConserved`, `TurnIsOnSomebodyWhoMayAct`, `RoundEndsSettled`,
`SidePotsMatchContributions`, `PotsArePaidToTheChip` and `BestHandsWinTheirPots`. None is inductive
by itself. What the code relies on silently during a round is the invariant `Playing`, which is about the manager alone, whoever calls it:

* `BetsAddUp`: what `amountInPlay` counts are the bets in play, none above the amount to call;
* `PotIsOpen`: only the last pot has nobody all-in on it;
* `TurnsInOrder`, `MatchedBehind`: everybody between the start of the action and the turn
  has acted and has matched it, or cannot act;
* `AllInBefore`: who is all-in on a pot has nothing left;
* `Contested`, `BetIsHeld`: somebody is left to win every pot, and an open bet is held by the
  player whose turn started the action (or by a blind).

`PotsProofs` says what each operator of `Pots` returns and that each call keeps `Playing`: for
`calculatePot`, that the layers between consecutive all-in amounts telescope to what was in
play, and that every layer has somebody who may win it. Payment (`ThePotsArePaid`) goes over the pots:
each has a winner (`WinnersExist`), and quotient and odd chips for the first winners are the whole chips
of the pot, whatever the stakes and the chip; `OddCents` adds up what `pot.amount / 25` drops.

Where the side pots are cut (`SidePotsAreRight`) takes an invariant about the whole hand,
`SidePotsAreCut`: there is a level up to which the pots hold what everybody has put in; a pot
somebody is all-in on ends at his contribution, pots are in the order of those, and only the last one
can be open (`CutAt`); whoever can still bet is in up to the level, and nobody is in above it unless a
refund has left at most one player who could bet, and then no round opens for him
(`BettingIsOver`). Collecting bets on top of the level adds, up to any cap, the bets up to that cap
and leaves alone what could be won below (`BettingOnTop`), so that the layers of a round are cut
right (`LayersAreCut`) and a refund falls back to the cut below (`RefundCuts`).

That the best hands are paid what they are due (`BestHandsArePaid`), but for the cents of each pot that make no chip, needs the
stacks as well, `StacksAreRight`: who has not folded holds what he did not put in and what has been
given back to him, which is what he could win above the pots (`GivenBack`) and more than
nothing for one player at most; whoever is all-in with no bet in play is on the list of a pot or is that player. So,
when the winners are paid, everybody in the best group is in all the pots or on the list of one
(`InOrAllIn`). Payment passes down the list as long as some of the group stay in
(`Staying`), hence through the pot the deepest of them is all-in on, or through all pots
(`BestGroupsPots`; no pot with a list is empty, `CutPotsHoldChips`), and next groups share
nobody with the first (`FirstGroupWins`). Those pots hold what the deepest can win up to the level
of the pots (`CutAt`), and what the group got back is the rest (`GroupsRefunds`).

`SumProofs` establishes what the recursive
functions `Sum` and `Those` compute by a least-counterexample argument, since no induction rule can be
instantiated.

**Hold'em** (`PokerProofs`), for every table and every interleaving of the players' goroutines and the run loop:
`CollisionsAreRaces`, so that `setPendingDealerState` panics on nobody who was not in the middle of his action, or his
tick, when somebody else scheduled (`Calm`: a pending transition means the state is
`Waiting`, in which nobody begins anything; `Raced`: who still has to schedule when a state is pending
was overtaken); the types; `ShowdownAfterTheRiver`; and `OnlyUncollectedBetsAreLost`.
The invariant is `HandHolds`: the types, and `HInv` unless the hand is `Broken`, where two folds under way at
once have left nobody who can bet, and the second to end the hand will panic. `HInv` says that the hand meets the obligations of
the pot manager's callers: while a stage is played or waits for the next one the manager is
`Playing` (`HandIsPlayed`), the cards on the table are those of the stage
(`CommunityFitsTheStage`), blinds are posted by players who can pay them (`BlindsCanBePosted`), and a
stage is scheduled only when the round before is finished (`StagesAreReady`), also by a goroutine that
has looked and not scheduled yet (`ActorsFit`). A fold that cuts a
round leaves a winner to every collected pot (`FoldsAreSafe`); what was collected is then paid, and
`ChipsAreAccounted` carries the sum to the end. `NoneAssumption` says that "no transition" is none of
the stages.

**Little L** (`PokerProofs`), for two to ten players, every ante and all stakes, antes that take
somebody's last chip included, and folds and ticks at the same time: `LLTypeOK`, `EverybodyTradesFirst` and
`OnlyDesertedPotsAreLost`, cents that make no chip aside. Unlike Hold'em, a hand goes on when everybody who could still bet
has folded, and then `Playing` is false: a pot may have nobody left to win it. `LLInv` says

* `HandGoesOn`: until it is paid the hand is `InHand` with the chips everybody sat down with. It is
  `Playing`, or nobody can bet and there are no bets (`Frozen`), as after such a fold and when the ante takes all;
* `UnmatchedAhead`: without blinds, whoever the turn has not reached since the last raise is behind it. So when a
  fold leaves one player, no bet is open or the round is over (`BetsAreIn`), and `endGame` collects every bet
  (`FoldGoesOn`, `EndingCollects`); this is where Hold'em loses the bets of a round;
* `TradeInInTurn`: until the first bet nobody has folded, and who has traded are the seats before the turn;
* `HandIsSettled`: what is missing after the payment is at most what the deserted pots hold. The winners of each pot
  in reach are found before the list of groups ends, since groups that are all-in on lower pots
  only make way for the next (`PotsInReachArePaid`).

**Seven-Card** (`SevenCardProofs`), for every number of players up to a full table, every ante and set
of variants, and whatever the players send: `BreaksAreMushroomsOrRaces`, `NobodyOwes`,
`TheDeckLasts`, and that every step is a step of `Playable` (`KeepsTheContract`:
`Spec => Game!SafeSpec`). The invariant is a predicate on the hand, and the lemmas follow the
calls from the inside out (`SkipsTheFolded`, `EndGameKeeps`, `TriggerKeeps`, `DealUpKeeps`,
`NextRoundKeeps`, `AdvanceKeeps`, then one per action):

* `ChipsAddUp`: the pot is what the players have lost, until it is paid; with halves for the high
  spade and odd chips (`EndGamePays`), and antes given back only as long as the pot can pay
  (`ClippingsKeep`);
* `TurnIsAlive`, `OwersAreAsked`: when no action is under way, the decision is with somebody who has not
  folded, and whoever owes to the bet is asked from there on;
* `MushroomsFirst`, `TwoLeft`: antidotes, a crash, or fewer than two players in a hand that
  goes on come only after a mushroom was shown;
* `CardsCounted`: the fours that are drawn and those in the deck are four.

**Guts** (`RoomProofs`), for two to ten players (`NewGame`'s limits), every ante, maximum and
number of rounds: `OnlyTheBoldPay`, and that every step of Guts is a step of `Playable`
(`GutsKeepsTheContract`). The invariant `GInv` adds which dealer action can be pending in which
phase, that the player who faces the deck is one and was in, and that a new ante of everybody is due
only when nobody was in. The heart of it is a shared pot: the quotient for every winner
(`SumOfMembers`), and one odd chip for each of the first winners, which are as many as the remainder
(`SumOfFirst`), add up to the pot (`TheWinnersGetThePot`).

**Acey Deucey** (`AceyDeuceyProofs`), for any number of players, ranks in the deck, antes, amounts asked for
of either sign, and limits on games and rounds: `AcesAreCalled`,
`OfferedBetsAreAccepted`, and that every step is a step of `Playable` or leaves an overdrawn pot whose books
add up (`KeepsTheContract`). When the ante is in whole quarters and nobody has bet less than nothing, a bet is in
whole quarters and no more than the pot (`BetsAreCovered`), whatever `getMaxBet` and `getHalfPot` make of what is
left of it (`HalfPots`), so the pot stays in quarters and never falls below zero; otherwise
`BetsMayExceedThePot`, which every exception of a property asks for. A bet is only
asked for while there is a pot, because a game that follows was made with something left in it
(`GamesFollow`). The round's own pot and what its games adjust are the pot of the table until the round
is booked, and that is done once (`RoundsAreBooked`).

**Pass the Poop** (`PassThePoopProofs`), for any number of players, ante, lives, ranks, and all editions:
`TradesHaveAPartner`, `KingsAreKept`, `AcesCostOneLife` and the contract (`KeepsTheContract`), all whatever the players
send. A trade is without a partner only after the dealer has drawn over it (`unanswered`), which is how the
configuration `PoopTrade` gets there. The invariant says what is due when (`Due`), that whoever offers his card holds
no king and was passed no ace (`OffersAreGood`, `NoKingGoes`), and that the dead have decided
(`DeadHaveDecided`). The contract rests on two facts about the end of a round: the groups of the
lowest cards can be formed, for they are defined from the last group down and each takes players who were left
(`GroupsExist`); and somebody comes out of every round alive (`SomebodyLives`,
`SomebodyIsSafe`), since otherwise the pot would go to nobody.

**Bourré** (`BourreProofs`), for two to ten players, every ante and any number of games:
`EverybodyIsReportedOnce`, `OutMeansOut` and the contract (`KeepsTheContract`). Everybody is on one of
the two lists that the result is read from (`Reported`), also when the discards of those who fold are taken off the
list of players and the list of who decides at the same time; not all can fold (`SomebodyPlays`). A game is settled
with one player left or after the fifth trick, and then what the next game starts
with is the pot and more, or nothing (`Settled`): with a tie the pot is carried, with a boot it is
matched, so the losses of all games together are what lies on the table (`ChipsConserved`). `Typed` leaves out
the size of the deck, which nothing else depends on; TLC checks it (`TypeOK`).

**Dealer** (`RoomProofs`), for any clients, games, capacities and bounds: `TypeOK`,
`BalanceIsTheSumOfResults`, `EachFinderPaysOnce`, `ResultsAreNotLost` and
`QuietScreensAreCurrent`, with handlers as slow as they like. The invariants are built on each other:

* types (`TypesInv`), with who sits where, and that whoever is settling a game knows which;
* balances need nothing more: the adjustment and the result are one transaction, so this holds
  with stragglers and failing commits too;
* settlement (`Settling`): games are dealt in order (`DealtInOrder`), who settles has found his game over
  (`FindersAreCounted`), the loop ends the game that is on the table (`LoopEndsTheGameOnTheTable`), a game is
  taken off after it was paid (`UnsetAfterPaying`), and each of its payments has its finder or is
  the loop's (`PaymentsAreCounted`);
* screens (`Screening`): whatever was changed since a screen was drawn has its event in the channel, in the
  hands of the loop, or about to be sent by a thread (`SendersAreKnown`, `EndsComeFirst`,
  `NewcomersAreBlank`, `ScreensCatchUp`).

`SettledTwice` shows that `EachFinderPaysOnce` cannot be strengthened to one payment for each game.
`ResultsAreNotLost` supposes that `COMMIT` does not fail after all statements succeeded (`CommitLost`). `DealerAssumption` says that the names of the
loop's and PitBoss' threads are no clients.

**PitBoss** (`RoomProofs`), for every number of clients, tables and dealers: `SeatedClientsShareTheTablesDealer`
and `DealersOnShiftHaveClients`. `PBInv` adds that a client in the disconnect channel is closed
and that dealers of different tables differ and were created.

The assumptions are what the game factory and the constructors let through, or weaker.

Attempts that failed showed two things. `Contested` is false in Little L (see above):
`OnlyDesertedPotsAreLost` was first stated for a lone
survivor, which four players refute, and is now about all who are left. And a Seven-Card hand that a
flipped mushroom has stranded does not owe anything either, so `NobodyOwes` excepts nothing.

Only model-checked: liveness (fairness and ENABLED are out of the prover's reach), so also the part
`Comes` of the contract and `NeverHangs`; the size of Bourré's deck; and `Rules`, whose operators are recursive
or compare bounded inputs: what the analyzer finds is an enumeration of hands, not an argument about states.

## Not modelled

* Player accounts and tokens (`pkg/model/player.go`, `pkg/token`), table and seat rows
  (`table.go`, `player_table.go`), database access: rows read and written by single
  statements. What concurrent requests see depends on the isolation of the database, which the source
  does not fix; a model would show the model's own choice.
* HTTP handlers, JWT, email, configuration, random numbers, commands, migrations: I/O,
  parsing, cryptography or start-up without state of their own. The game factory is a table from
  names to constructors.
* Which cards a Seven-Card variant marks as wild, the order of the hands of Guts, and which
  of Little L's hands is best: in those models who wins is an arbitrary choice. The shuffle is
  random, so a drawn card is one too.
* Messages of the game log, JSON views of a game, and the permissions of an administrator.
* A full send buffer of a client (`client.go:43`), and a player with two connections to one table.
* Finer interleavings than the modules name: inside a method of the pot manager, inside
  `setPendingDealerState`, of two actions of Seven-Card, and of the two statements that pass an ace at Pass the Poop.

## What is left

Models: `Dealer` and `PitBoss` composed, and actions of two Seven-Card players that overlap. Proofs: that Little L pays the best hands
what they are due, as `BestHandsWinTheirPots` says of the pot manager when it is used as in Hold'em.
