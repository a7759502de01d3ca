------------------------------- MODULE Dealer -------------------------------
(***************************************************************************)
(* One room.Dealer (pkg/room/dealer.go): the run loop of a table, the      *)
(* goroutines of its web clients, the PitBoss goroutine that seats and     *)
(* removes clients, the game on the table, and the database rows a         *)
(* finished game is settled in.                                            *)
(*                                                                         *)
(* Every goroutine is a thread with a program counter.  What one thread    *)
(* does between two of its shared reads or writes is one action, so a      *)
(* thread may be overtaken wherever the code can be.  A send on a channel  *)
(* blocks while the channel is full: the events a thread still has to send *)
(* are thr[t].push, and it does nothing else until they are sent.          *)
(*                                                                         *)
(* The game is the contract of playable.Playable that the dealer relies    *)
(* on: an action or a tick may change what players see, the last decision  *)
(* makes the game close down, and some seconds later a tick marks it over. *)
(***************************************************************************)
EXTENDS Integers, Sequences, FiniteSets, FiniteSetsExt, SequencesExt, Sums

CONSTANTS Clients,      \* the web clients
          None,         \* no game, no client
          Win,          \* what game g pays the player whose row is modelled
          MaxMessages,  \* bound: messages the clients send
          MaxLeaves,    \* bound: clients that leave
          MaxFailures,  \* bound: statements the database refuses
          MaxTicks,     \* bound: visible changes of a game made by Tick
          StateCap,     \* capacity of Dealer.stateChanged (256 in the code)
          ExecCap,      \* capacity of Dealer.execInRunLoop (256 in the code)
          Requests,     \* the dealer messages clients send in this instance
          CommitsCanFail \* COMMIT itself may fail

Games == DOMAIN Win     \* games are numbered in the order they are dealt

Loop    == "run loop"
PitBoss == "pit boss"
Threads == Clients \cup {Loop, PitBoss}

ASSUME DealerAssumption ==
    /\ None \notin Clients \cup Games
    /\ {Loop, PitBoss} \cap Clients = {}
    /\ IsFiniteSet(Clients) /\ Win \in Seq(Int)
    /\ {MaxMessages, MaxLeaves, MaxFailures, MaxTicks} \subseteq Nat
    /\ {StateCap, ExecCap} \subseteq Nat \ {0}
    /\ Requests \subseteq {"createGame", "cancelGame", "terminateGame", "admin"}
    /\ CommitsCanFail \in BOOLEAN

VARIABLES
    clients,        \* d.clients
    game,           \* d.game
    ticker,         \* d.ticker # nil
    pendingGame,    \* d.pendingGame # nil
    stateChanged,   \* the queued events
    execInRunLoop,  \* the queued functions
    closed,         \* d.close is closed
    thr,            \* the threads: [at, game, read, push]
    joining,        \* the client PitBoss is seating
    status,         \* per game: "undealt", "playing", "closing" or "over"
    version,        \* per game: how often what players see has changed
    found,          \* history, per game: the messages whose handler found it over
    screen,         \* what each client was last sent
    balance,        \* the player's balance in players_tables
    seats,          \* how often a players_tables row was saved otherwise
    settled,        \* per game: how often its result was committed
    crashed,        \* the process is gone
    used            \* what is used up of the bounds

dealerVars == <<clients, game, ticker, pendingGame, closed>>
chanVars   == <<stateChanged, execInRunLoop>>
gameVars   == <<status, version, found>>
dbVars     == <<balance, seats, settled>>
vars == <<dealerVars, chanVars, thr, joining, gameVars, screen, dbVars,
          crashed, used>>

Events == {"clientEvent", "gameEvent", "gameEnded", "gameScheduled"}

Idle(t) == thr[t].at = "idle" /\ thr[t].push = <<>>
At(t, where) == thr[t].at = where /\ thr[t].push = <<>>

\* A screen's `missed' is a history: when the players were sent last, they
\* could not be read.

\* Thread t goes on at `where', once it has sent `events'; Rests: it is done.
Goes(t, where, events) ==
    thr' = [thr EXCEPT ![t].at = where, ![t].push = events]
Rests(t, events) ==
    thr' = [thr EXCEPT ![t] = [at |-> "idle", game |-> None, read |-> 0,
                               push |-> events]]

Uses(what) == used' = [used EXCEPT ![what] = @ + 1]

Undealt == {g \in Games : status[g] = "undealt"}

Blank == [game |-> None, version |-> 0, scheduled |-> FALSE,
          players |-> {}, table |-> <<0, 0>>, missed |-> FALSE]

Init ==
    /\ clients = {} /\ game = None /\ ticker = FALSE /\ pendingGame = FALSE
    /\ closed = FALSE
    /\ stateChanged = <<>> /\ execInRunLoop = <<>>
    /\ thr = [t \in Threads |->
                [at |-> IF t \in Clients THEN "new" ELSE "idle",
                 game |-> None, read |-> 0, push |-> <<>>]]
    /\ joining = None
    /\ status = [g \in Games |-> "undealt"]
    /\ version = [g \in Games |-> 0] /\ found = [g \in Games |-> 0]
    /\ screen = [c \in Clients |-> Blank]
    /\ balance = 0 /\ seats = 0 /\ settled = [g \in Games |-> 0]
    /\ crashed = FALSE
    /\ used = [messages |-> 0, leaves |-> 0, failures |-> 0, ticks |-> 0]

-----------------------------------------------------------------------------
(* Channels.                                                               *)

Push(t) ==
    /\ thr[t].push # <<>>
    /\ Len(stateChanged) < StateCap
    /\ stateChanged' = Append(stateChanged, Head(thr[t].push))
    /\ thr' = [thr EXCEPT ![t].push = Tail(@)]
    /\ UNCHANGED <<dealerVars, execInRunLoop, joining, gameVars, screen,
                   dbVars, crashed, used>>

Enqueue(kind, c) ==
    /\ Len(execInRunLoop) < ExecCap
    /\ execInRunLoop' = Append(execInRunLoop, [kind |-> kind, client |-> c])

-----------------------------------------------------------------------------
(* Broadcasts.  Each walks d.clients; a write to that map by PitBoss       *)
(* during the walk is a data race that the Go runtime may end the process  *)
(* for.                                                                    *)

Broadcasting == thr[Loop].at \in {"sendGame", "sendPlayers", "sendEnded",
                                  "sendScheduled", "tickSend"}

Shows(change(_)) ==
    screen' = [c \in Clients |-> IF c \in clients THEN change(screen[c])
                                                  ELSE screen[c]]

\* sendGameData: a nil game is logged and then used.
sendGameData(where, next) ==
    /\ At(Loop, where)
    /\ IF game = None /\ clients # {}
       THEN crashed' = TRUE /\ UNCHANGED <<screen, thr>>
       ELSE /\ Shows(LAMBDA s : [s EXCEPT !.game = game,
                                          !.version = version[game]])
            /\ Goes(Loop, next, <<>>)
            /\ UNCHANGED crashed
    /\ UNCHANGED <<dealerVars, chanVars, joining, gameVars, dbVars, used>>

\* The players are read from the database; when it refuses, nobody is sent
\* anything.
sendPlayerData ==
    /\ At(Loop, "sendPlayers")
    /\ \/ /\ Shows(LAMBDA s : [s EXCEPT !.players = clients, !.missed = FALSE,
                                        !.table = <<seats, balance>>])
          /\ UNCHANGED used
       \/ /\ used.failures < MaxFailures /\ Uses("failures")
          /\ Shows(LAMBDA s : [s EXCEPT !.missed = TRUE])
    /\ Rests(Loop, <<>>)
    /\ UNCHANGED <<dealerVars, chanVars, joining, gameVars, dbVars, crashed>>

sendGameEnded ==
    /\ At(Loop, "sendEnded")
    /\ Shows(LAMBDA s : [s EXCEPT !.game = None, !.version = 0])
    /\ Goes(Loop, "sendPlayers", <<>>)
    /\ UNCHANGED <<dealerVars, chanVars, joining, gameVars, dbVars, crashed,
                   used>>

sendGameScheduled ==
    /\ At(Loop, "sendScheduled")
    /\ Shows(LAMBDA s : [s EXCEPT !.scheduled = pendingGame])
    /\ Rests(Loop, <<>>)
    /\ UNCHANGED <<dealerVars, chanVars, joining, gameVars, dbVars, crashed,
                   used>>

-----------------------------------------------------------------------------
(* PitBoss seats and removes clients on its own goroutine.                 *)

\* d.clients is written: if the run loop is walking it, the runtime may throw.
WritesClients == IF Broadcasting THEN crashed' \in BOOLEAN ELSE UNCHANGED crashed

AddClient(c) ==
    /\ Idle(PitBoss) /\ ~closed /\ thr[c].at = "new"
    /\ clients' = clients \cup {c}
    /\ joining' = c
    /\ thr' = [thr EXCEPT ![c].at = "idle", ![PitBoss].at = "greet",
                          ![PitBoss].push = <<"clientEvent">>]
    /\ WritesClients
    /\ UNCHANGED <<game, ticker, pendingGame, closed, chanVars, gameVars,
                   screen, dbVars, used>>

\* The rest of AddClient: the function that sends the newcomer the state.
GreetClient ==
    /\ At(PitBoss, "greet")
    /\ Enqueue("greet", joining)
    /\ joining' = None
    /\ Rests(PitBoss, <<>>)
    /\ UNCHANGED <<dealerVars, stateChanged, gameVars, screen, dbVars, crashed,
                   used>>

\* RemoveClient, and EndShift when it was the last one.  A client is removed
\* only after its own goroutine has left its read loop.
RemoveClient(c) ==
    /\ Idle(PitBoss) /\ Idle(c) /\ used.leaves < MaxLeaves
    /\ clients' = clients \ {c}
    /\ closed' = (clients' = {})
    /\ thr' = [thr EXCEPT ![c].at = "gone", ![PitBoss].push =
                             IF clients' = {} THEN <<>> ELSE <<"clientEvent">>]
    /\ WritesClients /\ Uses("leaves")
    /\ UNCHANGED <<game, ticker, pendingGame, chanVars, joining, gameVars,
                   screen, dbVars>>

-----------------------------------------------------------------------------
(* Client goroutines: ReceivedMessage.                                     *)

\* cancelGame, createGame, terminateGame and the three seat messages (admin)
\* only queue a function; a client without the permission queues nothing.
Ask(c, kind) ==
    /\ Idle(c) /\ used.messages < MaxMessages
    /\ Enqueue(kind, c)
    /\ Uses("messages")
    /\ UNCHANGED <<dealerVars, stateChanged, thr, joining, gameVars, screen,
                   dbVars, crashed>>

\* Any other message goes to the game, on the client's goroutine.
Act(c) ==
    /\ Idle(c) /\ used.messages < MaxMessages
    /\ game # None /\ status[game] = "playing"
    /\ \E next \in {"playing", "closing"} :
          status' = [status EXCEPT ![game] = next]
    /\ version' = [version EXCEPT ![game] = @ + 1]
    /\ thr' = [thr EXCEPT ![c].at = "isOver", ![c].game = game,
                          ![c].push = <<"gameEvent">>]
    /\ Uses("messages")
    /\ UNCHANGED <<dealerVars, chanVars, joining, found, screen, dbVars,
                   crashed>>

\* The rest of the handler: a tick may have ended the game meanwhile.
IsOver(c) ==
    /\ At(c, "isOver")
    /\ IF status[thr[c].game] = "over"
       THEN /\ Goes(c, "record", <<>>)
            /\ found' = [found EXCEPT ![thr[c].game] = @ + 1]
       ELSE Rests(c, <<>>) /\ UNCHANGED found
    /\ UNCHANGED <<dealerVars, chanVars, joining, status, version, screen,
                   dbVars, crashed, used>>

-----------------------------------------------------------------------------
(* endGame, by whichever thread t found the game thr[t].game over.         *)

\* The database refuses a statement: endGame returns the error.
Fails(t) ==
    /\ used.failures < MaxFailures
    /\ Uses("failures")
    /\ Rests(t, <<>>)
    /\ UNCHANGED dbVars

\* table.CreateGame inserts the game's row, and EndGame reads the balances
\* before it opens its transaction.
RecordGame(t) ==
    /\ At(t, "record")
    /\ \/ Fails(t)
       \/ /\ thr' = [thr EXCEPT ![t].at = "save", ![t].read = balance]
          /\ UNCHANGED <<dbVars, used>>
    /\ UNCHANGED <<dealerVars, chanVars, joining, gameVars, screen, crashed>>

\* mutant: adjust_balance without the comparison with the current balance
AdjustBlindly(t) == balance' = thr[t].read + Win[thr[t].game]

\* adjust_balance raises 'balance has changed' unless it is the one read.
AdjustBalance(t) ==
    /\ thr[t].read = balance
    /\ balance' = balance + Win[thr[t].game]

\* mutant: an error of EndGame is ignored
SaveResultOrNot(t) ==
    /\ At(t, "save")
    /\ \/ /\ used.failures < MaxFailures /\ Uses("failures")
          /\ Goes(t, "unset", <<>>) /\ UNCHANGED dbVars
       \/ /\ AdjustBalance(t)
          /\ settled' = [settled EXCEPT ![thr[t].game] = @ + 1]
          /\ Goes(t, "unset", <<>>) /\ UNCHANGED <<seats, used>>
    /\ UNCHANGED <<dealerVars, chanVars, joining, gameVars, screen, crashed>>

\* The transaction: all rows adjusted and committed, or an error, or a COMMIT
\* that fails, which EndGame only logs.
SaveResult(t) ==
    /\ At(t, "save")
    /\ \/ Fails(t)
       \/ /\ thr[t].read # balance
          /\ Rests(t, <<>>) /\ UNCHANGED <<dbVars, used>>
       \/ /\ AdjustBalance(t)
          /\ settled' = [settled EXCEPT ![thr[t].game] = @ + 1]
          /\ Goes(t, "unset", <<>>) /\ UNCHANGED <<seats, used>>
       \/ /\ CommitsCanFail /\ used.failures < MaxFailures
          /\ Uses("failures")
          /\ Goes(t, "unset", <<>>) /\ UNCHANGED dbVars
    /\ UNCHANGED <<dealerVars, chanVars, joining, gameVars, screen, crashed>>

\* mutant: endGame forgets to call unsetGame
UnsetNothing(t) ==
    /\ At(t, "unset")
    /\ Rests(t, <<"gameEnded">>)
    /\ UNCHANGED <<dealerVars, chanVars, joining, gameVars, screen, dbVars,
                   crashed, used>>

UnsetGame(t) ==
    /\ At(t, "unset")
    /\ game' = None /\ ticker' = FALSE
    /\ Rests(t, <<"gameEnded">>)
    /\ UNCHANGED <<clients, pendingGame, closed, chanVars, joining, gameVars,
                   screen, dbVars, crashed, used>>

EndGame(t) == RecordGame(t) \/ SaveResult(t) \/ UnsetGame(t)

-----------------------------------------------------------------------------
(* The run loop: one action per case of its select.                        *)

\* mutant: the run loop looks for the end only after a tick that changed the game
TickOfChanges(g) ==
    \/ UNCHANGED <<gameVars, used>> /\ Rests(Loop, <<>>)
    \/ /\ status[g] = "closing"
       /\ status' = [status EXCEPT ![g] = "over"]
       /\ version' = [version EXCEPT ![g] = @ + 1]
       /\ Goes(Loop, "tickSend", <<>>) /\ UNCHANGED <<found, used>>

\* A tick of a game that is being played or is closing down.  A closing game
\* is over some seconds after its last decision, which may be before the
\* handler of that decision has looked.
TickOf(g) ==
    \/ UNCHANGED <<gameVars, used>> /\ Goes(Loop, "tickOver", <<>>)
    \/ /\ status[g] = "playing" /\ used.ticks < MaxTicks
       /\ \E next \in {"playing", "closing"} :
             status' = [status EXCEPT ![g] = next]
       /\ version' = [version EXCEPT ![g] = @ + 1]
       /\ Uses("ticks") /\ Goes(Loop, "tickSend", <<>>) /\ UNCHANGED found
    \/ /\ status[g] = "closing"
       /\ status' = [status EXCEPT ![g] = "over"]
       /\ \/ /\ version' = [version EXCEPT ![g] = @ + 1]
             /\ Goes(Loop, "tickSend", <<>>)
          \/ UNCHANGED version /\ Goes(Loop, "tickOver", <<>>)
       /\ UNCHANGED <<found, used>>

LoopTicks ==
    /\ Idle(Loop) /\ ticker /\ game # None
    /\ TickOf(game)
    /\ UNCHANGED <<dealerVars, chanVars, joining, screen, dbVars, crashed>>

\* d.game is read again: nil if a client's goroutine took it off meanwhile.
TickIsOver ==
    /\ At(Loop, "tickOver")
    /\ IF game = None
       THEN crashed' = TRUE /\ UNCHANGED thr
       ELSE /\ thr' = IF status[game] = "over"
                      THEN [thr EXCEPT ![Loop].at = "record",
                                       ![Loop].game = game]
                      ELSE [thr EXCEPT ![Loop].at = "idle"]
            /\ UNCHANGED crashed
    /\ UNCHANGED <<dealerVars, chanVars, joining, gameVars, screen, dbVars, used>>

\* The pending game's timer: createGame deals the game, or tells the client
\* who asked for it why it cannot.
LoopDeals ==
    /\ Idle(Loop) /\ pendingGame
    /\ pendingGame' = FALSE
    /\ \/ /\ Undealt # {}
          /\ game' = Min(Undealt) /\ ticker' = TRUE
          /\ status' = [status EXCEPT ![game'] = "playing"]
          /\ Rests(Loop, <<"gameEvent">>)
       \/ UNCHANGED <<game, ticker, status, thr>>
    /\ UNCHANGED <<clients, closed, chanVars, joining, version, found, screen,
                   dbVars, crashed, used>>

LoopTakesEvent ==
    /\ Idle(Loop) /\ stateChanged # <<>>
    /\ stateChanged' = Tail(stateChanged)
    /\ Goes(Loop, CASE Head(stateChanged) = "clientEvent"   -> "sendPlayers"
                    [] Head(stateChanged) = "gameEvent"     -> "sendGame"
                    [] Head(stateChanged) = "gameEnded"     -> "sendEnded"
                    [] Head(stateChanged) = "gameScheduled" -> "sendScheduled",
             <<>>)
    /\ UNCHANGED <<dealerVars, execInRunLoop, joining, gameVars, screen,
                   dbVars, crashed, used>>

LoopCloses ==
    /\ Idle(Loop) /\ closed
    /\ Goes(Loop, "ended", <<>>)
    /\ UNCHANGED <<dealerVars, chanVars, joining, gameVars, screen, dbVars,
                   crashed, used>>

\* The functions other threads queue; f is the one taken from the channel.
ScheduleGame ==
    /\ \/ /\ ~pendingGame
          /\ pendingGame' = TRUE /\ Rests(Loop, <<"gameScheduled">>)
       \/ UNCHANGED <<pendingGame, thr>>
    /\ UNCHANGED <<game, ticker, screen, seats>>

CancelGame ==
    /\ pendingGame' = FALSE
    /\ Rests(Loop, IF pendingGame THEN <<"gameScheduled">> ELSE <<>>)
    /\ UNCHANGED <<game, ticker, screen, seats>>

TerminateGame ==
    /\ game' = None /\ ticker' = FALSE
    /\ Rests(Loop, <<"gameEnded">>)
    /\ UNCHANGED <<pendingGame, screen, seats>>

SaveSeat ==
    /\ \/ seats' = seats + 1 /\ Rests(Loop, <<"clientEvent">>)
       \/ UNCHANGED <<seats, thr>>
    /\ UNCHANGED <<game, ticker, pendingGame, screen>>

\* mutant: a newcomer is told of the scheduled game only
GreetWithoutGame(c) ==
    /\ screen' = [screen EXCEPT ![c].scheduled = pendingGame \/ @]
    /\ UNCHANGED <<game, ticker, pendingGame, thr, seats>>

Greet(c) ==
    /\ screen' = [screen EXCEPT ![c].scheduled = pendingGame \/ @,
                                ![c].game = IF game = None THEN @ ELSE game,
                                ![c].version =
                                   IF game = None THEN @ ELSE version[game]]
    /\ UNCHANGED <<game, ticker, pendingGame, thr, seats>>

LoopRuns ==
    /\ Idle(Loop) /\ execInRunLoop # <<>>
    /\ execInRunLoop' = Tail(execInRunLoop)
    /\ LET f == Head(execInRunLoop)
       IN  \/ f.kind = "createGame" /\ ScheduleGame
           \/ f.kind = "cancelGame" /\ CancelGame
           \/ f.kind = "terminateGame" /\ TerminateGame
           \/ f.kind = "admin" /\ SaveSeat
           \/ f.kind = "greet" /\ Greet(f.client)
    /\ UNCHANGED <<clients, closed, stateChanged, joining, gameVars, balance,
                   settled, crashed, used>>

RunLoop == /\ ~crashed
           /\ \/ LoopTicks \/ TickIsOver \/ LoopDeals \/ LoopTakesEvent
              \/ LoopRuns \/ LoopCloses
              \/ sendGameData("tickSend", "tickOver")
              \/ sendGameData("sendGame", "idle")
              \/ sendPlayerData \/ sendGameEnded \/ sendGameScheduled
              \/ EndGame(Loop) \/ Push(Loop)

\* What PitBoss and a client's goroutine do once they have begun something.
PitBossGoesOn == ~crashed /\ (GreetClient \/ Push(PitBoss))
ClientGoesOn(c) == ~crashed /\ (IsOver(c) \/ EndGame(c) \/ Push(c))

PitBossRuns == \/ ~crashed /\ \E c \in Clients : AddClient(c) \/ RemoveClient(c)
               \/ PitBossGoesOn

ClientRuns(c) == \/ ~crashed /\ \E kind \in Requests : Ask(c, kind)
                 \/ ~crashed /\ Act(c)
                 \/ ClientGoesOn(c)

Next == RunLoop \/ PitBossRuns \/ \E c \in Clients : ClientRuns(c)

\* No goroutine rests while it can go on, and the run loop's select picks at
\* random among the cases that are ready, so a case that is ready again and
\* again is picked.  Nothing makes a client say or do anything.
Fairness == /\ WF_vars(RunLoop)
            /\ SF_vars(LoopTicks) /\ SF_vars(LoopTakesEvent) /\ SF_vars(LoopRuns)
            /\ WF_vars(PitBossGoesOn) /\ \A c \in Clients : WF_vars(ClientGoesOn(c))

Spec == Init /\ [][Next]_vars
FairSpec == Spec /\ Fairness

-----------------------------------------------------------------------------
Places == {"new", "idle", "gone", "ended", "greet", "isOver", "tickSend",
           "tickOver", "sendGame", "sendPlayers", "sendEnded", "sendScheduled",
           "record", "save", "unset"}

\* The type of every variable; the channels never hold more than they can.
TypeOK ==
    /\ clients \subseteq Clients /\ game \in Games \cup {None}
    /\ {ticker, pendingGame, closed, crashed} \subseteq BOOLEAN
    /\ stateChanged \in Seq(Events) /\ Len(stateChanged) <= StateCap
    /\ execInRunLoop \in Seq([kind : Requests \cup {"greet"}, client : Clients])
    /\ Len(execInRunLoop) <= ExecCap
    /\ thr \in [Threads -> [at : Places, game : Games \cup {None}, read : Int,
                            push : {<<>>} \cup {<<e>> : e \in Events}]]
    /\ joining \in Clients \cup {None}
    /\ status \in [Games -> {"undealt", "playing", "closing", "over"}]
    /\ {version, found, settled} \subseteq [Games -> Nat]
    /\ screen \in [Clients -> [game : Games \cup {None}, version : Nat,
                               scheduled : BOOLEAN, players : SUBSET Clients,
                               table : Nat \X Int, missed : BOOLEAN]]
    /\ balance \in Int /\ seats \in Nat
    /\ used \in [{"messages", "leaves", "failures", "ticks"} -> Nat]

\* Every committed result is in the balance exactly as often as it was
\* committed, whoever settles what at the same time (adjust_balance).
BalanceIsTheSumOfResults ==
    balance = Sum([i \in 0 .. Len(Win) - 1 |-> settled[i + 1] * Win[i + 1]],
                  Len(Win))

\* The run loop pays a game at most once, however often it retries, and so
\* does each message whose handler finds the game over (endGame is called from
\* both; nothing else keeps them from paying the same game: SettledTwice.cfg).
EachFinderPaysOnce == \A g \in Games : settled[g] <= 1 + found[g]

\* One endGame per game (dealer.go has no other place that pays).
GamesAreSettledOnce == \A g \in Games : settled[g] <= 1

\* A game leaves the table only when its result is in the database, when a
\* client terminates it, when a new game replaces it, or when a client's
\* goroutine comes to the end of an earlier game's endGame only now.
ResultsAreNotLost ==
    [][game # None /\ game' # game =>
         \/ settled[game] > 0
         \/ Undealt' # Undealt
         \/ \E c \in Clients : UnsetGame(c) /\ thr[c].game # game
         \/ /\ execInRunLoop # <<>> /\ execInRunLoop' = Tail(execInRunLoop)
            /\ Head(execInRunLoop).kind = "terminateGame"]_vars

\* A message found a game over that is not the last one dealt: its handler
\* announces the end of it when the next one may be on the table.
EndsAnotherGame ==
    \E g, h \in Games : g < h /\ found[g] > 0 /\ status[h] # "undealt"

\* When every message has been handled, each client's screen shows the game on
\* the table as it is now (or none), unless a message ended an earlier one; who
\* is connected and the table's rows, unless they could not be read when they
\* were due; and the game that is scheduled if there is one.
QuietScreensAreCurrent ==
    (/\ stateChanged = <<>> /\ execInRunLoop = <<>> /\ ~crashed
     /\ \A t \in Threads : thr[t].at \in {"new", "idle", "gone"}
                           /\ thr[t].push = <<>>) =>
    \A c \in clients :
        /\ game = None => screen[c].game = None
        /\ game # None /\ ~ EndsAnotherGame =>
              screen[c].game = game /\ screen[c].version = version[game]
        /\ ~ screen[c].missed =>
              screen[c].players = clients /\ screen[c].table = <<seats, balance>>
        /\ pendingGame => screen[c].scheduled

\* A game that is over leaves the table, whatever the database refuses now and
\* then: the ticker retries endGame.
FinishedGamesLeave ==
    \A g \in Games :
        (game = g /\ status[g] = "over") ~> (game # g \/ crashed \/ closed)

\* "should not happen" (dealer.go:212): the run loop sends game data when there
\* is no game.
GameEventsFindAGame == thr[Loop].at = "sendGame" => game # None

\* After an EndGame that returned no error the result is in the balance
\* (pkg/model/game_test.go:22-26).
EndedGamesAreSaved ==
    \A t \in Threads : thr[t].at = "unset" => settled[thr[t].game] > 0

\* AddClient and RemoveClient "must return quickly" (dealer.go:147, 182):
\* PitBoss, which serves every table, is not held up by one dealer.
PitBossIsNotHeldUp == ~Idle(PitBoss) ~> (Idle(PitBoss) \/ crashed)
=============================================================================
