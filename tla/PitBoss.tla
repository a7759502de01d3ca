------------------------------ MODULE PitBoss -------------------------------
(***************************************************************************)
(* room.PitBoss (pkg/room/pitboss.go): web clients announce themselves on  *)
(* one channel and take their leave on another; the run loop serves both,  *)
(* in whatever order its select picks, and keeps one dealer per table that *)
(* somebody sits at.  Each web client is one room.Client: it connects once *)
(* and leaves at most once (getTableUUIDWS in internal/mux/table_ws.go).   *)
(* What a dealer does with its clients is module Dealer; here it is the    *)
(* set Dealer.clients and whether its shift has ended.                     *)
(***************************************************************************)
EXTENDS Naturals, Sequences, FiniteSets

CONSTANTS WebClients, Tables,
          TableOf,      \* the table each client asked for
          MaxDealers,   \* bound: dealers that are ever created
          ChanCap       \* capacity of the two channels (256 in the code)

ASSUME PitBossAssumption ==
    /\ TableOf \in [WebClients -> Tables]
    /\ MaxDealers \in Nat /\ ChanCap \in Nat \ {0}

VARIABLES
    web,         \* per client: "new", "open" or "closed"
    connect,     \* PitBoss.connect
    disconnect,  \* PitBoss.disconnect
    dealers,     \* PitBoss.dealers: the dealer of a table, 0 if it has none
    created,     \* dealers created so far; they are numbered from 1
    clientsOf,   \* Dealer.clients of each dealer
    onShift,     \* the dealers whose shift has not ended
    dealer,      \* Client.dealer, 0 before AddClient
    listening    \* the run loop has not returned

pbVars == <<web, connect, disconnect, dealers, created, clientsOf, onShift, dealer,
          listening>>

Dealers == 1..MaxDealers

PBInit ==
    /\ web = [c \in WebClients |-> "new"]
    /\ connect = <<>> /\ disconnect = <<>>
    /\ dealers = [t \in Tables |-> 0]
    /\ created = 0
    /\ clientsOf = [d \in Dealers |-> {}]
    /\ onShift = {}
    /\ dealer = [c \in WebClients |-> 0]
    /\ listening = TRUE

-----------------------------------------------------------------------------
(* The web server's goroutine of a client.                                 *)

ClientConnected(c) ==
    /\ web[c] = "new" /\ Len(connect) < ChanCap
    /\ web' = [web EXCEPT ![c] = "open"]
    /\ connect' = Append(connect, c)
    /\ UNCHANGED <<disconnect, dealers, created, clientsOf, onShift, dealer,
                   listening>>

\* The read loop ended: the client went away, or its messages made no sense.
ClientDisconnected(c) ==
    /\ web[c] = "open" /\ Len(disconnect) < ChanCap
    /\ web' = [web EXCEPT ![c] = "closed"]
    /\ disconnect' = Append(disconnect, c)
    /\ UNCHANGED <<connect, dealers, created, clientsOf, onShift, dealer,
                   listening>>

-----------------------------------------------------------------------------
(* The run loop.                                                           *)

\* mutant: a table's dealer is not looked up
AlwaysANewDealer(t) ==
    /\ created < MaxDealers
    /\ created' = created + 1
    /\ onShift' = onShift \cup {created'}
    /\ dealers' = [dealers EXCEPT ![t] = created']

\* The table's dealer, or a new one that starts its shift.
DealerFor(t) ==
    \/ /\ dealers[t] # 0
       /\ UNCHANGED <<dealers, created, onShift>>
    \/ /\ dealers[t] = 0 /\ created < MaxDealers
       /\ created' = created + 1
       /\ onShift' = onShift \cup {created'}
       /\ dealers' = [dealers EXCEPT ![t] = created']

Connect ==
    /\ listening /\ connect # <<>>
    /\ LET c == Head(connect)
           t == TableOf[c]
       IN  /\ DealerFor(t)
           /\ dealer' = [dealer EXCEPT ![c] = dealers'[t]]
           /\ clientsOf' = [clientsOf EXCEPT ![dealers'[t]] = @ \cup {c}]
    /\ connect' = Tail(connect)
    /\ UNCHANGED <<web, disconnect, listening>>

\* mutant: the shift ends while one client is left
EndsShiftEarly(d, c) == Cardinality(clientsOf[d] \ {c}) <= 1

\* RemoveClient(c) says whether it was dealer d's last client.
LastClient(d, c) == clientsOf[d] \ {c} = {}

\* A table nobody deals at ends the run loop.
Disconnect ==
    /\ listening /\ disconnect # <<>>
    /\ disconnect' = Tail(disconnect)
    /\ LET c == Head(disconnect)
           t == TableOf[c]
           d == dealers[t]
       IN  \/ /\ d = 0
              /\ listening' = FALSE
              /\ UNCHANGED <<clientsOf, dealers, onShift>>
           \/ /\ d # 0
              /\ clientsOf' = [clientsOf EXCEPT ![d] = @ \ {c}]
              /\ IF LastClient(d, c)
                 THEN /\ onShift' = onShift \ {d}
                      /\ dealers' = [dealers EXCEPT ![t] = 0]
                 ELSE UNCHANGED <<onShift, dealers>>
              /\ UNCHANGED listening
    /\ UNCHANGED <<web, connect, created, dealer>>

PBNext == \/ \E c \in WebClients : ClientConnected(c) \/ ClientDisconnected(c)
          \/ Connect \/ Disconnect

PBSpec == PBInit /\ [][PBNext]_pbVars

-----------------------------------------------------------------------------
\* The type of every variable; the channels never hold more than they can.
PBTypeOK ==
    /\ web \in [WebClients -> {"new", "open", "closed"}]
    /\ connect \in Seq(WebClients) /\ Len(connect) <= ChanCap
    /\ disconnect \in Seq(WebClients) /\ Len(disconnect) <= ChanCap
    /\ dealers \in [Tables -> 0..MaxDealers]
    /\ created \in 0..MaxDealers
    /\ clientsOf \in [Dealers -> SUBSET WebClients]
    /\ onShift \subseteq 1..created
    /\ dealer \in [WebClients -> 0..MaxDealers]
    /\ listening \in BOOLEAN

\* A client that was seated and has not left is at the dealer of its table,
\* with everybody else at that table, and that dealer is on shift.
SeatedClientsShareTheTablesDealer ==
    \A c \in WebClients :
        web[c] = "open" /\ dealer[c] # 0 =>
            /\ dealer[c] = dealers[TableOf[c]]
            /\ dealer[c] \in onShift
            /\ c \in clientsOf[dealer[c]]

\* The dealers on shift are those of the tables, and each has a client: no
\* dealer goes on dealing to an empty room.
DealersOnShiftHaveClients ==
    /\ onShift = {dealers[t] : t \in Tables} \ {0}
    /\ \A d \in onShift : clientsOf[d] # {}

\* PitBoss "listens for client connections and disconnections"
\* (architecture.md:71), for as long as the server runs.
KeepsListening == listening
=============================================================================
