----------------------------- MODULE RoomProofs -----------------------------
(***************************************************************************)
(* What runs on several goroutines proved, in three parts:                 *)
(*   - PitBoss.tla: it keeps clients of a table together and dealers on    *)
(*     shift only while they have clients, for every set of clients and    *)
(*     tables, whatever order the two channels are served in;              *)
(*   - Dealer.tla: what its runs show of one or two clients and two games, *)
(*     for any clients, any number of games and any bounds;                *)
(*   - Guts.tla: its types, who pays, and that it keeps the contract of a  *)
(*     game (Playable) at every step, for every number of players, every   *)
(*     ante, maximum and deck hand, in whatever order the handlers of the  *)
(*     players' decisions run.                                             *)
(***************************************************************************)
EXTENDS Dealer, PitBoss, Guts, SumProofs, FiniteSetTheorems

-----------------------------------------------------------------------------
(***************************************************************************)
(* PitBoss.                                                                *)
(***************************************************************************)

\* Only a client that has gone is in the channel of those who leave.
LeaversAreClosed == \A i \in 1..Len(disconnect) : web[disconnect[i]] = "closed"

\* A client is announced, and seated, only after it has connected.
AnnouncedHaveConnected == \A i \in 1..Len(connect) : web[connect[i]] # "new"
SeatedHaveConnected == \A c \in WebClients : web[c] = "new" => dealer[c] = 0

\* No dealer serves two tables.
DealersHaveOneTable ==
    \A t, u \in Tables : dealers[t] = dealers[u] /\ dealers[t] # 0 => t = u

\* The inductive invariant: the two properties, and the four facts above, on
\* which the steps of the run loop rely.
PBInv == /\ PBTypeOK
         /\ LeaversAreClosed
         /\ AnnouncedHaveConnected
         /\ SeatedHaveConnected
         /\ DealersHaveOneTable
         /\ SeatedClientsShareTheTablesDealer
         /\ DealersOnShiftHaveClients

\* What a table and its dealer look like after DealerFor(t): the table has a
\* dealer on shift, every other table has kept its own, and if the table had
\* one already that is still it.
LEMMA DealerForKeeps ==
    ASSUME PBInv, NEW t \in Tables, DealerFor(t)
    PROVE  /\ dealers' \in [Tables -> 0..MaxDealers]
           /\ created' \in 0..MaxDealers
           /\ onShift' \subseteq 1..created'
           /\ dealers'[t] \in Dealers
           /\ \A u \in Tables : dealers[u] # 0 => dealers'[u] = dealers[u]
           /\ \A u \in Tables : u # t => dealers'[u] = dealers[u]
           /\ onShift' = onShift \cup {dealers'[t]}
           /\ DealersHaveOneTable'
<1>1. MaxDealers \in Nat  BY PitBossAssumption
<1>2. CASE dealers[t] # 0
  <2>1. UNCHANGED <<dealers, created, onShift>>
    BY <1>2 DEF DealerFor
  <2>2. dealers[t] \in onShift
    BY <1>2 DEF PBInv, DealersOnShiftHaveClients
  <2> QED  BY <1>1, <1>2, <2>1, <2>2 DEF PBInv, PBTypeOK, Dealers, DealersHaveOneTable
<1>3. CASE dealers[t] = 0
  <2>1. /\ created < MaxDealers /\ created' = created + 1
        /\ onShift' = onShift \cup {created'}
        /\ dealers' = [dealers EXCEPT ![t] = created']
    BY <1>3 DEF DealerFor
  <2>2. created' \in 1..MaxDealers
    BY <1>1, <2>1 DEF PBInv, PBTypeOK
  <2>3. \A u \in Tables : dealers[u] # created'
    <3> SUFFICES ASSUME NEW u \in Tables, dealers[u] = created'  PROVE FALSE
      OBVIOUS
    <3>1. dealers[u] \in onShift
      BY <2>2 DEF PBInv, DealersOnShiftHaveClients
    <3> QED  BY <2>1, <3>1 DEF PBInv, PBTypeOK
  <2>4. dealers'[t] = created' /\ \A u \in Tables : u # t => dealers'[u] = dealers[u]
    BY <2>1 DEF PBInv, PBTypeOK
  <2>5. DealersHaveOneTable'
    BY <2>3, <2>4 DEF PBInv, DealersHaveOneTable
  <2>6. onShift' \subseteq 1..created'
    BY <1>1, <2>1 DEF PBInv, PBTypeOK
  <2> QED  BY <1>1, <1>3, <2>1, <2>2, <2>4, <2>5, <2>6 DEF PBInv, PBTypeOK, Dealers
<1> QED  BY <1>2, <1>3

\* A client that announces itself disturbs nothing: it is not seated yet.
LEMMA ClientConnectedIInv ==
    ASSUME PBInv, NEW c \in WebClients, ClientConnected(c)  PROVE PBInv'
<1> USE DEF ClientConnected, PBInv
<1>1. PBTypeOK'
  BY PitBossAssumption DEF PBTypeOK
<1>2. web'[c] = "open" /\ \A b \in WebClients : b # c => web'[b] = web[b]
  BY DEF PBTypeOK
<1>3. dealer[c] = 0
  BY DEF SeatedHaveConnected
<1>4. LeaversAreClosed'
  <2>1. \A i \in 1..Len(disconnect) : disconnect[i] \in WebClients
    BY DEF PBTypeOK
  <2> QED  BY <1>2, <2>1 DEF LeaversAreClosed
<1>5. SeatedHaveConnected'
  BY <1>2 DEF SeatedHaveConnected
<1>6. AnnouncedHaveConnected'
  <2> SUFFICES ASSUME NEW i \in 1..Len(connect')
               PROVE  web'[connect'[i]] # "new"
    BY DEF AnnouncedHaveConnected
  <2>1. connect \in Seq(WebClients)  BY DEF PBTypeOK
  <2>2. CASE i \in 1..Len(connect)
    <3>1. connect'[i] = connect[i] /\ connect[i] \in WebClients
      BY <2>1, <2>2
    <3> QED  BY <1>2, <2>2, <3>1 DEF AnnouncedHaveConnected
  <2>3. CASE i = Len(connect) + 1
    BY <1>2, <2>1, <2>3
  <2> QED  BY <2>1, <2>2, <2>3
<1>7. SeatedClientsShareTheTablesDealer'
  BY <1>2, <1>3 DEF SeatedClientsShareTheTablesDealer
<1> QED
  BY <1>1, <1>4, <1>5, <1>6, <1>7 DEF DealersHaveOneTable, DealersOnShiftHaveClients

\* A client that takes its leave is closed when it enters the channel.
LEMMA ClientDisconnectedIInv ==
    ASSUME PBInv, NEW c \in WebClients, ClientDisconnected(c)  PROVE PBInv'
<1> USE DEF ClientDisconnected, PBInv
<1>1. PBTypeOK'
  BY PitBossAssumption DEF PBTypeOK
<1>2. web'[c] = "closed" /\ \A b \in WebClients : b # c => web'[b] = web[b]
  BY DEF PBTypeOK
<1>3. LeaversAreClosed'
  <2> SUFFICES ASSUME NEW i \in 1..Len(disconnect')
               PROVE  web'[disconnect'[i]] = "closed"
    BY DEF LeaversAreClosed
  <2>1. disconnect \in Seq(WebClients)  BY DEF PBTypeOK
  <2>2. CASE i \in 1..Len(disconnect)
    <3>1. disconnect'[i] = disconnect[i] /\ disconnect[i] \in WebClients
      BY <2>1, <2>2
    <3> QED  BY <1>2, <2>2, <3>1 DEF LeaversAreClosed
  <2>3. CASE i = Len(disconnect) + 1
    BY <1>2, <2>1, <2>3
  <2> QED  BY <2>1, <2>2, <2>3
<1>4. SeatedHaveConnected'
  BY <1>2 DEF SeatedHaveConnected
<1>5. SeatedClientsShareTheTablesDealer'
  BY <1>2 DEF SeatedClientsShareTheTablesDealer
<1>6. AnnouncedHaveConnected'
  <2>1. \A i \in 1..Len(connect) : connect[i] \in WebClients
    BY DEF PBTypeOK
  <2> QED  BY <1>2, <2>1 DEF AnnouncedHaveConnected
<1> QED
  BY <1>1, <1>3, <1>4, <1>5, <1>6 DEF DealersHaveOneTable, DealersOnShiftHaveClients

\* Seating a client puts it with everybody seated at its table: if the table
\* had no dealer, nobody is seated there.
LEMMA ConnectIInv == ASSUME PBInv, Connect  PROVE PBInv'
<1> DEFINE c == Head(connect)
           t == TableOf[c]
           d == dealers'[t]
<1>1. connect \in Seq(WebClients) /\ connect # <<>>
  BY DEF Connect, PBInv, PBTypeOK
<1>2. c \in WebClients /\ Tail(connect) \in Seq(WebClients)
      /\ Len(Tail(connect)) <= Len(connect)
  BY <1>1
<1>3. t \in Tables  BY <1>2, PitBossAssumption
<1>4. /\ DealerFor(t)
      /\ dealer' = [dealer EXCEPT ![c] = d]
      /\ clientsOf' = [clientsOf EXCEPT ![d] = @ \cup {c}]
      /\ connect' = Tail(connect)
      /\ UNCHANGED <<web, disconnect, listening>>
  BY DEF Connect
<1>5. /\ dealers' \in [Tables -> 0..MaxDealers]
      /\ created' \in 0..MaxDealers /\ onShift' \subseteq 1..created'
      /\ d \in Dealers
      /\ \A u \in Tables : dealers[u] # 0 => dealers'[u] = dealers[u]
      /\ \A u \in Tables : u # t => dealers'[u] = dealers[u]
      /\ onShift' = onShift \cup {d}
      /\ DealersHaveOneTable'
  BY <1>3, <1>4, DealerForKeeps
<1> HIDE DEF c, t, d
<1>6. /\ dealer'[c] = d /\ \A b \in WebClients : b # c => dealer'[b] = dealer[b]
      /\ clientsOf'[d] = clientsOf[d] \cup {c}
      /\ \A e \in Dealers : e # d => clientsOf'[e] = clientsOf[e]
  BY <1>2, <1>4, <1>5 DEF PBInv, PBTypeOK
<1>7. PBTypeOK'
  <2>1. Len(connect') <= ChanCap
    BY <1>1, <1>2, <1>4, PitBossAssumption DEF PBInv, PBTypeOK
  <2>2. dealer' \in [WebClients -> 0..MaxDealers]
    BY <1>2, <1>4, <1>5, PitBossAssumption DEF PBInv, PBTypeOK, Dealers
  <2>3. clientsOf' \in [Dealers -> SUBSET WebClients]
    BY <1>2, <1>4, <1>5 DEF PBInv, PBTypeOK
  <2> QED  BY <1>2, <1>4, <1>5, <2>1, <2>2, <2>3 DEF PBInv, PBTypeOK
<1>8. LeaversAreClosed' /\ AnnouncedHaveConnected'
  <2>1. \A i \in 1..Len(Tail(connect)) : /\ i + 1 \in 1..Len(connect)
                                         /\ Tail(connect)[i] = connect[i + 1]
    BY <1>1
  <2>2. AnnouncedHaveConnected'
    BY <1>4, <2>1 DEF PBInv, AnnouncedHaveConnected
  <2> QED  BY <1>4, <2>2 DEF PBInv, LeaversAreClosed
<1>9. SeatedClientsShareTheTablesDealer'
  <2> SUFFICES ASSUME NEW b \in WebClients, web'[b] = "open", dealer'[b] # 0
               PROVE  /\ dealer'[b] = dealers'[TableOf[b]]
                      /\ dealer'[b] \in onShift'
                      /\ b \in clientsOf'[dealer'[b]]
    BY DEF SeatedClientsShareTheTablesDealer
  <2>1. CASE b = c
    BY <1>5, <1>6, <2>1 DEF d, t
  <2>2. CASE b # c
    <3>1. /\ dealer[b] # 0 /\ dealer'[b] = dealer[b]
          /\ dealer[b] = dealers[TableOf[b]] /\ dealer[b] \in onShift
          /\ b \in clientsOf[dealer[b]]
      BY <1>4, <1>6, <2>2 DEF PBInv, SeatedClientsShareTheTablesDealer
    <3>2. TableOf[b] \in Tables /\ dealer[b] \in Dealers
      BY <3>1, PitBossAssumption DEF PBInv, PBTypeOK, Dealers
    <3> QED  BY <1>5, <1>6, <3>1, <3>2
  <2> QED  BY <2>1, <2>2
<1>10. SeatedHaveConnected'
  <2>1. web[c] # "new"
    BY <1>1 DEF c, PBInv, AnnouncedHaveConnected
  <2> QED  BY <1>4, <1>6, <2>1 DEF PBInv, SeatedHaveConnected
<1>11. DealersOnShiftHaveClients'
  <2>1. onShift' = {dealers'[u] : u \in Tables} \ {0}
    <3>1. onShift = {dealers[u] : u \in Tables} \ {0}
      BY DEF PBInv, DealersOnShiftHaveClients
    <3>2. d # 0  BY <1>5, PitBossAssumption DEF Dealers
    <3> QED  BY <1>3, <1>5, <3>1, <3>2 DEF d
  <2>2. \A e \in onShift' : clientsOf'[e] # {}
    <3> SUFFICES ASSUME NEW e \in onShift'  PROVE clientsOf'[e] # {}
      OBVIOUS
    <3>1. e \in Dealers
      BY <1>5, PitBossAssumption DEF Dealers
    <3>2. e # d => e \in onShift
      BY <1>5
    <3> QED  BY <1>6, <3>1, <3>2 DEF PBInv, DealersOnShiftHaveClients
  <2> QED  BY <2>1, <2>2 DEF DealersOnShiftHaveClients
<1> QED  BY <1>5, <1>7, <1>8, <1>9, <1>10, <1>11 DEF PBInv

\* Only a closed client is removed, and a dealer goes only when nobody is left:
\* an open client that is seated loses neither its seat nor its dealer.
LEMMA DisconnectIInv == ASSUME PBInv, Disconnect  PROVE PBInv'
<1> DEFINE c == Head(disconnect)
           t == TableOf[c]
           d == dealers[t]
<1>1. disconnect \in Seq(WebClients) /\ disconnect # <<>>
  BY DEF Disconnect, PBInv, PBTypeOK
<1>2. /\ c \in WebClients /\ web[c] = "closed"
      /\ Tail(disconnect) \in Seq(WebClients)
      /\ Len(Tail(disconnect)) = Len(disconnect) - 1
      /\ \A i \in 1..Len(Tail(disconnect)) : Tail(disconnect)[i] = disconnect[i + 1]
  BY <1>1 DEF PBInv, LeaversAreClosed
<1>3. t \in Tables  BY <1>2, PitBossAssumption
<1>4. disconnect' = Tail(disconnect) /\ UNCHANGED <<web, connect, created, dealer>>
  BY DEF Disconnect
<1>5. LeaversAreClosed' /\ AnnouncedHaveConnected' /\ SeatedHaveConnected'
  <2>1. LeaversAreClosed'
    <3> SUFFICES ASSUME NEW i \in 1..Len(disconnect')
                 PROVE  web'[disconnect'[i]] = "closed"
      BY DEF LeaversAreClosed
    <3>1. i + 1 \in 1..Len(disconnect) /\ disconnect'[i] = disconnect[i + 1]
      BY <1>1, <1>2, <1>4
    <3> QED  BY <1>4, <3>1 DEF PBInv, LeaversAreClosed
  <2> QED
    BY <1>4, <2>1 DEF PBInv, AnnouncedHaveConnected, SeatedHaveConnected
<1>6. Len(disconnect') <= ChanCap /\ disconnect' \in Seq(WebClients)
  BY <1>1, <1>2, <1>4, PitBossAssumption DEF PBInv, PBTypeOK
<1>7. CASE d = 0
  <2>1. UNCHANGED <<clientsOf, dealers, onShift>> /\ listening' = FALSE
    BY <1>7 DEF Disconnect
  <2>2. PBTypeOK'
    BY <1>4, <1>6, <2>1 DEF PBInv, PBTypeOK
  <2>3. DealersHaveOneTable'
    BY <2>1 DEF PBInv, DealersHaveOneTable
  <2>4. SeatedClientsShareTheTablesDealer'
    BY <1>4, <2>1 DEF PBInv, SeatedClientsShareTheTablesDealer
  <2>5. DealersOnShiftHaveClients'
    BY <2>1 DEF PBInv, DealersOnShiftHaveClients
  <2> QED  BY <1>5, <2>2, <2>3, <2>4, <2>5 DEF PBInv
<1>8. CASE d # 0
  <2>1. /\ clientsOf' = [clientsOf EXCEPT ![d] = @ \ {c}] /\ UNCHANGED listening
        /\ LastClient(d, c) => /\ onShift' = onShift \ {d}
                               /\ dealers' = [dealers EXCEPT ![t] = 0]
        /\ ~LastClient(d, c) => UNCHANGED <<onShift, dealers>>
    BY <1>8 DEF Disconnect
  <2>2. d \in Dealers
    BY <1>3, <1>8, PitBossAssumption DEF PBInv, PBTypeOK, Dealers
  <2> HIDE DEF c, t, d
  <2>3. /\ clientsOf'[d] = clientsOf[d] \ {c}
        /\ \A e \in Dealers : e # d => clientsOf'[e] = clientsOf[e]
    BY <2>1, <2>2 DEF PBInv, PBTypeOK
  <2>4. /\ LastClient(d, c) => dealers'[t] = 0
        /\ ~LastClient(d, c) => dealers'[t] = dealers[t]
        /\ \A u \in Tables : u # t => dealers'[u] = dealers[u]
    BY <1>3, <2>1 DEF PBInv, PBTypeOK
  <2>5. PBTypeOK'
    <3>1. dealers' \in [Tables -> 0..MaxDealers]
      <4>1. dealers \in [Tables -> 0..MaxDealers] /\ 0 \in 0..MaxDealers
        BY PitBossAssumption DEF PBInv, PBTypeOK
      <4>2. CASE LastClient(d, c)   BY <2>1, <4>1, <4>2
      <4>3. CASE ~LastClient(d, c)  BY <2>1, <4>1, <4>3
      <4> QED  BY <4>2, <4>3
    <3>2. clientsOf' \in [Dealers -> SUBSET WebClients]
      BY <2>1, <2>2 DEF PBInv, PBTypeOK
    <3>3. onShift' \subseteq 1..created'
      BY <1>4, <2>1 DEF PBInv, PBTypeOK
    <3> QED  BY <1>4, <1>6, <2>1, <3>1, <3>2, <3>3 DEF PBInv, PBTypeOK
  <2>6. DealersHaveOneTable'
    BY <1>3, <2>4 DEF PBInv, DealersHaveOneTable
  <2>7. SeatedClientsShareTheTablesDealer'
    <3> SUFFICES ASSUME NEW b \in WebClients, web'[b] = "open", dealer'[b] # 0
                 PROVE  /\ dealer'[b] = dealers'[TableOf[b]]
                        /\ dealer'[b] \in onShift'
                        /\ b \in clientsOf'[dealer'[b]]
      BY DEF SeatedClientsShareTheTablesDealer
    <3>1. /\ dealer'[b] = dealer[b]
          /\ dealer[b] = dealers[TableOf[b]] /\ dealer[b] \in onShift
          /\ b \in clientsOf[dealer[b]] /\ b # c
      BY <1>2, <1>4 DEF PBInv, SeatedClientsShareTheTablesDealer
    <3>2. TableOf[b] \in Tables /\ dealer[b] \in Dealers
      BY <1>4, <3>1, PitBossAssumption DEF PBInv, PBTypeOK, Dealers
    <3>3. CASE dealer[b] = d
      <4>1. ~LastClient(d, c)
        BY <3>1, <3>3 DEF LastClient
      <4> QED  BY <2>1, <2>3, <3>1, <3>2, <3>3, <4>1
    <3>4. CASE dealer[b] # d
      <4>1. TableOf[b] # t
        BY <3>1, <3>4 DEF d
      <4>2. dealer[b] \in onShift'
        BY <2>1, <3>1, <3>4
      <4> QED  BY <2>3, <2>4, <3>1, <3>2, <3>4, <4>1, <4>2
    <3> QED  BY <3>3, <3>4
  <2>8. DealersOnShiftHaveClients'
    <3>1. onShift' = {dealers'[u] : u \in Tables} \ {0}
      <4>1. onShift = {dealers[u] : u \in Tables} \ {0}
        BY DEF PBInv, DealersOnShiftHaveClients
      <4>2. CASE LastClient(d, c)
        <5>1. \A u \in Tables : u # t => dealers[u] # d
          BY <1>3, <1>8 DEF PBInv, DealersHaveOneTable, d
        <5> QED  BY <1>3, <2>1, <2>4, <4>1, <4>2, <5>1 DEF d
      <4>3. CASE ~LastClient(d, c)
        BY <2>1, <4>1, <4>3
      <4> QED  BY <4>2, <4>3
    <3>2. \A e \in onShift' : clientsOf'[e] # {}
      <4> SUFFICES ASSUME NEW e \in onShift'  PROVE clientsOf'[e] # {}
        OBVIOUS
      <4>1. e \in onShift /\ e \in Dealers
        <5>1. e \in onShift
          <6>1. CASE LastClient(d, c)   BY <2>1, <6>1
          <6>2. CASE ~LastClient(d, c)  BY <2>1, <6>2
          <6> QED  BY <6>1, <6>2
        <5> QED  BY <5>1, PitBossAssumption DEF PBInv, PBTypeOK, Dealers
      <4>2. e = d => ~LastClient(d, c)
        BY <2>1
      <4> QED
        BY <2>3, <4>1, <4>2 DEF LastClient, PBInv, DealersOnShiftHaveClients
    <3> QED  BY <3>1, <3>2 DEF DealersOnShiftHaveClients
  <2> QED  BY <1>5, <2>5, <2>6, <2>7, <2>8 DEF PBInv
<1> QED  BY <1>7, <1>8

\* The inductive invariant holds in every reachable state.
THEOREM PBInvariance == PBSpec => []PBInv
<1>1. PBInit => PBInv
  <2> SUFFICES ASSUME PBInit  PROVE PBInv
    OBVIOUS
  <2>1. PBTypeOK
    BY PitBossAssumption DEF PBInit, PBTypeOK, Dealers
  <2> QED
    BY <2>1 DEF PBInit, PBInv, LeaversAreClosed, AnnouncedHaveConnected,
               SeatedHaveConnected,
               DealersHaveOneTable, SeatedClientsShareTheTablesDealer,
               DealersOnShiftHaveClients
<1>2. PBInv /\ [PBNext]_pbVars => PBInv'
  <2> SUFFICES ASSUME PBInv, [PBNext]_pbVars  PROVE PBInv'
    OBVIOUS
  <2>1. ASSUME NEW c \in WebClients, ClientConnected(c)  PROVE PBInv'
    BY <2>1, ClientConnectedIInv
  <2>2. ASSUME NEW c \in WebClients, ClientDisconnected(c)  PROVE PBInv'
    BY <2>2, ClientDisconnectedIInv
  <2>3. CASE Connect     BY <2>3, ConnectIInv
  <2>4. CASE Disconnect  BY <2>4, DisconnectIInv
  <2>5. CASE UNCHANGED pbVars
    <3> USE <2>5 DEF pbVars, PBInv
    <3>1. PBTypeOK'  BY DEF PBTypeOK
    <3>2. LeaversAreClosed' /\ AnnouncedHaveConnected' /\ SeatedHaveConnected'
      BY DEF LeaversAreClosed, AnnouncedHaveConnected, SeatedHaveConnected
    <3>3. DealersHaveOneTable' /\ DealersOnShiftHaveClients'
      BY DEF DealersHaveOneTable, DealersOnShiftHaveClients
    <3>4. SeatedClientsShareTheTablesDealer'
      BY DEF SeatedClientsShareTheTablesDealer
    <3> QED  BY <3>1, <3>2, <3>3, <3>4
  <2> QED  BY <2>1, <2>2, <2>3, <2>4, <2>5 DEF PBNext
<1> QED  BY <1>1, <1>2, PTL DEF PBSpec

\* SeatedClientsShareTheTablesDealer, for every number of clients and tables:
\* PitBoss never separates those who are connected to one table.
THEOREM ClientsOfATableStayTogether == PBSpec => []SeatedClientsShareTheTablesDealer
BY PBInvariance, PTL DEF PBInv

\* DealersOnShiftHaveClients, for every number of clients and tables.
THEOREM DealersHaveClients == PBSpec => []DealersOnShiftHaveClients
BY PBInvariance, PTL DEF PBInv

-----------------------------------------------------------------------------
(***************************************************************************)
(* The dealer.                                                             *)
(***************************************************************************)

-----------------------------------------------------------------------------
(* Types.                                                                  *)

Pushes == {<<>>} \cup {<<e>> : e \in Events}
Thread == [at : Places, game : Games \cup {None}, read : Int, push : Pushes]
Rows == Nat \X Int
Screen == [game : Games \cup {None}, version : Nat, scheduled : BOOLEAN,
           players : SUBSET Clients, table : Rows, missed : BOOLEAN]
Function == [kind : Requests \cup {"greet"}, client : Clients]

\* TypeOK, by what an action may change.
TableType   == clients \subseteq Clients /\ game \in Games \cup {None}
SwitchType  == /\ ticker \in BOOLEAN /\ pendingGame \in BOOLEAN
               /\ closed \in BOOLEAN /\ crashed \in BOOLEAN
EventsType  == stateChanged \in Seq(Events) /\ Len(stateChanged) <= StateCap
ExecType    == execInRunLoop \in Seq(Function) /\ Len(execInRunLoop) <= ExecCap
ThreadsType == thr \in [Threads -> Thread]
GamesType   == /\ status \in [Games -> {"undealt", "playing", "closing", "over"}]
               /\ version \in [Games -> Nat] /\ found \in [Games -> Nat]
ScreensType == screen \in [Clients -> Screen]
RowsType    == /\ balance \in Int /\ seats \in Nat
               /\ settled \in [Games -> Nat]
UsedType    == used \in [{"messages", "leaves", "failures", "ticks"} -> Nat]

Types == /\ TableType /\ SwitchType /\ EventsType /\ ExecType /\ ThreadsType
         /\ GamesType /\ ScreensType /\ RowsType /\ UsedType
         /\ joining \in Clients \cup {None}

LEMMA TypesAreTypeOK == Types <=> TypeOK
<1>1. SwitchType <=> {ticker, pendingGame, closed, crashed} \subseteq BOOLEAN
  BY Zenon DEF SwitchType
<1>2. {version, found, settled} \subseteq [Games -> Nat]
         <=> /\ version \in [Games -> Nat] /\ found \in [Games -> Nat]
             /\ settled \in [Games -> Nat]
  BY Zenon
<1>3. QED
  BY <1>1, <1>2, Zenon DEF Types, TypeOK, TableType, EventsType, ExecType,
     ThreadsType, GamesType, ScreensType, RowsType, UsedType, Pushes, Thread,
     Screen, Rows, Function

\* What the constants are.
LEMMA Constants ==
  /\ None \notin Clients /\ None \notin Games
  /\ Loop \notin Clients /\ PitBoss \notin Clients /\ Loop # PitBoss
  /\ Loop \in Threads /\ PitBoss \in Threads
  /\ \A c \in Clients : c \in Threads /\ c # Loop /\ c # PitBoss
  /\ Len(Win) \in Nat /\ Games = 1 .. Len(Win) /\ Games \subseteq Nat
  /\ \A g \in Games : Win[g] \in Int
  /\ StateCap \in Nat /\ ExecCap \in Nat
<1>1. Loop # PitBoss
  BY DEF Loop, PitBoss
<1>2. Loop \notin Clients /\ PitBoss \notin Clients
  BY DealerAssumption, Zenon
<1>3. Loop \in Threads /\ PitBoss \in Threads /\ Clients \subseteq Threads
  BY Zenon DEF Threads
<1>4. Len(Win) \in Nat /\ Games = 1 .. Len(Win)
  BY DealerAssumption DEF Games
<1>5. \A g \in Games : Win[g] \in Int
  BY DealerAssumption, <1>4
<1>6. None \notin Clients /\ None \notin Games
  BY DealerAssumption, Zenon
<1>7. StateCap \in Nat /\ ExecCap \in Nat
  BY DealerAssumption
<1>8. QED
  BY <1>1, <1>2, <1>3, <1>4, <1>5, <1>6, <1>7

\* What a step is, action by action.
LEMMA StepsAre ==
  ASSUME Next
  PROVE  /\ ~crashed
         /\ \/ \E t \in Threads : Push(t)
            \/ \E t \in Clients \cup {Loop} :
                  RecordGame(t) \/ SaveResult(t) \/ UnsetGame(t)
            \/ sendGameData("tickSend", "tickOver")
            \/ sendGameData("sendGame", "idle")
            \/ sendPlayerData \/ sendGameEnded \/ sendGameScheduled
            \/ LoopTicks \/ TickIsOver \/ LoopDeals \/ LoopTakesEvent
            \/ LoopRuns \/ LoopCloses
            \/ GreetClient
            \/ \E c \in Clients :
                  \/ AddClient(c) \/ RemoveClient(c) \/ Act(c) \/ IsOver(c)
                  \/ \E kind \in Requests : Ask(c, kind)
BY Constants, Zenon DEF Next, RunLoop, PitBossRuns, PitBossGoesOn, ClientRuns,
   ClientGoesOn, EndGame

\* A thread that goes on, and one that is done.
LEMMA GoesType ==
  ASSUME ThreadsType, NEW t \in Threads, NEW where \in Places,
         NEW events \in Pushes, Goes(t, where, events)
  PROVE  /\ ThreadsType'
         /\ thr'[t].at = where /\ thr'[t].push = events
         /\ thr'[t].game = thr[t].game /\ thr'[t].read = thr[t].read
         /\ \A u \in Threads \ {t} : thr'[u] = thr[u]
BY DEF ThreadsType, Thread, Goes

LEMMA RestsType ==
  ASSUME ThreadsType, NEW t \in Threads, NEW events \in Pushes, Rests(t, events)
  PROVE  /\ ThreadsType'
         /\ thr'[t].at = "idle" /\ thr'[t].push = events
         /\ \A u \in Threads \ {t} : thr'[u] = thr[u]
BY DEF ThreadsType, Thread, Rests, Places

LEMMA PushesAre ==
  /\ <<>> \in Pushes
  /\ \A e \in Events : <<e>> \in Pushes /\ <<e>> # <<>> /\ Head(<<e>>) = e
                       /\ Tail(<<e>>) = <<>>
  /\ \A p \in Pushes : p # <<>> =>
        Head(p) \in Events /\ Tail(p) = <<>> /\ p = <<Head(p)>>
<1>1. ASSUME NEW e \in Events
      PROVE  <<e>> \in Pushes /\ <<e>> # <<>> /\ Head(<<e>>) = e /\ Tail(<<e>>) = <<>>
  <2>1. <<e>> \in Pushes
    BY Zenon DEF Pushes
  <2>2. <<e>> # <<>> /\ Head(<<e>>) = e /\ Tail(<<e>>) = <<>>
    OBVIOUS
  <2>3. QED
    BY <2>1, <2>2
<1>2. <<>> \in Pushes
  BY Zenon DEF Pushes
<1>3. ASSUME NEW p \in Pushes, p # <<>>
      PROVE  Head(p) \in Events /\ Tail(p) = <<>> /\ p = <<Head(p)>>
  <2>1. PICK e \in Events : p = <<e>>
    BY <1>3, Zenon DEF Pushes
  <2>2. QED
    BY <1>1, <2>1
<1>4. QED
  BY <1>1, <1>2, <1>3

-----------------------------------------------------------------------------
(* What the actions with a step of their own do to the threads.            *)

LEMMA PushMoves ==
  ASSUME ThreadsType, NEW t \in Threads, Push(t)
  PROVE  /\ ThreadsType'
         /\ Head(thr[t].push) \in Events /\ thr[t].push = <<Head(thr[t].push)>>
         /\ thr'[t].push = <<>> /\ thr'[t].at = thr[t].at
         /\ thr'[t].game = thr[t].game
         /\ \A u \in Threads \ {t} : thr'[u] = thr[u]
<1>1. thr[t].push \in Pushes /\ thr[t].push # <<>>
  BY DEF Push, ThreadsType, Thread
<1>2. /\ Tail(thr[t].push) = <<>> /\ Head(thr[t].push) \in Events
      /\ thr[t].push = <<Head(thr[t].push)>>
  BY <1>1, PushesAre
<1>3. thr' = [thr EXCEPT ![t].push = Tail(thr[t].push)]
  BY DEF Push
<1>4. thr' = [thr EXCEPT ![t].push = <<>>]
  BY <1>2, <1>3
<1>5. QED
  BY <1>2, <1>4, PushesAre DEF Thread, ThreadsType

LEMMA AddMoves ==
  ASSUME ThreadsType, NEW c \in Clients, AddClient(c)
  PROVE  /\ ThreadsType'
         /\ thr'[c].at = "idle" /\ thr'[c].push = thr[c].push
         /\ thr'[PitBoss].at = "greet" /\ thr'[PitBoss].push = <<"clientEvent">>
         /\ \A u \in Threads \ {c, PitBoss} : thr'[u] = thr[u]
<1> DEFINE f == [thr EXCEPT ![c].at = "idle"]
           g == [f EXCEPT ![PitBoss].at = "greet"]
           h == [g EXCEPT ![PitBoss].push = <<"clientEvent">>]
<1>1. thr' = h
  BY Zenon DEF AddClient
<1>2. /\ c \in Threads /\ PitBoss \in Threads /\ c # PitBoss
      /\ "idle" \in Places /\ "greet" \in Places /\ <<"clientEvent">> \in Pushes
  BY Constants, PushesAre DEF Places, Events
<1> HIDE DEF h
<1>3. /\ f \in [Threads -> Thread] /\ f[c].at = "idle" /\ f[c].push = thr[c].push
      /\ \A u \in Threads \ {c} : f[u] = thr[u]
  BY <1>2 DEF Thread, ThreadsType
<1> HIDE DEF f
<1>4. /\ g \in [Threads -> Thread] /\ g[PitBoss].at = "greet"
      /\ \A u \in Threads \ {PitBoss} : g[u] = f[u]
  BY <1>2, <1>3 DEF Thread
<1> HIDE DEF g
<1>5. /\ h \in [Threads -> Thread] /\ h[PitBoss].at = g[PitBoss].at
      /\ h[PitBoss].push = <<"clientEvent">>
      /\ \A u \in Threads \ {PitBoss} : h[u] = g[u]
  BY <1>2, <1>4 DEF Thread, h
<1>6. QED
  BY <1>1, <1>2, <1>3, <1>4, <1>5 DEF ThreadsType

LEMMA RemoveMoves ==
  ASSUME ThreadsType, NEW c \in Clients, RemoveClient(c)
  PROVE  /\ ThreadsType'
         /\ thr'[c].at = "gone" /\ thr'[c].push = thr[c].push
         /\ thr'[PitBoss].at = thr[PitBoss].at
         /\ thr'[PitBoss].push = IF clients' = {} THEN <<>> ELSE <<"clientEvent">>
         /\ \A u \in Threads \ {c, PitBoss} : thr'[u] = thr[u]
<1> DEFINE p == IF clients' = {} THEN <<>> ELSE <<"clientEvent">>
           f == [thr EXCEPT ![c].at = "gone"]
           h == [f EXCEPT ![PitBoss].push = p]
<1>1. thr' = h
  BY Zenon DEF RemoveClient
<1>2. /\ c \in Threads /\ PitBoss \in Threads /\ c # PitBoss
      /\ "gone" \in Places /\ p \in Pushes
  BY Constants, PushesAre DEF Places, Events
<1> HIDE DEF h, p
<1>3. /\ f \in [Threads -> Thread] /\ f[c].at = "gone" /\ f[c].push = thr[c].push
      /\ \A u \in Threads \ {c} : f[u] = thr[u]
  BY <1>2 DEF Thread, ThreadsType
<1> HIDE DEF f
<1>4. /\ h \in [Threads -> Thread] /\ h[PitBoss].at = f[PitBoss].at
      /\ h[PitBoss].push = p
      /\ \A u \in Threads \ {PitBoss} : h[u] = f[u]
  BY <1>2, <1>3 DEF Thread, h
<1>5. QED
  BY <1>1, <1>2, <1>3, <1>4 DEF ThreadsType, p

LEMMA ActMoves ==
  ASSUME ThreadsType, TableType, NEW c \in Clients, Act(c)
  PROVE  /\ ThreadsType'
         /\ thr'[c].at = "isOver" /\ thr'[c].push = <<"gameEvent">>
         /\ thr'[c].game = game
         /\ \A u \in Threads \ {c} : thr'[u] = thr[u]
<1> DEFINE f == [thr EXCEPT ![c].at = "isOver"]
           g == [f EXCEPT ![c].game = game]
           h == [g EXCEPT ![c].push = <<"gameEvent">>]
<1>1. thr' = h
  BY Zenon DEF Act
<1>2. /\ c \in Threads /\ game \in Games \cup {None}
      /\ "isOver" \in Places /\ <<"gameEvent">> \in Pushes
  BY Constants, PushesAre DEF Places, Events, TableType
<1> HIDE DEF h
<1>3. /\ f \in [Threads -> Thread] /\ f[c].at = "isOver"
      /\ \A u \in Threads \ {c} : f[u] = thr[u]
  BY <1>2 DEF Thread, ThreadsType
<1> HIDE DEF f
<1>4. /\ g \in [Threads -> Thread] /\ g[c].at = f[c].at /\ g[c].game = game
      /\ \A u \in Threads \ {c} : g[u] = f[u]
  BY <1>2, <1>3 DEF Thread
<1> HIDE DEF g
<1>5. /\ h \in [Threads -> Thread] /\ h[c].at = g[c].at /\ h[c].game = g[c].game
      /\ h[c].push = <<"gameEvent">>
      /\ \A u \in Threads \ {c} : h[u] = g[u]
  BY <1>2, <1>4 DEF Thread, h
<1>6. QED
  BY <1>1, <1>2, <1>3, <1>4, <1>5 DEF ThreadsType

LEMMA RecordMoves ==
  ASSUME ThreadsType, RowsType, NEW t \in Threads, RecordGame(t)
  PROVE  /\ ThreadsType'
         /\ \/ thr'[t].at = "idle" /\ thr'[t].push = <<>>
            \/ /\ thr'[t].at = "save" /\ thr'[t].push = <<>>
               /\ thr'[t].game = thr[t].game
         /\ \A u \in Threads \ {t} : thr'[u] = thr[u]
<1>1. CASE Rests(t, <<>>)
  BY <1>1, RestsType, PushesAre
<1>2. CASE thr' = [thr EXCEPT ![t].at = "save", ![t].read = balance]
  <2> DEFINE f == [thr EXCEPT ![t].at = "save"]
             g == [f EXCEPT ![t].read = balance]
  <2>1. thr' = g
    BY <1>2, Zenon
  <2>2. "save" \in Places /\ balance \in Int /\ thr[t].push = <<>>
    BY DEF Places, RowsType, RecordGame, At
  <2> HIDE DEF g
  <2>3. /\ f \in [Threads -> Thread] /\ f[t].at = "save"
        /\ f[t].push = thr[t].push /\ f[t].game = thr[t].game
        /\ \A u \in Threads \ {t} : f[u] = thr[u]
    BY <2>2 DEF Thread, ThreadsType
  <2> HIDE DEF f
  <2>4. /\ g \in [Threads -> Thread] /\ g[t].at = f[t].at
        /\ g[t].push = f[t].push /\ g[t].game = f[t].game
        /\ \A u \in Threads \ {t} : g[u] = f[u]
    BY <2>2, <2>3 DEF Thread, g
  <2>5. QED
    BY <2>1, <2>2, <2>3, <2>4 DEF ThreadsType
<1>3. QED
  BY <1>1, <1>2, Zenon DEF RecordGame, Fails

LEMMA IsOverMoves ==
  ASSUME ThreadsType, TableType, TickIsOver
  PROVE  /\ ThreadsType'
         /\ \/ game = None /\ UNCHANGED thr
            \/ /\ game # None /\ status[game] = "over"
               /\ thr'[Loop].at = "record" /\ thr'[Loop].game = game
               /\ thr'[Loop].push = <<>>
            \/ /\ thr'[Loop].at = "idle" /\ thr'[Loop].push = <<>>
         /\ \A u \in Threads \ {Loop} : thr'[u] = thr[u]
<1>0. /\ Loop \in Threads /\ "record" \in Places /\ "idle" \in Places
      /\ thr[Loop].push = <<>> /\ game \in Games \cup {None}
  BY Constants DEF Places, TickIsOver, At, TableType
<1>1. CASE game = None
  BY <1>1, Zenon DEF TickIsOver, ThreadsType
<1>2. CASE game # None /\ status[game] = "over"
  <2> DEFINE f == [thr EXCEPT ![Loop].at = "record"]
             g == [f EXCEPT ![Loop].game = game]
  <2>1. thr' = g
    BY <1>2, Zenon DEF TickIsOver
  <2> HIDE DEF g
  <2>2. /\ f \in [Threads -> Thread] /\ f[Loop].at = "record"
        /\ f[Loop].push = thr[Loop].push
        /\ \A u \in Threads \ {Loop} : f[u] = thr[u]
    BY <1>0 DEF Thread, ThreadsType
  <2> HIDE DEF f
  <2>3. /\ g \in [Threads -> Thread] /\ g[Loop].at = f[Loop].at
        /\ g[Loop].game = game /\ g[Loop].push = f[Loop].push
        /\ \A u \in Threads \ {Loop} : g[u] = f[u]
    BY <1>0, <2>2 DEF Thread, g
  <2>4. QED
    BY <1>0, <1>2, <2>1, <2>2, <2>3 DEF ThreadsType
<1>3. CASE game # None /\ status[game] # "over"
  <2>1. thr' = [thr EXCEPT ![Loop].at = "idle"]
    BY <1>3, Zenon DEF TickIsOver
  <2>2. QED
    BY <1>0, <1>3, <2>1 DEF Thread, ThreadsType
<1>4. QED
  BY <1>1, <1>2, <1>3

-----------------------------------------------------------------------------
LEMMA SaveMoves ==
  ASSUME ThreadsType, NEW t \in Threads, SaveResult(t)
  PROVE  /\ ThreadsType'
         /\ thr'[t].push = <<>>
         /\ \/ thr'[t].at = "idle" /\ UNCHANGED dbVars
            \/ thr'[t].at = "unset" /\ thr'[t].game = thr[t].game
         /\ \A u \in Threads \ {t} : thr'[u] = thr[u]
<1>1. \/ Rests(t, <<>>) /\ UNCHANGED dbVars
      \/ Goes(t, "unset", <<>>)
  BY Zenon DEF SaveResult, Fails
<1>2. "unset" \in Places /\ <<>> \in Pushes
  BY PushesAre DEF Places
<1>3. QED
  BY <1>1, <1>2, GoesType, RestsType

LEMMA UnsetMoves ==
  ASSUME ThreadsType, NEW t \in Threads, UnsetGame(t)
  PROVE  /\ ThreadsType'
         /\ thr'[t].at = "idle" /\ thr'[t].push = <<"gameEnded">>
         /\ \A u \in Threads \ {t} : thr'[u] = thr[u]
BY RestsType, PushesAre DEF UnsetGame, Events

LEMMA OverMoves ==
  ASSUME ThreadsType, NEW c \in Clients, IsOver(c)
  PROVE  /\ ThreadsType'
         /\ thr'[c].push = <<>>
         /\ \/ /\ status[thr[c].game] = "over" /\ thr'[c].at = "record"
               /\ thr'[c].game = thr[c].game
               /\ found' = [found EXCEPT ![thr[c].game] = @ + 1]
            \/ thr'[c].at = "idle" /\ UNCHANGED found
         /\ \A u \in Threads \ {c} : thr'[u] = thr[u]
<1>1. \/ /\ status[thr[c].game] = "over" /\ Goes(c, "record", <<>>)
         /\ found' = [found EXCEPT ![thr[c].game] = @ + 1]
      \/ Rests(c, <<>>) /\ UNCHANGED found
  BY Zenon DEF IsOver
<1>2. QED
  BY <1>1, Constants, PushesAre, GoesType, RestsType DEF Places

\* The broadcasts, and the run loop's end.
SendsAnything ==
  \/ sendGameData("tickSend", "tickOver") \/ sendGameData("sendGame", "idle")
  \/ sendPlayerData \/ sendGameEnded \/ sendGameScheduled \/ LoopCloses

LEMMA SendMoves ==
  ASSUME ThreadsType, SendsAnything
  PROVE  /\ ThreadsType'
         /\ \A u \in Threads \ {Loop} : thr'[u] = thr[u]
         /\ \/ UNCHANGED thr /\ sendGameData("tickSend", "tickOver")
            \/ UNCHANGED thr /\ sendGameData("sendGame", "idle")
            \/ /\ thr'[Loop].push = <<>>
               /\ thr'[Loop].at \in {"tickOver", "idle", "sendPlayers", "ended"}
               /\ sendGameEnded => thr'[Loop].at = "sendPlayers"
<1>1. \/ UNCHANGED thr /\ sendGameData("tickSend", "tickOver")
      \/ UNCHANGED thr /\ sendGameData("sendGame", "idle")
      \/ Rests(Loop, <<>>) /\ ~ sendGameEnded
      \/ \E where \in {"tickOver", "idle", "ended"} :
            Goes(Loop, where, <<>>) /\ ~ sendGameEnded
      \/ Goes(Loop, "sendPlayers", <<>>)
  <2>1. CASE sendGameEnded
    BY <2>1, Zenon DEF sendGameEnded
  <2>2. CASE ~ sendGameEnded
    BY <2>2, Zenon DEF SendsAnything, sendGameData, sendPlayerData,
       sendGameScheduled, LoopCloses
  <2>3. QED
    BY <2>1, <2>2
<1>2. {"tickOver", "idle", "sendPlayers", "ended"} \subseteq Places
      /\ <<>> \in Pushes /\ Loop \in Threads
  BY Constants, PushesAre DEF Places
<1>3. QED
  BY <1>1, <1>2, GoesType, RestsType DEF ThreadsType

LEMMA TicksMove ==
  ASSUME ThreadsType, LoopTicks
  PROVE  /\ ThreadsType'
         /\ thr'[Loop].push = <<>> /\ thr'[Loop].at \in {"tickOver", "tickSend"}
         /\ thr'[Loop].at = "tickOver" => UNCHANGED version
         /\ \A u \in Threads \ {Loop} : thr'[u] = thr[u]
<1>1. \/ Goes(Loop, "tickOver", <<>>) /\ UNCHANGED version
      \/ Goes(Loop, "tickSend", <<>>)
  BY Zenon DEF LoopTicks, TickOf, gameVars
<1>2. QED
  BY <1>1, Constants, PushesAre, GoesType DEF Places

LEMMA TakesMove ==
  ASSUME ThreadsType, EventsType, LoopTakesEvent
  PROVE  /\ ThreadsType'
         /\ thr'[Loop].push = <<>>
         /\ \/ Head(stateChanged) = "clientEvent" /\ thr'[Loop].at = "sendPlayers"
            \/ Head(stateChanged) = "gameEvent" /\ thr'[Loop].at = "sendGame"
            \/ Head(stateChanged) = "gameEnded" /\ thr'[Loop].at = "sendEnded"
            \/ Head(stateChanged) = "gameScheduled" /\ thr'[Loop].at = "sendScheduled"
         /\ \A u \in Threads \ {Loop} : thr'[u] = thr[u]
<1>1. Head(stateChanged) \in Events
  BY DEF LoopTakesEvent, EventsType
<1>2. \/ Head(stateChanged) = "clientEvent" /\ Goes(Loop, "sendPlayers", <<>>)
      \/ Head(stateChanged) = "gameEvent" /\ Goes(Loop, "sendGame", <<>>)
      \/ Head(stateChanged) = "gameEnded" /\ Goes(Loop, "sendEnded", <<>>)
      \/ Head(stateChanged) = "gameScheduled" /\ Goes(Loop, "sendScheduled", <<>>)
  BY <1>1, Zenon DEF LoopTakesEvent, Events
<1>3. QED
  BY <1>2, Constants, PushesAre, GoesType DEF Places

LEMMA DealsMove ==
  ASSUME ThreadsType, LoopDeals \/ LoopRuns
  PROVE  /\ ThreadsType'
         /\ \/ UNCHANGED thr
            \/ thr'[Loop].at = "idle" /\ \E events \in Pushes : Rests(Loop, events)
         /\ \A u \in Threads \ {Loop} : thr'[u] = thr[u]
<1>1. \A e \in Events : <<e>> \in Pushes
  BY PushesAre
<1>2. UNCHANGED thr \/ \E events \in Pushes : Rests(Loop, events)
  <2>1. CASE LoopDeals
    BY <1>1, <2>1, Zenon DEF LoopDeals, Events
  <2>2. CASE LoopRuns
    <3>1. (IF pendingGame THEN <<"gameScheduled">> ELSE <<>>) \in Pushes
      BY <1>1, PushesAre DEF Events
    <3>2. QED
      BY <1>1, <2>2, <3>1, Zenon DEF LoopRuns, ScheduleGame, CancelGame,
         TerminateGame, SaveSeat, Greet, Events
  <2>3. QED
    BY <2>1, <2>2
<1>3. QED
  BY <1>2, Constants, RestsType DEF ThreadsType

\* Which actions assign which variables.
LEMMA WhoChanges ==
  ASSUME Next
  PROVE  /\ UNCHANGED clients \/ \E c \in Clients : AddClient(c) \/ RemoveClient(c)
         /\ UNCHANGED closed \/ \E c \in Clients : RemoveClient(c)
         /\ \/ UNCHANGED <<game, ticker>> \/ LoopDeals \/ LoopRuns
            \/ \E t \in Clients \cup {Loop} : UnsetGame(t)
         /\ UNCHANGED pendingGame \/ LoopDeals \/ LoopRuns
         /\ UNCHANGED stateChanged \/ LoopTakesEvent \/ \E t \in Threads : Push(t)
         /\ \/ UNCHANGED execInRunLoop \/ LoopRuns \/ GreetClient
            \/ \E c \in Clients, kind \in Requests : Ask(c, kind)
         /\ UNCHANGED joining \/ GreetClient \/ \E c \in Clients : AddClient(c)
         /\ UNCHANGED status \/ LoopTicks \/ LoopDeals \/ \E c \in Clients : Act(c)
         /\ UNCHANGED version \/ LoopTicks \/ \E c \in Clients : Act(c)
         /\ UNCHANGED screen \/ SendsAnything \/ LoopRuns
         /\ \/ UNCHANGED <<balance, settled>>
            \/ \E t \in Clients \cup {Loop} : SaveResult(t)
         /\ UNCHANGED seats \/ LoopRuns
         /\ \/ UNCHANGED crashed \/ crashed' = TRUE
            \/ \E c \in Clients : AddClient(c) \/ RemoveClient(c)
         /\ UNCHANGED used \/ \E what \in {"messages", "leaves", "failures", "ticks"} : Uses(what)
<1> USE DEF dealerVars, chanVars, gameVars, dbVars, Push, RecordGame,
    SaveResult, UnsetGame, Fails, sendGameData, sendPlayerData, sendGameEnded,
    sendGameScheduled, LoopTicks, TickOf, TickIsOver, LoopDeals, LoopTakesEvent,
    LoopCloses, LoopRuns, Act, IsOver, AddClient, RemoveClient, Ask,
    GreetClient, ScheduleGame, CancelGame, TerminateGame, SaveSeat, Greet,
    WritesClients, SendsAnything
<1>1. UNCHANGED clients \/ \E c \in Clients : AddClient(c) \/ RemoveClient(c)
  BY StepsAre, Zenon
<1>2. UNCHANGED closed \/ \E c \in Clients : RemoveClient(c)
  BY StepsAre, Zenon
<1>3. \/ UNCHANGED <<game, ticker>> \/ LoopDeals \/ LoopRuns
      \/ \E t \in Clients \cup {Loop} : UnsetGame(t)
  BY StepsAre, Zenon
<1>4. UNCHANGED pendingGame \/ LoopDeals \/ LoopRuns
  BY StepsAre, Zenon
<1>5. UNCHANGED stateChanged \/ LoopTakesEvent \/ \E t \in Threads : Push(t)
  BY StepsAre, Zenon
<1>6. \/ UNCHANGED execInRunLoop \/ LoopRuns \/ GreetClient
      \/ \E c \in Clients, kind \in Requests : Ask(c, kind)
  BY StepsAre, Zenon
<1>7. UNCHANGED joining \/ GreetClient \/ \E c \in Clients : AddClient(c)
  BY StepsAre, Zenon
<1>8. UNCHANGED status \/ LoopTicks \/ LoopDeals \/ \E c \in Clients : Act(c)
  BY StepsAre, Zenon
<1>9. UNCHANGED version \/ LoopTicks \/ \E c \in Clients : Act(c)
  BY StepsAre, Zenon
<1>10. UNCHANGED screen \/ SendsAnything \/ LoopRuns
  BY StepsAre, Zenon
<1>11. \/ UNCHANGED <<balance, settled>>
      \/ \E t \in Clients \cup {Loop} : SaveResult(t)
  BY StepsAre, Zenon
<1>12. UNCHANGED seats \/ LoopRuns
  BY StepsAre, Zenon
<1>13. \/ UNCHANGED crashed \/ crashed' = TRUE
      \/ \E c \in Clients : AddClient(c) \/ RemoveClient(c)
  BY StepsAre, Zenon
<1>14. UNCHANGED used \/ \E what \in {"messages", "leaves", "failures", "ticks"} : Uses(what)
  BY StepsAre, Zenon
<1>15. QED
  BY <1>1, <1>2, <1>3, <1>4, <1>5, <1>6, <1>7, <1>8, <1>9, <1>10, <1>11, <1>12, <1>13, <1>14

LEMMA WhoFinds ==
  ASSUME Next
  PROVE  UNCHANGED found \/ \E c \in Clients : IsOver(c)
BY StepsAre, Zenon DEF gameVars, Push, RecordGame, SaveResult, UnsetGame,
   sendGameData, sendPlayerData, sendGameEnded, sendGameScheduled, LoopTicks,
   TickOf, TickIsOver, LoopDeals, LoopTakesEvent, LoopCloses, LoopRuns, Act,
   AddClient, RemoveClient, Ask, GreetClient

\* Who can have moved when a thread's state is another.
Moves(t) ==
  \/ Push(t)
  \/ t \in Clients \cup {Loop} /\ (RecordGame(t) \/ SaveResult(t) \/ UnsetGame(t))
  \/ /\ t = Loop
     /\ \/ SendsAnything \/ LoopTicks \/ TickIsOver \/ LoopDeals
        \/ LoopTakesEvent \/ LoopRuns
  \/ /\ t = PitBoss
     /\ GreetClient \/ \E c \in Clients : AddClient(c) \/ RemoveClient(c)
  \/ t \in Clients /\ (AddClient(t) \/ RemoveClient(t) \/ Act(t) \/ IsOver(t))

LEMMA ThreadsTypeStep ==
  ASSUME Types, Next
  PROVE  ThreadsType' /\ \A t \in Threads : thr'[t] = thr[t] \/ Moves(t)
<1>1. ThreadsType /\ RowsType /\ TableType /\ EventsType
  BY DEF Types
<1> DEFINE Goal == ThreadsType' /\ \A t \in Threads : thr'[t] = thr[t] \/ Moves(t)
<1>2. ASSUME NEW t \in Threads, Moves(t), ThreadsType',
             \A u \in Threads \ {t} : thr'[u] = thr[u]
      PROVE  Goal
  BY <1>2
<1>3. ASSUME NEW t \in Threads, Push(t)
      PROVE  Goal
  <2>1. Moves(t)
    BY <1>3 DEF Moves
  <2>2. QED
    BY <1>1, <1>2, <1>3, <2>1, PushMoves
<1>4. ASSUME NEW t \in Clients \cup {Loop}, RecordGame(t) \/ SaveResult(t) \/ UnsetGame(t)
      PROVE  Goal
  <2>1. Moves(t) /\ t \in Threads
    BY <1>4, Constants DEF Moves
  <2> HIDE DEF Goal
  <2>2. QED
    BY <1>1, <1>2, <1>4, <2>1, RecordMoves, SaveMoves, UnsetMoves
<1>5. ASSUME \/ SendsAnything \/ LoopTicks \/ TickIsOver \/ LoopDeals
             \/ LoopTakesEvent \/ LoopRuns
      PROVE  Goal
  <2>1. Moves(Loop) /\ Loop \in Threads
    BY <1>5, Constants, Zenon DEF Moves
  <2> HIDE DEF Goal
  <2>2. QED
    BY <1>1, <1>2, <1>5, <2>1, SendMoves, TicksMove, IsOverMoves, DealsMove, TakesMove
<1>6. CASE GreetClient
  <2>1. Moves(PitBoss) /\ PitBoss \in Threads /\ <<>> \in Pushes
    BY <1>6, Constants, PushesAre, Zenon DEF Moves
  <2> HIDE DEF Goal
  <2>2. QED
    BY <1>1, <1>2, <1>6, <2>1, RestsType DEF GreetClient
<1>7. ASSUME NEW c \in Clients, AddClient(c) \/ RemoveClient(c)
      PROVE  Goal
  <2>1. Moves(PitBoss) /\ Moves(c)
    BY <1>7, Zenon DEF Moves
  <2>2. ThreadsType' /\ \A u \in Threads \ {c, PitBoss} : thr'[u] = thr[u]
    BY <1>1, <1>7, AddMoves, RemoveMoves
  <2>3. QED
    BY <2>1, <2>2
<1>8. ASSUME NEW c \in Clients, Act(c) \/ IsOver(c)
      PROVE  Goal
  <2>1. Moves(c) /\ c \in Threads
    BY <1>8, Constants, Zenon DEF Moves
  <2> HIDE DEF Goal
  <2>2. QED
    BY <1>1, <1>2, <1>8, <2>1, ActMoves, OverMoves
<1>9. ASSUME NEW c \in Clients, NEW kind \in Requests, Ask(c, kind)
      PROVE  Goal
  BY <1>9, <1>1 DEF Ask, ThreadsType
<1>10. QED
  BY StepsAre, <1>3, <1>4, <1>5, <1>6, <1>7, <1>8, <1>9 DEF SendsAnything

\* The newcomer PitBoss is seating is known exactly while it is seated.
SeatingIsKnown ==
  /\ joining \in Clients \cup {None}
  /\ thr[PitBoss].at \in {"idle", "greet"}
  /\ thr[PitBoss].at = "greet" <=> joining # None

LEMMA SeatingStep ==
  ASSUME Types, SeatingIsKnown, Next
  PROVE  SeatingIsKnown'
<1>1. ThreadsType /\ PitBoss \in Threads /\ <<>> \in Pushes
  BY Constants, PushesAre DEF Types
<1>2. CASE GreetClient
  <2>1. joining' = None /\ Rests(PitBoss, <<>>)
    BY <1>2 DEF GreetClient
  <2>2. QED
    BY <1>1, <2>1, RestsType DEF SeatingIsKnown
<1>3. ASSUME NEW c \in Clients, AddClient(c)
      PROVE  SeatingIsKnown'
  <2>1. joining' = c /\ c # None
    BY <1>3, Constants DEF AddClient
  <2>2. QED
    BY <1>1, <1>3, <2>1, AddMoves DEF SeatingIsKnown
<1>4. ASSUME NEW c \in Clients, RemoveClient(c)
      PROVE  SeatingIsKnown'
  <2>1. joining' = joining
    BY <1>4 DEF RemoveClient
  <2>2. QED
    BY <1>1, <1>4, <2>1, RemoveMoves DEF SeatingIsKnown
<1>5. CASE ~ GreetClient /\ \A c \in Clients : ~ AddClient(c) /\ ~ RemoveClient(c)
  <2>1. joining' = joining
    BY WhoChanges, <1>5, Zenon
  <2>2. thr'[PitBoss].at = thr[PitBoss].at
    <3>1. thr'[PitBoss] = thr[PitBoss] \/ Push(PitBoss)
      BY <1>1, <1>5, ThreadsTypeStep, Constants DEF Moves
    <3>2. QED
      BY <1>1, <3>1, PushMoves
  <2>3. QED
    BY <2>1, <2>2 DEF SeatingIsKnown
<1>6. QED
  BY <1>2, <1>3, <1>4, <1>5

LEMMA EventsTypeStep ==
  ASSUME Types, Next
  PROVE  EventsType'
<1>1. ThreadsType /\ EventsType
  BY DEF Types
<1>2. ASSUME NEW t \in Threads, Push(t)
      PROVE  EventsType'
  <2>1. Head(thr[t].push) \in Events
    BY <1>1, <1>2, PushMoves
  <2>2. QED
    BY <1>1, <1>2, <2>1, Constants DEF Push, EventsType
<1>3. CASE LoopTakesEvent
  <2>1. stateChanged # <<>> /\ stateChanged' = Tail(stateChanged)
    BY <1>3 DEF LoopTakesEvent
  <2>2. QED
    BY <1>1, <2>1, Constants DEF EventsType
<1>4. CASE ~ LoopTakesEvent /\ \A t \in Threads : ~ Push(t)
  <2>1. stateChanged' = stateChanged
    BY WhoChanges, <1>4, Zenon
  <2>2. QED
    BY <1>1, <2>1 DEF EventsType
<1>5. QED
  BY <1>2, <1>3, <1>4

LEMMA ExecTypeStep ==
  ASSUME Types, SeatingIsKnown, Next
  PROVE  ExecType'
<1>1. ThreadsType /\ ExecType
  BY DEF Types
<1>2. ASSUME NEW kind \in Requests \cup {"greet"}, NEW c \in Clients, Enqueue(kind, c)
      PROVE  ExecType'
  <2>1. [kind |-> kind, client |-> c] \in Function
    BY DEF Function
  <2>2. QED
    BY <1>1, <1>2, <2>1, Constants DEF Enqueue, ExecType
<1>3. CASE GreetClient
  <2>1. joining \in Clients /\ Enqueue("greet", joining)
    BY <1>3 DEF GreetClient, SeatingIsKnown, At
  <2>2. QED
    BY <1>2, <2>1
<1>4. ASSUME NEW c \in Clients, NEW kind \in Requests, Ask(c, kind)
      PROVE  ExecType'
  BY <1>2, <1>4 DEF Ask
<1>5. CASE LoopRuns
  <2>1. execInRunLoop # <<>> /\ execInRunLoop' = Tail(execInRunLoop)
    BY <1>5 DEF LoopRuns
  <2>2. QED
    BY <1>1, <2>1, Constants DEF ExecType
<1>6. CASE /\ ~ LoopRuns /\ ~ GreetClient
           /\ \A c \in Clients, kind \in Requests : ~ Ask(c, kind)
  <2>1. execInRunLoop' = execInRunLoop
    BY WhoChanges, <1>6, Zenon
  <2>2. QED
    BY <1>1, <2>1 DEF ExecType
<1>7. QED
  BY <1>3, <1>4, <1>5, <1>6

\* The game that is dealt is one that has not been.
LEMMA NextGame ==
  ASSUME Undealt # {}
  PROVE  Min(Undealt) \in Games /\ status[Min(Undealt)] = "undealt"
<1>1. Undealt \in SUBSET Nat
  BY Constants DEF Undealt
<1>2. Min(Undealt) = Least(Undealt)
  BY Zenon DEF Min, Least
<1>3. QED
  BY <1>1, <1>2, LeastIsLeast DEF Undealt

LEMMA TableTypeStep ==
  ASSUME Types, Next
  PROVE  TableType'
<1>1. clients' \subseteq Clients
  <2>1. \/ UNCHANGED clients
        \/ \E c \in Clients : clients' = clients \cup {c} \/ clients' = clients \ {c}
    BY WhoChanges, Zenon DEF AddClient, RemoveClient
  <2>2. QED
    BY <2>1 DEF Types, TableType
<1>2. game' \in Games \cup {None}
  <2>1. UNCHANGED game \/ game' = None \/ (Undealt # {} /\ game' = Min(Undealt))
    BY WhoChanges, Zenon DEF UnsetGame, LoopDeals, LoopRuns, ScheduleGame,
       CancelGame, TerminateGame, SaveSeat, Greet
  <2>2. QED
    BY <2>1, NextGame DEF Types, TableType
<1>3. QED
  BY <1>1, <1>2 DEF TableType

LEMMA SwitchTypeStep ==
  ASSUME Types, Next
  PROVE  SwitchType'
<1> USE DEF UnsetGame, LoopDeals, LoopRuns, ScheduleGame, CancelGame,
    TerminateGame, SaveSeat, Greet, AddClient, RemoveClient, WritesClients
<1>1. ticker' = ticker \/ ticker' = TRUE \/ ticker' = FALSE
  BY WhoChanges, Zenon
<1>2. pendingGame' = pendingGame \/ pendingGame' = TRUE \/ pendingGame' = FALSE
  BY WhoChanges, Zenon
<1>3. closed' = closed \/ closed' = (clients' = {})
  BY WhoChanges, Zenon
<1>4. crashed' = crashed \/ crashed' \in BOOLEAN
  BY WhoChanges, Zenon
<1>5. QED
  BY <1>1, <1>2, <1>3, <1>4, Zenon DEF Types, SwitchType

\* Whoever looks whether a game is over, or ends it, knows which.
Ending(t) == thr[t].at \in {"isOver", "record", "save", "unset"}
EndersKnowTheGame == \A t \in Threads : Ending(t) => thr[t].game \in Games

LEMMA EndersStep ==
  ASSUME Types, SeatingIsKnown, EndersKnowTheGame, Next
  PROVE  EndersKnowTheGame'
<1>1. ThreadsType /\ ThreadsType' /\ RowsType /\ TableType /\ EventsType
  BY ThreadsTypeStep DEF Types
<1> SUFFICES ASSUME NEW t \in Threads, Ending(t)'
             PROVE  thr'[t].game \in Games
  BY DEF EndersKnowTheGame
<1>2. CASE thr'[t] = thr[t]
  BY <1>2 DEF EndersKnowTheGame, Ending
<1>3. CASE Push(t)
  BY <1>1, <1>3, PushMoves DEF EndersKnowTheGame, Ending
<1>4. CASE RecordGame(t) \/ SaveResult(t) \/ UnsetGame(t)
  <2>1. Ending(t)
    BY <1>4 DEF Ending, RecordGame, SaveResult, UnsetGame, At
  <2>2. thr'[t].game = thr[t].game
    BY <1>1, <1>4, RecordMoves, SaveMoves, UnsetMoves DEF Ending
  <2>3. QED
    BY <2>1, <2>2 DEF EndersKnowTheGame
<1>5. CASE t = Loop /\ (SendsAnything \/ LoopTicks \/ LoopTakesEvent)
  <2>1. \/ UNCHANGED thr
        \/ thr'[t].at \in {"tickOver", "idle", "sendPlayers", "ended", "tickSend",
                           "sendGame", "sendEnded", "sendScheduled"}
    BY <1>1, <1>5, SendMoves, TicksMove, TakesMove
  <2>2. QED
    BY <2>1 DEF EndersKnowTheGame, Ending
<1>6. CASE t = Loop /\ (LoopDeals \/ LoopRuns)
  BY <1>1, <1>6, DealsMove DEF EndersKnowTheGame, Ending
<1>7. CASE t = Loop /\ TickIsOver
  BY <1>1, <1>7, IsOverMoves DEF EndersKnowTheGame, Ending, TableType
<1>8. CASE t = PitBoss
  BY <1>8, SeatingStep DEF Ending, SeatingIsKnown
<1>9. CASE t \in Clients /\ (AddClient(t) \/ RemoveClient(t) \/ Act(t))
  <2>1. Act(t) => game \in Games
    BY <1>1 DEF Act, TableType
  <2>2. QED
    BY <1>1, <1>9, <2>1, Constants, AddMoves, RemoveMoves, ActMoves DEF Ending
<1>10. CASE t \in Clients /\ IsOver(t)
  <2>1. Ending(t)
    BY <1>10 DEF Ending, IsOver, At
  <2>2. Rests(t, <<>>) \/ Goes(t, "record", <<>>)
    BY <1>10, Zenon DEF IsOver
  <2>3. CASE Rests(t, <<>>)
    BY <1>1, <2>3, PushesAre, RestsType DEF Ending
  <2>4. CASE Goes(t, "record", <<>>)
    BY <1>1, <2>1, <2>4, PushesAre, GoesType DEF EndersKnowTheGame, Places
  <2>5. QED
    BY <2>2, <2>3, <2>4
<1>11. QED
  BY ThreadsTypeStep, <1>2, <1>3, <1>4, <1>5, <1>6, <1>7, <1>8, <1>9, <1>10 DEF Moves

LEMMA GamesTypeStep ==
  ASSUME Types, EndersKnowTheGame, Next
  PROVE  GamesType'
<1> DEFINE Goal == /\ status' \in [Games -> {"undealt", "playing", "closing", "over"}]
                   /\ version' \in [Games -> Nat]
<1>1. GamesType /\ game \in Games \cup {None}
  BY DEF Types, TableType
<1>2. ASSUME UNCHANGED status /\ UNCHANGED version PROVE Goal
  BY <1>1, <1>2 DEF GamesType
<1>3. ASSUME NEW g \in Games, NEW s \in {"playing", "closing", "over"},
             status' = [status EXCEPT ![g] = s],
             version' = [version EXCEPT ![g] = @ + 1] \/ UNCHANGED version
      PROVE  Goal
  BY <1>1, <1>3 DEF GamesType
<1> HIDE DEF Goal
<1>4. ASSUME LoopTicks PROVE Goal
  <2>1. game \in Games
    BY <1>1, <1>4 DEF LoopTicks
  <2>2. \/ UNCHANGED status /\ UNCHANGED version
        \/ /\ \E s \in {"playing", "closing", "over"} :
                 status' = [status EXCEPT ![game] = s]
           /\ version' = [version EXCEPT ![game] = @ + 1] \/ UNCHANGED version
    BY <1>4, Zenon DEF LoopTicks, TickOf, gameVars
  <2>3. QED
    BY <2>1, <2>2, <1>2, <1>3
<1>5. ASSUME NEW c \in Clients, Act(c)
      PROVE  Goal
  <2>1. game \in Games
    BY <1>1, <1>5 DEF Act
  <2>2. /\ \E s \in {"playing", "closing", "over"} :
              status' = [status EXCEPT ![game] = s]
        /\ version' = [version EXCEPT ![game] = @ + 1]
    BY <1>5, Zenon DEF Act
  <2>3. QED
    BY <2>1, <2>2, <1>3
<1>6. ASSUME LoopDeals PROVE Goal
  <2>1. UNCHANGED version
    BY <1>6 DEF LoopDeals
  <2>2. \/ UNCHANGED status
        \/ Undealt # {} /\ status' = [status EXCEPT ![Min(Undealt)] = "playing"]
    BY <1>6, Zenon DEF LoopDeals
  <2>3. QED
    BY <2>1, <2>2, <1>2, <1>3, NextGame
<1>7. found' \in [Games -> Nat]
  <2>1. ASSUME NEW c \in Clients, IsOver(c)
        PROVE  found' \in [Games -> Nat]
    <3>1. thr[c].game \in Games
      BY <2>1, Constants DEF IsOver, At, EndersKnowTheGame, Ending
    <3>2. QED
      BY <1>1, <2>1, <3>1, OverMoves DEF GamesType, Types
  <2>2. QED
    BY <1>1, <2>1, WhoFinds DEF GamesType
<1>8. Goal
  BY WhoChanges, <1>2, <1>4, <1>5, <1>6
<1>9. QED
  BY <1>7, <1>8 DEF GamesType, Goal

LEMMA RowsTypeStep ==
  ASSUME Types, EndersKnowTheGame, Next
  PROVE  RowsType'
<1>1. RowsType /\ ThreadsType
  BY DEF Types
<1>2. seats' \in Nat
  <2>1. seats' = seats \/ seats' = seats + 1
    BY WhoChanges, Zenon DEF LoopRuns, ScheduleGame, CancelGame, TerminateGame,
       SaveSeat, Greet
  <2>2. QED
    BY <1>1, <2>1 DEF RowsType
<1>3. balance' \in Int /\ settled' \in [Games -> Nat]
  <2>1. ASSUME NEW t \in Clients \cup {Loop}, SaveResult(t)
        PROVE  balance' \in Int /\ settled' \in [Games -> Nat]
    <3>1. CASE UNCHANGED dbVars
      BY <1>1, <3>1 DEF dbVars, RowsType
    <3>2. CASE /\ AdjustBalance(t)
               /\ settled' = [settled EXCEPT ![thr[t].game] = @ + 1]
      <4>1. thr[t].game \in Games
        BY <2>1, Constants DEF SaveResult, At, EndersKnowTheGame, Ending
      <4>2. balance' = balance + Win[thr[t].game]
        BY <3>2 DEF AdjustBalance
      <4>3. QED
        BY <1>1, <3>2, <4>1, <4>2, Constants DEF RowsType
    <3>3. QED
      BY <2>1, <3>1, <3>2, Zenon DEF SaveResult, Fails
  <2>2. QED
    BY <1>1, <2>1, WhoChanges DEF RowsType
<1>4. QED
  BY <1>2, <1>3 DEF RowsType

LEMMA UsedTypeStep ==
  ASSUME Types, Next
  PROVE  UsedType'
<1>1. UNCHANGED used \/ \E what \in {"messages", "leaves", "failures", "ticks"} : Uses(what)
  BY WhoChanges
<1>2. QED
  BY <1>1 DEF Types, UsedType, Uses

\* What the broadcasts and the greeting leave on the screens.
SameScreens == \A c \in Clients : screen'[c] = screen[c]

LEMMA GameDataShows ==
  ASSUME Types, NEW where, NEW next, sendGameData(where, next)
  PROVE  /\ ScreensType'
         /\ \/ SameScreens /\ (clients = {} \/ crashed')
            \/ /\ game # None
               /\ \A c \in Clients \ clients : screen'[c] = screen[c]
               /\ \A c \in clients :
                     /\ screen'[c].game = game
                     /\ screen'[c].version = version[game]
                     /\ screen'[c].scheduled = screen[c].scheduled
                     /\ screen'[c].players = screen[c].players
                     /\ screen'[c].table = screen[c].table
                     /\ screen'[c].missed = screen[c].missed
<1>1. ScreensType /\ TableType /\ GamesType
  BY DEF Types
<1> DEFINE shown == [c \in Clients |->
              IF c \in clients
              THEN [screen[c] EXCEPT !.game = game, !.version = version[game]]
              ELSE screen[c]]
<1>2. (crashed' = TRUE /\ UNCHANGED screen) \/ ((game # None \/ clients = {}) /\ screen' = shown)
  BY Zenon DEF sendGameData, Shows
<1>3. CASE crashed' = TRUE /\ UNCHANGED screen
  BY <1>1, <1>3 DEF ScreensType, SameScreens
<1>4. CASE clients = {} /\ screen' = shown
  BY <1>1, <1>4 DEF ScreensType, SameScreens
<1>5. CASE game # None /\ screen' = shown
  <2>1. \A c \in clients : screen[c] \in Screen
    BY <1>1 DEF ScreensType, TableType
  <2>2. game \in Games \cup {None} /\ version[game] \in Nat
    BY <1>1, <1>5 DEF TableType, GamesType
  <2>3. \A c \in Clients \ clients : screen'[c] = screen[c]
    BY <1>5
  <2>4. \A c \in clients : screen'[c] =
                     [screen[c] EXCEPT !.game = game, !.version = version[game]]
    BY <1>1, <1>5, Zenon DEF TableType
  <2>5. ASSUME NEW c \in clients
        PROVE  /\ screen'[c] \in Screen
               /\ screen'[c].game = game
               /\ screen'[c].version = version[game]
               /\ screen'[c].scheduled = screen[c].scheduled
               /\ screen'[c].players = screen[c].players
               /\ screen'[c].table = screen[c].table
               /\ screen'[c].missed = screen[c].missed
    BY <2>1, <2>2, <2>4 DEF Screen
  <2>6. ScreensType'
    BY <1>1, <1>5, <2>3, <2>5 DEF ScreensType
  <2>7. QED
    BY <1>5, <2>3, <2>4, <2>5, <2>6
<1>6. QED
  BY <1>2, <1>3, <1>4, <1>5

LEMMA PlayerDataShows ==
  ASSUME Types, sendPlayerData
  PROVE  /\ ScreensType'
         /\ \A c \in Clients \ clients : screen'[c] = screen[c]
         /\ \A c \in clients :
               /\ \/ screen'[c].missed
                  \/ screen'[c].players = clients /\ screen'[c].table = <<seats, balance>>
               /\ screen'[c].game = screen[c].game
               /\ screen'[c].version = screen[c].version
               /\ screen'[c].scheduled = screen[c].scheduled
<1>1. ScreensType /\ TableType /\ <<seats, balance>> \in Rows
  BY DEF Types, RowsType, Rows
<1>2. \/ screen' = [c \in Clients |->
            IF c \in clients
            THEN [screen[c] EXCEPT !.players = clients, !.missed = FALSE,
                                   !.table = <<seats, balance>>]
            ELSE screen[c]]
      \/ screen' = [c \in Clients |->
            IF c \in clients THEN [screen[c] EXCEPT !.missed = TRUE] ELSE screen[c]]
  BY Zenon DEF sendPlayerData, Shows
<1>3. clients \subseteq Clients /\ clients \in SUBSET Clients
  BY <1>1 DEF TableType
<1>4. PICK row \in Rows : row = <<seats, balance>>
  BY <1>1
<1>5. \A c \in clients :
         \/ screen'[c] = [screen[c] EXCEPT !.players = clients, !.missed = FALSE,
                                           !.table = row]
         \/ screen'[c] = [screen[c] EXCEPT !.missed = TRUE]
  BY <1>2, <1>3, <1>4, Zenon
<1>6. ASSUME NEW c \in clients
      PROVE  /\ screen'[c] \in Screen
             /\ \/ screen'[c].missed
                \/ screen'[c].players = clients /\ screen'[c].table = row
             /\ screen'[c].game = screen[c].game
             /\ screen'[c].version = screen[c].version
             /\ screen'[c].scheduled = screen[c].scheduled
  <2>1. screen[c] \in Screen
    BY <1>1, <1>3 DEF ScreensType
  <2>2. CASE screen'[c] = [screen[c] EXCEPT !.players = clients, !.missed = FALSE,
                                           !.table = row]
    BY <2>1, <1>3, <2>2 DEF Screen
  <2>3. CASE screen'[c] = [screen[c] EXCEPT !.missed = TRUE]
    BY <2>1, <2>3 DEF Screen
  <2>4. QED
    BY <1>5, <2>2, <2>3
<1>7. \A c \in Clients \ clients : screen'[c] = screen[c]
  BY <1>2
<1>8. ScreensType'
  BY <1>1, <1>2, <1>6, <1>7 DEF ScreensType
<1>9. QED
  BY <1>4, <1>6, <1>7, <1>8

LEMMA GameEndedShows ==
  ASSUME Types, sendGameEnded
  PROVE  /\ ScreensType'
         /\ \A c \in Clients \ clients : screen'[c] = screen[c]
         /\ \A c \in clients :
               /\ screen'[c].game = None
               /\ screen'[c].scheduled = screen[c].scheduled
<1>1. ScreensType /\ clients \subseteq Clients
  BY DEF Types, TableType
<1>2. screen' = [c \in Clients |->
         IF c \in clients THEN [screen[c] EXCEPT !.game = None, !.version = 0]
                          ELSE screen[c]]
  BY Zenon DEF sendGameEnded, Shows
<1>3. \A c \in clients : screen'[c] = [screen[c] EXCEPT !.game = None, !.version = 0]
  BY <1>1, <1>2, Zenon
<1>0. PICK v \in Nat : v = 0
  OBVIOUS
<1>4. ASSUME NEW c \in clients
      PROVE  /\ screen'[c] \in Screen
             /\ screen'[c].game = None
             /\ screen'[c].scheduled = screen[c].scheduled
  <2>1. screen[c] \in Screen
    BY <1>1 DEF ScreensType
  <2>2. screen[c].version \in Nat /\ screen[c].game \in Games \cup {None}
    BY <2>1 DEF Screen
  <2>3. screen'[c] = [screen[c] EXCEPT !.game = None, !.version = v]
    BY <1>0, <1>3
  <2>4. QED
    BY <2>1, <2>3 DEF Screen
<1>5. QED
  BY <1>1, <1>2, <1>4 DEF ScreensType

LEMMA GameScheduledShows ==
  ASSUME Types, sendGameScheduled
  PROVE  /\ ScreensType'
         /\ \A c \in Clients \ clients : screen'[c] = screen[c]
         /\ \A c \in clients :
               /\ screen'[c].scheduled = pendingGame
               /\ screen'[c].game = screen[c].game
               /\ screen'[c].version = screen[c].version
               /\ screen'[c].players = screen[c].players
               /\ screen'[c].table = screen[c].table
               /\ screen'[c].missed = screen[c].missed
<1>1. ScreensType /\ clients \subseteq Clients /\ pendingGame \in BOOLEAN
  BY DEF Types, TableType, SwitchType
<1>2. screen' = [c \in Clients |->
         IF c \in clients THEN [screen[c] EXCEPT !.scheduled = pendingGame]
                          ELSE screen[c]]
  BY Zenon DEF sendGameScheduled, Shows
<1>3. PICK b \in BOOLEAN : b = pendingGame
  BY <1>1, Zenon
<1>4. \A c \in clients : screen'[c] = [screen[c] EXCEPT !.scheduled = b]
  BY <1>1, <1>2, <1>3, Zenon
<1>5. ASSUME NEW c \in clients
      PROVE  /\ screen'[c] \in Screen
             /\ screen'[c].scheduled = b
             /\ screen'[c].game = screen[c].game
             /\ screen'[c].version = screen[c].version
             /\ screen'[c].players = screen[c].players
             /\ screen'[c].table = screen[c].table
             /\ screen'[c].missed = screen[c].missed
  <2>1. screen[c] \in Screen
    BY <1>1 DEF ScreensType
  <2>2. QED
    BY <2>1, <1>4 DEF Screen
<1>6. \A c \in Clients \ clients : screen'[c] = screen[c]
  BY <1>2
<1>7. ScreensType'
  BY <1>1, <1>2, <1>5, <1>6 DEF ScreensType
<1>8. QED
  BY <1>3, <1>5, <1>6, <1>7, Zenon

LEMMA GreetShows ==
  ASSUME Types, NEW c \in Clients, Greet(c)
  PROVE  /\ ScreensType'
         /\ \A d \in Clients \ {c} : screen'[d] = screen[d]
         /\ screen'[c].scheduled = (pendingGame \/ screen[c].scheduled)
         /\ game # None =>
               screen'[c].game = game /\ screen'[c].version = version[game]
         /\ game = None => screen'[c].game = screen[c].game
         /\ screen'[c].players = screen[c].players
         /\ screen'[c].table = screen[c].table
         /\ screen'[c].missed = screen[c].missed
<1>1. ScreensType /\ TableType /\ GamesType /\ pendingGame \in BOOLEAN
  BY DEF Types, SwitchType
<1>2. screen[c] \in Screen
  BY <1>1 DEF ScreensType
<1>3. screen[c].scheduled \in BOOLEAN
  BY <1>2 DEF Screen
<1>4. PICK b \in BOOLEAN : b = (pendingGame \/ screen[c].scheduled)
  BY <1>1, <1>3, Zenon
<1>5. PICK x \in Games \cup {None} : x = IF game = None THEN screen[c].game ELSE game
  BY <1>1, <1>2 DEF Screen, TableType
<1>6. PICK v \in Nat : v = IF game = None THEN screen[c].version ELSE version[game]
  BY <1>1, <1>2 DEF Screen, TableType, GamesType
<1> DEFINE f == [screen EXCEPT ![c].scheduled = b]
           g == [f EXCEPT ![c].game = x]
           h == [g EXCEPT ![c].version = v]
<1>7. screen' = [screen EXCEPT ![c].scheduled = b, ![c].game = x, ![c].version = v]
  BY <1>4, <1>5, <1>6, Zenon DEF Greet
<1>8. screen' = h
  BY <1>7, Zenon
<1> HIDE DEF h
<1>9. /\ f \in [Clients -> Screen] /\ \A d \in Clients \ {c} : f[d] = screen[d]
      /\ f[c].scheduled = b /\ f[c].players = screen[c].players
      /\ f[c].table = screen[c].table /\ f[c].missed = screen[c].missed
  BY <1>1 DEF ScreensType, Screen
<1> HIDE DEF f, h
<1>10. /\ g \in [Clients -> Screen] /\ \A d \in Clients \ {c} : g[d] = f[d]
       /\ g[c].scheduled = f[c].scheduled /\ g[c].players = f[c].players
       /\ g[c].table = f[c].table /\ g[c].game = x /\ g[c].missed = f[c].missed
  BY <1>9 DEF Screen
<1> HIDE DEF g
<1>11. /\ h \in [Clients -> Screen] /\ \A d \in Clients \ {c} : h[d] = g[d]
       /\ h[c].scheduled = g[c].scheduled /\ h[c].players = g[c].players
       /\ h[c].table = g[c].table /\ h[c].game = g[c].game /\ h[c].version = v
       /\ h[c].missed = g[c].missed
  BY <1>10 DEF Screen, h
<1>12. screen'[c].scheduled = b
  BY <1>8, <1>9, <1>10, <1>11
<1>13. QED
  BY <1>4, <1>5, <1>6, <1>8, <1>9, <1>10, <1>11, <1>12 DEF ScreensType

\* The functions the run loop takes from its queue are of clients.
LEMMA FunctionsOfClients ==
  ASSUME ExecType, execInRunLoop # <<>>
  PROVE  Head(execInRunLoop) \in Function /\ Head(execInRunLoop).client \in Clients
<1>1. Head(execInRunLoop) \in Function
  BY DEF ExecType
<1>2. QED
  BY <1>1 DEF Function

LEMMA ScreensTypeStep ==
  ASSUME Types, Next
  PROVE  ScreensType'
<1>1. ScreensType /\ ExecType
  BY DEF Types
<1>2. CASE UNCHANGED screen
  BY <1>1, <1>2 DEF ScreensType
<1>3. CASE SendsAnything
  BY <1>2, <1>3, GameDataShows, PlayerDataShows, GameEndedShows, GameScheduledShows
  DEF SendsAnything, LoopCloses
<1>4. CASE LoopRuns
  <2>1. UNCHANGED screen \/ Greet(Head(execInRunLoop).client)
    BY <1>4, Zenon DEF LoopRuns, ScheduleGame, CancelGame, TerminateGame, SaveSeat
  <2>2. Head(execInRunLoop).client \in Clients
    BY <1>1, <1>4, FunctionsOfClients DEF LoopRuns
  <2>3. QED
    BY <1>2, <2>1, <2>2, GreetShows
<1>5. QED
  BY WhoChanges, <1>2, <1>3, <1>4

-----------------------------------------------------------------------------
TypesInv == Types /\ SeatingIsKnown /\ EndersKnowTheGame

LEMMA TypesInit == Init => TypesInv
<1> SUFFICES ASSUME Init PROVE TypesInv
  OBVIOUS
<1> USE DEF Init
<1>1. ThreadsType
  <2>1. "new" \in Places /\ "idle" \in Places /\ 0 \in Int /\ <<>> \in Pushes
    BY PushesAre DEF Places
  <2>2. QED
    BY <2>1 DEF ThreadsType, Thread
<1>2. \A t \in Threads : thr[t].at \in {"new", "idle"}
  OBVIOUS
<1>3. thr[PitBoss].at = "idle"
  BY Constants
<1>4. SeatingIsKnown /\ EndersKnowTheGame
  BY <1>2, <1>3 DEF SeatingIsKnown, EndersKnowTheGame, Ending
<1>5. SwitchType
  BY Zenon DEF SwitchType
<1>6. EventsType /\ ExecType
  BY Constants DEF EventsType, ExecType
<1>7. ScreensType
  <2>1. 0 \in Nat /\ 0 \in Int /\ {} \in SUBSET Clients /\ <<0, 0>> \in Rows
        /\ FALSE \in BOOLEAN
    BY DEF Rows
  <2>2. Blank \in Screen
    BY <2>1, Zenon DEF Blank, Screen
  <2>3. QED
    BY <2>2 DEF ScreensType
<1>8. TableType /\ GamesType /\ RowsType /\ UsedType /\ joining = None
  BY DEF TableType, GamesType, RowsType, UsedType
<1>9. QED
  BY <1>1, <1>4, <1>5, <1>6, <1>7, <1>8 DEF TypesInv, Types

LEMMA TypesStep == TypesInv /\ [Next]_vars => TypesInv'
<1>1. ASSUME TypesInv, Next PROVE TypesInv'
  <2>1. Types /\ SeatingIsKnown /\ EndersKnowTheGame
    BY <1>1 DEF TypesInv
  <2>2. SeatingIsKnown' /\ EndersKnowTheGame'
    BY <1>1, <2>1, SeatingStep, EndersStep
  <2>3. TableType' /\ SwitchType' /\ EventsType' /\ ExecType' /\ ThreadsType'
    BY <1>1, <2>1, TableTypeStep, SwitchTypeStep, EventsTypeStep, ExecTypeStep,
       ThreadsTypeStep
  <2>4. GamesType' /\ ScreensType' /\ RowsType' /\ UsedType'
    BY <1>1, <2>1, GamesTypeStep, ScreensTypeStep, RowsTypeStep, UsedTypeStep
  <2>5. QED
    BY <2>2, <2>3, <2>4 DEF TypesInv, Types, SeatingIsKnown
<1>2. ASSUME TypesInv, UNCHANGED vars PROVE TypesInv'
  <2>1. SwitchType'
    BY <1>2, Zenon DEF TypesInv, Types, SwitchType, vars, dealerVars
  <2>2. SeatingIsKnown' /\ EndersKnowTheGame'
    BY <1>2 DEF TypesInv, SeatingIsKnown, EndersKnowTheGame, Ending, vars
  <2>3. TableType' /\ EventsType' /\ ExecType' /\ ThreadsType'
    BY <1>2 DEF TypesInv, Types, TableType, EventsType, ExecType, ThreadsType,
       vars, dealerVars, chanVars
  <2>4. GamesType' /\ ScreensType' /\ RowsType' /\ UsedType'
    BY <1>2 DEF TypesInv, Types, GamesType, ScreensType, RowsType, UsedType,
       vars, gameVars, dbVars
  <2>5. QED
    BY <2>1, <2>2, <2>3, <2>4 DEF TypesInv, Types, SeatingIsKnown
<1>3. QED
  BY <1>1, <1>2

LEMMA TypesHold == Spec => []TypesInv
BY TypesInit, TypesStep, PTL DEF Spec

\* The type invariant of Dealer, for any clients and games: no channel ever
\* holds more than it can, and only queued things are taken from it.
THEOREM Typing == Spec => []TypeOK
<1>1. TypesInv => TypeOK
  BY TypesAreTypeOK DEF TypesInv
<1>2. QED
  BY <1>1, TypesHold, PTL

-----------------------------------------------------------------------------
(* The balance.                                                            *)

Results == [i \in 0 .. Len(Win) - 1 |-> settled[i + 1] * Win[i + 1]]

LEMMA ResultIsAdded ==
  ASSUME NEW n \in Nat, NEW m \in Nat, NEW w \in Int, m = n + 1
  PROVE  m * w = (n * w) + w
OBVIOUS

\* Every committed result is in the balance exactly as often as it was
\* committed, for any games and results, and however many goroutines settle
\* them at the same time (endGame, adjust_balance).
THEOREM BalanceAddsUp == Spec => []BalanceIsTheSumOfResults
<1> DEFINE Inv == BalanceIsTheSumOfResults
<1>1. Init => Inv
  <2> SUFFICES ASSUME Init PROVE Inv
    OBVIOUS
  <2>1. \A i \in 0 .. Len(Win) - 1 : Results[i] = 0
    <3>1. ASSUME NEW i \in 0 .. Len(Win) - 1
          PROVE  Results[i] = 0
      <4>1. i + 1 \in Games
        BY Constants
      <4>2. settled[i + 1] = 0 /\ Win[i + 1] \in Int
        BY <4>1, Constants DEF Init
      <4>3. QED
        BY <4>2 DEF Results
    <3>2. QED
      BY <3>1
  <2>2. Sum(Results, Len(Win)) = 0
    <3> DEFINE zeros == [i \in 0 .. Len(Win) - 1 |-> 0]
    <3>1. Sum(Results, Len(Win)) = Sum(zeros, Len(Win))
      BY <2>1, SumSame, Constants
    <3>2. Sum(zeros, Len(Win)) = Sum(zeros, Len(Win)) + Sum(zeros, Len(Win))
      BY SumLinear, Constants
    <3>3. Sum(zeros, Len(Win)) \in Int
      BY SumInt, Constants
    <3>4. QED
      BY <3>1, <3>2, <3>3
  <2>3. QED
    BY <2>2 DEF Init, BalanceIsTheSumOfResults, Results
<1>2. TypesInv /\ Inv /\ [Next]_vars => Inv'
  <2> SUFFICES ASSUME TypesInv, Inv, [Next]_vars PROVE Inv'
    OBVIOUS
  <2>0. RowsType
    BY DEF TypesInv, Types
  <2>1. CASE UNCHANGED <<balance, settled>>
    BY <2>1 DEF BalanceIsTheSumOfResults
  <2>2. ASSUME NEW t \in Clients \cup {Loop}, SaveResult(t), AdjustBalance(t),
               settled' = [settled EXCEPT ![thr[t].game] = @ + 1]
        PROVE  Inv'
    <3> DEFINE g == thr[t].game
    <3>1. g \in Games /\ Win[g] \in Int /\ g - 1 \in 0 .. Len(Win) - 1
          /\ (g - 1) + 1 = g
      BY <2>2, Constants DEF TypesInv, EndersKnowTheGame, Ending, SaveResult, At
    <3> HIDE DEF g
    <3>2. settled' = [settled EXCEPT ![g] = settled[g] + 1] /\ balance' = balance + Win[g]
      BY <2>2 DEF g, AdjustBalance
    <3>3. settled[g] \in Nat /\ settled'[g] = settled[g] + 1
          /\ \A h \in Games \ {g} : settled'[h] = settled[h]
      BY <2>0, <3>1, <3>2 DEF RowsType
    <3>4. Results'[g - 1] = Results[g - 1] + Win[g] /\ Results[g - 1] \in Int
      <4>1. Results[g - 1] = settled[g] * Win[g] /\ Results'[g - 1] = settled'[g] * Win[g]
        BY <3>1 DEF Results
      <4>2. settled'[g] * Win[g] = (settled[g] * Win[g]) + Win[g]
        BY <3>1, <3>3, ResultIsAdded
      <4>3. settled[g] * Win[g] \in Int
        BY <3>1, <3>3
      <4>4. QED
        BY <4>1, <4>2, <4>3
    <3>5. \A i \in 0 .. Len(Win) - 1 : i # g - 1 => Results'[i] = Results[i]
      <4>1. ASSUME NEW i \in 0 .. Len(Win) - 1, i # g - 1
            PROVE  Results'[i] = Results[i]
        <5>1. i + 1 \in Games \ {g}
          BY <3>1, <4>1, Constants
        <5>2. QED
          BY <3>3, <5>1 DEF Results
      <4>2. QED
        BY <4>1
    <3>6. \A i \in 0 .. Len(Win) - 1 : Results[i] \in Int /\ Results'[i] \in Int
      <4>1. ASSUME NEW i \in 0 .. Len(Win) - 1
            PROVE  Results[i] \in Int
        <5>1. i + 1 \in Games /\ settled[i + 1] \in Nat /\ Win[i + 1] \in Int
          BY <2>0, Constants DEF RowsType
        <5>2. QED
          BY <5>1 DEF Results
      <4>2. ASSUME NEW i \in 0 .. Len(Win) - 1
            PROVE  Results'[i] \in Int
        <5>1. CASE i = g - 1
          BY <3>1, <3>4, <5>1
        <5>2. CASE i # g - 1
          BY <3>5, <4>1, <5>2
        <5>3. QED
          BY <5>1, <5>2
      <4>3. QED
        BY <4>1, <4>2
    <3>7. Sum(Results', Len(Win)) = Sum(Results, Len(Win)) + Win[g]
      <4> DEFINE before == Results
                 after == Results'
                 j == g - 1
                 n == Len(Win)
      <4>1. /\ n \in Nat /\ j \in 0 .. n - 1 /\ Win[g] \in Int
            /\ \A i \in 0 .. n - 1 : before[i] \in Int
            /\ after[j] = before[j] + Win[g]
            /\ \A i \in 0 .. n - 1 : i # j => after[i] = before[i]
        BY <3>1, <3>4, <3>5, <3>6, Constants, Zenon
      <4> HIDE DEF before, after, j, n
      <4>2. Sum(after, n) = Sum(before, n) + Win[g]
        BY <4>1, SumChange
      <4>3. QED
        BY <4>2, Zenon DEF before, after, n
    <3>8. balance = Sum(Results, Len(Win))
      BY DEF BalanceIsTheSumOfResults, Results
    <3>9. QED
      BY <3>2, <3>7, <3>8 DEF BalanceIsTheSumOfResults, Results
  <2>3. ASSUME NEW t \in Clients \cup {Loop}, SaveResult(t)
        PROVE  Inv'
    BY <2>1, <2>2, <2>3, Zenon DEF SaveResult, Fails, dbVars
  <2>4. CASE UNCHANGED vars
    BY <2>1, <2>4 DEF vars, dbVars
  <2>5. QED
    BY <2>1, <2>3, <2>4, WhoChanges
<1>3. QED
  BY <1>1, <1>2, TypesHold, PTL DEF Spec

-----------------------------------------------------------------------------
(* Settling.  The run loop and the goroutines of clients may each find that *)
(* a game is over.  Each pays it once at most, and each ends it only after *)
(* it has paid.                                                            *)

\* Games are dealt in the order of their numbers.
DealtInOrder ==
  \A g, h \in Games : g < h /\ status[g] = "undealt" => status[h] = "undealt"

\* A client's goroutine that ends a game has found it over.
FindersAreCounted ==
  /\ \A c \in Clients :
        /\ thr[c].at \in {"record", "save", "unset"} => found[thr[c].game] > 0
        /\ thr[c].push = <<"gameEnded">> => \E g \in Games : found[g] > 0
  /\ \A g \in Games : found[g] > 0 => status[g] # "undealt"

\* What the run loop ends is on the table, unless someone took it off.
LoopEndsTheGameOnTheTable ==
  thr[Loop].at \in {"record", "save", "unset"} =>
     status[thr[Loop].game] # "undealt" /\ game \in {None, thr[Loop].game}

UnsetAfterPaying == ~ CommitsCanFail =>
  \A t \in Threads : thr[t].at = "unset" => settled[thr[t].game] > 0

\* Who is about to pay game g.
Payers(g) == {c \in Clients : thr[c].at \in {"record", "save"} /\ thr[c].game = g}
LoopMayPay(g) ==
  /\ thr[Loop].at = "unset" => thr[Loop].game # g
  /\ \/ game = g \/ status[g] = "undealt"
     \/ thr[Loop].at \in {"record", "save"} /\ thr[Loop].game = g
PaymentsAreCounted == \A g \in Games :
  settled[g] + Cardinality(Payers(g)) + (IF LoopMayPay(g) THEN 1 ELSE 0)
     <= 1 + found[g]

Settling == /\ DealtInOrder /\ FindersAreCounted /\ LoopEndsTheGameOnTheTable
            /\ UnsetAfterPaying /\ PaymentsAreCounted

\* How a game's status can change.
LEMMA StatusMoves ==
  ASSUME Types, Next, NEW g \in Games
  PROVE  /\ status'[g] = "undealt" => status[g] = "undealt"
         /\ status[g] = "undealt" /\ status'[g] # "undealt" =>
               LoopDeals /\ g = Min(Undealt)
<1>1. GamesType /\ game \in Games \cup {None}
  BY DEF Types, TableType
<1>2. CASE LoopTicks
  <2>1. game \in Games /\ status[game] # "undealt" => game \in Games
    OBVIOUS
  <2>2. \/ UNCHANGED status
        \/ /\ status[game] \in {"playing", "closing"}
           /\ \E s \in {"playing", "closing", "over"} :
                 status' = [status EXCEPT ![game] = s]
    BY <1>2, Zenon DEF LoopTicks, TickOf, gameVars
  <2>3. game \in Games
    BY <1>1, <1>2 DEF LoopTicks
  <2>4. QED
    BY <1>1, <2>2, <2>3 DEF GamesType
<1>3. CASE LoopDeals
  <2>1. \/ UNCHANGED status
        \/ Undealt # {} /\ status' = [status EXCEPT ![Min(Undealt)] = "playing"]
    BY <1>3, Zenon DEF LoopDeals
  <2>2. QED
    BY <1>1, <1>3, <2>1, NextGame DEF GamesType
<1>4. ASSUME NEW c \in Clients, Act(c)
      PROVE  status'[g] = status[g] \/ (status[g] # "undealt" /\ status'[g] # "undealt")
  <2>1. status[game] = "playing" /\ game # None
        /\ \E s \in {"playing", "closing"} : status' = [status EXCEPT ![game] = s]
    BY <1>4, Zenon DEF Act
  <2>2. QED
    BY <1>1, <2>1 DEF GamesType
<1>5. QED
  BY WhoChanges, <1>2, <1>3, <1>4

\* No message is uncounted, and no result unpaid, once it has been counted.
LEMMA CountsGrow ==
  ASSUME TypesInv, Next, NEW g \in Games
  PROVE  found[g] \in Nat /\ found'[g] \in Nat /\ found'[g] >= found[g]
         /\ settled[g] \in Nat /\ settled'[g] \in Nat /\ settled'[g] >= settled[g]
<1>1. Types /\ ThreadsType /\ GamesType /\ RowsType
  BY DEF TypesInv, Types
<1>2. found'[g] = found[g] \/ found'[g] = found[g] + 1
  <2>1. ASSUME NEW c \in Clients, IsOver(c)
        PROVE  found'[g] = found[g] \/ found'[g] = found[g] + 1
    BY <1>1, <2>1, OverMoves DEF GamesType
  <2>2. QED
    BY <2>1, WhoFinds
<1>3. settled'[g] = settled[g] \/ settled'[g] = settled[g] + 1
  <2>1. ASSUME NEW t \in Clients \cup {Loop}, SaveResult(t)
        PROVE  settled'[g] = settled[g] \/ settled'[g] = settled[g] + 1
    <3>1. settled' = settled \/ settled' = [settled EXCEPT ![thr[t].game] = @ + 1]
      BY <2>1, Zenon DEF SaveResult, Fails, dbVars
    <3>2. QED
      BY <1>1, <3>1 DEF RowsType
  <2>2. QED
    BY <2>1, WhoChanges
<1>4. found[g] \in Nat /\ settled[g] \in Nat
  BY <1>1 DEF GamesType, RowsType
<1>5. QED
  BY <1>2, <1>3, <1>4

\* The game that is dealt comes after all that were found over.
LEMMA DealtLater ==
  ASSUME TypesInv, DealtInOrder, Undealt # {}, NEW g \in Games, status[g] # "undealt"
  PROVE  g < Min(Undealt)
<1>1. Min(Undealt) \in Games /\ status[Min(Undealt)] = "undealt"
  BY NextGame
<1>2. g # Min(Undealt) /\ g \in Nat /\ Min(Undealt) \in Nat
  BY <1>1, Constants
<1>3. ~ (Min(Undealt) < g)
  BY <1>1 DEF DealtInOrder
<1>4. QED
  BY <1>2, <1>3

LEMMA DealtInOrderStep ==
  ASSUME TypesInv, DealtInOrder, Next
  PROVE  DealtInOrder'
<1>1. Types
  BY DEF TypesInv
<1> SUFFICES ASSUME NEW g \in Games, NEW h \in Games, g < h,
                    status'[g] = "undealt", status'[h] # "undealt"
             PROVE  FALSE
  BY DEF DealtInOrder
<1>2. status[g] = "undealt" /\ status[h] = "undealt"
  BY <1>1, StatusMoves DEF DealtInOrder
<1>3. LoopDeals /\ h = Min(Undealt)
  BY <1>1, <1>2, StatusMoves
<1>4. g \in Undealt /\ Undealt \in SUBSET Nat
  BY <1>2, Constants DEF Undealt
<1>5. Min(Undealt) <= g
  <2>1. Min(Undealt) = Least(Undealt)
    BY Zenon DEF Min, Least
  <2>2. QED
    BY <1>4, <2>1, LeastIsLeast
<1>6. g \in Nat /\ h \in Nat
  BY Constants
<1>7. QED
  BY <1>3, <1>5, <1>6

\* How a client's goroutine gets to the end of a game, and through it.
LEMMA ClientEnds ==
  ASSUME TypesInv, Next, NEW c \in Clients,
         thr'[c].at \in {"record", "save", "unset"}
  PROVE  \/ thr'[c].at = thr[c].at /\ thr'[c].game = thr[c].game
         \/ RecordGame(c) /\ thr'[c].at = "save" /\ thr'[c].game = thr[c].game
         \/ SaveResult(c) /\ thr'[c].at = "unset" /\ thr'[c].game = thr[c].game
         \/ /\ IsOver(c) /\ thr'[c].at = "record" /\ thr'[c].game = thr[c].game
            /\ status[thr[c].game] = "over"
            /\ found' = [found EXCEPT ![thr[c].game] = @ + 1]
<1>1. Types /\ ThreadsType /\ TableType /\ RowsType
  BY DEF TypesInv, Types
<1>2. ~ AddClient(c) /\ ~ RemoveClient(c) /\ ~ Act(c) /\ ~ UnsetGame(c)
  BY <1>1, AddMoves, RemoveMoves, ActMoves, UnsetMoves, Constants
<1>3. thr'[c] = thr[c] \/ Push(c) \/ RecordGame(c) \/ SaveResult(c) \/ IsOver(c)
  BY <1>1, <1>2, ThreadsTypeStep, Constants DEF Moves
<1>4. QED
  BY <1>1, <1>3, PushMoves, RecordMoves, SaveMoves, OverMoves, Constants

LEMMA FindersAreCountedStep ==
  ASSUME TypesInv, FindersAreCounted, Next
  PROVE  FindersAreCounted'
<1>1. Types /\ ThreadsType /\ GamesType /\ EndersKnowTheGame /\ TableType /\ RowsType
  BY DEF TypesInv, Types
<1>2. ASSUME NEW c \in Clients, thr'[c].at \in {"record", "save", "unset"}
      PROVE  found'[thr'[c].game] > 0
  <2>1. CASE thr[c].at \in {"record", "save", "unset"} /\ thr'[c].game = thr[c].game
    <3>1. thr[c].game \in Games
      BY <1>1, <2>1, Constants DEF EndersKnowTheGame, Ending
    <3>2. found[thr[c].game] > 0
      BY <2>1 DEF FindersAreCounted
    <3>3. QED
      BY <2>1, <3>1, <3>2, CountsGrow
  <2>2. CASE IsOver(c) /\ thr'[c].game = thr[c].game
             /\ found' = [found EXCEPT ![thr[c].game] = @ + 1]
    <3>1. thr[c].game \in Games
      BY <1>1, <2>2, Constants DEF EndersKnowTheGame, Ending, IsOver, At
    <3>2. QED
      BY <1>1, <2>2, <3>1 DEF GamesType
  <2>3. QED
    BY <1>2, <2>1, <2>2, ClientEnds DEF RecordGame, SaveResult, At
<1>3. ASSUME NEW c \in Clients, thr'[c].push = <<"gameEnded">>
      PROVE  \E g \in Games : found'[g] > 0
  <2>1. CASE thr[c].push = <<"gameEnded">>
    BY <2>1, CountsGrow DEF FindersAreCounted
  <2>2. CASE thr[c].push # <<"gameEnded">>
    <3>0. <<"gameEnded">> # <<>> /\ <<"gameEnded">> # <<"gameEvent">>
      OBVIOUS
    <3>1. ~ Push(c) /\ ~ RecordGame(c) /\ ~ SaveResult(c) /\ ~ IsOver(c) /\ ~ Act(c)
      BY <1>1, <1>3, <3>0, PushMoves, RecordMoves, SaveMoves, OverMoves, ActMoves, Constants
    <3>2. ~ AddClient(c) /\ ~ RemoveClient(c)
      BY <1>1, <1>3, <2>2, AddMoves, RemoveMoves
    <3>3. UnsetGame(c)
      BY <1>1, <1>3, <2>2, <3>1, <3>2, ThreadsTypeStep, Constants DEF Moves
    <3>4. thr[c].at = "unset"
      BY <3>3 DEF UnsetGame, At
    <3>5. thr[c].game \in Games /\ found[thr[c].game] > 0
      BY <1>1, <3>4, Constants DEF EndersKnowTheGame, Ending, FindersAreCounted
    <3>6. QED
      BY <3>5, CountsGrow
  <2>3. QED
    BY <2>1, <2>2
<1>4. ASSUME NEW g \in Games, found'[g] > 0
      PROVE  status'[g] # "undealt"
  <2>1. CASE found[g] > 0
    BY <1>1, <2>1, StatusMoves DEF FindersAreCounted
  <2>2. CASE ~ (found[g] > 0)
    <3>1. PICK c \in Clients : IsOver(c)
      BY <1>4, <2>2, WhoFinds
    <3>2. status[thr[c].game] = "over" /\ found' = [found EXCEPT ![thr[c].game] = @ + 1]
      BY <1>1, <1>4, <2>2, <3>1, OverMoves
    <3>3. g = thr[c].game
      BY <1>1, <1>4, <2>2, <3>2 DEF GamesType
    <3>4. UNCHANGED status
      BY <3>1 DEF IsOver
    <3>5. QED
      BY <3>2, <3>3, <3>4
  <2>3. QED
    BY <2>1, <2>2
<1>5. QED
  BY <1>2, <1>3, <1>4 DEF FindersAreCounted

\* The loop's own ending steps are the only ones it takes while it ends a game.
LEMMA LoopEndsAlone ==
  ASSUME TypesInv, Next, thr[Loop].at \in {"record", "save", "unset"}
  PROVE  /\ \/ thr'[Loop].at = thr[Loop].at /\ thr'[Loop].game = thr[Loop].game
            \/ RecordGame(Loop) \/ SaveResult(Loop) \/ UnsetGame(Loop)
         /\ ~ LoopDeals /\ ~ LoopRuns /\ ~ LoopTicks
<1>1. Types /\ ThreadsType
  BY DEF TypesInv, Types
<1>2. ~ LoopDeals /\ ~ LoopRuns /\ ~ LoopTicks /\ ~ LoopTakesEvent
  BY DEF LoopDeals, LoopRuns, LoopTicks, LoopTakesEvent, Idle
<1>3. ~ SendsAnything /\ ~ TickIsOver
  BY DEF SendsAnything, sendGameData, sendPlayerData, sendGameEnded,
     sendGameScheduled, LoopCloses, TickIsOver, At, Idle
<1>4. thr'[Loop] = thr[Loop] \/ Push(Loop) \/ RecordGame(Loop) \/ SaveResult(Loop) \/ UnsetGame(Loop)
  BY <1>1, <1>2, <1>3, ThreadsTypeStep, Constants, Zenon DEF Moves
<1>5. QED
  BY <1>1, <1>2, <1>4, PushMoves, Constants

\* How the run loop gets to the end of a game, and through it.
LEMMA LoopEnds ==
  ASSUME TypesInv, Next, thr'[Loop].at \in {"record", "save", "unset"}
  PROVE  \/ /\ thr[Loop].at \in {"record", "save", "unset"}
            /\ thr'[Loop].game = thr[Loop].game
            /\ \/ thr'[Loop].at = thr[Loop].at
               \/ RecordGame(Loop) /\ thr'[Loop].at = "save"
               \/ SaveResult(Loop) /\ thr'[Loop].at = "unset"
            /\ ~ UnsetGame(Loop)
         \/ /\ TickIsOver /\ thr[Loop].at = "tickOver" /\ thr'[Loop].at = "record"
            /\ thr'[Loop].game = game /\ game \in Games /\ status[game] = "over"
<1>1. Types /\ ThreadsType /\ TableType /\ RowsType /\ EventsType
  BY DEF TypesInv, Types
<1>2. ~ UnsetGame(Loop)
  BY <1>1, UnsetMoves, Constants
<1>3. CASE thr[Loop].at \in {"record", "save", "unset"}
  BY <1>1, <1>2, <1>3, LoopEndsAlone, RecordMoves, SaveMoves, Constants
<1>4. CASE thr[Loop].at \notin {"record", "save", "unset"}
  <2>1. thr'[Loop].at # thr[Loop].at
    BY <1>4
  <2>2. ~ RecordGame(Loop) /\ ~ SaveResult(Loop)
    BY <1>4 DEF RecordGame, SaveResult, At
  <2>3. ~ SendsAnything /\ ~ LoopTicks /\ ~ LoopTakesEvent
    BY <1>1, <2>1, SendMoves, TicksMove, TakesMove
  <2>4. ~ LoopDeals /\ ~ LoopRuns
    BY <1>1, <2>1, DealsMove
  <2>5. TickIsOver
    BY <1>1, <1>2, <2>1, <2>2, <2>3, <2>4, ThreadsTypeStep, PushMoves, Constants DEF Moves
  <2>6. QED
    BY <1>1, <2>1, <2>5, IsOverMoves DEF TableType, TickIsOver, At
<1>5. QED
  BY <1>3, <1>4

LEMMA LoopEndsTheGameOnTheTableStep ==
  ASSUME TypesInv, LoopEndsTheGameOnTheTable, Next
  PROVE  LoopEndsTheGameOnTheTable'
<1>1. Types /\ EndersKnowTheGame
  BY DEF TypesInv, Types
<1> SUFFICES ASSUME thr'[Loop].at \in {"record", "save", "unset"}
             PROVE  /\ status'[thr'[Loop].game] # "undealt"
                    /\ game' \in {None, thr'[Loop].game}
  BY DEF LoopEndsTheGameOnTheTable
<1>2. CASE thr[Loop].at \in {"record", "save", "unset"} /\ thr'[Loop].game = thr[Loop].game
  <2>1. /\ status[thr[Loop].game] # "undealt" /\ game \in {None, thr[Loop].game}
        /\ thr[Loop].game \in Games
    BY <1>1, <1>2, Constants DEF LoopEndsTheGameOnTheTable, EndersKnowTheGame, Ending
  <2>2. game' = game \/ game' = None
    BY <1>2, WhoChanges, LoopEndsAlone DEF UnsetGame
  <2>3. status'[thr[Loop].game] # "undealt"
    BY <1>1, <2>1, StatusMoves
  <2>4. QED
    BY <1>2, <2>1, <2>2, <2>3
<1>3. CASE TickIsOver /\ thr'[Loop].game = game /\ game \in Games /\ status[game] = "over"
  BY <1>3 DEF TickIsOver, dealerVars, gameVars
<1>4. QED
  BY <1>2, <1>3, LoopEnds

LEMMA UnsetAfterPayingStep ==
  ASSUME TypesInv, UnsetAfterPaying, Next
  PROVE  UnsetAfterPaying'
<1>1. Types /\ ThreadsType /\ RowsType /\ EndersKnowTheGame
  BY DEF TypesInv, Types
<1> SUFFICES ASSUME ~ CommitsCanFail, NEW t \in Threads, thr'[t].at = "unset"
             PROVE  settled'[thr'[t].game] > 0
  BY DEF UnsetAfterPaying
<1>2. \/ thr[t].at = "unset" /\ thr'[t].game = thr[t].game
      \/ t \in Clients \cup {Loop} /\ SaveResult(t) /\ thr'[t].game = thr[t].game
  <2>1. CASE t = Loop
    BY <2>1, LoopEnds
  <2>2. CASE t \in Clients
    BY <2>2, ClientEnds
  <2>3. CASE t = PitBoss
    BY <2>3, TypesStep DEF TypesInv, SeatingIsKnown
  <2>4. QED
    BY <2>1, <2>2, <2>3 DEF Threads
<1>3. CASE thr[t].at = "unset" /\ thr'[t].game = thr[t].game
  <2>1. thr[t].game \in Games /\ settled[thr[t].game] > 0
    BY <1>1, <1>3 DEF EndersKnowTheGame, Ending, UnsetAfterPaying
  <2>2. QED
    BY <1>3, <2>1, CountsGrow
<1>4. CASE t \in Clients \cup {Loop} /\ SaveResult(t) /\ thr'[t].game = thr[t].game
  <2>1. thr[t].game \in Games
    BY <1>1, <1>4 DEF EndersKnowTheGame, Ending, SaveResult, At
  <2>2. \/ Rests(t, <<>>)
        \/ settled' = [settled EXCEPT ![thr[t].game] = @ + 1]
    BY <1>4, Zenon DEF SaveResult, Fails
  <2>3. ~ Rests(t, <<>>)
    BY <1>1, RestsType, PushesAre
  <2>4. QED
    BY <1>1, <1>4, <2>1, <2>2, <2>3 DEF RowsType
<1>5. QED
  BY <1>2, <1>3, <1>4

\* Nothing but a deal lets the run loop pay a game, and a game is dealt once.
LEMMA LoopPaysOnce ==
  ASSUME TypesInv, LoopEndsTheGameOnTheTable, Next, NEW g \in Games, LoopMayPay(g)'
  PROVE  LoopMayPay(g)
<1>1. Types /\ GamesType
  BY DEF TypesInv, Types
<1>2. CASE thr[Loop].at = "unset" /\ thr[Loop].game = g
  <2>1. status[g] # "undealt" /\ game \in {None, g}
    BY <1>2 DEF LoopEndsTheGameOnTheTable
  <2>2. status'[g] # "undealt"
    BY <1>1, <2>1, StatusMoves
  <2>3. ~ (thr'[Loop].at = "unset" /\ thr'[Loop].game = g)
    BY DEF LoopMayPay
  <2>4. ~ RecordGame(Loop) /\ ~ SaveResult(Loop)
    BY <1>2 DEF RecordGame, SaveResult, At
  <2>5. UnsetGame(Loop)
    BY <1>2, <2>3, <2>4, LoopEndsAlone
  <2>6. game' = None
    BY <2>5 DEF UnsetGame
  <2>7. thr'[Loop].at = "idle"
    BY <1>1, <2>5, UnsetMoves, Constants DEF Types
  <2>8. QED
    BY <2>2, <2>6, <2>7, Constants DEF LoopMayPay
<1>3. CASE ~ (thr[Loop].at = "unset" /\ thr[Loop].game = g)
  <2>1. CASE game' = g
    <3>1. game' # None
      BY <2>1, Constants
    <3>2. game' = game \/ (Undealt # {} /\ game' = Min(Undealt))
      BY <3>1, WhoChanges, Zenon DEF UnsetGame, LoopDeals, LoopRuns,
         ScheduleGame, CancelGame, TerminateGame, SaveSeat, Greet
    <3>3. game = g \/ status[g] = "undealt"
      BY <2>1, <3>2, NextGame
    <3>4. QED
      BY <1>3, <3>3 DEF LoopMayPay
  <2>2. CASE status'[g] = "undealt"
    BY <1>1, <1>3, <2>2, StatusMoves DEF LoopMayPay
  <2>3. CASE thr'[Loop].at \in {"record", "save"} /\ thr'[Loop].game = g
    <3>1. \/ /\ thr[Loop].at \in {"record", "save", "unset"} /\ thr[Loop].game = g
          \/ game = g
      BY <2>3, LoopEnds
    <3>2. QED
      BY <1>3, <3>1 DEF LoopMayPay
  <2>4. QED
    BY <2>1, <2>2, <2>3 DEF LoopMayPay
<1>4. QED
  BY <1>2, <1>3

\* Who is about to pay: more by the message that finds the game over only.
LEMMA PayersMove ==
  ASSUME TypesInv, Next, NEW g \in Games
  PROVE  /\ IsFiniteSet(Payers(g)) /\ Cardinality(Payers(g)) \in Nat
         /\ Cardinality(Payers(g)') \in Nat
         /\ \/ Cardinality(Payers(g)') <= Cardinality(Payers(g))
            \/ /\ Cardinality(Payers(g)') = Cardinality(Payers(g)) + 1
               /\ \E c \in Clients : IsOver(c)
               /\ found'[g] = found[g] + 1
<1>1. Types /\ ThreadsType /\ GamesType
  BY DEF TypesInv, Types
<1>2. /\ IsFiniteSet(Clients) /\ Payers(g) \in SUBSET Clients
      /\ Payers(g)' \in SUBSET Clients
  BY DealerAssumption DEF Payers
<1>3. IsFiniteSet(Payers(g)) /\ IsFiniteSet(Payers(g)')
  BY <1>2, FS_Subset
<1>4. Cardinality(Payers(g)) \in Nat /\ Cardinality(Payers(g)') \in Nat
  BY <1>3, FS_CardinalityType
<1>5. ASSUME NEW c \in Payers(g)', c \notin Payers(g)
      PROVE  IsOver(c) /\ thr[c].game = g /\ found' = [found EXCEPT ![g] = @ + 1]
  <2>1. c \in Clients /\ thr'[c].at \in {"record", "save"} /\ thr'[c].game = g
    BY <1>5 DEF Payers
  <2>2. ~ (thr[c].at \in {"record", "save"} /\ thr[c].game = g)
    BY <1>5, <2>1 DEF Payers
  <2>3. QED
    BY <2>1, <2>2, ClientEnds DEF RecordGame, SaveResult, At
<1>6. CASE Payers(g)' \subseteq Payers(g)
  <2>1. Payers(g)' \in SUBSET Payers(g)
    BY <1>6
  <2>2. Cardinality(Payers(g)') <= Cardinality(Payers(g))
    BY <1>3, <2>1, FS_Subset
  <2>3. QED
    BY <1>3, <1>4, <2>2
<1>7. ASSUME NEW c \in Payers(g)', c \notin Payers(g)
      PROVE  /\ Cardinality(Payers(g)') = Cardinality(Payers(g)) + 1
             /\ \E d \in Clients : IsOver(d)
             /\ found'[g] = found[g] + 1
  <2>1. c \in Clients /\ IsOver(c) /\ found' = [found EXCEPT ![g] = @ + 1]
    BY <1>2, <1>5, <1>7
  <2>2. \A u \in Threads \ {c} : thr'[u] = thr[u]
    BY <1>1, <2>1, OverMoves
  <2>3. \A d \in Clients \ {c} : d \in Payers(g)' <=> d \in Payers(g)
    BY <2>2, Constants DEF Payers
  <2>4. Payers(g)' = Payers(g) \cup {c}
    BY <1>2, <1>7, <2>1, <2>3
  <2>5. Cardinality(Payers(g) \cup {c}) = Cardinality(Payers(g)) + 1
    BY <1>3, <1>7, FS_AddElement
  <2>6. QED
    BY <1>1, <2>1, <2>4, <2>5 DEF GamesType
<1>8. QED
  BY <1>3, <1>4, <1>6, <1>7

LEMMA PaymentsAreCountedStep ==
  ASSUME TypesInv, LoopEndsTheGameOnTheTable, PaymentsAreCounted, Next
  PROVE  PaymentsAreCounted'
<1>1. Types /\ ThreadsType /\ RowsType /\ GamesType /\ EndersKnowTheGame
  BY DEF TypesInv, Types
<1> SUFFICES ASSUME NEW g \in Games
             PROVE  settled'[g] + Cardinality(Payers(g)') + (IF LoopMayPay(g)' THEN 1 ELSE 0)
                       <= 1 + found'[g]
  BY DEF PaymentsAreCounted
<1> DEFINE n == Cardinality(Payers(g))
           m == Cardinality(Payers(g)')
           may == IF LoopMayPay(g) THEN 1 ELSE 0
           mayNow == IF LoopMayPay(g)' THEN 1 ELSE 0
<1>2. /\ n \in Nat /\ m \in Nat
      /\ found[g] \in Nat /\ found'[g] \in Nat /\ found'[g] >= found[g]
      /\ settled[g] \in Nat /\ settled'[g] \in Nat
  BY PayersMove, CountsGrow
<1>3. settled[g] + n + may <= 1 + found[g]
  BY DEF PaymentsAreCounted
<1>4. may \in {0, 1} /\ mayNow \in {0, 1} /\ mayNow <= may
  BY LoopPaysOnce
<1>5. \/ m <= n
      \/ /\ m = n + 1 /\ found'[g] = found[g] + 1
         /\ \E c \in Clients : IsOver(c)
  BY PayersMove
<1>6. CASE settled'[g] = settled[g]
  <2> HIDE DEF n, m, may, mayNow
  <2>1. settled'[g] + m + mayNow <= 1 + found'[g]
    BY <1>2, <1>3, <1>4, <1>5, <1>6
  <2>2. QED
    BY <2>1 DEF m, mayNow
<1>7. CASE settled'[g] # settled[g]
  <2>1. PICK t \in Clients \cup {Loop} : SaveResult(t)
    BY <1>7, WhoChanges
  <2>2. t \in Threads /\ thr[t].at = "save" /\ thr[t].push = <<>>
    BY <2>1, Constants DEF SaveResult, At
  <2>3. settled' = [settled EXCEPT ![thr[t].game] = @ + 1] /\ Goes(t, "unset", <<>>)
    <3>1. UNCHANGED settled
          \/ (settled' = [settled EXCEPT ![thr[t].game] = @ + 1] /\ Goes(t, "unset", <<>>))
      BY <2>1, Zenon DEF SaveResult, Fails, dbVars
    <3>2. QED
      BY <1>7, <3>1
  <2>4. thr[t].game = g /\ settled'[g] = settled[g] + 1
    BY <1>1, <1>7, <2>3 DEF RowsType
  <2>5. /\ thr'[t].at = "unset" /\ thr'[t].game = g
        /\ \A u \in Threads \ {t} : thr'[u] = thr[u]
    BY <1>1, <2>2, <2>3, <2>4, GoesType, PushesAre DEF Places
  <2>6. CASE t = Loop
    <3>1. may = 1 /\ mayNow = 0
      <4>1. LoopMayPay(g)
        BY <2>2, <2>4, <2>6 DEF LoopMayPay
      <4>2. ~ LoopMayPay(g)'
        BY <2>5, <2>6 DEF LoopMayPay
      <4>3. QED
        BY <4>1, <4>2
    <3>2. Payers(g)' = Payers(g)
      BY <2>5, <2>6, Constants DEF Payers
    <3>3. m = n
      BY <3>2
    <3> HIDE DEF n, m, may, mayNow
    <3>4. settled'[g] + m + mayNow <= 1 + found'[g]
      BY <1>2, <1>3, <2>4, <3>1, <3>3
    <3>5. QED
      BY <3>4 DEF m, mayNow
  <2>7. CASE t # Loop
    <3>1. t \in Clients
      BY <2>1, <2>7
    <3>2. t \in Payers(g) /\ t \notin Payers(g)'
      BY <2>2, <2>4, <2>5, <3>1 DEF Payers
    <3>3. \A d \in Clients \ {t} : d \in Payers(g)' <=> d \in Payers(g)
      BY <2>5, Constants DEF Payers
    <3>4. Payers(g) \subseteq Clients /\ Payers(g)' \subseteq Clients
      BY DEF Payers
    <3>5. Payers(g)' = Payers(g) \ {t}
      BY <3>2, <3>3, <3>4
    <3>6. m = n - 1
      <4>1. IsFiniteSet(Payers(g))
        BY PayersMove
      <4>2. QED
        BY <3>2, <3>5, <4>1, FS_RemoveElement
    <3> HIDE DEF n, m, may, mayNow
    <3>7. settled'[g] + m + mayNow <= 1 + found'[g]
      BY <1>2, <1>3, <1>4, <2>4, <3>6
    <3>8. QED
      BY <3>7 DEF m, mayNow
  <2>8. QED
    BY <2>6, <2>7
<1>8. QED
  BY <1>6, <1>7

LEMMA SettlingInit == Init => Settling
<1> SUFFICES ASSUME Init PROVE Settling
  OBVIOUS
<1>1. \A t \in Threads : thr[t].at \in {"new", "idle"} /\ thr[t].push = <<>>
  BY DEF Init
<1>2. thr[Loop].at \in {"new", "idle"}
  BY <1>1, Constants
<1>3. \A g \in Games : settled[g] = 0 /\ found[g] = 0 /\ status[g] = "undealt"
  BY DEF Init
<1>4. DealtInOrder /\ LoopEndsTheGameOnTheTable /\ UnsetAfterPaying
  BY <1>1, <1>2, <1>3 DEF DealtInOrder, LoopEndsTheGameOnTheTable, UnsetAfterPaying
<1>5. FindersAreCounted
  <2>1. <<"gameEnded">> # <<>>
    OBVIOUS
  <2>2. QED
    BY <1>1, <1>3, <2>1, Constants DEF FindersAreCounted
<1>6. PaymentsAreCounted
  <2>1. \A g \in Games : Payers(g) = {}
    BY <1>1, Constants DEF Payers
  <2>2. Cardinality({}) = 0
    BY FS_EmptySet
  <2>3. QED
    BY <1>3, <2>1, <2>2 DEF PaymentsAreCounted
<1>7. QED
  BY <1>4, <1>5, <1>6 DEF Settling

LEMMA SettlingStep == TypesInv /\ Settling /\ [Next]_vars => Settling'
<1>1. ASSUME TypesInv, Settling, Next PROVE Settling'
  <2>1. DealtInOrder' /\ FindersAreCounted'
    BY <1>1, DealtInOrderStep, FindersAreCountedStep DEF Settling
  <2>2. LoopEndsTheGameOnTheTable' /\ UnsetAfterPaying'
    BY <1>1, LoopEndsTheGameOnTheTableStep, UnsetAfterPayingStep DEF Settling
  <2>3. PaymentsAreCounted'
    BY <1>1, PaymentsAreCountedStep DEF Settling
  <2>4. QED
    BY <2>1, <2>2, <2>3 DEF Settling
<1>2. ASSUME Settling, UNCHANGED vars PROVE Settling'
  BY <1>2 DEF Settling, DealtInOrder, FindersAreCounted, LoopEndsTheGameOnTheTable,
     UnsetAfterPaying, PaymentsAreCounted, Payers, LoopMayPay, vars, dealerVars,
     gameVars, dbVars
<1>3. QED
  BY <1>1, <1>2

\* The run loop pays a game at most once, however often it retries, and so does
\* each message whose handler finds it over, for any clients and games (endGame,
\* called by the run loop and by the clients' goroutines).
THEOREM EachPaysOnce == Spec => []EachFinderPaysOnce
<1>1. TypesInv /\ Settling => EachFinderPaysOnce
  <2> SUFFICES ASSUME TypesInv, Settling, NEW g \in Games
               PROVE  settled[g] <= 1 + found[g]
    BY DEF EachFinderPaysOnce
  <2>1. Cardinality(Payers(g)) \in Nat
    <3>1. IsFiniteSet(Clients) /\ Payers(g) \in SUBSET Clients
      BY DealerAssumption DEF Payers
    <3>2. QED
      BY <3>1, FS_Subset, FS_CardinalityType
  <2>2. settled[g] \in Nat /\ found[g] \in Nat
    BY DEF TypesInv, Types, RowsType, GamesType
  <2>3. settled[g] + Cardinality(Payers(g)) + (IF LoopMayPay(g) THEN 1 ELSE 0) <= 1 + found[g]
    BY DEF Settling, PaymentsAreCounted
  <2>4. (IF LoopMayPay(g) THEN 1 ELSE 0) \in Nat
    OBVIOUS
  <2>5. QED
    BY <2>1, <2>2, <2>3, <2>4
<1>2. QED
  BY <1>1, SettlingInit, SettlingStep, TypesHold, PTL DEF Spec

\* A game leaves the table only when its result is in the database, when a
\* client terminates it, when a new game replaces it, or when a client's
\* goroutine comes to the end of an earlier game's endGame only now, provided
\* that a COMMIT does not fail (endGame and unsetGame).
THEOREM ResultsArePaidBeforeTheGameLeaves ==
  ASSUME ~ CommitsCanFail
  PROVE  Spec => ResultsAreNotLost
<1> DEFINE Kept == game # None /\ game' # game =>
                     \/ settled[game] > 0
                     \/ Undealt' # Undealt
                     \/ \E c \in Clients : UnsetGame(c) /\ thr[c].game # game
                     \/ /\ execInRunLoop # <<>> /\ execInRunLoop' = Tail(execInRunLoop)
                        /\ Head(execInRunLoop).kind = "terminateGame"
<1>1. ASSUME TypesInv, Settling, [Next]_vars PROVE Kept
  <2> SUFFICES ASSUME game # None, game' # game
               PROVE  \/ settled[game] > 0
                      \/ Undealt' # Undealt
                      \/ \E c \in Clients : UnsetGame(c) /\ thr[c].game # game
                      \/ /\ execInRunLoop # <<>> /\ execInRunLoop' = Tail(execInRunLoop)
                         /\ Head(execInRunLoop).kind = "terminateGame"
    OBVIOUS
  <2>1. Next
    BY <1>1 DEF vars, dealerVars
  <2>2. CASE LoopDeals
    <3>1. Undealt # {} /\ status' = [status EXCEPT ![Min(Undealt)] = "playing"]
      BY <2>2, Zenon DEF LoopDeals
    <3>2. status'[Min(Undealt)] # "undealt" /\ Min(Undealt) \in Undealt
      BY <1>1, <3>1, NextGame DEF TypesInv, Types, GamesType, Undealt
    <3>3. QED
      BY <3>2 DEF Undealt
  <2>3. CASE LoopRuns
    BY <2>3 DEF LoopRuns, ScheduleGame, CancelGame, TerminateGame, SaveSeat, Greet
  <2>4. ASSUME NEW t \in Clients \cup {Loop}, UnsetGame(t)
        PROVE  settled[game] > 0 \/ (t \in Clients /\ thr[t].game # game)
    <3>1. thr[t].at = "unset" /\ t \in Threads
      BY <2>4, Constants DEF UnsetGame, At
    <3>2. settled[thr[t].game] > 0
      BY <1>1, <3>1 DEF Settling, UnsetAfterPaying
    <3>3. t = Loop => thr[t].game = game
      BY <1>1, <3>1 DEF Settling, LoopEndsTheGameOnTheTable
    <3>4. QED
      BY <3>2, <3>3
  <2>5. QED
    BY <1>1, <2>1, <2>2, <2>3, <2>4, WhoChanges
<1>2. Spec => [][Kept]_vars
  BY <1>1, SettlingInit, SettlingStep, TypesHold, PTL DEF Spec
<1>3. QED
  BY <1>2 DEF ResultsAreNotLost

-----------------------------------------------------------------------------
(* Screens.                                                                *)

Queued(e) == \E i \in 1 .. Len(stateChanged) : stateChanged[i] = e
Coming(e) == Queued(e) \/ \E t \in Threads : thr[t].push = <<e>>

Greeting(c) == [kind |-> "greet", client |-> c]
GreetComing(c) ==
  \/ joining = c
  \/ \E i \in 1 .. Len(execInRunLoop) : execInRunLoop[i] = Greeting(c)

\* Who sends which events.
SendersAreKnown ==
  /\ \A c \in Clients :
        thr[c].push \in {<<>>, <<"gameEvent">>, <<"gameEnded">>}
  /\ thr[PitBoss].push \in {<<>>, <<"clientEvent">>}
  /\ \A t \in Clients \cup {Loop} :
        thr[t].push = <<"gameEnded">> => game = None \/ EndsAnotherGame

\* While a game is on the table, the end of an earlier one is announced before
\* the game is, unless a message found the earlier one over.
EndsComeFirst == game # None /\ ~ EndsAnotherGame =>
  /\ \A i \in 1 .. Len(stateChanged) : stateChanged[i] = "gameEnded" =>
        \/ \E j \in i + 1 .. Len(stateChanged) : stateChanged[j] = "gameEvent"
        \/ thr[Loop].push = <<"gameEvent">>
  /\ thr[Loop].at = "sendEnded" => Queued("gameEvent")

NewcomersAreBlank == \A c \in Clients : thr[c].at = "new" =>
  screen[c] = Blank /\ c \notin clients /\ ~ GreetComing(c)

\* What a client's screen shows is current, or on its way.
GameIsShown(c) ==
  /\ game = None => \/ screen[c].game = None
                    \/ Coming("gameEnded") \/ thr[Loop].at = "sendEnded"
  /\ game # None /\ ~ EndsAnotherGame =>
        \/ screen[c].game = game /\ screen[c].version = version[game]
        \/ Coming("gameEvent") \/ thr[Loop].at \in {"sendGame", "tickSend"}
        \/ GreetComing(c)

ScheduleIsShown(c) == pendingGame =>
  \/ screen[c].scheduled
  \/ Coming("gameScheduled") \/ thr[Loop].at = "sendScheduled" \/ GreetComing(c)

PlayersAreShown(c) ==
  \/ screen[c].missed
  \/ screen[c].players = clients /\ screen[c].table = <<seats, balance>>
  \/ Coming("clientEvent") \/ Coming("gameEnded")
  \/ \E t \in Clients \cup {Loop} : thr[t].at = "unset"
  \/ thr[Loop].at \in {"sendEnded", "sendPlayers"}

ScreensCatchUp == ~ crashed => \A c \in clients :
  GameIsShown(c) /\ ScheduleIsShown(c) /\ PlayersAreShown(c)

Screening == /\ SendersAreKnown /\ EndsComeFirst /\ NewcomersAreBlank
             /\ ScreensCatchUp

-----------------------------------------------------------------------------
(* The queues: what is in them stays there until the run loop takes it.    *)

LEMMA Appended ==
  ASSUME NEW S, NEW q \in Seq(S), NEW e \in S
  PROVE  /\ Len(Append(q, e)) = Len(q) + 1
         /\ Append(q, e)[Len(q) + 1] = e
         /\ \A i \in 1 .. Len(q) : Append(q, e)[i] = q[i]
OBVIOUS

LEMMA Taken ==
  ASSUME NEW S, NEW q \in Seq(S), q # <<>>
  PROVE  /\ Len(Tail(q)) = Len(q) - 1 /\ Len(q) \in Nat \ {0}
         /\ \A i \in 1 .. Len(q) - 1 : Tail(q)[i] = q[i + 1]
         /\ Head(q) = q[1]
OBVIOUS

\* A thread that has something to send does nothing else.
LEMMA PushesStay ==
  ASSUME TypesInv, Next, NEW t \in Threads, thr[t].push # <<>>
  PROVE  thr'[t].push = thr[t].push \/ Push(t)
<1>1. Types /\ ThreadsType /\ TableType
  BY DEF TypesInv, Types
<1>2. CASE t = Loop
  <2>1. ~ RecordGame(t) /\ ~ SaveResult(t) /\ ~ UnsetGame(t)
    BY DEF RecordGame, SaveResult, UnsetGame, At
  <2>2. ~ SendsAnything
    BY <1>2 DEF SendsAnything, sendGameData, sendPlayerData, sendGameEnded,
       sendGameScheduled, LoopCloses, At, Idle
  <2>3. ~ LoopTicks /\ ~ TickIsOver /\ ~ LoopDeals /\ ~ LoopTakesEvent /\ ~ LoopRuns
    BY <1>2 DEF LoopTicks, TickIsOver, LoopDeals, LoopTakesEvent, LoopRuns, At, Idle
  <2>4. QED
    BY <1>1, <1>2, <2>1, <2>2, <2>3, ThreadsTypeStep, Constants DEF Moves
<1>3. CASE t = PitBoss
  <2>1. ~ GreetClient /\ \A c \in Clients : ~ AddClient(c) /\ ~ RemoveClient(c)
    BY <1>3 DEF GreetClient, AddClient, RemoveClient, At, Idle
  <2>2. QED
    BY <1>1, <1>3, <2>1, ThreadsTypeStep, Constants DEF Moves
<1>4. CASE t \in Clients
  <2>1. ~ RecordGame(t) /\ ~ SaveResult(t) /\ ~ UnsetGame(t)
    BY DEF RecordGame, SaveResult, UnsetGame, At
  <2>2. ~ Act(t) /\ ~ IsOver(t) /\ ~ RemoveClient(t)
    BY <1>4 DEF Act, IsOver, RemoveClient, At, Idle
  <2>3. QED
    BY <1>1, <1>4, <2>1, <2>2, ThreadsTypeStep, AddMoves, Constants DEF Moves
<1>5. QED
  BY <1>2, <1>3, <1>4 DEF Threads

LEMMA QueuedStays ==
  ASSUME TypesInv, Next, NEW e, Queued(e)
  PROVE  Queued(e)' \/ (LoopTakesEvent /\ Head(stateChanged) = e)
<1>1. ThreadsType /\ stateChanged \in Seq(Events)
  BY DEF TypesInv, Types, EventsType
<1>2. PICK i \in 1 .. Len(stateChanged) : stateChanged[i] = e
  BY DEF Queued
<1>3. CASE UNCHANGED stateChanged
  BY <1>2, <1>3 DEF Queued
<1>4. ASSUME NEW t \in Threads, Push(t)
      PROVE  Queued(e)'
  <2>1. Head(thr[t].push) \in Events /\ stateChanged' = Append(stateChanged, Head(thr[t].push))
    BY <1>1, <1>4, PushMoves DEF Push
  <2>2. i \in 1 .. Len(stateChanged') /\ stateChanged'[i] = e
    BY <1>1, <1>2, <2>1, Appended
  <2>3. QED
    BY <2>2 DEF Queued
<1>5. CASE LoopTakesEvent
  <2>1. stateChanged # <<>> /\ stateChanged' = Tail(stateChanged)
    BY <1>5 DEF LoopTakesEvent
  <2>2. CASE i = 1
    BY <1>1, <1>2, <1>5, <2>1, <2>2, Taken
  <2>3. CASE i # 1
    <3>1. i - 1 \in 1 .. Len(stateChanged') /\ stateChanged'[i - 1] = e
      BY <1>1, <1>2, <2>1, <2>3, Taken
    <3>2. QED
      BY <3>1 DEF Queued
  <2>4. QED
    BY <2>2, <2>3
<1>6. QED
  BY <1>3, <1>4, <1>5, WhoChanges

LEMMA ComingStays ==
  ASSUME TypesInv, Next, NEW e \in Events, Coming(e)
  PROVE  Coming(e)' \/ (LoopTakesEvent /\ Head(stateChanged) = e)
<1>1. ThreadsType /\ stateChanged \in Seq(Events)
  BY DEF TypesInv, Types, EventsType
<1>2. CASE Queued(e)
  BY <1>2, QueuedStays DEF Coming
<1>3. ASSUME NEW t \in Threads, thr[t].push = <<e>>
      PROVE  Coming(e)'
  <2>1. thr[t].push # <<>> /\ Head(thr[t].push) = e
    BY <1>3, PushesAre
  <2>2. CASE thr'[t].push = thr[t].push
    BY <1>3, <2>2 DEF Coming
  <2>3. CASE Push(t)
    <3>1. stateChanged' = Append(stateChanged, e)
      BY <2>1, <2>3 DEF Push
    <3>2. Len(stateChanged) + 1 \in 1 .. Len(stateChanged')
          /\ stateChanged'[Len(stateChanged) + 1] = e
      BY <1>1, <3>1, Appended
    <3>3. QED
      BY <3>2 DEF Coming, Queued
  <2>4. QED
    BY <2>1, <2>2, <2>3, PushesStay
<1>4. QED
  BY <1>2, <1>3 DEF Coming

LEMMA GreetComingStays ==
  ASSUME TypesInv, Next, NEW c \in Clients, GreetComing(c)
  PROVE  GreetComing(c)' \/ (LoopRuns /\ Head(execInRunLoop) = Greeting(c))
<1>1. execInRunLoop \in Seq(Function) /\ ThreadsType /\ SeatingIsKnown
  BY DEF TypesInv, Types, ExecType
<1>2. ASSUME NEW kind \in Requests \cup {"greet"}, NEW d \in Clients, Enqueue(kind, d)
      PROVE  /\ Len(execInRunLoop') = Len(execInRunLoop) + 1
             /\ \A i \in 1 .. Len(execInRunLoop) : execInRunLoop'[i] = execInRunLoop[i]
             /\ execInRunLoop'[Len(execInRunLoop) + 1] = [kind |-> kind, client |-> d]
  <2>1. [kind |-> kind, client |-> d] \in Function
    BY DEF Function
  <2>2. QED
    BY <1>1, <1>2, <2>1, Appended DEF Enqueue
<1>3. CASE joining = c
  <2>1. joining \in Clients /\ thr[PitBoss].at = "greet"
    BY <1>1, <1>3, Constants DEF SeatingIsKnown
  <2>2. CASE GreetClient
    <3>1. Enqueue("greet", c)
      BY <1>3, <2>2 DEF GreetClient
    <3>2. Len(execInRunLoop) + 1 \in 1 .. Len(execInRunLoop')
          /\ execInRunLoop'[Len(execInRunLoop) + 1] = Greeting(c)
      BY <1>1, <1>2, <3>1 DEF Greeting
    <3>3. QED
      BY <3>2 DEF GreetComing
  <2>3. \A d \in Clients : ~ AddClient(d)
    BY <2>1 DEF AddClient, Idle
  <2>4. QED
    BY <1>3, <2>2, <2>3, WhoChanges DEF GreetComing
<1>4. ASSUME NEW i \in 1 .. Len(execInRunLoop), execInRunLoop[i] = Greeting(c)
      PROVE  GreetComing(c)' \/ (LoopRuns /\ Head(execInRunLoop) = Greeting(c))
  <2>1. CASE UNCHANGED execInRunLoop
    BY <1>4, <2>1 DEF GreetComing, Greeting
  <2>2. ASSUME NEW kind \in Requests \cup {"greet"}, NEW d \in Clients, Enqueue(kind, d)
        PROVE  GreetComing(c)'
    <3>0. /\ Len(execInRunLoop') = Len(execInRunLoop) + 1
          /\ \A k \in 1 .. Len(execInRunLoop) : execInRunLoop'[k] = execInRunLoop[k]
      BY <1>2, <2>2, Zenon
    <3>1. i \in 1 .. Len(execInRunLoop') /\ execInRunLoop'[i] = Greeting(c)
      BY <1>1, <1>4, <3>0
    <3>2. QED
      BY <3>1 DEF GreetComing, Greeting
  <2>3. CASE GreetClient
    <3>1. joining \in Clients /\ Enqueue("greet", joining)
      BY <1>1, <2>3 DEF GreetClient, SeatingIsKnown, At
    <3>2. QED
      BY <2>2, <3>1
  <2>4. ASSUME NEW d \in Clients, NEW kind \in Requests, Ask(d, kind)
        PROVE  GreetComing(c)'
    BY <2>2, <2>4 DEF Ask
  <2>5. CASE LoopRuns
    <3>1. execInRunLoop # <<>> /\ execInRunLoop' = Tail(execInRunLoop)
      BY <2>5 DEF LoopRuns
    <3>2. CASE i = 1
      BY <1>1, <1>4, <2>5, <3>1, <3>2, Taken
    <3>3. CASE i # 1
      <4>1. i \in Nat /\ i > 1 /\ i <= Len(execInRunLoop)
        BY <1>1, <1>4, <3>3
      <4>2. PICK j \in Nat \ {0} : j + 1 = i
        BY <4>1
      <4>3. j \in 1 .. Len(execInRunLoop) - 1
        BY <1>1, <4>1, <4>2
      <4>4. j \in 1 .. Len(execInRunLoop') /\ execInRunLoop'[j] = Greeting(c)
        BY <1>1, <1>4, <3>1, <4>2, <4>3, Taken
      <4>5. QED
        BY <4>4 DEF GreetComing, Greeting
    <3>4. QED
      BY <3>2, <3>3
  <2>6. QED
    BY <2>1, <2>3, <2>4, <2>5, WhoChanges
<1>5. QED
  BY <1>3, <1>4 DEF GreetComing

-----------------------------------------------------------------------------
\* A message that has found an earlier game over stays counted.
LEMMA EndsAnotherGameStays ==
  ASSUME TypesInv, Next, EndsAnotherGame
  PROVE  EndsAnotherGame'
<1>1. PICK g \in Games, h \in Games : g < h /\ found[g] > 0 /\ status[h] # "undealt"
  BY DEF EndsAnotherGame
<1>2. status'[h] # "undealt"
  BY <1>1, StatusMoves DEF TypesInv
<1>3. found'[g] > 0
  BY <1>1, CountsGrow
<1>4. QED
  BY <1>1, <1>2, <1>3 DEF EndsAnotherGame

\* A game that is dealt is announced.
LEMMA DealsAnnounce ==
  ASSUME TypesInv, Next, game' # game, game' # None
  PROVE  thr'[Loop].push = <<"gameEvent">> /\ thr'[Loop].at = "idle"
<1>1. LoopDeals
  BY WhoChanges, Zenon DEF UnsetGame, LoopRuns, ScheduleGame, CancelGame,
     TerminateGame, SaveSeat, Greet
<1>2. Rests(Loop, <<"gameEvent">>)
  BY <1>1, Zenon DEF LoopDeals
<1>3. <<"gameEvent">> \in Pushes
  BY PushesAre DEF Events
<1>4. QED
  BY <1>2, <1>3, RestsType, Constants DEF TypesInv, Types

\* When a game is dealt, whoever found one over found an earlier one over.
LEMMA DealsEndAnotherGame ==
  ASSUME TypesInv, Settling, Next, game' # game, game' # None,
         NEW g \in Games, found[g] > 0
  PROVE  EndsAnotherGame'
<1>1. LoopDeals
  BY WhoChanges, Zenon DEF UnsetGame, LoopRuns, ScheduleGame, CancelGame,
     TerminateGame, SaveSeat, Greet
<1>2. Undealt # {} /\ status' = [status EXCEPT ![Min(Undealt)] = "playing"]
  BY <1>1, Zenon DEF LoopDeals
<1>3. Min(Undealt) \in Games /\ g < Min(Undealt)
  BY <1>2, NextGame, DealtLater DEF Settling, FindersAreCounted
<1>4. status'[Min(Undealt)] # "undealt"
  BY <1>2, <1>3 DEF TypesInv, Types, GamesType
<1>5. found'[g] > 0
  BY CountsGrow
<1>6. QED
  BY <1>3, <1>4, <1>5 DEF EndsAnotherGame

\* Only who takes a game off the table announces the end of one.
LEMMA WhoAnnouncesAnEnd ==
  ASSUME TypesInv, Next, NEW t \in Clients \cup {Loop},
         thr[t].push # <<"gameEnded">>, thr'[t].push = <<"gameEnded">>
  PROVE  game' = None
<1>1. Types /\ ThreadsType /\ TableType /\ EventsType /\ RowsType
  BY DEF TypesInv, Types
<1>2. <<"gameEnded">> # <<>> /\ <<"gameEnded">> # <<"gameEvent">>
      /\ <<"gameEnded">> # <<"gameScheduled">> /\ <<"gameEnded">> # <<"clientEvent">>
  OBVIOUS
<1>3. t \in Threads
  BY Constants
<1>4. ~ Push(t) /\ ~ RecordGame(t) /\ ~ SaveResult(t)
  BY <1>1, <1>2, <1>3, PushMoves, RecordMoves, SaveMoves
<1>5. CASE UnsetGame(t)
  BY <1>5 DEF UnsetGame
<1>6. CASE t \in Clients /\ ~ UnsetGame(t)
  <2>1. ~ Act(t) /\ ~ IsOver(t)
    BY <1>1, <1>2, <1>6, ActMoves, OverMoves
  <2>2. ~ AddClient(t) /\ ~ RemoveClient(t)
    BY <1>1, <1>6, AddMoves, RemoveMoves
  <2>3. QED
    BY <1>1, <1>3, <1>4, <1>6, <2>1, <2>2, ThreadsTypeStep, Constants DEF Moves
<1>7. CASE t = Loop /\ ~ UnsetGame(t)
  <2>1. ~ LoopTicks /\ ~ LoopTakesEvent
    BY <1>1, <1>2, <1>7, TicksMove, TakesMove
  <2>2. SendsAnything => thr' = thr
    BY <1>1, <1>2, <1>7, SendMoves
  <2>3. TickIsOver => thr' = thr
    BY <1>1, <1>2, <1>7, IsOverMoves
  <2>4. LoopDeals \/ LoopRuns
    BY <1>1, <1>3, <1>4, <1>7, <2>1, <2>2, <2>3, ThreadsTypeStep, Constants DEF Moves
  <2>5. ~ UNCHANGED thr
    OBVIOUS
  <2>6. ASSUME NEW events \in Pushes, Rests(Loop, events)
        PROVE  events = <<"gameEnded">>
    BY <1>1, <1>7, <2>6, RestsType, Constants
  <2>7. <<>> \in Pushes /\ <<"gameEvent">> \in Pushes /\ <<"gameScheduled">> \in Pushes
        /\ <<"clientEvent">> \in Pushes
    BY PushesAre DEF Events
  <2>8. ~ Rests(Loop, <<>>) /\ ~ Rests(Loop, <<"gameEvent">>)
        /\ ~ Rests(Loop, <<"gameScheduled">>) /\ ~ Rests(Loop, <<"clientEvent">>)
    BY <1>2, <2>6, <2>7
  <2>9. QED
    BY <2>4, <2>5, <2>8, Zenon DEF LoopDeals, LoopRuns, ScheduleGame,
       CancelGame, TerminateGame, SaveSeat, Greet
<1>8. QED
  BY <1>5, <1>6, <1>7, Constants

LEMMA SendersAreKnownStep ==
  ASSUME TypesInv, Settling, SendersAreKnown, Next
  PROVE  SendersAreKnown'
<1>1. Types /\ ThreadsType /\ TableType /\ EventsType /\ RowsType
  BY DEF TypesInv, Types
<1>2. ASSUME NEW c \in Clients
      PROVE  thr'[c].push \in {<<>>, <<"gameEvent">>, <<"gameEnded">>}
  <2>1. CASE RecordGame(c) \/ SaveResult(c) \/ UnsetGame(c)
    BY <1>1, <2>1, RecordMoves, SaveMoves, UnsetMoves, Constants
  <2>2. thr[c].push \in {<<>>, <<"gameEvent">>, <<"gameEnded">>}
    BY DEF SendersAreKnown
  <2>3. CASE Push(c) \/ Act(c) \/ IsOver(c)
    BY <1>1, <2>3, PushMoves, ActMoves, OverMoves, Constants
  <2>4. CASE AddClient(c) \/ RemoveClient(c)
    BY <1>1, <2>2, <2>4, AddMoves, RemoveMoves
  <2>5. QED
    BY <1>1, <2>1, <2>2, <2>3, <2>4, ThreadsTypeStep, Constants DEF Moves
<1>3. thr'[PitBoss].push \in {<<>>, <<"clientEvent">>}
  <2>1. thr[PitBoss].push \in {<<>>, <<"clientEvent">>}
    BY DEF SendersAreKnown
  <2>2. CASE Push(PitBoss)
    BY <1>1, <2>2, PushMoves, Constants
  <2>3. CASE GreetClient
    BY <1>1, <2>3, RestsType, PushesAre, Constants DEF GreetClient
  <2>4. ASSUME NEW c \in Clients, AddClient(c) \/ RemoveClient(c)
        PROVE  thr'[PitBoss].push \in {<<>>, <<"clientEvent">>}
    BY <1>1, <2>4, AddMoves, RemoveMoves
  <2>5. QED
    BY <1>1, <2>1, <2>2, <2>3, <2>4, ThreadsTypeStep, Constants DEF Moves
<1>4. ASSUME NEW t \in Clients \cup {Loop}, thr'[t].push = <<"gameEnded">>
      PROVE  game' = None \/ EndsAnotherGame'
  <2>1. CASE thr[t].push # <<"gameEnded">>
    BY <1>4, <2>1, WhoAnnouncesAnEnd
  <2>2. CASE thr[t].push = <<"gameEnded">> /\ EndsAnotherGame
    BY <2>2, EndsAnotherGameStays
  <2>3. CASE thr[t].push = <<"gameEnded">> /\ ~ EndsAnotherGame
    <3>1. game = None
      BY <2>3 DEF SendersAreKnown
    <3>2. SUFFICES ASSUME game' # None PROVE EndsAnotherGame'
      OBVIOUS
    <3>3. thr'[Loop].push = <<"gameEvent">>
      BY <3>1, <3>2, DealsAnnounce
    <3>4. <<"gameEvent">> # <<"gameEnded">>
      OBVIOUS
    <3>5. t \in Clients
      BY <1>4, <3>3, <3>4
    <3>6. PICK g \in Games : found[g] > 0
      BY <2>3, <3>5 DEF Settling, FindersAreCounted
    <3>7. QED
      BY <3>1, <3>2, <3>6, DealsEndAnotherGame
  <2>4. QED
    BY <2>1, <2>2, <2>3
<1>5. QED
  BY <1>2, <1>3, <1>4 DEF SendersAreKnown

\* A game that leaves the table is announced.
LEMMA EndsAnnounce ==
  ASSUME TypesInv, Next, game' # game, game' = None
  PROVE  \E t \in Threads : thr'[t].push = <<"gameEnded">>
<1>1. <<"gameEnded">> \in Pushes /\ ThreadsType /\ Loop \in Threads
  BY PushesAre, Constants DEF Events, TypesInv, Types
<1>2. ASSUME NEW t \in Clients \cup {Loop}, UnsetGame(t)
      PROVE  t \in Threads /\ thr'[t].push = <<"gameEnded">>
  BY <1>1, <1>2, UnsetMoves, Constants
<1>3. CASE LoopRuns
  <2>1. Rests(Loop, <<"gameEnded">>)
    BY <1>3, Zenon DEF LoopRuns, ScheduleGame, CancelGame, TerminateGame,
       SaveSeat, Greet
  <2>2. QED
    BY <1>1, <2>1, RestsType
<1>4. CASE LoopDeals
  BY <1>4, NextGame, Constants DEF LoopDeals
<1>5. QED
  BY <1>2, <1>3, <1>4, WhoChanges

\* What the loop broadcasts, by where it is.
LEMMA LoopSends ==
  ASSUME TypesInv, Next,
         thr[Loop].at \in {"sendGame", "tickSend", "sendEnded", "sendScheduled", "sendPlayers"}
  PROVE  \/ thr'[Loop].at = thr[Loop].at
         \/ thr[Loop].at = "tickSend" /\ sendGameData("tickSend", "tickOver")
         \/ thr[Loop].at = "sendGame" /\ sendGameData("sendGame", "idle")
         \/ thr[Loop].at = "sendEnded" /\ sendGameEnded
         \/ thr[Loop].at = "sendScheduled" /\ sendGameScheduled
         \/ thr[Loop].at = "sendPlayers" /\ sendPlayerData
<1>1. Types /\ ThreadsType
  BY DEF TypesInv, Types
<1>2. ~ RecordGame(Loop) /\ ~ SaveResult(Loop) /\ ~ UnsetGame(Loop)
  BY DEF RecordGame, SaveResult, UnsetGame, At
<1>3. ~ LoopTicks /\ ~ TickIsOver /\ ~ LoopDeals /\ ~ LoopTakesEvent /\ ~ LoopRuns
      /\ ~ LoopCloses
  BY DEF LoopTicks, TickIsOver, LoopDeals, LoopTakesEvent, LoopRuns, LoopCloses, At, Idle
<1>4. CASE SendsAnything
  BY <1>3, <1>4 DEF SendsAnything, sendGameData, sendPlayerData, sendGameEnded,
     sendGameScheduled, At
<1>5. QED
  BY <1>1, <1>2, <1>3, <1>4, ThreadsTypeStep, PushMoves, Constants DEF Moves

LEMMA EndsComeFirstStep ==
  ASSUME TypesInv, Settling, SendersAreKnown, EndsComeFirst, Next
  PROVE  EndsComeFirst'
<1>1. Types /\ ThreadsType /\ stateChanged \in Seq(Events) /\ EventsType
  BY DEF TypesInv, Types, EventsType
<1> SUFFICES ASSUME game' # None, ~ EndsAnotherGame'
             PROVE  /\ \A i \in 1 .. Len(stateChanged') : stateChanged'[i] = "gameEnded" =>
                          \/ \E j \in i + 1 .. Len(stateChanged') : stateChanged'[j] = "gameEvent"
                          \/ thr'[Loop].push = <<"gameEvent">>
                    /\ thr'[Loop].at = "sendEnded" => Queued("gameEvent")'
  BY DEF EndsComeFirst
<1>2. CASE game' # game
  BY <1>2, DealsAnnounce
<1>3. CASE game' = game
  <2>0. ~ EndsAnotherGame
    BY EndsAnotherGameStays
  <2>1. /\ game # None
        /\ \A i \in 1 .. Len(stateChanged) : stateChanged[i] = "gameEnded" =>
             \/ \E j \in i + 1 .. Len(stateChanged) : stateChanged[j] = "gameEvent"
             \/ thr[Loop].push = <<"gameEvent">>
        /\ thr[Loop].at = "sendEnded" => Queued("gameEvent")
    BY <1>3, <2>0 DEF EndsComeFirst
  <2>2. ASSUME NEW i \in 1 .. Len(stateChanged'), stateChanged'[i] = "gameEnded"
        PROVE  \/ \E j \in i + 1 .. Len(stateChanged') : stateChanged'[j] = "gameEvent"
               \/ thr'[Loop].push = <<"gameEvent">>
    <3>1. CASE UNCHANGED stateChanged
      <4>1. CASE thr[Loop].push = <<"gameEvent">>
        <5>1. ~ Push(Loop)
          <6>1. ASSUME Push(Loop) PROVE FALSE
            <7>1. stateChanged' = Append(stateChanged, Head(thr[Loop].push))
                  /\ Head(thr[Loop].push) \in Events
              BY <1>1, <6>1, PushMoves, Constants DEF Push
            <7>2. Len(stateChanged') = Len(stateChanged) + 1
              BY <1>1, <7>1, Appended
            <7>3. QED
              BY <1>1, <3>1, <7>2
          <6>2. QED
            BY <6>1
        <5>2. QED
          BY <4>1, <5>1, PushesStay, PushesAre, Constants DEF Events
      <4>2. CASE thr[Loop].push # <<"gameEvent">>
        BY <2>1, <2>2, <3>1, <4>2
      <4>3. QED
        BY <4>1, <4>2
    <3>2. ASSUME NEW t \in Threads, Push(t)
          PROVE  \/ \E j \in i + 1 .. Len(stateChanged') : stateChanged'[j] = "gameEvent"
                 \/ thr'[Loop].push = <<"gameEvent">>
      <4> DEFINE e == Head(thr[t].push)
                 n == Len(stateChanged)
      <4>1. /\ e \in Events /\ stateChanged' = Append(stateChanged, e)
            /\ thr[t].push = <<e>> /\ \A u \in Threads \ {t} : thr'[u] = thr[u]
        BY <1>1, <3>2, PushMoves DEF Push
      <4> HIDE DEF e
      <4>2. /\ Len(stateChanged') = n + 1 /\ n \in Nat /\ stateChanged'[n + 1] = e
            /\ \A k \in 1 .. n : stateChanged'[k] = stateChanged[k]
        BY <1>1, <4>1, Appended
      <4> HIDE DEF n
      <4>3. e # "gameEnded"
        <5>1. t \in Clients \cup {Loop} => <<e>> # <<"gameEnded">>
          BY <2>0, <2>1, <4>1 DEF SendersAreKnown
        <5>2. t \notin Clients \cup {Loop} => <<e>> = <<"clientEvent">>
          <6>1. thr[PitBoss].push \in {<<>>, <<"clientEvent">>}
            BY DEF SendersAreKnown
          <6>2. t \notin Clients \cup {Loop} => t = PitBoss
            BY DEF Threads
          <6>3. thr[t].push = <<e>> /\ <<e>> # <<>>
            BY <4>1
          <6>4. QED
            BY <6>1, <6>2, <6>3
        <5>3. QED
          BY <5>1, <5>2
      <4>4. i \in 1 .. n /\ stateChanged[i] = "gameEnded"
        BY <2>2, <4>2, <4>3
      <4>5. CASE \E j \in i + 1 .. n : stateChanged[j] = "gameEvent"
        <5>1. PICK j \in i + 1 .. n : stateChanged[j] = "gameEvent"
          BY <4>5
        <5>2. j \in i + 1 .. Len(stateChanged') /\ stateChanged'[j] = "gameEvent"
          BY <4>2, <4>4, <5>1
        <5>3. QED
          BY <5>2
      <4>6. CASE thr[Loop].push = <<"gameEvent">>
        <5>1. CASE t # Loop
          BY <4>1, <4>6, <5>1, Constants
        <5>2. CASE t = Loop
          <6>1. e = "gameEvent"
            BY <4>1, <4>6, <5>2
          <6>2. n + 1 \in i + 1 .. Len(stateChanged') /\ stateChanged'[n + 1] = "gameEvent"
            BY <4>2, <4>4, <6>1
          <6>3. QED
            BY <6>2
        <5>3. QED
          BY <5>1, <5>2
      <4>7. QED
        BY <2>1, <4>4, <4>5, <4>6 DEF n
    <3>3. CASE LoopTakesEvent
      <4> DEFINE n == Len(stateChanged)
      <4>1. stateChanged # <<>> /\ stateChanged' = Tail(stateChanged) /\ thr[Loop].push = <<>>
        BY <3>3 DEF LoopTakesEvent, Idle
      <4>2. /\ Len(stateChanged') = n - 1 /\ n \in Nat \ {0}
            /\ \A k \in 1 .. n - 1 : stateChanged'[k] = stateChanged[k + 1]
        BY <1>1, <4>1, Taken
      <4>3. i + 1 \in 1 .. n /\ stateChanged[i + 1] = "gameEnded"
        BY <2>2, <4>2
      <4>4. thr[Loop].push # <<"gameEvent">>
        BY <4>1, PushesAre DEF Events
      <4>5. PICK j \in (i + 1) + 1 .. n : stateChanged[j] = "gameEvent"
        BY <2>1, <4>3, <4>4
      <4> HIDE DEF n
      <4>6. j - 1 \in i + 1 .. Len(stateChanged') /\ j - 1 \in 1 .. n - 1 /\ (j - 1) + 1 = j
        BY <4>2, <4>3, <4>5
      <4>7. stateChanged'[j - 1] = "gameEvent"
        BY <4>2, <4>5, <4>6
      <4>8. QED
        BY <4>6, <4>7
    <3>4. QED
      BY <3>1, <3>2, <3>3, WhoChanges
  <2>3. ASSUME thr'[Loop].at = "sendEnded" PROVE Queued("gameEvent")'
    <3>1. CASE LoopTakesEvent
      <4> DEFINE n == Len(stateChanged)
      <4>1. /\ stateChanged # <<>> /\ stateChanged' = Tail(stateChanged)
            /\ thr[Loop].push = <<>>
        BY <3>1 DEF LoopTakesEvent, Idle
      <4>2. Head(stateChanged) = "gameEnded"
        BY <1>1, <2>3, <3>1, TakesMove
      <4>3. /\ Len(stateChanged') = n - 1 /\ n \in Nat \ {0} /\ Head(stateChanged) = stateChanged[1]
            /\ \A k \in 1 .. n - 1 : stateChanged'[k] = stateChanged[k + 1]
        BY <1>1, <4>1, Taken
      <4>4. thr[Loop].push # <<"gameEvent">> /\ 1 \in 1 .. n
        BY <4>1, <4>3, PushesAre DEF Events
      <4>5. PICK j \in 1 + 1 .. n : stateChanged[j] = "gameEvent"
        BY <2>1, <4>2, <4>3, <4>4
      <4> HIDE DEF n
      <4>6. j - 1 \in 1 .. Len(stateChanged') /\ j - 1 \in 1 .. n - 1 /\ (j - 1) + 1 = j
        BY <4>3, <4>5
      <4>7. stateChanged'[j - 1] = "gameEvent"
        BY <4>3, <4>5, <4>6
      <4>8. QED
        BY <4>6, <4>7 DEF Queued
    <3>2. CASE ~ LoopTakesEvent
      <4>1. thr[Loop].at = "sendEnded"
        <5>1. ~ RecordGame(Loop) /\ ~ SaveResult(Loop) /\ ~ UnsetGame(Loop)
          BY <1>1, <2>3, RecordMoves, SaveMoves, UnsetMoves, Constants DEF TypesInv, Types
        <5>2. SendsAnything => thr' = thr
          BY <1>1, <2>3, SendMoves
        <5>3. ~ LoopTicks
          BY <1>1, <2>3, TicksMove
        <5>4. TickIsOver => thr' = thr
          BY <1>1, <2>3, IsOverMoves DEF TypesInv, Types
        <5>5. LoopDeals \/ LoopRuns => thr' = thr
          BY <1>1, <2>3, DealsMove
        <5>6. thr'[Loop].at = thr[Loop].at
          BY <1>1, <3>2, <5>1, <5>2, <5>3, <5>4, <5>5, ThreadsTypeStep, PushMoves,
             Constants DEF Moves
        <5>7. QED
          BY <2>3, <5>6
      <4>2. QED
        BY <2>1, <3>2, <4>1, QueuedStays
    <3>3. QED
      BY <3>1, <3>2
  <2>4. QED
    BY <2>2, <2>3
<1>4. QED
  BY <1>2, <1>3

-----------------------------------------------------------------------------
\* How one client's screen may change.
LEMMA ScreenMoves ==
  ASSUME TypesInv, Next, ~ crashed', NEW c \in Clients
  PROVE  \/ screen'[c] = screen[c]
         \/ /\ c \in clients /\ game # None
            /\ screen'[c].game = game /\ screen'[c].version = version[game]
            /\ screen'[c].scheduled = screen[c].scheduled
            /\ screen'[c].players = screen[c].players
            /\ screen'[c].table = screen[c].table
            /\ screen'[c].missed = screen[c].missed
            /\ ~ sendPlayerData /\ ~ sendGameEnded /\ ~ sendGameScheduled
         \/ /\ c \in clients /\ sendPlayerData
            /\ \/ screen'[c].missed
               \/ screen'[c].players = clients /\ screen'[c].table = <<seats, balance>>
            /\ screen'[c].game = screen[c].game /\ screen'[c].version = screen[c].version
            /\ screen'[c].scheduled = screen[c].scheduled
         \/ /\ c \in clients /\ sendGameEnded
            /\ screen'[c].game = None /\ screen'[c].scheduled = screen[c].scheduled
         \/ /\ c \in clients /\ sendGameScheduled
            /\ screen'[c].scheduled = pendingGame
            /\ screen'[c].game = screen[c].game /\ screen'[c].version = screen[c].version
            /\ screen'[c].players = screen[c].players
            /\ screen'[c].table = screen[c].table
            /\ screen'[c].missed = screen[c].missed
         \/ /\ LoopRuns /\ Head(execInRunLoop) = Greeting(c) /\ Greet(c)
<1>1. Types /\ ExecType
  BY DEF TypesInv, Types
<1>2. ASSUME NEW where, NEW next, sendGameData(where, next), At(Loop, where),
             where \in {"tickSend", "sendGame"}
      PROVE  \/ screen'[c] = screen[c]
             \/ /\ c \in clients /\ game # None
                /\ screen'[c].game = game /\ screen'[c].version = version[game]
                /\ screen'[c].scheduled = screen[c].scheduled
                /\ screen'[c].players = screen[c].players
                /\ screen'[c].table = screen[c].table
                /\ screen'[c].missed = screen[c].missed
                /\ ~ sendPlayerData /\ ~ sendGameEnded /\ ~ sendGameScheduled
  <2>1. ~ sendPlayerData /\ ~ sendGameEnded /\ ~ sendGameScheduled
    BY <1>2 DEF sendPlayerData, sendGameEnded, sendGameScheduled, At
  <2>2. CASE SameScreens
    BY <2>2 DEF SameScreens
  <2>3. CASE ~ SameScreens
    <3>1. /\ game # None
          /\ \A d \in Clients \ clients : screen'[d] = screen[d]
          /\ \A d \in clients :
                /\ screen'[d].game = game
                /\ screen'[d].version = version[game]
                /\ screen'[d].scheduled = screen[d].scheduled
                /\ screen'[d].players = screen[d].players
                /\ screen'[d].table = screen[d].table
                /\ screen'[d].missed = screen[d].missed
      BY <1>1, <1>2, <2>3, GameDataShows, Zenon
    <3>2. QED
      BY <2>1, <3>1
  <2>4. QED
    BY <2>2, <2>3
<1>3. CASE sendGameData("tickSend", "tickOver") \/ sendGameData("sendGame", "idle")
  <2>2. CASE sendGameData("tickSend", "tickOver")
    <3>1. At(Loop, "tickSend")
      BY <2>2, Zenon DEF sendGameData
    <3>2. QED
      BY <1>2, <2>2, <3>1
  <2>3. CASE sendGameData("sendGame", "idle")
    <3>1. At(Loop, "sendGame")
      BY <2>3, Zenon DEF sendGameData
    <3>2. QED
      BY <1>2, <2>3, <3>1
  <2>4. QED
    BY <1>3, <2>2, <2>3
<1>4. CASE sendPlayerData
  BY <1>1, <1>4, PlayerDataShows
<1>5. CASE sendGameEnded
  BY <1>1, <1>5, GameEndedShows
<1>6. CASE sendGameScheduled
  BY <1>1, <1>6, GameScheduledShows
<1>7. CASE LoopRuns /\ ~ UNCHANGED screen
  <2> DEFINE f == Head(execInRunLoop)
  <2>1. f.kind = "greet" /\ Greet(f.client)
    BY <1>7, Zenon DEF LoopRuns, ScheduleGame, CancelGame, TerminateGame, SaveSeat
  <2>2. f \in Function /\ f.client \in Clients
    BY <1>1, <1>7, FunctionsOfClients DEF LoopRuns
  <2>3. CASE f.client = c
    <3>1. f = Greeting(c)
      BY <2>1, <2>2, <2>3 DEF Function, Greeting
    <3>2. QED
      BY <1>7, <2>1, <2>3, <3>1
  <2>4. CASE f.client # c
    <3> HIDE DEF f
    <3>1. QED
      BY <1>1, <2>1, <2>2, <2>4, GreetShows
  <2>5. QED
    BY <2>3, <2>4
<1>8. CASE UNCHANGED screen
  BY <1>8
<1>9. CASE LoopCloses
  BY <1>8, <1>9 DEF LoopCloses
<1>10. QED
  BY <1>3, <1>4, <1>5, <1>6, <1>7, <1>8, <1>9, WhoChanges, Zenon DEF SendsAnything

LEMMA NewcomersAreBlankStep ==
  ASSUME TypesInv, NewcomersAreBlank, Next, ~ crashed'
  PROVE  NewcomersAreBlank'
<1>1. Types /\ ThreadsType /\ RowsType /\ TableType /\ SeatingIsKnown
      /\ execInRunLoop \in Seq(Function)
  BY DEF TypesInv, Types, ExecType
<1> SUFFICES ASSUME NEW c \in Clients, thr'[c].at = "new"
             PROVE  screen'[c] = Blank /\ c \notin clients' /\ ~ GreetComing(c)'
  BY DEF NewcomersAreBlank, Blank
<1>2. ~ AddClient(c)
  BY <1>1, AddMoves
<1>3. thr[c].at = "new"
  <2>1. ~ RecordGame(c) /\ ~ SaveResult(c) /\ ~ UnsetGame(c)
    BY <1>1, RecordMoves, SaveMoves, UnsetMoves, Constants
  <2>2. ~ RemoveClient(c) /\ ~ Act(c) /\ ~ IsOver(c)
    BY <1>1, RemoveMoves, ActMoves, OverMoves
  <2>3. QED
    BY <1>1, <1>2, <2>1, <2>2, ThreadsTypeStep, PushMoves, Constants DEF Moves
<1>4. screen[c] = Blank /\ c \notin clients /\ ~ GreetComing(c)
  BY <1>3 DEF NewcomersAreBlank
<1>5. screen'[c] = Blank
  <2>1. ~ (LoopRuns /\ Head(execInRunLoop) = Greeting(c))
    <3>1. ASSUME LoopRuns, Head(execInRunLoop) = Greeting(c) PROVE FALSE
      <4>1. 1 \in 1 .. Len(execInRunLoop) /\ execInRunLoop[1] = Greeting(c)
        BY <1>1, <3>1, Taken DEF LoopRuns
      <4>2. QED
        BY <1>4, <4>1 DEF GreetComing
    <3>2. QED
      BY <3>1
  <2>2. QED
    BY <1>4, <2>1, ScreenMoves
<1>6. c \notin clients'
  <2>1. ASSUME NEW d \in Clients, AddClient(d)
        PROVE  clients' = clients \cup {d} /\ d # c
    BY <1>2, <2>1 DEF AddClient
  <2>2. ASSUME NEW d \in Clients, RemoveClient(d)
        PROVE  clients' = clients \ {d}
    BY <2>2 DEF RemoveClient
  <2>3. QED
    BY <1>4, <2>1, <2>2, WhoChanges
<1>7. ~ GreetComing(c)'
  <2>1. joining' # c
    <3>1. joining' = None \/ joining' = joining \/ \E d \in Clients : AddClient(d) /\ joining' = d
      BY WhoChanges, Zenon DEF GreetClient, AddClient
    <3>2. QED
      BY <1>2, <1>4, <3>1, Constants DEF GreetComing
  <2>2. ASSUME NEW i \in 1 .. Len(execInRunLoop'), execInRunLoop'[i] = Greeting(c)
        PROVE  FALSE
    <3>1. CASE UNCHANGED execInRunLoop
      BY <1>4, <2>2, <3>1 DEF GreetComing
    <3>2. ASSUME NEW kind \in Requests \cup {"greet"}, NEW d \in Clients, Enqueue(kind, d),
                 [kind |-> kind, client |-> d] # Greeting(c)
          PROVE  FALSE
      <4>1. [kind |-> kind, client |-> d] \in Function
        BY DEF Function
      <4>2. execInRunLoop' = Append(execInRunLoop, [kind |-> kind, client |-> d])
        BY <3>2 DEF Enqueue
      <4>3. /\ Len(execInRunLoop') = Len(execInRunLoop) + 1
            /\ execInRunLoop'[Len(execInRunLoop) + 1] # Greeting(c)
            /\ \A k \in 1 .. Len(execInRunLoop) : execInRunLoop'[k] = execInRunLoop[k]
        BY <1>1, <3>2, <4>1, <4>2, Appended
      <4>4. i \in 1 .. Len(execInRunLoop) /\ execInRunLoop[i] = Greeting(c)
        BY <1>1, <2>2, <4>3
      <4>5. QED
        BY <1>4, <4>4 DEF GreetComing
    <3>3. CASE GreetClient
      <4>1. joining \in Clients /\ Enqueue("greet", joining)
        BY <1>1, <3>3 DEF GreetClient, SeatingIsKnown, At
      <4>2. joining # c
        BY <1>4 DEF GreetComing
      <4>3. [kind |-> "greet", client |-> joining] # Greeting(c)
        BY <4>2 DEF Greeting
      <4>4. QED
        BY <3>2, <4>1, <4>3
    <3>4. ASSUME NEW d \in Clients, NEW kind \in Requests, Ask(d, kind)
          PROVE  FALSE
      <4>1. kind # "greet"
        BY DealerAssumption
      <4>2. [kind |-> kind, client |-> d] # Greeting(c)
        BY <4>1 DEF Greeting
      <4>3. QED
        BY <3>2, <3>4, <4>2 DEF Ask
    <3>5. CASE LoopRuns
      <4> DEFINE n == Len(execInRunLoop)
      <4>1. execInRunLoop # <<>> /\ execInRunLoop' = Tail(execInRunLoop)
        BY <3>5 DEF LoopRuns
      <4>2. /\ Len(execInRunLoop') = n - 1 /\ n \in Nat \ {0}
            /\ \A k \in 1 .. n - 1 : execInRunLoop'[k] = execInRunLoop[k + 1]
        BY <1>1, <4>1, Taken
      <4>3. i \in 1 .. n - 1 /\ i + 1 \in 1 .. n
        BY <2>2, <4>2
      <4>4. execInRunLoop[i + 1] = Greeting(c)
        BY <2>2, <4>2, <4>3
      <4>5. QED
        BY <1>4, <4>3, <4>4 DEF GreetComing
    <3>6. QED
      BY <3>1, <3>3, <3>4, <3>5, WhoChanges
  <2>3. QED
    BY <2>1, <2>2 DEF GreetComing, Greeting
<1>8. QED
  BY <1>5, <1>6, <1>7

\* A newcomer is shown everything when it is greeted.
LEMMA NewcomersCatchUp ==
  ASSUME TypesInv, NewcomersAreBlank, Next, ~ crashed', NEW c \in Clients, AddClient(c)
  PROVE  GameIsShown(c)' /\ ScheduleIsShown(c)' /\ PlayersAreShown(c)'
<1>1. thr[c].at = "new" /\ joining' = c /\ UNCHANGED <<game, screen>>
  BY DEF AddClient
<1>2. screen'[c].game = None
  BY <1>1 DEF NewcomersAreBlank, Blank
<1>3. GreetComing(c)'
  BY <1>1 DEF GreetComing
<1>4. thr'[PitBoss].push = <<"clientEvent">>
  BY AddMoves DEF TypesInv, Types
<1>5. Coming("clientEvent")'
  BY <1>4, Constants DEF Coming
<1>6. QED
  BY <1>2, <1>3, <1>5 DEF GameIsShown, ScheduleIsShown, PlayersAreShown

LEMMA GreetsNow ==
  ASSUME LoopRuns, NEW c \in Clients, Head(execInRunLoop) = Greeting(c)
  PROVE  Greet(c)
<1>1. Head(execInRunLoop).kind = "greet" /\ Head(execInRunLoop).client = c
  BY DEF Greeting
<1>2. Head(execInRunLoop).kind \notin {"createGame", "cancelGame", "terminateGame", "admin"}
  BY <1>1
<1>3. QED
  BY <1>1, <1>2 DEF LoopRuns

LEMMA GameIsShownStep ==
  ASSUME TypesInv, Settling, Screening, Next, ~ crashed',
         NEW c \in clients, c \in clients', GameIsShown(c)
  PROVE  GameIsShown(c)'
<1>1. Types /\ ThreadsType /\ TableType /\ EventsType /\ c \in Clients
  BY DEF TypesInv, Types, TableType
<1>2. CASE game' = None /\ game # None
  <2>1. Coming("gameEnded")'
    BY <1>2, EndsAnnounce, Constants DEF Coming
  <2>2. QED
    BY <1>2, <2>1 DEF GameIsShown
<1>3. CASE game' = None /\ game = None
  <2>1. CASE screen[c].game = None
    <3>1. screen'[c].game = None
      <4>1. CASE Greet(c)
        BY <1>1, <1>3, <2>1, <4>1, GreetShows
      <4>2. CASE ~ Greet(c)
        BY <1>1, <1>3, <2>1, <4>2, ScreenMoves
      <4>3. QED
        BY <4>1, <4>2
    <3>2. QED
      BY <1>3, <3>1 DEF GameIsShown
  <2>2. CASE Coming("gameEnded")
    <3>1. Coming("gameEnded")' \/ thr'[Loop].at = "sendEnded"
      BY <1>1, <2>2, ComingStays, TakesMove DEF Events
    <3>2. QED
      BY <1>3, <3>1 DEF GameIsShown
  <2>3. CASE thr[Loop].at = "sendEnded"
    <3>1. thr'[Loop].at = "sendEnded" \/ sendGameEnded
      BY <2>3, LoopSends
    <3>2. sendGameEnded => screen'[c].game = None
      BY <1>1, GameEndedShows
    <3>3. QED
      BY <1>3, <3>1, <3>2 DEF GameIsShown
  <2>4. QED
    BY <1>3, <2>1, <2>2, <2>3 DEF GameIsShown
<1>4. CASE game' # None /\ game' # game
  <2>1. Coming("gameEvent")'
    BY <1>4, DealsAnnounce, Constants DEF Coming
  <2>2. QED
    BY <1>4, <2>1 DEF GameIsShown
<1>5. CASE game' # None /\ game' = game /\ ~ EndsAnotherGame'
  <2>0. ~ EndsAnotherGame
    BY <1>5, EndsAnotherGameStays
  <2> DEFINE Current == screen'[c].game = game /\ screen'[c].version = version[game]
             Soon == \/ Coming("gameEvent")' \/ GreetComing(c)'
                     \/ thr'[Loop].at \in {"sendGame", "tickSend"}
  <2>1. Soon => GameIsShown(c)'
    BY <1>5 DEF GameIsShown
  <2>2. Current => GameIsShown(c)'
    <3>1. CASE UNCHANGED version
      BY <1>5, <3>1 DEF GameIsShown
    <3>2. CASE LoopTicks /\ ~ UNCHANGED version
      BY <1>1, <2>1, <3>2, TicksMove
    <3>3. ASSUME NEW d \in Clients, Act(d)
          PROVE  GameIsShown(c)'
      <4>1. Coming("gameEvent")'
        BY <1>1, <3>3, ActMoves, Constants DEF Coming
      <4>2. QED
        BY <2>1, <4>1
    <3>4. QED
      BY <3>1, <3>2, <3>3, WhoChanges
  <2> HIDE DEF Current, Soon
  <2>3. CASE screen[c].game = game /\ screen[c].version = version[game]
    <3>1. CASE sendGameEnded
      <4>1. Queued("gameEvent")
        BY <1>5, <2>0, <3>1 DEF sendGameEnded, At, Screening, EndsComeFirst
      <4>2. ~ LoopTakesEvent
        BY <3>1 DEF LoopTakesEvent, Idle, sendGameEnded, At
      <4>3. Coming("gameEvent")'
        BY <4>1, <4>2, QueuedStays DEF Coming
      <4>4. QED
        BY <2>1, <4>3 DEF Soon
    <3>2. CASE Greet(c)
      BY <1>1, <1>5, <2>2, <3>2, GreetShows DEF Current
    <3>3. CASE ~ sendGameEnded /\ ~ Greet(c)
      <4>1. Current
        BY <1>1, <2>3, <3>3, ScreenMoves DEF Current
      <4>2. QED
        BY <2>2, <4>1
    <3>4. QED
      BY <3>1, <3>2, <3>3
  <2>4. CASE Coming("gameEvent")
    <3>1. Soon
      BY <1>1, <2>4, ComingStays, TakesMove DEF Events, Soon
    <3>2. QED
      BY <2>1, <3>1
  <2>5. CASE thr[Loop].at \in {"sendGame", "tickSend"}
    <3>1. \/ thr'[Loop].at = thr[Loop].at
          \/ sendGameData("tickSend", "tickOver") \/ sendGameData("sendGame", "idle")
      BY <2>5, LoopSends
    <3>2. ASSUME NEW where, NEW next, sendGameData(where, next)
          PROVE  Current
      BY <1>1, <1>5, <3>2, GameDataShows DEF Current
    <3>3. QED
      BY <2>1, <2>2, <2>5, <3>1, <3>2 DEF Soon
  <2>6. CASE GreetComing(c)
    <3>1. GreetComing(c)' \/ (LoopRuns /\ Head(execInRunLoop) = Greeting(c))
      BY <1>1, <2>6, GreetComingStays
    <3>2. CASE LoopRuns /\ Head(execInRunLoop) = Greeting(c)
      BY <1>1, <1>5, <2>2, <3>2, GreetsNow, GreetShows DEF Current
    <3>3. QED
      BY <2>1, <3>1, <3>2 DEF Soon
  <2>7. QED
    BY <1>5, <2>0, <2>3, <2>4, <2>5, <2>6 DEF GameIsShown
<1>6. CASE game' # None /\ EndsAnotherGame'
  BY <1>6 DEF GameIsShown
<1>7. QED
  BY <1>2, <1>3, <1>4, <1>5, <1>6

LEMMA ScheduleIsShownStep ==
  ASSUME TypesInv, Settling, Screening, Next, ~ crashed',
         NEW c \in clients, c \in clients', ScheduleIsShown(c)
  PROVE  ScheduleIsShown(c)'
<1>1. Types /\ ThreadsType /\ EventsType /\ c \in Clients
  BY DEF TypesInv, Types, TableType
<1> SUFFICES ASSUME pendingGame'
             PROVE  \/ screen'[c].scheduled
                    \/ Coming("gameScheduled")' \/ thr'[Loop].at = "sendScheduled"
                    \/ GreetComing(c)'
  BY DEF ScheduleIsShown
<1>2. CASE ~ pendingGame
  <2>1. Rests(Loop, <<"gameScheduled">>)
    BY <1>2, WhoChanges, Zenon DEF LoopDeals, LoopRuns, ScheduleGame, CancelGame,
       TerminateGame, SaveSeat, Greet
  <2>2. thr'[Loop].push = <<"gameScheduled">>
    BY <1>1, <2>1, RestsType, PushesAre, Constants DEF Events
  <2>3. QED
    BY <2>2, Constants DEF Coming
<1>3. CASE pendingGame /\ screen[c].scheduled
  <2>1. CASE Greet(c)
    BY <1>1, <1>3, <2>1, GreetShows
  <2>2. CASE ~ Greet(c)
    BY <1>1, <1>3, <2>2, ScreenMoves
  <2>3. QED
    BY <2>1, <2>2
<1>4. CASE Coming("gameScheduled")
  BY <1>1, <1>4, ComingStays, TakesMove DEF Events
<1>5. CASE pendingGame /\ thr[Loop].at = "sendScheduled"
  BY <1>1, <1>5, LoopSends, GameScheduledShows
<1>6. CASE pendingGame /\ GreetComing(c)
  BY <1>1, <1>6, GreetComingStays, GreetsNow, GreetShows
<1>7. QED
  BY <1>2, <1>3, <1>4, <1>5, <1>6 DEF ScheduleIsShown

LEMMA PlayersAreShownStep ==
  ASSUME TypesInv, Settling, Screening, Next, ~ crashed',
         NEW c \in clients, c \in clients', PlayersAreShown(c)
  PROVE  PlayersAreShown(c)'
<1>1. Types /\ ThreadsType /\ EventsType /\ c \in Clients
  BY DEF TypesInv, Types, TableType
<1> DEFINE Soon == \/ Coming("clientEvent")' \/ Coming("gameEnded")'
                   \/ \E t \in Clients \cup {Loop} : thr'[t].at = "unset"
                   \/ thr'[Loop].at \in {"sendEnded", "sendPlayers"}
<1>2. Soon => PlayersAreShown(c)'
  BY DEF PlayersAreShown
<1>0. screen'[c].missed => PlayersAreShown(c)'
  BY DEF PlayersAreShown
<1> HIDE DEF Soon
<1>3. ASSUME screen'[c].players = clients, screen'[c].table = <<seats, balance>>
      PROVE  PlayersAreShown(c)'
  <2>1. CASE UNCHANGED <<clients, seats, balance>>
    BY <1>3, <2>1 DEF PlayersAreShown
  <2>2. ASSUME NEW d \in Clients, AddClient(d) \/ RemoveClient(d)
        PROVE  Soon
    <3>1. clients' # {}
      OBVIOUS
    <3>2. thr'[PitBoss].push = <<"clientEvent">>
      BY <1>1, <2>2, <3>1, AddMoves, RemoveMoves
    <3>3. QED
      BY <3>2, Constants DEF Soon, Coming
  <2>3. ASSUME LoopRuns, seats' # seats
        PROVE  Soon
    <3>1. Rests(Loop, <<"clientEvent">>)
      BY <2>3, Zenon DEF LoopRuns, ScheduleGame, CancelGame, TerminateGame,
         SaveSeat, Greet
    <3>2. thr'[Loop].push = <<"clientEvent">>
      BY <1>1, <3>1, RestsType, PushesAre, Constants DEF Events
    <3>3. QED
      BY <3>2, Constants DEF Soon, Coming
  <2>4. ASSUME NEW t \in Clients \cup {Loop}, SaveResult(t), balance' # balance
        PROVE  Soon
    BY <1>1, <2>4, SaveMoves, Constants DEF dbVars, Soon
  <2>5. QED
    BY <1>2, <2>1, <2>2, <2>3, <2>4, WhoChanges
<1>4. CASE \/ screen[c].missed
           \/ screen[c].players = clients /\ screen[c].table = <<seats, balance>>
  <2>1. CASE sendGameEnded
    <3>1. ~ (UNCHANGED thr /\ sendGameData("tickSend", "tickOver"))
          /\ ~ (UNCHANGED thr /\ sendGameData("sendGame", "idle"))
      BY <2>1 DEF sendGameEnded, sendGameData, At
    <3>2. thr'[Loop].at = "sendPlayers"
      BY <1>1, <2>1, <3>1, SendMoves DEF SendsAnything
    <3>3. QED
      BY <1>2, <3>2 DEF Soon
  <2>2. CASE Greet(c)
    BY <1>0, <1>1, <1>3, <1>4, <2>2, GreetShows
  <2>3. CASE ~ sendGameEnded /\ ~ Greet(c)
    BY <1>0, <1>1, <1>3, <1>4, <2>3, ScreenMoves
  <2>4. QED
    BY <2>1, <2>2, <2>3
<1>5. CASE Coming("clientEvent") \/ Coming("gameEnded")
  <2>1. Soon
    BY <1>1, <1>5, ComingStays, TakesMove DEF Events, Soon
  <2>2. QED
    BY <1>2, <2>1
<1>6. ASSUME NEW t \in Clients \cup {Loop}, thr[t].at = "unset"
      PROVE  PlayersAreShown(c)'
  <2>1. thr'[t].at = "unset" \/ UnsetGame(t)
    <3>1. ~ RecordGame(t) /\ ~ SaveResult(t)
      BY <1>6 DEF RecordGame, SaveResult, At
    <3>2. CASE t = Loop
      BY <1>6, <3>1, <3>2, LoopEndsAlone
    <3>3. CASE t \in Clients
      <4>1. ~ Act(t) /\ ~ IsOver(t) /\ ~ AddClient(t) /\ ~ RemoveClient(t)
        BY <1>6, <3>3 DEF Act, IsOver, AddClient, RemoveClient, Idle, At
      <4>2. QED
        BY <1>1, <1>6, <3>1, <3>3, <4>1, ThreadsTypeStep, PushMoves, Constants DEF Moves
    <3>4. QED
      BY <3>2, <3>3
  <2>2. UnsetGame(t) => Coming("gameEnded")'
    BY <1>1, UnsetMoves, Constants DEF Coming
  <2>3. QED
    BY <1>2, <2>1, <2>2 DEF Soon
<1>7. CASE thr[Loop].at = "sendEnded"
  <2>1. thr'[Loop].at = "sendEnded" \/ sendGameEnded
    BY <1>7, LoopSends
  <2>2. sendGameEnded => thr'[Loop].at = "sendPlayers"
    <3>1. sendGameEnded => ~ (UNCHANGED thr /\ sendGameData("tickSend", "tickOver"))
          /\ ~ (UNCHANGED thr /\ sendGameData("sendGame", "idle"))
      BY DEF sendGameEnded, sendGameData, At
    <3>2. QED
      BY <1>1, <3>1, SendMoves DEF SendsAnything
  <2>3. QED
    BY <1>2, <2>1, <2>2 DEF Soon
<1>8. CASE thr[Loop].at = "sendPlayers"
  <2>1. thr'[Loop].at = "sendPlayers" \/ sendPlayerData
    BY <1>8, LoopSends
  <2>2. QED
    BY <1>0, <1>1, <1>2, <1>3, <2>1, PlayerDataShows DEF Soon
<1>9. QED
  BY <1>4, <1>5, <1>6, <1>7, <1>8 DEF PlayersAreShown

LEMMA ScreensCatchUpStep ==
  ASSUME TypesInv, Settling, Screening, Next, ~ crashed'
  PROVE  ScreensCatchUp'
<1> SUFFICES ASSUME NEW c \in clients'
             PROVE  GameIsShown(c)' /\ ScheduleIsShown(c)' /\ PlayersAreShown(c)'
  BY DEF ScreensCatchUp
<1>1. CASE c \in clients
  <2>1. GameIsShown(c) /\ ScheduleIsShown(c) /\ PlayersAreShown(c)
    BY <1>1, StepsAre DEF Screening, ScreensCatchUp
  <2>2. QED
    BY <1>1, <2>1, GameIsShownStep, ScheduleIsShownStep, PlayersAreShownStep
<1>2. CASE c \notin clients
  <2>1. c \in Clients /\ AddClient(c)
    BY <1>2, WhoChanges DEF AddClient, RemoveClient
  <2>2. QED
    BY <2>1, NewcomersCatchUp DEF Screening
<1>3. QED
  BY <1>1, <1>2

\* A crash ends everything: only what holds while the process runs is claimed.
ScreeningInv == crashed \/ Screening

LEMMA ScreeningInit == Init => Screening
<1> SUFFICES ASSUME Init PROVE Screening
  OBVIOUS
<1>1. \A t \in Threads : thr[t].push = <<>>
  BY DEF Init
<1>2. SendersAreKnown
  BY <1>1, PushesAre, Constants DEF SendersAreKnown, Events
<1>3. EndsComeFirst /\ ScreensCatchUp
  BY DEF Init, EndsComeFirst, ScreensCatchUp
<1>4. NewcomersAreBlank
  BY Constants DEF Init, NewcomersAreBlank, GreetComing
<1>5. QED
  BY <1>2, <1>3, <1>4 DEF Screening

LEMMA ScreeningStep ==
  TypesInv /\ Settling /\ ScreeningInv /\ [Next]_vars => ScreeningInv'
<1>1. ASSUME TypesInv, Settling, ScreeningInv, Next PROVE ScreeningInv'
  <2>1. CASE crashed'
    BY <2>1 DEF ScreeningInv
  <2>2. CASE ~ crashed'
    <3>1. Screening
      BY <1>1, StepsAre DEF ScreeningInv
    <3>2. SendersAreKnown' /\ EndsComeFirst'
      BY <1>1, <3>1, SendersAreKnownStep, EndsComeFirstStep DEF Screening
    <3>3. NewcomersAreBlank'
      BY <1>1, <2>2, <3>1, NewcomersAreBlankStep DEF Screening
    <3>4. ScreensCatchUp'
      BY <1>1, <2>2, <3>1, ScreensCatchUpStep
    <3>5. QED
      BY <3>2, <3>3, <3>4 DEF Screening, ScreeningInv
  <2>3. QED
    BY <2>1, <2>2
<1>2. ASSUME ScreeningInv, UNCHANGED vars PROVE ScreeningInv'
  BY <1>2 DEF ScreeningInv, Screening, SendersAreKnown, EndsComeFirst,
     NewcomersAreBlank, ScreensCatchUp, GameIsShown, ScheduleIsShown, PlayersAreShown,
     Coming, Queued, GreetComing, Greeting, Blank, EndsAnotherGame, vars,
     dealerVars, chanVars, gameVars, dbVars
<1>3. QED
  BY <1>1, <1>2

\* When every message has been handled, each client's screen shows the game on
\* the table as it is now (or none), unless a message ended an earlier one; who
\* is connected and the table's rows, unless they could not be read when they
\* were due; and the game that is scheduled if there is one: for any clients,
\* any number of games one after the other, any refused statements and any
\* capacity of the channels (the run loop's broadcasts).
THEOREM ScreensAreCurrent == Spec => []QuietScreensAreCurrent
<1>1. TypesInv /\ ScreeningInv => QuietScreensAreCurrent
  <2> SUFFICES ASSUME TypesInv, ScreeningInv,
                      stateChanged = <<>>, execInRunLoop = <<>>, ~ crashed,
                      \A t \in Threads : thr[t].at \in {"new", "idle", "gone"}
                                         /\ thr[t].push = <<>>,
                      NEW c \in clients
               PROVE  /\ game = None => screen[c].game = None
                      /\ game # None /\ ~ EndsAnotherGame =>
                            screen[c].game = game /\ screen[c].version = version[game]
                      /\ ~ screen[c].missed =>
                            screen[c].players = clients /\ screen[c].table = <<seats, balance>>
                      /\ pendingGame => screen[c].scheduled
    BY DEF QuietScreensAreCurrent
  <2>1. GameIsShown(c) /\ ScheduleIsShown(c) /\ PlayersAreShown(c)
    BY DEF ScreeningInv, Screening, ScreensCatchUp
  <2>2. ASSUME NEW e \in Events PROVE ~ Coming(e)
    <3>1. Len(stateChanged) = 0
      OBVIOUS
    <3>2. ~ Queued(e)
      BY <3>1 DEF Queued
    <3>3. \A t \in Threads : thr[t].push # <<e>>
      BY PushesAre
    <3>4. QED
      BY <3>2, <3>3 DEF Coming
  <2>3. /\ thr[Loop].at \in {"new", "idle", "gone"}
        /\ thr[PitBoss].at \in {"new", "idle", "gone"}
        /\ \A t \in Clients \cup {Loop} : thr[t].at # "unset"
    BY Constants
  <2>4. ~ GreetComing(c)
    <3>1. joining # c
      BY <2>3, Constants DEF TypesInv, SeatingIsKnown, Types, TableType
    <3>2. QED
      BY <3>1 DEF GreetComing
  <2>5. QED
    BY <2>1, <2>2, <2>3, <2>4 DEF GameIsShown, ScheduleIsShown, PlayersAreShown, Events
<1>2. Init => ScreeningInv
  BY ScreeningInit DEF ScreeningInv
<1>3. QED
  BY <1>1, <1>2, ScreeningStep, SettlingInit, SettlingStep, TypesHold, PTL DEF Spec

-----------------------------------------------------------------------------
(***************************************************************************)
(* Guts.  The chips of a shared pot take most of the work: the odd chips   *)
(* that go to the first winners are as many as the division leaves.        *)
(***************************************************************************)

(* The invariant.                                                          *)

\* What the players have lost lies on the table until somebody has won.
ChipsConserved == Sum(balances, N) + (IF phase = "GameOver" THEN 0 ELSE pot) = 0

\* Which dealer action can be pending in which phase, and what it relies on.
Stages ==
  /\ phase # "Declaration" => recording = {}
  /\ phase = "Declaration" => pendingDealerAction \in {"None", "Showdown"}
  /\ phase = "Showdown" =>
       pendingDealerAction \in {"RevealDeckCard", "ResolveBloodyGuts", "NextRound"}
  /\ phase = "GameOver" => pendingDealerAction \in {"EndGame", "None"}
  /\ pendingDealerAction \in {"RevealDeckCard", "ResolveBloodyGuts"}
       => Cardinality(bloodyGutsPlayer) = 1 /\ bloodyGutsPlayer \subseteq In
  /\ allFolded => phase # "Declaration" /\ In = {}
  /\ pendingDealerAction = "RevealDeckCard" => deckCardsRevealed < CardCount
  /\ done => phase = "GameOver"

GInv == GTypeOK /\ ChipsConserved /\ Stages

-----------------------------------------------------------------------------
(* The seats and what they hold.                                           *)

LEMMA GutsBounds ==
  /\ N \in Nat /\ N > 0
  /\ Ante \in Nat /\ MaxOwed \in Nat
  /\ CardCount \in Nat /\ CardCount > 0
  /\ MaxRounds \in Nat /\ MaxRounds > 0
BY GutsAssumption

\* There are N seats, and the sets of seats are finite.
LEMMA SeatsCounted ==
  /\ Cardinality(Seats) = N
  /\ \A S \in SUBSET Seats : IsFiniteSet(S) /\ Cardinality(S) \in Nat
<1>1. N \in Nat /\ N > 0 /\ 0 \in Int /\ N - 1 \in Int
  BY GutsBounds
<1>2. IsFiniteSet(Seats) /\ Cardinality(Seats) = N
  BY <1>1, FS_Interval DEF Seats
<1>3. ASSUME NEW S \in SUBSET Seats
      PROVE  IsFiniteSet(S) /\ Cardinality(S) \in Nat
  BY <1>2, FS_Subset, FS_CardinalityType
<1>4. QED
  BY <1>2, <1>3

\* Every member of a set of seats gets the same.
LEMMA EverybodyGets ==
  ASSUME NEW f \in [Seats -> Int], NEW h, NEW S \in SUBSET Seats, NEW q \in Int,
         \A i \in Seats : h[i] = IF i \in S THEN f[i] + q ELSE f[i]
  PROVE  Sum(h, N) = Sum(f, N) + q * Cardinality(S)
<1> DEFINE g == [i \in Seats |-> IF i \in S THEN q ELSE 0]
<1>1. N \in Nat
  BY GutsBounds
<1>2. \A i \in 0 .. N - 1 : f[i] \in Int /\ g[i] \in Int /\ h[i] = f[i] + g[i]
  BY DEF Seats
<1>3. Sum(h, N) = Sum(f, N) + Sum(g, N)
  <2> HIDE DEF g
  <2> QED
    BY <1>1, <1>2, SumLinear
<1>4. \A i \in 0 .. N - 1 : g[i] = IF i \in S THEN q ELSE 0
  BY DEF Seats
<1>5. S \in SUBSET (0 .. N - 1)
  BY DEF Seats
<1>6. Sum(g, N) = q * Cardinality(S)
  <2> HIDE DEF g
  <2> QED
    BY <1>1, <1>4, <1>5, SumOfMembers
<1>7. QED
  BY <1>3, <1>6

\* A set of one seat.
LEMMA OneGets ==
  ASSUME NEW f \in [Seats -> Int], NEW h, NEW S \in SUBSET Seats, NEW q \in Int,
         Cardinality(S) = 1,
         \A i \in Seats : h[i] = IF i \in S THEN f[i] + q ELSE f[i]
  PROVE  Sum(h, N) = Sum(f, N) + q
<1>1. Sum(h, N) = Sum(f, N) + q * Cardinality(S)
  BY EverybodyGets
<1>2. q * 1 = q
  OBVIOUS
<1>3. QED
  BY <1>1, <1>2

\* The winners of a shared pot get all of it, to the last chip.
LEMMA TheWinnersGetThePot ==
  ASSUME NEW f \in [Seats -> Int], NEW h, NEW W \in SUBSET Seats, W # {}, pot \in Nat,
         \A i \in Seats : h[i] = IF i \in W THEN f[i] + Share(W, i) ELSE f[i]
  PROVE  Sum(h, N) = Sum(f, N) + pot
<1> DEFINE won == [i \in Seats |-> h[i] - f[i]]
<1>1. N \in Nat /\ W \in SUBSET (0 .. N - 1)
  BY GutsBounds DEF Seats
<1>2. pot \div Cardinality(W) \in Nat
  <2>1. PICK b \in Nat \ {0} : b = Cardinality(W)
    BY SeatsCounted, FS_EmptySet
  <2>2. QED
    BY <2>1, Division
<1>3. ASSUME NEW i \in Seats
      PROVE  /\ f[i] \in Int /\ won[i] \in Int /\ h[i] = f[i] + won[i]
             /\ won[i] = IF i \in W
                         THEN (pot \div Cardinality(W))
                              + (IF Below(W, i) < pot % Cardinality(W) THEN 1 ELSE 0)
                         ELSE 0
  <2>1. Share(W, i) = (pot \div Cardinality(W))
                      + (IF Below(W, i) < pot % Cardinality(W) THEN 1 ELSE 0)
    BY DEF Share, Below
  <2>2. Share(W, i) \in Int
    <3>1. PICK e \in {0, 1} : Share(W, i) = (pot \div Cardinality(W)) + e
      BY <2>1
    <3>2. QED
      BY <1>2, <3>1
  <2>3. f[i] \in Int /\ h[i] = IF i \in W THEN f[i] + Share(W, i) ELSE f[i]
    OBVIOUS
  <2>4. won[i] = IF i \in W THEN Share(W, i) ELSE 0
    BY <2>2, <2>3
  <2>5. QED
    BY <2>1, <2>2, <2>3, <2>4
<1> HIDE DEF won
<1>4. Sum(won, N) = pot
  <2>1. Seats = 0 .. N - 1
    BY DEF Seats
  <2>2. \A i \in 0 .. N - 1 :
          won[i] = IF i \in W
                   THEN (pot \div Cardinality(W))
                        + (IF Below(W, i) < pot % Cardinality(W) THEN 1 ELSE 0)
                   ELSE 0
    BY <1>3, <2>1
  <2>3. QED
    BY <1>1, <2>2, SharesAddUp
<1>5. Sum(h, N) = Sum(f, N) + Sum(won, N)
  BY <1>1, <1>3, SumLinear DEF Seats
<1>6. QED
  BY <1>4, <1>5

\* A share of the pot is no loss.
LEMMA SharesAreNoLoss ==
  ASSUME NEW W \in SUBSET Seats, W # {}, pot \in Nat, NEW i \in Seats
  PROVE  Share(W, i) \in Nat
<1>1. PICK b \in Nat \ {0} : b = Cardinality(W)
  BY SeatsCounted, FS_EmptySet
<1>2. pot \div b \in Nat
  BY Division
<1>3. QED
  BY <1>1, <1>2 DEF Share

-----------------------------------------------------------------------------
(* Every action keeps the invariant.                                       *)

LEMMA GInitKeeps == GInit => GInv
<1> SUFFICES ASSUME GInit PROVE GInv
  OBVIOUS
<1>1. GTypeOK
  <2>1. 0 \in 0 .. CardCount /\ 1 \in 1 .. MaxRounds /\ N * Ante \in Nat /\ -Ante \in Int
    BY GutsBounds
  <2>2. balances \in [Seats -> Int] /\ decisions \in [Seats -> {"None", "In", "Out"}]
    BY <2>1 DEF GInit, NoDecision
  <2>3. bloodyGuts \in BOOLEAN /\ allFolded \in BOOLEAN /\ done \in BOOLEAN
    BY Zenon DEF GInit
  <2>4. QED
    BY <2>1, <2>2, <2>3 DEF GInit, GTypeOK
<1>2. Stages
  BY DEF GInit, Stages, In
<1>3. ChipsConserved
  <2> DEFINE zero == [s \in Seats |-> 0]
  <2>1. zero \in [Seats -> Int] /\ -Ante \in Int /\ Seats \in SUBSET Seats
    BY GutsBounds
  <2>2. \A i \in Seats : balances[i] = IF i \in Seats THEN zero[i] + (-Ante) ELSE zero[i]
    BY GutsBounds DEF GInit
  <2>3. \A i \in 0 .. N - 1 : zero[i] = IF i \in {} THEN 0 ELSE 0
    BY DEF Seats
  <2> HIDE DEF zero
  <2>4. Sum(balances, N) = Sum(zero, N) + (-Ante) * Cardinality(Seats)
    BY <2>1, <2>2, EverybodyGets
  <2>5. Sum(zero, N) = 0
    <3>1. {} \in SUBSET (0 .. N - 1) /\ 0 \in Int
      OBVIOUS
    <3>2. Sum(zero, N) = 0 * Cardinality({})
      BY <2>3, <3>1, GutsBounds, SumOfMembers
    <3>3. QED
      BY <3>2, FS_EmptySet
  <2>6. Cardinality(Seats) = N
    BY SeatsCounted
  <2>7. pot = N * Ante /\ phase = "Declaration"
    BY DEF GInit
  <2>8. (-Ante) * N + N * Ante = 0
    BY GutsBounds
  <2>9. QED
    BY <2>4, <2>5, <2>6, <2>7, <2>8, GutsBounds DEF ChipsConserved
<1>4. QED
  BY <1>1, <1>2, <1>3 DEF GInv

\* No chip moves when a player decides.
LEMMA DecisionsKeep ==
  ASSUME GInv, NEW s \in Seats,
         \/ \E decision \in {"In", "Out"} : SubmitDecision(s, decision)
         \/ RevealIfAllDecided(s)
  PROVE  GInv'
<1>1. CASE \E decision \in {"In", "Out"} : SubmitDecision(s, decision)
  BY <1>1 DEF GInv, GTypeOK, ChipsConserved, Stages, In, SubmitDecision
<1>2. CASE RevealIfAllDecided(s)
  BY <1>2 DEF GInv, GTypeOK, ChipsConserved, Stages, In, RevealIfAllDecided, DealerActions
<1>3. QED
  BY <1>1, <1>2

\* Nor when the showdown finds nobody in, or one player who faces the deck, nor
\* when a card of the deck is turned or the game ends.
LEMMA QuietTicksKeep ==
  ASSUME GInv, NobodyIn \/ OneInFacesTheDeck \/ RevealNextDeckCard \/ GEndGame
  PROVE  GInv'
<1>1. CASE NobodyIn
  BY <1>1 DEF GInv, GTypeOK, ChipsConserved, Stages, In, NobodyIn, Executes, DealerActions
<1>2. CASE OneInFacesTheDeck
  <2>1. 0 \in 0 .. CardCount /\ 0 < CardCount /\ In \subseteq Seats
    BY GutsBounds DEF In
  <2>2. GTypeOK'
    BY <1>2, <2>1 DEF GInv, GTypeOK, OneInFacesTheDeck, Executes, DealerActions
  <2>3. Stages'
    BY <1>2, <2>1 DEF GInv, Stages, In, OneInFacesTheDeck, Executes
  <2>4. ChipsConserved'
    BY <1>2 DEF GInv, Stages, In, ChipsConserved, OneInFacesTheDeck, Executes
  <2>5. QED
    BY <2>2, <2>3, <2>4 DEF GInv
<1>3. CASE RevealNextDeckCard
  BY <1>3, GutsBounds DEF GInv, GTypeOK, ChipsConserved, Stages, In, RevealNextDeckCard, AfterDeckCard,
                      Executes, DealerActions
<1>4. CASE GEndGame
  BY <1>4 DEF GInv, GTypeOK, ChipsConserved, Stages, In, GEndGame, Executes, DealerActions
<1>5. QED
  BY <1>1, <1>2, <1>3, <1>4

\* Who is in alone, or beats the deck, takes the pot; then it is nobody's debt.
LEMMA ThePotIsTaken ==
  ASSUME GInv, OneIn \/ BeatsTheDeck
  PROVE  GInv'
<1>1. PICK S \in SUBSET Seats :
        /\ Cardinality(S) = 1
        /\ balances' = [s \in Seats |-> IF s \in S THEN balances[s] + pot ELSE balances[s]]
        /\ phase # "GameOver" /\ phase' = "GameOver"
  <2>1. CASE OneIn
    <3>1. In \in SUBSET Seats
      BY DEF In
    <3>2. QED
      BY <2>1, <3>1 DEF GInv, Stages, In, OneIn, Executes
  <2>2. CASE BeatsTheDeck
    BY <2>2 DEF GInv, GTypeOK, Stages, In, BeatsTheDeck, Executes
  <2>3. QED
    BY <2>1, <2>2
<1>2. balances \in [Seats -> Int] /\ pot \in Nat /\ N \in Nat
  BY GutsBounds DEF GInv, GTypeOK
<1>3. \A i \in Seats : balances'[i] = IF i \in S THEN balances[i] + pot ELSE balances[i]
  BY <1>1
<1>4. Sum(balances', N) = Sum(balances, N) + pot
  BY <1>1, <1>2, <1>3, OneGets
<1>5. GTypeOK' /\ Stages'
  <2>1. balances' \in [Seats -> Int]
    BY <1>1, <1>2
  <2>2. CASE OneIn
    BY <2>1, <2>2 DEF GInv, GTypeOK, Stages, In, OneIn, Executes, DealerActions
  <2>3. CASE BeatsTheDeck
    BY <2>1, <2>3 DEF GInv, GTypeOK, Stages, In, BeatsTheDeck, Executes, DealerActions
  <2>4. QED
    BY <2>2, <2>3
<1>6. ChipsConserved'
  BY <1>1, <1>2, <1>4 DEF GInv, ChipsConserved
<1>7. QED
  BY <1>5, <1>6 DEF GInv

\* Who loses to the deck pays into the pot.
LEMMA TheDeckWins ==
  ASSUME GInv, DeckWins
  PROVE  GInv'
<1>1. balances \in [Seats -> Int] /\ pot \in Nat /\ Penalty \in Nat /\ -Penalty \in Int
  BY GutsBounds DEF GInv, GTypeOK, Penalty
<1>2. bloodyGutsPlayer \in SUBSET Seats /\ Cardinality(bloodyGutsPlayer) = 1
  BY DEF GInv, GTypeOK, Stages, In, DeckWins, Executes
<1>3. \A i \in Seats :
        balances'[i] = IF i \in bloodyGutsPlayer THEN balances[i] + (-Penalty) ELSE balances[i]
  BY <1>1 DEF DeckWins
<1>4. Sum(balances', N) = Sum(balances, N) + (-Penalty)
  BY <1>1, <1>2, <1>3, OneGets
<1>5. Sum(balances, N) \in Int
  BY <1>1, GutsBounds, SumInt DEF Seats
<1>6. GTypeOK'
  BY <1>1 DEF GInv, GTypeOK, DeckWins, Executes, DealerActions
<1>7. Stages'
  BY DEF GInv, Stages, In, DeckWins, Executes
<1>8. ChipsConserved'
  BY <1>1, <1>4, <1>5 DEF GInv, ChipsConserved, Stages, In, DeckWins, Executes
<1>9. QED
  BY <1>6, <1>7, <1>8 DEF GInv

\* When several are in, the winners get the pot and the losers make the next.
LEMMA SeveralKeep ==
  ASSUME GInv, NEW W \in SUBSET Seats, SeveralIn(W)
  PROVE  GInv'
<1> DEFINE L == In \ W
           next == Cardinality(L) * Penalty
           paid == [i \in Seats |-> IF i \in W THEN balances[i] + Share(W, i) ELSE balances[i]]
<1>1. balances \in [Seats -> Int] /\ pot \in Nat /\ Penalty \in Nat /\ -Penalty \in Int
  BY GutsBounds DEF GInv, GTypeOK, Penalty
<1>2. W # {} /\ W \subseteq In /\ L \in SUBSET Seats
  BY DEF SeveralIn, In
<1>3. Cardinality(L) \in Nat /\ next \in Nat
  <2>1. Cardinality(L) \in Nat
    <3> HIDE DEF L
    <3> QED
      BY <1>2, SeatsCounted
  <2>2. QED
    BY <1>1, <2>1
<1>4. \A i \in W : Share(W, i) \in Nat
  BY <1>1, <1>2, SharesAreNoLoss
<1>5. paid \in [Seats -> Int]
  BY <1>1, <1>4
<1>6. Sum(paid, N) = Sum(balances, N) + pot
  <2>1. \A i \in Seats : paid[i] = IF i \in W THEN balances[i] + Share(W, i) ELSE balances[i]
    OBVIOUS
  <2> HIDE DEF paid
  <2>2. QED
    BY <1>1, <1>2, <2>1, TheWinnersGetThePot
<1>7. \A i \in Seats : balances'[i] = IF i \in L THEN paid[i] + (-Penalty) ELSE paid[i]
  BY <1>1, <1>2 DEF SeveralIn
<1>8. Sum(balances', N) = Sum(paid, N) + (-Penalty) * Cardinality(L)
  <2> HIDE DEF paid, L
  <2> QED
    BY <1>1, <1>2, <1>5, <1>7, EverybodyGets
<1>9. Sum(balances, N) \in Int
  BY <1>1, GutsBounds, SumInt DEF Seats
<1>10. (-Penalty) * Cardinality(L) = -next
  <2> HIDE DEF L
  <2> QED
    BY <1>1, <1>3
<1>11. balances' \in [Seats -> Int]
  <2>1. \A i \in Seats : balances'[i] \in Int
    <3> HIDE DEF paid, L
    <3> QED
      BY <1>1, <1>5, <1>7
  <2>2. balances' = [i \in Seats |-> balances'[i]]
    BY DEF SeveralIn
  <2>3. QED
    BY <2>1, <2>2
<1>12. /\ phase = "Declaration" /\ recording = {} /\ ~done
       /\ \/ next > 0 /\ phase' = "Showdown" /\ pot' = next /\ pendingDealerAction' = "NextRound"
          \/ ~(next > 0) /\ phase' = "GameOver" /\ pot' = pot /\ pendingDealerAction' = "EndGame"
       /\ allFolded' = FALSE
       /\ UNCHANGED <<bloodyGuts, decisions, recording, bloodyGutsPlayer,
                      deckCardsRevealed, roundNumber, done>>
  BY DEF GInv, GTypeOK, Stages, In, SeveralIn, Executes
<1> HIDE DEF next, paid, L
<1>13. GTypeOK' /\ Stages'
  BY <1>3, <1>11, <1>12 DEF GInv, GTypeOK, Stages, In, DealerActions
<1>14. ChipsConserved'
  BY <1>1, <1>3, <1>6, <1>8, <1>9, <1>10, <1>12 DEF GInv, ChipsConserved
<1>15. QED
  BY <1>13, <1>14 DEF GInv

\* A new ante of everybody, or of nobody.
LEMMA NextRoundKeeps ==
  ASSUME GInv, NextRound
  PROVE  GInv'
<1> DEFINE S == {s \in Seats : ReAntes(s)}
<1>1. balances \in [Seats -> Int] /\ pot \in Nat /\ -Ante \in Int /\ Ante \in Nat
  BY GutsBounds DEF GInv, GTypeOK
<1>2. S \in SUBSET Seats
  OBVIOUS
<1>3. Cardinality(S) \in Nat
  <2> HIDE DEF S
  <2> QED
    BY <1>2, SeatsCounted
<1>4. \A i \in Seats : balances'[i] = IF i \in S THEN balances[i] + (-Ante) ELSE balances[i]
  BY <1>1 DEF NextRound, ReAntes
<1>5. pot' = pot + Ante * Cardinality(S)
  BY DEF NextRound
<1> HIDE DEF S
<1>6. Sum(balances', N) = Sum(balances, N) + (-Ante) * Cardinality(S)
  BY <1>1, <1>2, <1>4, EverybodyGets
<1>7. Sum(balances, N) \in Int
  BY <1>1, GutsBounds, SumInt DEF Seats
<1>8. (-Ante) * Cardinality(S) = -(Ante * Cardinality(S)) /\ Ante * Cardinality(S) \in Nat
  BY <1>1, <1>3
<1>9. GTypeOK'
  <2>1. 0 \in 0 .. CardCount /\ roundNumber' \in 1 .. MaxRounds
    BY GutsBounds DEF GInv, GTypeOK, NextRound
  <2>2. balances' \in [Seats -> Int]
    BY <1>1 DEF NextRound
  <2>3. decisions' \in [Seats -> {"None", "In", "Out"}]
    BY DEF NextRound, NoDecision
  <2>4. pot' \in Nat
    BY <1>1, <1>5, <1>8
  <2>5. QED
    BY <2>1, <2>2, <2>3, <2>4 DEF GInv, GTypeOK, NextRound
<1>10. Stages'
  BY DEF GInv, Stages, In, NextRound, Executes
<1>11. phase # "GameOver" /\ phase' # "GameOver"
  BY DEF GInv, Stages, In, NextRound, Executes
<1>12. ChipsConserved'
  BY <1>1, <1>5, <1>6, <1>7, <1>8, <1>11 DEF GInv, ChipsConserved
<1>13. QED
  BY <1>9, <1>10, <1>12 DEF GInv

LEMMA GNextKeeps == GInv /\ [GNext]_gVars => GInv'
<1> SUFFICES ASSUME GInv, [GNext]_gVars PROVE GInv'
  OBVIOUS
<1>1. CASE \E s \in Seats, decision \in {"In", "Out"} : SubmitDecision(s, decision)
  BY <1>1, DecisionsKeep
<1>2. CASE \E s \in Seats : RevealIfAllDecided(s)
  BY <1>2, DecisionsKeep
<1>3. CASE Tick
  BY <1>3, QuietTicksKeep, ThePotIsTaken, TheDeckWins, SeveralKeep, NextRoundKeeps DEF Tick
<1>4. CASE UNCHANGED gVars
  BY <1>4 DEF gVars, GInv, GTypeOK, ChipsConserved, Stages, In
<1>5. QED
  BY <1>1, <1>2, <1>3, <1>4 DEF GNext

\* The invariant holds in every reachable state.
THEOREM GutsInvariance == GSpec => []GInv
<1>1. GInit => GInv
  BY GInitKeeps
<1>2. GInv /\ [GNext]_gVars => GInv'
  BY GNextKeeps
<1>3. QED
  BY <1>1, <1>2, PTL DEF GSpec

-----------------------------------------------------------------------------
(* Who pays.                                                               *)

\* Staying out costs nothing and going in no more than the agreed maximum, nor than
\* the pot (calculatePenalty and its callers, and nextRound's new ante).
THEOREM NobodyPaysForStayingOut == GSpec => OnlyTheBoldPay
<1> DEFINE Pays(s) ==
      balances'[s] < balances[s] =>
       \/ decisions[s] = "In" /\ balances[s] - balances'[s] <= MaxOwed /\ balances[s] - balances'[s] <= pot
       \/ In = {} /\ balances[s] - balances'[s] = Ante
<1>1. ASSUME GInv, GNext, NEW s \in Seats
      PROVE  Pays(s)
  <2>1. /\ balances \in [Seats -> Int] /\ pot \in Nat
        /\ Penalty \in Nat /\ Penalty <= MaxOwed /\ Penalty <= pot /\ Ante \in Nat
    BY <1>1, GutsBounds DEF GInv, GTypeOK, Penalty
  <2>2. balances[s] \in Int
    BY <1>1, <2>1
  <2>3. CASE balances' = balances
    BY <2>2, <2>3
  <2>4. CASE OneIn \/ BeatsTheDeck
    <3>1. balances'[s] = balances[s] \/ balances'[s] = balances[s] + pot
      BY <1>1, <2>4 DEF OneIn, BeatsTheDeck
    <3>2. QED
      BY <2>1, <2>2, <3>1
  <2>5. ASSUME NEW W \in SUBSET Seats, SeveralIn(W)
        PROVE  Pays(s)
    <3>1. Share(W, s) \in Nat
      BY <1>1, <2>1, <2>5, SharesAreNoLoss DEF SeveralIn
    <3>2. \/ balances'[s] = balances[s] + Share(W, s)
          \/ s \in In /\ balances'[s] = balances[s] - Penalty
          \/ balances'[s] = balances[s]
      BY <1>1, <2>5 DEF SeveralIn
    <3>3. s \in In => decisions[s] = "In"
      BY DEF In
    <3>4. QED
      BY <2>1, <2>2, <3>1, <3>2, <3>3, GutsBounds
  <2>6. CASE DeckWins
    <3>1. s \in bloodyGutsPlayer => decisions[s] = "In"
      BY <1>1, <2>6 DEF GInv, Stages, DeckWins, Executes, In
    <3>2. balances'[s] = IF s \in bloodyGutsPlayer THEN balances[s] - Penalty ELSE balances[s]
      BY <1>1, <2>6 DEF DeckWins
    <3>3. QED
      BY <2>1, <2>2, <3>1, <3>2, GutsBounds
  <2>7. CASE NextRound
    <3>1. balances'[s] = IF allFolded THEN balances[s] - Ante ELSE balances[s]
      BY <1>1, <2>7 DEF NextRound, ReAntes
    <3>2. allFolded => In = {}
      BY <1>1 DEF GInv, Stages
    <3>3. QED
      BY <2>1, <2>2, <3>1, <3>2
  <2>8. \/ balances' = balances
        \/ OneIn \/ BeatsTheDeck \/ DeckWins \/ NextRound
        \/ \E W \in SUBSET Seats : SeveralIn(W)
    BY <1>1 DEF GNext, Tick, SubmitDecision, RevealIfAllDecided, NobodyIn, OneInFacesTheDeck,
                RevealNextDeckCard, GEndGame
  <2>9. QED
    BY <2>3, <2>4, <2>5, <2>6, <2>7, <2>8
<1>2. GInv /\ [GNext]_gVars => [\A s \in Seats : Pays(s)]_gVars
  BY <1>1
<1>3. QED
  BY <1>2, GutsInvariance, PTL DEF GSpec, OnlyTheBoldPay

-----------------------------------------------------------------------------
(* The contract of a game.                                                 *)

\* The sums of the contract are those of Guts.
LEMMA SameSum ==
  ASSUME NEW f, NEW n
  PROVE  Game!Sum(f, n) = Sum(f, n)
BY Zenon DEF Game!Sum, Sum

\* The abstract specification of a game, its promise to move on aside
\* (playable.Playable, as the room's dealer uses it): every step of Guts is a step
\* of a game whose chips add up, and the last one leaves nothing on the table.
THEOREM GutsKeepsTheContract == GSpec => Game!SafeSpec
<1>1. GInit => Game!Init
  <2> SUFFICES ASSUME GInit PROVE Game!Init
    OBVIOUS
  <2>1. GInv
    BY GInitKeeps
  <2>2. N \in Nat /\ pot >= 0
    BY <2>1, GutsBounds DEF GInv, GTypeOK
  <2>3. Game!Balanced
    BY <2>1, <2>2, SameSum DEF Game!Balanced, GInv, ChipsConserved
  <2>4. QED
    BY <2>3 DEF Game!Init, GInit
<1>2. GInv /\ GInv' /\ [GNext]_gVars => [Game!Next]_(Game!vars)
  <2>0. UNCHANGED gVars => UNCHANGED Game!vars
    BY DEF gVars, Game!vars, OutOfRounds
  <2> SUFFICES ASSUME GInv, GInv', GNext PROVE Game!Next
    BY <2>0
  <2>1. Game!Balanced'
    BY SameSum, GutsBounds DEF Game!Balanced, GInv, ChipsConserved, GTypeOK
  <2>2. ~done
    BY DEF GInv, Stages, In, GNext, Tick, SubmitDecision, RevealIfAllDecided, Executes, NobodyIn, OneIn,
           OneInFacesTheDeck, SeveralIn, RevealNextDeckCard, BeatsTheDeck, DeckWins, NextRound, GEndGame
  <2>3. CASE GEndGame
    <3>1. done' /\ phase' = "GameOver"
      BY <2>3 DEF GInv, Stages, In, GEndGame, Executes
    <3>2. QED
      BY <2>1, <2>2, <3>1 DEF Game!Next, Game!End
  <2>4. CASE ~GEndGame
    <3>1. ~done'
      BY <2>2, <2>4 DEF GNext, Tick, SubmitDecision, RevealIfAllDecided, NobodyIn, OneIn,
           OneInFacesTheDeck, SeveralIn, RevealNextDeckCard, BeatsTheDeck, DeckWins, NextRound
    <3>2. QED
      BY <2>1, <2>2, <3>1 DEF Game!Next, Game!Move
  <2>5. QED
    BY <2>3, <2>4
<1>3. QED
  BY <1>1, <1>2, GutsInvariance, PTL DEF GSpec, Game!SafeSpec
=============================================================================
