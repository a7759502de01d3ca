---------------------------- MODULE BourreProofs ----------------------------
(***************************************************************************)
(* Bourré for every number of players, ante and number of games: who has   *)
(* anted is reported once, who is out stays out and a pot that goes on     *)
(* does not shrink, and the game keeps the contract (Playable) at every    *)
(* step.                                                                   *)
(***************************************************************************)
EXTENDS Bourre, SumProofs

-----------------------------------------------------------------------------
(* The invariant.                                                          *)

\* What the parts of the state are; the cards in the deck, which nothing but
\* TypeOK is about, are left to TLC.
Typed ==
  /\ balance \in [Seats -> Int]
  /\ pot \in Nat \ {0}
  /\ playerOrder \in Seq(Seats) /\ playerOrder # <<>>
  /\ \A a, b \in DOMAIN playerOrder : playerOrder[a] = playerOrder[b] => a = b
  /\ foldedPlayers \subseteq Seats
  /\ playerDiscards \in Seq(-1 .. 5)
  /\ roundNo \in 0 .. 6
  /\ cardsPlayed \in 0 .. Len(playerOrder)
  /\ leader \subseteq Seats
  /\ winCount \in [Seats -> 0 .. 5]
  /\ result \in [newPot : Int, booted : SUBSET Seats]
  /\ pendingDealerAction \in {"None", "ReplaceDiscards", "NextRound", "ClearGame"}
  /\ sendUpdate \in BOOLEAN /\ done \in BOOLEAN
  /\ gameNo \in 1 .. MaxGames

\* Nobody is on both lists, and nobody on neither.
Reported ==
  /\ Players \cap foldedPlayers = {}
  /\ Players \cup foldedPlayers = Seats

\* The last to decide plays if nobody else does.
SomebodyPlays ==
  roundNo = 0 =>
    /\ Len(playerDiscards) <= Len(playerOrder)
    /\ Len(playerDiscards) = Len(playerOrder) =>
         \E i \in DOMAIN playerDiscards : playerDiscards[i] # Folds

\* A player takes one trick a round at most.
TricksAreCounted ==
  \A s \in Seats : winCount[s] + 1 <= IF cardsPlayed = Len(playerOrder) THEN roundNo + 1
                                      ELSE IF roundNo = 0 THEN 1 ELSE roundNo

\* A game is settled with one player left or after the fifth trick; what is then left
\* for the next game is no less than the pot, or nothing.
Settled ==
  IF isGameOver
  THEN /\ result.newPot = 0 \/ result.newPot >= pot
       /\ result.booted \subseteq Players
       /\ roundNo \in {1, 6} /\ (roundNo = 1 => Len(playerOrder) = 1 /\ result.newPot = 0)
  ELSE roundNo # 6 /\ Len(playerOrder) > 1

\* What is due belongs to the state of the game.
Due ==
  /\ roundNo = 0 => cardsPlayed = 0
  /\ roundNo = 6 => cardsPlayed = 0
  /\ pendingDealerAction = "ReplaceDiscards" =>
       roundNo = 0 /\ Len(playerDiscards) = Len(playerOrder)
  /\ pendingDealerAction = "NextRound" =>
       roundNo \in 1 .. 5 /\ ~isGameOver /\ cardsPlayed = Len(playerOrder)
  /\ pendingDealerAction = "ClearGame" \/ done => isGameOver /\ result.newPot = 0

OnTheTable == IF isGameOver THEN result.newPot ELSE pot

ChipsConserved == Sum(balance, N) + OnTheTable = 0

IInv ==
  /\ Typed
  /\ Reported
  /\ SomebodyPlays
  /\ TricksAreCounted
  /\ Settled
  /\ Due
  /\ ChipsConserved

-----------------------------------------------------------------------------
(* Players and lists.                                                      *)

LEMMA Bounds ==
  /\ N \in Nat /\ N >= 2 /\ N <= 10
  /\ Ante \in Nat /\ Ante > 0
  /\ Trades \subseteq 0 .. 4
  /\ MaxGames \in Nat /\ MaxGames > 0
BY BourreAssumption

LEMMA SeatsAreFinite ==
  /\ IsFiniteSet(Seats) /\ Cardinality(Seats) = N
  /\ \A S \in SUBSET Seats : IsFiniteSet(S) /\ Cardinality(S) \in Nat /\ Cardinality(S) <= N
                              /\ (Cardinality(S) = 0 <=> S = {})
<1>1. IsFiniteSet(Seats) /\ Cardinality(Seats) = N
  BY Bounds, FS_Interval, 0 \in Int, N - 1 \in Int DEF Seats
<1>2. ASSUME NEW S \in SUBSET Seats
      PROVE  IsFiniteSet(S) /\ Cardinality(S) \in Nat /\ Cardinality(S) <= N
             /\ (Cardinality(S) = 0 <=> S = {})
  BY <1>1, FS_Subset, FS_CardinalityType, FS_EmptySet
<1>3. QED
  BY <1>1, <1>2

\* Those who play are as many as the order is long.
LEMMA PlayersAreListed ==
  ASSUME Typed
  PROVE  /\ Players \subseteq Seats /\ Players # {}
         /\ Cardinality(Players) = Len(playerOrder)
         /\ Len(playerOrder) \in Nat /\ Len(playerOrder) >= 1
<1>1. Players = {playerOrder[i] : i \in DOMAIN playerOrder}
  BY DEF Players, ToSet
<1>2. Cardinality(Players) = Len(playerOrder)
  BY <1>1, ListedOnce DEF Typed
<1>3. Len(playerOrder) \in Nat /\ Len(playerOrder) >= 1 /\ DOMAIN playerOrder = 1 .. Len(playerOrder)
  BY DEF Typed
<1>4. Players \subseteq Seats
  BY <1>1 DEF Typed
<1>5. playerOrder[1] \in Players
  BY <1>1, <1>3
<1>6. QED
  BY <1>2, <1>3, <1>4, <1>5

\* Whoever is left of a list of players is on a list.
LEMMA ListsOfThose ==
  ASSUME NEW order \in Seq(Seats), NEW S,
         \A a, b \in DOMAIN order : order[a] = order[b] => a = b
  PROVE  /\ Those(order, S) \in Seq(Seats)
         /\ Len(Those(order, S)) <= Len(order)
         /\ ToSet(Those(order, S)) = ToSet(order) \cap S
         /\ \A a, b \in DOMAIN Those(order, S) :
              Those(order, S)[a] = Those(order, S)[b] => a = b
         /\ Len(Those(order, S)) = Cardinality(ToSet(order) \cap S)
<1> DEFINE l == Those(order, S)
<1>1. /\ l \in Seq(Seats)
      /\ Len(l) <= Len(order)
      /\ {l[i] : i \in DOMAIN l} = {order[i] : i \in DOMAIN order} \cap S
      /\ \A a, b \in DOMAIN l : l[a] = l[b] => a = b
  BY ThoseAreListed
<1> HIDE DEF l
<1>2. Cardinality({l[i] : i \in DOMAIN l}) = Len(l)
  BY <1>1, ListedOnce
<1>3. QED
  BY <1>1, <1>2 DEF ToSet, l

-----------------------------------------------------------------------------
(* What is settled.                                                        *)

\* Somebody has taken most tricks.
LEMMA SomebodyWins ==
  ASSUME Typed, NEW P \in SUBSET Seats, P # {}
  PROVE  Winners(P) # {} /\ Winners(P) \subseteq P
<1> DEFINE counts == {winCount[t] : t \in P}
           short == {5 - c : c \in counts}
<1>1. \A t \in P : winCount[t] \in 0 .. 5
  BY DEF Typed
<1>2. counts \subseteq 0 .. 5 /\ counts # {}
  BY <1>1
<1>3. short \in SUBSET Nat /\ short # {}
  BY <1>2
<1>4. PICK m \in short : \A k \in short : m <= k
  <2> HIDE DEF short
  <2> QED
    BY <1>3, NatLeast
<1>5. PICK c \in counts : m = 5 - c
  BY <1>4
<1>6. \A d \in counts : c >= d
  <2> TAKE d \in counts
  <2>1. 5 - d \in short
    OBVIOUS
  <2>2. 5 - c <= 5 - d
    BY <1>4, <1>5, <2>1
  <2>3. c \in 0 .. 5 /\ d \in 0 .. 5
    BY <1>2
  <2>4. QED
    BY <2>2, <2>3
<1>7. Max(counts) = c
  <2>1. Max(counts) \in counts /\ \A d \in counts : Max(counts) >= d
    BY <1>6 DEF Max
  <2>2. Max(counts) >= c /\ c >= Max(counts)
    BY <1>6, <2>1
  <2>3. Max(counts) \in 0 .. 5 /\ c \in 0 .. 5
    BY <1>2, <2>1
  <2>4. QED
    BY <2>2, <2>3
<1>8. PICK s \in P : winCount[s] = c
  BY <1>5
<1>9. s \in Winners(P)
  BY <1>7, <1>8 DEF Winners
<1>10. QED
  BY <1>9 DEF Winners

\* What the results are made of.
LEMMA Kinds ==
  ASSUME Typed, NEW P \in SUBSET Seats, P # {}
  PROVE  /\ Winners(P) \subseteq P /\ Winners(P) # {}
         /\ PayPot(P) \subseteq P \ Winners(P)
         /\ Others(P) = P \ (Winners(P) \cup PayPot(P))
         /\ Booted(P) \subseteq Others(P)
         /\ Cardinality(Winners(P)) \in Nat \ {0}
         /\ Cardinality(PayPot(P)) \in Nat
         /\ Cardinality(Others(P) \ Booted(P)) \in Nat
<1>1. Winners(P) \subseteq P /\ Winners(P) # {}
  BY SomebodyWins
<1>2. PayPot(P) \subseteq P \ Winners(P)
  BY DEF PayPot
<1>3. Others(P) = P \ (Winners(P) \cup PayPot(P)) /\ Booted(P) \subseteq Others(P)
  BY DEF Others, Booted
<1>4. QED
  BY <1>1, <1>2, <1>3, SeatsAreFinite

\* What goes on is what the players pay in, and the pot if nobody has taken it.
LEMMA WhatGoesOn ==
  ASSUME Typed, NEW P \in SUBSET Seats, P # {}
  PROVE  /\ CarriedOver(P) \in Nat
         /\ CarriedOver(P) = 0 \/ CarriedOver(P) >= pot
         /\ Cardinality(P) = 1 => CarriedOver(P) = 0
<1> DEFINE w == Cardinality(Winners(P))
           p == Cardinality(PayPot(P))
           o == Cardinality(Others(P) \ Booted(P))
<1>1. w \in Nat \ {0} /\ p \in Nat /\ o \in Nat
  BY Kinds
<1>2. pot \in Nat /\ Ante \in Nat
  BY Bounds DEF Typed
<1>3. CarriedOver(P) = p * pot + o * Ante + (IF w > 1 THEN pot ELSE 0)
  BY DEF CarriedOver
<1>4. PayPot(P) \in SUBSET Seats /\ (p = 0 <=> PayPot(P) = {})
  <2>1. PayPot(P) \in SUBSET Seats
    BY DEF PayPot
  <2>2. QED
    BY <2>1, SeatsAreFinite
<1>5. w <= 1 /\ p = 0 => o = 0
  <2> SUFFICES ASSUME w <= 1, p = 0 PROVE o = 0
    OBVIOUS
  <2>1. ~Continues(P)
    BY <1>1, <1>4 DEF Continues
  <2>2. Others(P) \ Booted(P) = {}
    BY <2>1 DEF Booted
  <2>3. QED
    BY <2>2, FS_EmptySet
<1>6. Cardinality(P) = 1 => w = 1 /\ p = 0
  <2> SUFFICES ASSUME Cardinality(P) = 1 PROVE w = 1 /\ p = 0
    OBVIOUS
  <2>1. Winners(P) = P
    BY DEF Winners
  <2>2. PayPot(P) = {}
    BY <2>1 DEF PayPot
  <2>3. QED
    BY <1>4, <2>1, <2>2
<1> HIDE DEF w, p, o
<1>7. p * pot \in Nat /\ o * Ante \in Nat /\ (p >= 1 => p * pot >= pot)
      /\ (p = 0 => p * pot = 0) /\ (o = 0 => o * Ante = 0)
  <2>1. \A a, b \in Nat : a * b \in Nat /\ (a >= 1 => a * b >= b) /\ (a = 0 => a * b = 0)
    <3> TAKE a, b \in Nat
    <3>1. a * b \in Nat /\ (a = 0 => a * b = 0)
      OBVIOUS
    <3>2. ASSUME a >= 1 PROVE a * b >= b
      <4>1. PICK c \in Nat : a = c + 1
        BY <3>2, a - 1 \in Nat, a = (a - 1) + 1
      <4>2. a * b = c * b + b /\ c * b \in Nat
        BY <4>1
      <4>3. QED
        BY <4>2
    <3>3. QED
      BY <3>1, <3>2
  <2>2. QED
    BY <1>1, <1>2, <2>1
<1>8. CarriedOver(P) \in Nat
  BY <1>2, <1>3, <1>7
<1>9. CarriedOver(P) = 0 \/ CarriedOver(P) >= pot
  <2>1. CASE w > 1
    BY <1>2, <1>3, <1>7, <2>1
  <2>2. CASE ~(w > 1) /\ p >= 1
    BY <1>2, <1>3, <1>7, <2>2
  <2>3. CASE ~(w > 1) /\ ~(p >= 1)
    BY <1>1, <1>2, <1>3, <1>5, <1>7, <2>3
  <2>4. QED
    BY <2>1, <2>2, <2>3
<1>10. Cardinality(P) = 1 => CarriedOver(P) = 0
  BY <1>1, <1>2, <1>3, <1>5, <1>6, <1>7
<1>11. QED
  BY <1>8, <1>9, <1>10

\* buildResults: what the players pay is what is on the table for the next game.
LEMMA ResultsBalance ==
  ASSUME Typed, NEW P \in SUBSET Seats, P # {}, BuildResults(P)
  PROVE  /\ balance' \in [Seats -> Int]
         /\ \A s \in Seats \ P : balance'[s] = balance[s]
         /\ Sum(balance', N) + CarriedOver(P) = Sum(balance, N) + pot
<1> DEFINE W == IF Cardinality(Winners(P)) = 1 THEN Winners(P) ELSE {}
           A == Others(P) \ Booted(P)
<1>1. /\ Winners(P) \subseteq P /\ Winners(P) # {}
      /\ PayPot(P) \subseteq P \ Winners(P)
      /\ Others(P) = P \ (Winners(P) \cup PayPot(P))
      /\ Cardinality(Winners(P)) \in Nat \ {0}
      /\ Cardinality(PayPot(P)) \in Nat
      /\ Cardinality(A) \in Nat
  BY Kinds
<1>2. pot \in Nat /\ Ante \in Nat /\ N \in Nat /\ -pot \in Int /\ -Ante \in Int
      /\ balance \in [Seats -> Int] /\ Seats = 0 .. N - 1
  BY Bounds DEF Typed, Seats
<1>3. \A s \in Seats : Winners(P) = {s} <=> s \in W
  <2> TAKE s \in Seats
  <2>1. Winners(P) = {s} => Cardinality(Winners(P)) = 1
    BY FS_Singleton
  <2>2. s \in W => Winners(P) = {s}
    <3> SUFFICES ASSUME s \in W PROVE Winners(P) = {s}
      OBVIOUS
    <3>1. Cardinality(Winners(P)) = 1 /\ s \in Winners(P)
      OBVIOUS
    <3>2. IsFiniteSet(Winners(P))
      BY <1>1, SeatsAreFinite
    <3>3. PICK x : Winners(P) = {x}
      BY <3>1, <3>2, FS_Singleton
    <3>4. QED
      BY <3>1, <3>3
  <2>3. QED
    BY <2>1, <2>2
<1>4. Cardinality(W) = IF Cardinality(Winners(P)) = 1 THEN 1 ELSE 0
  BY FS_EmptySet
<1>5. W \subseteq Winners(P)
  OBVIOUS
<1> DEFINE pays  == [s \in Seats |-> IF s \in PayPot(P) THEN -pot ELSE 0]
           antes == [s \in Seats |-> IF s \in A THEN -Ante ELSE 0]
           wins  == [s \in Seats |-> IF s \in W THEN pot ELSE 0]
           b1    == [s \in Seats |-> balance[s] + pays[s]]
           b2    == [s \in Seats |-> b1[s] + antes[s]]
<1>6. balance' = [s \in Seats |->
        CASE s \in PayPot(P)    -> balance[s] - pot
          [] s \in A            -> balance[s] - Ante
          [] Winners(P) = {s}   -> balance[s] + pot
          [] OTHER              -> balance[s]]
  BY DEF BuildResults
<1>7. ASSUME NEW s \in Seats
      PROVE  /\ s \in PayPot(P) => balance'[s] = balance[s] - pot
             /\ s \in A => balance'[s] = balance[s] - Ante
             /\ s \in W => balance'[s] = balance[s] + pot
             /\ s \notin PayPot(P) \cup A \cup W => balance'[s] = balance[s]
  <2>1. balance'[s] = CASE s \in PayPot(P)    -> balance[s] - pot
                       [] s \in A            -> balance[s] - Ante
                       [] Winners(P) = {s}   -> balance[s] + pot
                       [] OTHER              -> balance[s]
    BY <1>6, Zenon
  <2>2. Winners(P) = {s} <=> s \in W
    BY <1>3
  <2>3. s \in PayPot(P) => s \notin A /\ s \notin W
    BY <1>1, <1>5
  <2>4. s \in A => s \notin W
    BY <1>1, <1>5
  <2> HIDE DEF A, W
  <2>5. QED
    BY <2>1, <2>2, <2>3, <2>4
<1>8. \A s \in Seats :
        /\ pays[s] = IF s \in PayPot(P) THEN -pot ELSE 0
        /\ antes[s] = IF s \in A THEN -Ante ELSE 0
        /\ wins[s] = IF s \in W THEN pot ELSE 0
        /\ b1[s] = balance[s] + pays[s]
        /\ b2[s] = b1[s] + antes[s]
  OBVIOUS
<1>9. ASSUME NEW s \in Seats
      PROVE  balance'[s] = b2[s] + wins[s]
  <2>1. (s \in PayPot(P) => s \notin A /\ s \notin W) /\ (s \in A => s \notin W)
    BY <1>1, <1>5
  <2>2. balance[s] \in Int
    BY <1>2
  <2> HIDE DEF pays, antes, wins, b1, b2, A, W
  <2>3. CASE s \in PayPot(P)
    BY <1>2, <1>7, <1>8, <2>1, <2>2, <2>3
  <2>4. CASE s \in A
    BY <1>2, <1>7, <1>8, <2>1, <2>2, <2>4
  <2>5. CASE s \in W
    BY <1>2, <1>7, <1>8, <2>1, <2>2, <2>5
  <2>6. CASE s \notin PayPot(P) \cup A \cup W
    BY <1>2, <1>7, <1>8, <2>1, <2>2, <2>6
  <2>7. QED
    BY <2>3, <2>4, <2>5, <2>6
<1>10. PayPot(P) \in SUBSET (0 .. N - 1) /\ A \in SUBSET (0 .. N - 1) /\ W \in SUBSET (0 .. N - 1)
  BY <1>1, <1>2, <1>5
<1> DEFINE w == Cardinality(Winners(P))
           p == Cardinality(PayPot(P))
           o == Cardinality(A)
<1> HIDE DEF pays, antes, wins, b1, b2, A, W
<1>11. Sum(pays, N) = (-pot) * p /\ Sum(antes, N) = (-Ante) * o /\ Sum(wins, N) = pot * Cardinality(W)
  <2>1. Sum(pays, N) = (-pot) * p
    BY <1>2, <1>8, <1>10, SumOfMembers
  <2>2. Sum(antes, N) = (-Ante) * o
    BY <1>2, <1>8, <1>10, SumOfMembers
  <2>3. Sum(wins, N) = pot * Cardinality(W)
    BY <1>2, <1>8, <1>10, SumOfMembers
  <2>4. QED
    BY <2>1, <2>2, <2>3
<1>12. \A s \in 0 .. N - 1 :
         /\ balance[s] \in Int /\ pays[s] \in Int /\ antes[s] \in Int
         /\ wins[s] \in Int /\ b1[s] \in Int /\ b2[s] \in Int
  BY <1>2, <1>8
<1>13. Sum(b1, N) = Sum(balance, N) + Sum(pays, N)
  BY <1>2, <1>8, <1>12, SumLinear
<1>14. Sum(b2, N) = Sum(b1, N) + Sum(antes, N)
  BY <1>2, <1>8, <1>12, SumLinear
<1>15. Sum(balance', N) = Sum(b2, N) + Sum(wins, N)
  BY <1>2, <1>9, <1>12, SumLinear
<1>16. Sum(balance, N) \in Int
  BY <1>2, <1>12, SumInt
<1>17. CarriedOver(P) = p * pot + o * Ante + (IF w > 1 THEN pot ELSE 0)
  BY DEF CarriedOver, A
<1>18. w \in Nat \ {0} /\ p \in Nat /\ o \in Nat
  BY <1>1
<1>19. pot * Cardinality(W) = IF w > 1 THEN 0 ELSE pot
  BY <1>2, <1>4, <1>18
<1> HIDE DEF w, p, o
<1>20. Sum(balance', N) + CarriedOver(P) = Sum(balance, N) + pot
  <2>1. (-pot) * p = -(p * pot) /\ (-Ante) * o = -(o * Ante) /\ p * pot \in Int /\ o * Ante \in Int
    BY <1>2, <1>18
  <2> DEFINE pp == p * pot
             oo == o * Ante
  <2>2. Sum(pays, N) = -pp /\ Sum(antes, N) = -oo /\ pp \in Int /\ oo \in Int
    BY <1>11, <2>1
  <2>3. Sum(wins, N) = IF w > 1 THEN 0 ELSE pot
    BY <1>11, <1>19
  <2>4. CarriedOver(P) = pp + oo + (IF w > 1 THEN pot ELSE 0)
    BY <1>17
  <2> HIDE DEF pp, oo
  <2>5. pot \in Int
    BY <1>2
  <2>6. Sum(balance', N) = Sum(balance, N) - pp - oo + (IF w > 1 THEN 0 ELSE pot)
    BY <1>13, <1>14, <1>15, <1>16, <2>2, <2>3, <2>5
  <2>7. QED
    BY <1>16, <2>2, <2>4, <2>5, <2>6
<1>21. balance' \in [Seats -> Int]
  <2>1. DOMAIN balance' = Seats /\ balance' = [s \in Seats |-> balance'[s]]
    BY <1>6
  <2>2. ASSUME NEW s \in Seats PROVE balance'[s] \in Int
    <3>1. b2[s] \in Int /\ wins[s] \in Int
      BY <1>2, <1>12
    <3>2. balance'[s] = b2[s] + wins[s]
      BY <1>9
    <3>3. QED
      BY <3>1, <3>2
  <2>3. QED
    BY <2>1, <2>2
<1>22. \A s \in Seats \ P : balance'[s] = balance[s]
  BY <1>1, <1>5, <1>7 DEF A
<1>23. QED
  BY <1>20, <1>21, <1>22

-----------------------------------------------------------------------------
(* Every step keeps the invariant.                                         *)

LEMMA InitKeeps == Init => IInv
<1> SUFFICES ASSUME Init PROVE IInv
  OBVIOUS
<1>1. N \in Nat /\ N >= 2 /\ Ante \in Nat /\ Ante > 0 /\ MaxGames \in Nat /\ MaxGames > 0
      /\ -Ante \in Int /\ N * Ante \in Nat /\ N * Ante > 0
  BY Bounds
<1>2. playerOrder = [i \in 1 .. N |-> i - 1]
  BY DEF Init
<1>3. playerOrder \in Seq(Seats) /\ Len(playerOrder) = N /\ DOMAIN playerOrder = 1 .. N
      /\ playerOrder # <<>>
      /\ \A a, b \in DOMAIN playerOrder : playerOrder[a] = playerOrder[b] => a = b
  BY <1>1, <1>2 DEF Seats
<1>4. Players = Seats
  <2>1. \A s \in Seats : s + 1 \in 1 .. N /\ playerOrder[s + 1] = s
    BY <1>1, <1>2 DEF Seats
  <2>2. \A i \in DOMAIN playerOrder : playerOrder[i] \in Seats
    BY <1>3
  <2>3. QED
    BY <1>3, <2>1, <2>2 DEF Players, ToSet
<1>5. Typed
  <2>1. balance \in [Seats -> Int] /\ winCount \in [Seats -> 0 .. 5]
    BY <1>1, 0 \in 0 .. 5 DEF Init
  <2>2. pot \in Nat \ {0} /\ result \in [newPot : Int, booted : SUBSET Seats]
    BY <1>1 DEF Init, NoResult
  <2>3. playerDiscards \in Seq(-1 .. 5) /\ cardsPlayed \in 0 .. Len(playerOrder) /\ gameNo \in 1 .. MaxGames
    BY <1>1, <1>3 DEF Init
  <2>4. leader = {} /\ foldedPlayers = {} /\ roundNo = 0
        /\ sendUpdate \in BOOLEAN /\ done \in BOOLEAN /\ pendingDealerAction = "None"
    BY DEF Init
  <2>5. QED
    BY <1>3, <2>1, <2>2, <2>3, <2>4 DEF Typed
<1>6. ~isGameOver
  BY DEF Init, isGameOver
<1>7. ChipsConserved
  <2>1. \A i \in 0 .. N - 1 : balance[i] = IF i \in Seats THEN -Ante ELSE 0
    BY DEF Init, Seats
  <2>2. Seats \in SUBSET (0 .. N - 1) /\ Cardinality(Seats) = N
    BY SeatsAreFinite DEF Seats
  <2>3. Sum(balance, N) = (-Ante) * N
    BY <1>1, <2>1, <2>2, SumOfMembers
  <2>4. (-Ante) * N + N * Ante = 0
    BY <1>1
  <2>5. QED
    BY <1>6, <2>3, <2>4 DEF ChipsConserved, OnTheTable, Init
<1>8. Reported
  BY <1>4 DEF Reported, Init
<1>9. SomebodyPlays /\ TricksAreCounted /\ Settled /\ Due
  BY <1>1, <1>3, <1>6 DEF Init, SomebodyPlays, TricksAreCounted, Settled, Due
<1>10. QED
  BY <1>5, <1>7, <1>8, <1>9 DEF IInv

LEMMA DiscardKeeps ==
  ASSUME IInv, NEW s \in Seats, NEW discards \in Trades \cup {Folds, Twice},
         PlayerDidDiscard(s, discards)
  PROVE  IInv'
<1>1. /\ UNCHANGED <<balance, pot, result, playerOrder, foldedPlayers, gameNo, cardsPlayed, leader,
                     winCount, roundNo, pendingDealerAction, sendUpdate, done>>
      /\ roundNo = 0
      /\ playerDiscards' = Append(playerDiscards, discards)
  BY DEF PlayerDidDiscard, money, table, trick
<1>2. playerDiscards \in Seq(-1 .. 5) /\ discards \in -1 .. 5
  BY Bounds DEF IInv, Typed, Folds, Twice
<1>3. /\ playerDiscards' \in Seq(-1 .. 5)
      /\ Len(playerDiscards') = Len(playerDiscards) + 1 /\ Len(playerDiscards) \in Nat
      /\ playerDiscards'[Len(playerDiscards) + 1] = discards
      /\ \A i \in DOMAIN playerDiscards : playerDiscards'[i] = playerDiscards[i]
      /\ DOMAIN playerDiscards' = 1 .. Len(playerDiscards) + 1
      /\ DOMAIN playerDiscards = 1 .. Len(playerDiscards)
  BY <1>1, <1>2
<1>4. Len(playerDiscards) < Len(playerOrder)
  <2>1. ~isRoundOver
    BY DEF PlayerDidDiscard, Turn
  <2>2. Len(playerOrder) \in Nat
    BY DEF IInv, Typed
  <2>3. QED
    BY <1>1, <1>3, <2>1, <2>2 DEF isRoundOver
<1>5. Typed'
  BY <1>1, <1>3 DEF IInv, Typed
<1>6. Reported' /\ TricksAreCounted' /\ Settled' /\ ChipsConserved'
  BY <1>1 DEF IInv, Reported, Players, TricksAreCounted, Settled, isGameOver, ChipsConserved, OnTheTable
<1>7. SomebodyPlays'
  <2>1. Len(playerDiscards') <= Len(playerOrder) /\ Len(playerOrder) \in Nat
    BY <1>3, <1>4 DEF IInv, Typed
  <2>2. ASSUME Len(playerDiscards') = Len(playerOrder)
        PROVE  \E i \in DOMAIN playerDiscards' : playerDiscards'[i] # Folds
    <3>1. CASE discards = Folds
      <4>1. MayFold
        BY <3>1 DEF PlayerDidDiscard
      <4>2. PICK i \in DOMAIN playerDiscards : playerDiscards[i] # Folds
        BY <1>3, <2>2, <4>1 DEF MayFold
      <4>3. i \in DOMAIN playerDiscards' /\ playerDiscards'[i] # Folds
        BY <1>3, <4>2
      <4>4. QED
        BY <4>3
    <3>2. CASE discards # Folds
      BY <1>3, <3>2
    <3>3. QED
      BY <3>1, <3>2
  <2>3. QED
    BY <1>1, <2>1, <2>2 DEF SomebodyPlays
<1>8. Due'
  <2>1. pendingDealerAction # "ReplaceDiscards"
    BY <1>4 DEF IInv, Due, Typed
  <2>2. QED
    BY <1>1, <2>1 DEF IInv, Due, isGameOver
<1>9. QED
  BY <1>5, <1>6, <1>7, <1>8 DEF IInv

LEMMA PlayKeeps ==
  ASSUME IInv, NEW s \in Seats, NEW takesTheLead \in BOOLEAN,
         PlayerDidPlayCard(s, takesTheLead)
  PROVE  IInv'
<1>1. /\ UNCHANGED <<balance, pot, result, playerOrder, foldedPlayers, gameNo, playerDiscards,
                     roundNo, pendingDealerAction, sendUpdate, done>>
      /\ roundNo \in 1 .. 5
      /\ cardsPlayed' = cardsPlayed + 1
      /\ leader' = IF takesTheLead THEN {s} ELSE leader
  BY DEF PlayerDidPlayCard, money, table
<1>2. winCount' = [t \in Seats |->
         IF cardsPlayed' = Len(playerOrder) /\ Len(playerOrder) > 1 /\ t \in leader'
         THEN winCount[t] + 1 ELSE winCount[t]]
  BY DEF PlayerDidPlayCard
<1>3. cardsPlayed < Len(playerOrder) /\ cardsPlayed \in Nat /\ Len(playerOrder) \in Nat
  <2>1. ~isRoundOver
    BY DEF PlayerDidPlayCard, Turn
  <2>2. Len(playerOrder) \in Nat /\ cardsPlayed \in Nat
    BY DEF IInv, Typed
  <2>3. QED
    BY <1>1, <2>1, <2>2 DEF isRoundOver
<1>4. \A t \in Seats : winCount[t] \in 0 .. 5 /\ winCount[t] + 1 <= roundNo
  BY <1>1, <1>3 DEF IInv, Typed, TricksAreCounted
<1>5. \A t \in Seats :
        /\ winCount'[t] \in 0 .. 5
        /\ winCount'[t] <= roundNo
        /\ cardsPlayed' # Len(playerOrder) => winCount'[t] = winCount[t]
  <2> TAKE t \in Seats
  <2>1. winCount'[t] = winCount[t] + 1 \/ winCount'[t] = winCount[t]
    BY <1>2
  <2>2. cardsPlayed' # Len(playerOrder) => winCount'[t] = winCount[t]
    BY <1>2
  <2>3. QED
    BY <1>1, <1>4, <2>1, <2>2
<1>6. Typed'
  <2>1. winCount' \in [Seats -> 0 .. 5]
    <3>1. winCount' = [t \in Seats |-> winCount'[t]]
      BY <1>2
    <3>2. \A t \in Seats : winCount'[t] \in 0 .. 5
      BY <1>5, Zenon
    <3>3. QED
      BY <3>1, <3>2, Zenon
  <2>2. cardsPlayed' \in 0 .. Len(playerOrder)
    BY <1>1, <1>3
  <2>3. leader' \subseteq Seats
    BY <1>1 DEF IInv, Typed
  <2>4. QED
    BY <1>1, <2>1, <2>2, <2>3 DEF IInv, Typed
<1>7. Reported' /\ Settled' /\ ChipsConserved' /\ SomebodyPlays'
  BY <1>1 DEF IInv, Reported, Players, SomebodyPlays, Settled, isGameOver, ChipsConserved, OnTheTable
<1>8. TricksAreCounted'
  <2> SUFFICES ASSUME NEW t \in Seats
               PROVE  winCount'[t] + 1 <= IF cardsPlayed' = Len(playerOrder) THEN roundNo + 1
                                          ELSE IF roundNo = 0 THEN 1 ELSE roundNo
    BY <1>1 DEF TricksAreCounted
  <2>1. winCount'[t] \in 0 .. 5 /\ winCount'[t] <= roundNo
        /\ (cardsPlayed' # Len(playerOrder) => winCount'[t] = winCount[t])
    BY <1>5
  <2>2. winCount[t] + 1 <= roundNo
    BY <1>4
  <2>3. roundNo \in 1 .. 5
    BY <1>1
  <2>4. QED
    BY <2>1, <2>2, <2>3
<1>9. Due'
  BY <1>1, <1>3 DEF IInv, Due, isGameOver
<1>10. QED
  BY <1>6, <1>7, <1>8, <1>9 DEF IInv

LEMMA TickSendsKeeps ==
  ASSUME IInv, TickSends
  PROVE  IInv'
BY DEF TickSends, money, table, trick, IInv, Typed, Reported, Players, SomebodyPlays,
       TricksAreCounted, Settled, Due, isGameOver, ChipsConserved, OnTheTable

LEMMA TickSchedulesKeeps ==
  ASSUME IInv, TickSchedules
  PROVE  IInv'
<1>1. /\ UNCHANGED <<balance, pot, result, playerOrder, foldedPlayers, gameNo, cardsPlayed, leader,
                     winCount, roundNo, playerDiscards, sendUpdate, done>>
      /\ ~isGameOver /\ isRoundOver
      /\ pendingDealerAction' = IF roundNo = 0 THEN "ReplaceDiscards" ELSE "NextRound"
      /\ ~done
  BY DEF TickSchedules, money, table, trick, Idle
<1>2. Typed' /\ Reported' /\ SomebodyPlays' /\ TricksAreCounted' /\ Settled' /\ ChipsConserved'
  BY <1>1 DEF IInv, Typed, Reported, Players, SomebodyPlays, TricksAreCounted, Settled, isGameOver,
              ChipsConserved, OnTheTable
<1>3. Due'
  <2>1. Len(playerOrder) \in Nat /\ Len(playerDiscards) \in Nat /\ cardsPlayed \in 0 .. Len(playerOrder)
        /\ roundNo \in 0 .. 6
    BY DEF IInv, Typed
  <2>2. roundNo = 0 => Len(playerDiscards) = Len(playerOrder)
    BY <1>1, <2>1 DEF isRoundOver, IInv, SomebodyPlays
  <2>3. roundNo # 0 => roundNo \in 1 .. 5 /\ cardsPlayed = Len(playerOrder)
    BY <1>1, <2>1 DEF isRoundOver, IInv, Settled
  <2>4. QED
    BY <1>1, <2>2, <2>3 DEF IInv, Due, isGameOver
<1>4. QED
  BY <1>2, <1>3 DEF IInv

\* The game that is settled now.
LEMMA SettlingKeeps ==
  ASSUME IInv, ~isGameOver, NEW P \in SUBSET Players, P # {}, BuildResults(P), UNCHANGED pot
  PROVE  /\ balance' \in [Seats -> Int]
         /\ result' \in [newPot : Int, booted : SUBSET Seats]
         /\ isGameOver'
         /\ result'.newPot \in Nat
         /\ result'.newPot = 0 \/ result'.newPot >= pot
         /\ Cardinality(P) = 1 => result'.newPot = 0
         /\ result'.booted \subseteq P
         /\ ChipsConserved'
         /\ \A s \in Seats \ P : balance'[s] = balance[s]
<1>1. Typed /\ P \in SUBSET Seats
  BY PlayersAreListed DEF IInv
<1>2. /\ balance' \in [Seats -> Int]
      /\ \A s \in Seats \ P : balance'[s] = balance[s]
      /\ Sum(balance', N) + CarriedOver(P) = Sum(balance, N) + pot
  BY <1>1, ResultsBalance
<1>3. /\ CarriedOver(P) \in Nat
      /\ CarriedOver(P) = 0 \/ CarriedOver(P) >= pot
      /\ Cardinality(P) = 1 => CarriedOver(P) = 0
  BY <1>1, WhatGoesOn
<1>4. Booted(P) \subseteq P
  BY <1>1, Kinds
<1>5. result' = [newPot |-> CarriedOver(P), booted |-> Booted(P)]
  BY DEF BuildResults
<1>6. result'.newPot = CarriedOver(P) /\ result'.booted = Booted(P)
      /\ result' \in [newPot : Int, booted : SUBSET Seats]
  BY <1>1, <1>3, <1>4, <1>5
<1>7. isGameOver'
  <2>1. NoResult.newPot = -1
    BY DEF NoResult
  <2>2. result'.newPot # NoResult.newPot
    BY <1>3, <1>6, <2>1
  <2>3. QED
    BY <2>2 DEF isGameOver, NoResult
<1>8. ChipsConserved'
  <2>1. Sum(balance, N) + pot = 0
    BY DEF IInv, ChipsConserved, OnTheTable
  <2>2. OnTheTable' = result'.newPot
    BY <1>7 DEF OnTheTable
  <2>3. Sum(balance', N) + result'.newPot = 0
    BY <1>2, <1>6, <2>1
  <2>4. QED
    BY <2>2, <2>3 DEF ChipsConserved
<1>9. QED
  BY <1>2, <1>3, <1>4, <1>6, <1>7, <1>8

\* Those who have folded leave the order and join those who are out.
LEMMA ReplaceDiscardsKeeps ==
  ASSUME IInv, ReplaceDiscards
  PROVE  IInv' /\ \A s \in foldedPlayers : balance'[s] = balance[s]
<1>0. PICK left : left = Those(playerOrder, Players \ Folded)
  OBVIOUS
<1>1. /\ UNCHANGED <<pot, gameNo, cardsPlayed, leader, winCount, playerDiscards, sendUpdate, done>>
      /\ playerOrder' = left
      /\ foldedPlayers' = foldedPlayers \cup Folded
      /\ roundNo' = 1
      /\ pendingDealerAction = "ReplaceDiscards" /\ pendingDealerAction' = "None" /\ ~done
      /\ IF Len(left) = 1 THEN BuildResults(ToSet(left)) ELSE UNCHANGED <<balance, result>>
  BY <1>0 DEF ReplaceDiscards, Executes, OutNow, trick
<1>2. /\ playerOrder \in Seq(Seats)
      /\ \A a, b \in DOMAIN playerOrder : playerOrder[a] = playerOrder[b] => a = b
      /\ Players = ToSet(playerOrder)
      /\ Players = {playerOrder[i] : i \in DOMAIN playerOrder}
  BY DEF IInv, Typed, Players, ToSet
<1>3. /\ left \in Seq(Seats) /\ Len(left) <= Len(playerOrder)
      /\ ToSet(left) = Players \ Folded
      /\ \A a, b \in DOMAIN left : left[a] = left[b] => a = b
      /\ Len(left) = Cardinality(Players \ Folded)
  <2>1. PICK S : S = Players \ Folded
    OBVIOUS
  <2>2. /\ Those(playerOrder, S) \in Seq(Seats)
        /\ Len(Those(playerOrder, S)) <= Len(playerOrder)
        /\ ToSet(Those(playerOrder, S)) = ToSet(playerOrder) \cap S
        /\ \A a, b \in DOMAIN Those(playerOrder, S) :
             Those(playerOrder, S)[a] = Those(playerOrder, S)[b] => a = b
        /\ Len(Those(playerOrder, S)) = Cardinality(ToSet(playerOrder) \cap S)
    BY <1>2, ListsOfThose
  <2>3. ToSet(playerOrder) \cap S = S
    BY <1>2, <2>1
  <2>4. QED
    BY <1>0, <2>1, <2>2, <2>3
<1>4. Folded \subseteq Players
  BY <1>2 DEF Folded
<1>5. roundNo = 0 /\ Len(playerDiscards) = Len(playerOrder) /\ ~isGameOver /\ cardsPlayed = 0
  BY <1>1 DEF IInv, Due, Settled
<1>6. Players \ Folded # {}
  <2>1. PICK i \in DOMAIN playerDiscards : playerDiscards[i] # Folds
    BY <1>5 DEF IInv, SomebodyPlays
  <2>2. i \in DOMAIN playerOrder
    <3>1. DOMAIN playerDiscards = 1 .. Len(playerDiscards) /\ DOMAIN playerOrder = 1 .. Len(playerOrder)
      BY DEF IInv, Typed
    <3>2. QED
      BY <1>5, <3>1
  <2>3. playerOrder[i] \notin Folded
    BY <1>2, <2>1, <2>2 DEF Folded
  <2>4. QED
    BY <1>2, <2>2, <2>3
<1>7. Players \ Folded \subseteq Players /\ Players \subseteq Seats
  BY PlayersAreListed DEF IInv
<1>8. Len(left) \in Nat /\ Len(left) >= 1 /\ left # <<>>
  <2>1. Len(left) \in Nat /\ Len(left) # 0
    BY <1>3, <1>6, <1>7, SeatsAreFinite
  <2>2. QED
    BY <2>1
<1>9. Players' = Players \ Folded
  BY <1>1, <1>3 DEF Players
<1>10. /\ balance' \in [Seats -> Int]
       /\ result' \in [newPot : Int, booted : SUBSET Seats]
       /\ ChipsConserved'
       /\ \A s \in foldedPlayers : balance'[s] = balance[s]
       /\ Settled'
  <2>1. CASE Len(left) = 1
    <3> DEFINE P == ToSet(left)
    <3>1. BuildResults(P) /\ P \in SUBSET Players /\ P # {} /\ Cardinality(P) = 1 /\ P = Players'
      BY <1>1, <1>3, <1>6, <1>7, <1>9, <2>1
    <3> HIDE DEF P
    <3>2. /\ balance' \in [Seats -> Int]
          /\ result' \in [newPot : Int, booted : SUBSET Seats]
          /\ isGameOver'
          /\ result'.newPot = 0
          /\ result'.booted \subseteq P
          /\ ChipsConserved'
          /\ \A s \in Seats \ P : balance'[s] = balance[s]
      BY <1>1, <1>5, <3>1, SettlingKeeps
    <3>3. Settled'
      BY <1>1, <2>1, <3>1, <3>2 DEF Settled
    <3>4. foldedPlayers \subseteq Seats \ P
      BY <3>1 DEF IInv, Typed, Reported
    <3>5. QED
      BY <3>2, <3>3, <3>4
  <2>2. CASE Len(left) # 1
    <3>1. UNCHANGED <<balance, result>>
      BY <1>1, <2>2
    <3>2. ~isGameOver' /\ ChipsConserved'
      BY <1>1, <1>5, <3>1 DEF isGameOver, IInv, ChipsConserved, OnTheTable
    <3>3. Settled'
      <4>1. Len(playerOrder') > 1 /\ roundNo' # 6
        BY <1>1, <1>8, <2>2
      <4>2. QED
        BY <3>2, <4>1 DEF Settled
    <3>4. QED
      BY <3>1, <3>2, <3>3 DEF IInv, Typed
  <2>3. QED
    BY <2>1, <2>2
<1>11. Typed'
  <2>1. foldedPlayers' \subseteq Seats
    BY <1>1, <1>4, <1>7 DEF IInv, Typed
  <2>2. cardsPlayed' \in 0 .. Len(playerOrder')
    BY <1>1, <1>5, <1>8
  <2>3. /\ playerOrder' \in Seq(Seats) /\ playerOrder' # <<>>
        /\ \A a, b \in DOMAIN playerOrder' : playerOrder'[a] = playerOrder'[b] => a = b
    BY <1>1, <1>3, <1>8
  <2>4. QED
    BY <1>1, <1>10, <2>1, <2>2, <2>3 DEF IInv, Typed
<1>12. Reported'
  BY <1>1, <1>4, <1>9 DEF IInv, Reported
<1>13. SomebodyPlays'
  BY <1>1 DEF SomebodyPlays
<1>14. TricksAreCounted'
  <2>1. \A s \in Seats : winCount[s] + 1 <= 1
    <3>1. Len(playerOrder) # 0
      BY DEF IInv, Typed
    <3>2. QED
      BY <1>5, <3>1 DEF IInv, TricksAreCounted
  <2>2. cardsPlayed' # Len(playerOrder')
    BY <1>1, <1>5, <1>8
  <2>3. QED
    BY <1>1, <2>1, <2>2 DEF TricksAreCounted
<1>15. Due'
  BY <1>1, <1>5 DEF Due
<1>16. QED
  BY <1>10, <1>11, <1>12, <1>13, <1>14, <1>15 DEF IInv

\* The trick is taken; after the fifth the game is settled.
LEMMA NextRoundKeeps ==
  ASSUME IInv, NextRound
  PROVE  IInv' /\ \A s \in foldedPlayers : balance'[s] = balance[s]
<1>1. /\ UNCHANGED <<pot, playerOrder, foldedPlayers, gameNo, winCount, playerDiscards, sendUpdate, done>>
      /\ cardsPlayed' = 0 /\ leader' = {} /\ roundNo' = roundNo + 1
      /\ pendingDealerAction = "NextRound" /\ pendingDealerAction' = "None" /\ ~done
      /\ IF roundNo' = 6 THEN BuildResults(Players) ELSE UNCHANGED <<balance, result>>
  BY DEF NextRound, Executes, table
<1>2. roundNo \in 1 .. 5 /\ ~isGameOver /\ cardsPlayed = Len(playerOrder)
  BY <1>1 DEF IInv, Due
<1>3. Players \subseteq Seats /\ Players # {} /\ Len(playerOrder) \in Nat /\ Len(playerOrder) >= 1
      /\ Cardinality(Players) = Len(playerOrder) /\ Players' = Players
  BY <1>1, PlayersAreListed DEF IInv, Players
<1>4. Len(playerOrder) > 1
  BY <1>2 DEF IInv, Settled
<1>5. /\ balance' \in [Seats -> Int]
      /\ result' \in [newPot : Int, booted : SUBSET Seats]
      /\ ChipsConserved'
      /\ \A s \in foldedPlayers : balance'[s] = balance[s]
      /\ Settled'
  <2>1. CASE roundNo' = 6
    <3>1. /\ balance' \in [Seats -> Int]
          /\ result' \in [newPot : Int, booted : SUBSET Seats]
          /\ isGameOver'
          /\ result'.newPot = 0 \/ result'.newPot >= pot
          /\ result'.booted \subseteq Players
          /\ ChipsConserved'
          /\ \A s \in Seats \ Players : balance'[s] = balance[s]
      BY <1>1, <1>2, <1>3, <2>1, SettlingKeeps
    <3>2. Settled'
      BY <1>1, <1>3, <2>1, <3>1 DEF Settled
    <3>3. foldedPlayers \subseteq Seats \ Players
      BY DEF IInv, Typed, Reported
    <3>4. QED
      BY <3>1, <3>2, <3>3
  <2>2. CASE roundNo' # 6
    <3>1. UNCHANGED <<balance, result>>
      BY <1>1, <2>2
    <3>2. ~isGameOver' /\ ChipsConserved'
      BY <1>1, <1>2, <3>1 DEF isGameOver, IInv, ChipsConserved, OnTheTable
    <3>3. Settled'
      BY <1>1, <1>4, <2>2, <3>2 DEF Settled
    <3>4. QED
      BY <3>1, <3>2, <3>3 DEF IInv, Typed
  <2>3. QED
    BY <2>1, <2>2
<1>6. Typed'
  <2>1. roundNo' \in 0 .. 6 /\ cardsPlayed' \in 0 .. Len(playerOrder)
    BY <1>1, <1>2, <1>3
  <2>2. QED
    BY <1>1, <1>5, <2>1 DEF IInv, Typed
<1>7. Reported'
  BY <1>1, <1>3 DEF IInv, Reported
<1>8. SomebodyPlays'
  BY <1>1, <1>2 DEF SomebodyPlays
<1>9. TricksAreCounted'
  <2>1. \A s \in Seats : winCount[s] + 1 <= roundNo + 1
    BY <1>2 DEF IInv, TricksAreCounted
  <2>2. cardsPlayed' # Len(playerOrder) /\ roundNo' # 0 /\ roundNo' = roundNo + 1
    BY <1>1, <1>2, <1>3
  <2>3. QED
    BY <1>1, <2>1, <2>2 DEF TricksAreCounted
<1>10. Due'
  BY <1>1, <1>2 DEF Due
<1>11. QED
  BY <1>5, <1>6, <1>7, <1>8, <1>9, <1>10 DEF IInv

\* The next game: those who were booted join those who are out, and what was left is
\* the pot.
LEMMA EndGameContinuesKeeps ==
  ASSUME IInv, EndGameContinues
  PROVE  IInv' /\ pot' >= pot
<1> DEFINE order == Append(Tail(playerOrder), Head(playerOrder))
<1>1. /\ UNCHANGED <<balance, pendingDealerAction, done>>
      /\ isGameOver /\ result.newPot > 0 /\ Len(NextPlayers) >= 2 /\ gameNo < MaxGames
      /\ pendingDealerAction = "None" /\ ~done
      /\ pot' = result.newPot
      /\ playerOrder' = NextPlayers
      /\ foldedPlayers' = foldedPlayers \cup result.booted
      /\ playerDiscards' = <<>>
      /\ roundNo' = 0 /\ cardsPlayed' = 0 /\ leader' = {}
      /\ winCount' = [s \in Seats |-> 0]
      /\ result' = NoResult /\ sendUpdate' = TRUE /\ gameNo' = gameNo + 1
  BY DEF EndGameContinues, Idle
<1>2. /\ result.newPot = 0 \/ result.newPot >= pot
      /\ result.booted \subseteq Players
      /\ pot \in Nat \ {0} /\ result.newPot \in Int
  BY <1>1 DEF IInv, Typed, Settled
<1>3. /\ playerOrder \in Seq(Seats) /\ playerOrder # <<>>
      /\ \A a, b \in DOMAIN playerOrder : playerOrder[a] = playerOrder[b] => a = b
      /\ Players = {playerOrder[i] : i \in DOMAIN playerOrder}
      /\ Players \subseteq Seats
  BY PlayersAreListed DEF IInv, Typed, Players, ToSet
<1>4. /\ order \in Seq(Seats)
      /\ {order[i] : i \in DOMAIN order} = Players
      /\ \A a, b \in DOMAIN order : order[a] = order[b] => a = b
  BY <1>3, FirstGoesLast
<1> HIDE DEF order
<1>5. ToSet(order) \cap (Players \ result.booted) = Players \ result.booted
  BY <1>4 DEF ToSet
<1>6. NextPlayers = Those(order, Players \ result.booted)
  BY DEF NextPlayers, order
<1>7. /\ NextPlayers \in Seq(Seats)
      /\ ToSet(NextPlayers) = Players \ result.booted
      /\ \A a, b \in DOMAIN NextPlayers : NextPlayers[a] = NextPlayers[b] => a = b
  <2>1. PICK S : S = Players \ result.booted
    OBVIOUS
  <2>2. /\ Those(order, S) \in Seq(Seats)
        /\ ToSet(Those(order, S)) = ToSet(order) \cap S
        /\ \A a, b \in DOMAIN Those(order, S) : Those(order, S)[a] = Those(order, S)[b] => a = b
    BY <1>4, ListsOfThose
  <2>3. QED
    BY <1>5, <1>6, <2>1, <2>2
<1>8. Players' = Players \ result.booted
  BY <1>1, <1>7 DEF Players
<1>9. ~isGameOver'
  BY <1>1 DEF isGameOver
<1>10. Typed'
  <2>1. winCount' \in [Seats -> 0 .. 5]
    BY <1>1, 0 \in 0 .. 5
  <2>2. pot' \in Nat \ {0} /\ pot' >= pot
    BY <1>1, <1>2
  <2>3. result' \in [newPot : Int, booted : SUBSET Seats]
    BY <1>1 DEF NoResult
  <2>4. gameNo' \in 1 .. MaxGames
    BY <1>1, Bounds DEF IInv, Typed
  <2>5. foldedPlayers' \subseteq Seats
    BY <1>1, <1>2, <1>3 DEF IInv, Typed
  <2>6. /\ playerOrder' \in Seq(Seats) /\ playerOrder' # <<>>
        /\ \A a, b \in DOMAIN playerOrder' : playerOrder'[a] = playerOrder'[b] => a = b
        /\ cardsPlayed' \in 0 .. Len(playerOrder')
    BY <1>1, <1>7
  <2>7. playerDiscards' \in Seq(-1 .. 5)
    BY <1>1
  <2>8. roundNo' \in 0 .. 6 /\ leader' \subseteq Seats /\ sendUpdate' \in BOOLEAN
    BY <1>1
  <2>9. QED
    BY <1>1, <2>1, <2>2, <2>3, <2>4, <2>5, <2>6, <2>7, <2>8 DEF IInv, Typed
<1>11. Reported'
  BY <1>1, <1>2, <1>8 DEF IInv, Reported
<1>12. SomebodyPlays' /\ Settled' /\ TricksAreCounted'
  <2>1. Len(playerOrder') \in Nat /\ Len(playerOrder') >= 2 /\ Len(playerDiscards') = 0
    BY <1>1, <1>7
  <2>2. SomebodyPlays' /\ Settled'
    BY <1>1, <1>9, <2>1 DEF SomebodyPlays, Settled
  <2>3. TricksAreCounted'
    BY <1>1, <2>1 DEF TricksAreCounted
  <2>4. QED
    BY <2>2, <2>3
<1>13. Due'
  BY <1>1, <1>2 DEF IInv, Due
<1>14. ChipsConserved'
  BY <1>1, <1>9 DEF IInv, ChipsConserved, OnTheTable
<1>15. QED
  BY <1>1, <1>2, <1>10, <1>11, <1>12, <1>13, <1>14 DEF IInv

LEMMA EndGameClearsKeeps ==
  ASSUME IInv, EndGameClears
  PROVE  IInv'
<1>1. /\ UNCHANGED <<balance, pot, result, playerOrder, foldedPlayers, gameNo, cardsPlayed, leader,
                     winCount, roundNo, playerDiscards, sendUpdate, done>>
      /\ isGameOver /\ result.newPot = 0
      /\ pendingDealerAction' = "ClearGame"
  BY DEF EndGameClears, money, table, trick, Idle
<1>2. QED
  BY <1>1 DEF IInv, Typed, Reported, Players, SomebodyPlays, TricksAreCounted, Settled, Due,
              isGameOver, ChipsConserved, OnTheTable

LEMMA ClearGameKeeps ==
  ASSUME IInv, ClearGame
  PROVE  IInv'
<1>1. /\ UNCHANGED <<balance, pot, result, playerOrder, foldedPlayers, gameNo, cardsPlayed, leader,
                     winCount, roundNo, playerDiscards, sendUpdate>>
      /\ pendingDealerAction = "ClearGame"
      /\ pendingDealerAction' = "None"
      /\ done' = TRUE
  BY DEF ClearGame, Executes, money, table, trick
<1>2. QED
  BY <1>1 DEF IInv, Typed, Reported, Players, SomebodyPlays, TricksAreCounted, Settled, Due,
              isGameOver, ChipsConserved, OnTheTable

\* Where the server goes down nothing has changed.
LEMMA PanicKeeps ==
  ASSUME ReplaceDiscardsPanics
  PROVE  UNCHANGED <<balance, pot, result, playerOrder, foldedPlayers, gameNo, cardsPlayed, leader,
                     winCount, roundNo, playerDiscards, pendingDealerAction, sendUpdate, done>>
BY DEF ReplaceDiscardsPanics, money, table, trick

LEMMA StepKeeps == IInv /\ [Next]_vars => IInv'
<1> SUFFICES ASSUME IInv, [Next]_vars PROVE IInv'
  OBVIOUS
<1>1. CASE UNCHANGED vars
  BY <1>1 DEF vars, IInv, Typed, Reported, Players, SomebodyPlays, TricksAreCounted, Settled, Due,
              isGameOver, ChipsConserved, OnTheTable
<1>2. ASSUME NEW s \in Seats, NEW discards \in Trades \cup {Folds, Twice}, PlayerDidDiscard(s, discards)
      PROVE  IInv'
  BY <1>2, DiscardKeeps
<1>3. ASSUME NEW s \in Seats, NEW takesTheLead \in BOOLEAN, PlayerDidPlayCard(s, takesTheLead)
      PROVE  IInv'
  BY <1>3, PlayKeeps
<1>4. CASE Ticks
  BY <1>4, TickSendsKeeps, TickSchedulesKeeps, ReplaceDiscardsKeeps, NextRoundKeeps,
     EndGameContinuesKeeps, EndGameClearsKeeps, ClearGameKeeps DEF Ticks
<1>5. CASE ReplaceDiscardsPanics
  BY <1>5, PanicKeeps DEF IInv, Typed, Reported, Players, SomebodyPlays, TricksAreCounted, Settled,
                          Due, isGameOver, ChipsConserved, OnTheTable
<1>6. QED
  BY <1>1, <1>2, <1>3, <1>4, <1>5 DEF Next, Action, Tick

-----------------------------------------------------------------------------
(* The theorems.                                                           *)

\* The invariant: who plays, what is due, the tricks taken and what is settled belong
\* together (Game, Round, Result in bourre.go), and no chip is lost or made.
THEOREM Invariance == Spec => []IInv
<1>1. QED
  BY InitKeeps, StepKeeps, PTL DEF Spec

\* Everybody who anted is on exactly one of the lists GetEndOfGameDetails reads, and
\* once, over all games (Result.NewGame, replaceDiscards).
THEOREM EverybodyOnce == Spec => []EverybodyIsReportedOnce
<1>1. IInv => EverybodyIsReportedOnce
  BY PlayersAreListed DEF IInv, Reported, EverybodyIsReportedOnce
<1>2. QED
  BY <1>1, Invariance, PTL

\* No pot shrinks from one game to the next, and who has folded or was booted stays out
\* and pays no more (buildResults, Result.NewGame).
THEOREM OutStaysOut == Spec => OutMeansOut
<1> DEFINE outs == /\ gameNo' # gameNo => pot' >= pot
                   /\ foldedPlayers \subseteq foldedPlayers'
                   /\ \A s \in foldedPlayers \cup (IF isGameOver THEN result.booted ELSE {}) :
                        balance'[s] = balance[s]
<1>1. IInv /\ [Next]_vars => [outs]_vars
  <2> SUFFICES ASSUME IInv, Next PROVE outs
    OBVIOUS
  <2>1. ASSUME UNCHANGED <<balance, foldedPlayers, gameNo>>
        PROVE  outs
    BY <2>1
  <2>2. ASSUME NEW s \in Seats, NEW discards \in Trades \cup {Folds, Twice}, PlayerDidDiscard(s, discards)
        PROVE  outs
    BY <2>1, <2>2 DEF PlayerDidDiscard, money, table
  <2>3. ASSUME NEW s \in Seats, NEW takesTheLead \in BOOLEAN, PlayerDidPlayCard(s, takesTheLead)
        PROVE  outs
    BY <2>1, <2>3 DEF PlayerDidPlayCard, money, table
  <2>4. CASE TickSends \/ TickSchedules \/ EndGameClears \/ ClearGame
    BY <2>1, <2>4 DEF TickSends, TickSchedules, EndGameClears, ClearGame, money, table
  <2>5. CASE ReplaceDiscards
    <3>1. \A s \in foldedPlayers : balance'[s] = balance[s]
      BY <2>5, ReplaceDiscardsKeeps
    <3>2. ~isGameOver
      BY <2>5 DEF ReplaceDiscards, Executes, IInv, Due, Settled
    <3>3. foldedPlayers \subseteq foldedPlayers' /\ gameNo' = gameNo
      BY <2>5 DEF ReplaceDiscards, OutNow
    <3>4. QED
      BY <3>1, <3>2, <3>3
  <2>6. CASE NextRound
    <3>1. \A s \in foldedPlayers : balance'[s] = balance[s]
      BY <2>6, NextRoundKeeps
    <3>2. ~isGameOver
      BY <2>6 DEF NextRound, Executes, IInv, Due
    <3>3. foldedPlayers' = foldedPlayers /\ gameNo' = gameNo
      BY <2>6 DEF NextRound, table
    <3>4. QED
      BY <3>1, <3>2, <3>3
  <2>7. CASE EndGameContinues
    <3>1. pot' >= pot
      BY <2>7, EndGameContinuesKeeps
    <3>2. foldedPlayers \subseteq foldedPlayers' /\ balance' = balance
      BY <2>7 DEF EndGameContinues
    <3>3. QED
      BY <3>1, <3>2
  <2>8. CASE ReplaceDiscardsPanics
    BY <2>1, <2>8, PanicKeeps
  <2>9. QED
    BY <2>2, <2>3, <2>4, <2>5, <2>6, <2>7, <2>8 DEF Next, Action, Tick, Ticks
<1>2. QED
  BY <1>1, Invariance, PTL DEF Spec, OutMeansOut

LEMMA SameSum ==
  ASSUME NEW f, NEW n
  PROVE  Game!Sum(f, n) = Sum(f, n)
BY Zenon DEF Game!Sum, Sum

\* What the dealer reads of the balances is all of them.
LEMMA AllAreRead ==
  ASSUME IInv
  PROVE  [s \in Seats |-> IF s \in Players \cup foldedPlayers THEN balance[s] ELSE 0] = balance
BY DEF IInv, Typed, Reported

\* The abstract specification of a game, its promise to move on aside
\* (playable.Playable): what the players have paid is on the table until one of them
\* takes it, from one game to the next, and the table is empty when it is cleared.
THEOREM KeepsTheContract == Spec => Game!SafeSpec
<1>1. IInv => Game!Balanced
  <2> SUFFICES ASSUME IInv PROVE Game!Balanced
    OBVIOUS
  <2>1. [s \in Seats |-> IF s \in Players \cup foldedPlayers THEN balance[s] ELSE 0] = balance
    BY AllAreRead
  <2>2. Sum(balance, N) + OnTheTable = 0
    BY DEF IInv, ChipsConserved
  <2>3. OnTheTable >= 0
    BY DEF IInv, Typed, Settled, OnTheTable
  <2>4. QED
    BY <2>1, <2>2, <2>3, SameSum DEF Game!Balanced, OnTheTable
<1>2. Init => Game!Init
  <2> SUFFICES ASSUME Init PROVE Game!Init
    OBVIOUS
  <2>1. Game!Balanced
    BY <1>1, InitKeeps
  <2>2. status \in {"waits", "deals"}
    BY DEF Init, status
  <2>3. QED
    BY <2>1, <2>2 DEF Game!Init
<1>3. IInv /\ IInv' /\ [Next]_vars => [Game!Next]_(Game!vars)
  <2> SUFFICES ASSUME IInv, IInv', [Next]_vars PROVE [Game!Next]_(Game!vars)
    OBVIOUS
  <2>1. Game!Balanced /\ Game!Balanced'
    BY <1>1, PTL
  <2>2. CASE UNCHANGED vars
    BY <2>2 DEF vars, Game!vars, status, OutOfGames, Idle, isGameOver, isRoundOver, Players
  <2>3. CASE Next /\ done
    <3>1. UNCHANGED <<balance, pot, result, playerOrder, foldedPlayers, done>>
      BY <2>3, PanicKeeps
      DEF Next, Action, Tick, Ticks, PlayerDidDiscard, PlayerDidPlayCard, TickSends, TickSchedules,
          Idle, ReplaceDiscards, NextRound, Executes, EndGameContinues, EndGameClears, ClearGame,
          money, table
    <3>2. QED
      BY <2>3, <3>1 DEF Game!vars, status, OutOfGames, Idle, isGameOver, isRoundOver, Players
  <2>4. CASE Next /\ ~done /\ done'
    <3>1. isGameOver' /\ result'.newPot = 0
      BY <2>4 DEF IInv, Due
    <3>2. QED
      BY <2>1, <2>4, <3>1 DEF Game!Next, Game!End, status
  <2>5. CASE Next /\ ~done /\ ~done'
    BY <2>1, <2>5 DEF Game!Next, Game!Move, status
  <2>6. QED
    BY <2>2, <2>3, <2>4, <2>5
<1>4. QED
  BY <1>2, <1>3, Invariance, PTL DEF Spec, Game!SafeSpec
=============================================================================
