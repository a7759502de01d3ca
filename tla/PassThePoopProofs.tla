------------------------- MODULE PassThePoopProofs -------------------------
(***************************************************************************)
(* Pass the Poop for every number of players, lives and cards, in the      *)
(* three editions: a trade has a partner, kings stay, an ace costs its     *)
(* life once, somebody always survives, and the game keeps the contract    *)
(* (Playable) at every step.                                               *)
(***************************************************************************)
EXTENDS PassThePoop, SumProofs

-----------------------------------------------------------------------------
(* The invariant.                                                          *)

\* A round is over when everybody has decided; the next one is due only then, and
\* the end of the game when it has been settled.
Due ==
  /\ Len(participants) >= 2
  /\ roundOver \/ gameOver => decisionIndex = Len(participants)
  /\ pending = "NextRound" => roundOver /\ ~gameOver
  /\ pending = "EndGame" \/ endGameAck => gameOver

\* Who offers his card has no king and was not passed an ace before.
OffersAreGood ==
  pendingTrade /\ decisionIndex \in 1 .. Len(participants) - 1 =>
    card[Prev] # King /\ Prev \notin deadCard

\* The dealer who goes to the deck has no king.
NoKingGoes ==
  dealerWillGoToDeck =>
    /\ decisionIndex + 1 >= Len(participants)
    /\ isDealersTurn => card[participants[Len(participants)]] # King

\* Who was passed an ace has decided.
DeadHaveDecided == \A s \in deadCard : \E i \in 1 .. decisionIndex : participants[i] = s

\* Everybody in the round has a life, or was passed the ace that took the last one.
SomebodyLives ==
  /\ options.edition # "Diarrhea" => deadCard = {}
  /\ ~roundOver => \A s \in In : lives[s] > 0 \/ s \in deadCard

ChipsConserved == Sum(balance, N) + (IF gameOver THEN 0 ELSE pot) = 0

IInv ==
  /\ TypeOK
  /\ Due
  /\ OffersAreGood
  /\ NoKingGoes
  /\ DeadHaveDecided
  /\ SomebodyLives
  /\ ChipsConserved
  /\ TradesHaveAPartner

-----------------------------------------------------------------------------
(* Players and cards.                                                      *)

LEMMA Bounds ==
  /\ N \in Nat /\ N >= 2
  /\ Ante \in Nat /\ Ante > 0
  /\ Ranks \subseteq 2 .. 14 /\ Ranks # {}
BY PassThePoopAssumption DEF Ace

LEMMA OptionsOf ==
  ASSUME NEW o \in Tables
  PROVE  /\ o.players \in 2 .. N /\ o.players \in Nat
         /\ o.lives \in Nat /\ o.lives > 0
         /\ o.allowBlocks \in BOOLEAN
         /\ o.edition \in {"Standard", "Diarrhea", "Pairs"}
BY PassThePoopAssumption

LEMMA SeatsAreFinite ==
  /\ IsFiniteSet(Seats)
  /\ \A S \in SUBSET Seats : IsFiniteSet(S) /\ Cardinality(S) \in Nat
                             /\ (Cardinality(S) = 0 <=> S = {})
<1>1. IsFiniteSet(Seats)
  BY Bounds, FS_Interval, 0 \in Int, N - 1 \in Int DEF Seats
<1>2. ASSUME NEW S \in SUBSET Seats
      PROVE  IsFiniteSet(S) /\ Cardinality(S) \in Nat /\ (Cardinality(S) = 0 <=> S = {})
  BY <1>1, FS_Subset, FS_CardinalityType, FS_EmptySet
<1>3. QED
  BY <1>1, <1>2

\* What TypeOK says of the list of participants.
LEMMA Listed ==
  ASSUME TypeOK
  PROVE  /\ participants \in Seq(Seats)
         /\ Len(participants) \in Nat /\ DOMAIN participants = 1 .. Len(participants)
         /\ \A a, b \in DOMAIN participants : participants[a] = participants[b] => a = b
         /\ In = {participants[i] : i \in DOMAIN participants}
         /\ In \subseteq Seats /\ Cardinality(In) = Len(participants)
<1>1. /\ participants \in Seq(Seats)
      /\ \A a, b \in DOMAIN participants : participants[a] = participants[b] => a = b
  BY DEF TypeOK, IsInjective
<1>2. In = {participants[i] : i \in DOMAIN participants}
  BY DEF In, ToSet
<1>3. Cardinality(In) = Len(participants)
  BY <1>1, <1>2, ListedOnce
<1>4. QED
  BY <1>1, <1>2, <1>3

\* Somebody has the lowest card.
LEMMA SomebodyHasTheLowest ==
  ASSUME card \in [Seats -> Ranks \cup {0}], NEW T \in SUBSET Seats, T # {}
  PROVE  LowCards(T) # {} /\ LowCards(T) \subseteq T
<1> DEFINE ranks == {LowRank(t) : t \in T}
<1>1. \A t \in T : LowRank(t) \in Nat
  <2> TAKE t \in T
  <2>1. card[t] \in Ranks \cup {0}
    OBVIOUS
  <2>2. card[t] \in Nat
    <3>1. \A r \in Ranks : r \in 2 .. 14
      BY Bounds
    <3>2. card[t] \in 2 .. 14 \/ card[t] = 0
      BY <2>1, <3>1
    <3>3. QED
      BY <3>2
  <2>3. QED
    BY <2>2 DEF LowRank, Ace
<1>2. ranks \in SUBSET Nat /\ ranks # {}
  BY <1>1
<1>3. PICK m \in ranks : \A k \in ranks : m <= k
  <2> HIDE DEF ranks
  <2> QED
    BY <1>2, NatLeast
<1>4. PICK s \in T : m = LowRank(s)
  BY <1>3
<1>5. s \in LowCards(T)
  BY <1>3, <1>4 DEF LowCards
<1>6. QED
  BY <1>5 DEF LowCards

-----------------------------------------------------------------------------
(* getLowCards, applied again and again.                                   *)

\* The groups of losers of T, when those of smaller sets are g.
GroupsOf(g, T) ==
  LET low == LowCards(T)
  IN  CASE low = T /\ Cardinality(T) # 1 -> {}
        [] Cardinality(low) = 1 \/ Cardinality(T \ low) = 1 -> {low}
        [] OTHER -> {low} \cup g[T \ low]

\* What is left when the lowest are out is a smaller set.
LEMMA FewerAreLeft ==
  ASSUME card \in [Seats -> Ranks \cup {0}], NEW T \in SUBSET Seats
  PROVE  /\ T \ LowCards(T) \in SUBSET T
         /\ T # {} => Cardinality(T \ LowCards(T)) < Cardinality(T)
<1>1. CASE T # {}
  <2>1. LowCards(T) # {} /\ LowCards(T) \subseteq T
    BY <1>1, SomebodyHasTheLowest
  <2>2. IsFiniteSet(T) /\ Cardinality(T) \in Nat /\ T \ LowCards(T) \in SUBSET T
    BY SeatsAreFinite
  <2>3. /\ Cardinality(T \ LowCards(T)) <= Cardinality(T)
        /\ Cardinality(T) = Cardinality(T \ LowCards(T)) => T = T \ LowCards(T)
    BY <2>2, FS_Subset
  <2>4. T # T \ LowCards(T)
    BY <2>1
  <2>5. Cardinality(T \ LowCards(T)) \in Nat
    BY <2>2, SeatsAreFinite
  <2>6. QED
    BY <2>2, <2>3, <2>4, <2>5
<1>2. QED
  BY <1>1

\* Two that agree on what is left agree.
LEMMA GroupsAgree ==
  ASSUME NEW g, NEW h, NEW T,
         (LowCards(T) = T => Cardinality(T) = 1) => g[T \ LowCards(T)] = h[T \ LowCards(T)]
  PROVE  GroupsOf(g, T) = GroupsOf(h, T)
<1> DEFINE low == LowCards(T)
<1>1. CASE low = T /\ Cardinality(T) # 1
  BY <1>1 DEF GroupsOf
<1>2. CASE ~(low = T /\ Cardinality(T) # 1)
  <2>1. g[T \ low] = h[T \ low]
    BY <1>2
  <2>2. QED
    BY <2>1, Zenon DEF GroupsOf
<1>3. QED
  BY <1>1, <1>2

\* The groups of the sets with up to n members exist.
LEMMA GroupsUpTo ==
  ASSUME card \in [Seats -> Ranks \cup {0}], NEW S \in SUBSET Seats, NEW n \in Nat
  PROVE  \E g : \A T \in SUBSET S : Cardinality(T) <= n => g[T] = GroupsOf(g, T)
<1> DEFINE Works(g, k) == \A T \in SUBSET S : Cardinality(T) <= k => g[T] = GroupsOf(g, T)
           K == {k \in Nat : \E g : Works(g, k)}
<1>0. \A T \in SUBSET S : /\ T \in SUBSET Seats /\ Cardinality(T) \in Nat
                          /\ (Cardinality(T) = 0 => T = {})
  BY SeatsAreFinite
<1>1. 0 \in K
  <2> DEFINE g == [T \in SUBSET S |-> {}]
  <2>1. ASSUME NEW T \in SUBSET S, Cardinality(T) <= 0 PROVE g[T] = GroupsOf(g, T)
    <3>1. T = {}
      BY <1>0, <2>1
    <3>2. LowCards(T) = T /\ Cardinality(T) = 0 /\ Cardinality(T \ LowCards(T)) = 0
      BY <3>1, FS_EmptySet DEF LowCards
    <3>3. GroupsOf(g, T) = {}
      BY <3>2 DEF GroupsOf
    <3>4. QED
      BY <3>3
  <2> HIDE DEF g
  <2>2. Works(g, 0)
    BY <2>1
  <2>3. QED
    BY <2>2
<1>2. ASSUME NEW k \in 1 .. n, k - 1 \in K
      PROVE  k \in K
  <2>1. PICK g : Works(g, k - 1)
    BY <1>2
  <2> DEFINE h == [T \in SUBSET S |-> IF Cardinality(T) <= k - 1 THEN g[T] ELSE GroupsOf(g, T)]
  <2>2. ASSUME NEW T \in SUBSET S, Cardinality(T) <= k PROVE h[T] = GroupsOf(h, T)
    <3> DEFINE left == T \ LowCards(T)
    <3>1. T \in SUBSET Seats /\ Cardinality(T) \in Nat /\ left \in SUBSET S /\ Cardinality(left) \in Nat
      BY <1>0
    <3>2. h[T] = GroupsOf(g, T)
      <4>1. CASE Cardinality(T) <= k - 1
        BY <2>1, <4>1
      <4>2. CASE ~(Cardinality(T) <= k - 1)
        BY <4>2
      <4>3. QED
        BY <4>1, <4>2
    <3>3. CASE T = {}
      <4>1. LowCards(T) = T /\ Cardinality(T) # 1
        BY <3>3, FS_EmptySet DEF LowCards
      <4>2. GroupsOf(g, T) = GroupsOf(h, T)
        BY <4>1, GroupsAgree
      <4>3. QED
        BY <3>2, <4>2
    <3>4. CASE T # {}
      <4>1. Cardinality(left) < Cardinality(T)
        BY <3>1, <3>4, FewerAreLeft
      <4>2. Cardinality(left) <= k - 1
        BY <2>2, <3>1, <4>1
      <4>3. h[left] = g[left]
        BY <3>1, <4>2
      <4>4. GroupsOf(g, T) = GroupsOf(h, T)
        <5> HIDE DEF h
        <5>1. QED
          BY <4>3, GroupsAgree
      <4>5. QED
        BY <3>2, <4>4
    <3>5. QED
      BY <3>3, <3>4
  <2> HIDE DEF h
  <2>3. Works(h, k)
    BY <2>2
  <2>4. QED
    BY <2>3
<1>3. \A k \in 0 .. n : k \in K
  <2> HIDE DEF K
  <2> QED
    BY <1>1, <1>2, IntervalInduction
<1>4. QED
  BY <1>3

\* The groups of all subsets exist.
LEMMA GroupsExist ==
  ASSUME card \in [Seats -> Ranks \cup {0}], NEW S \in SUBSET Seats
  PROVE  \E g : g = [T \in SUBSET S |-> GroupsOf(g, T)]
<1>1. Cardinality(S) \in Nat /\ IsFiniteSet(S)
  BY SeatsAreFinite
<1>2. PICK g : \A T \in SUBSET S : Cardinality(T) <= Cardinality(S) => g[T] = GroupsOf(g, T)
  BY <1>1, GroupsUpTo
<1>3. \A T \in SUBSET S : g[T] = GroupsOf(g, T)
  BY <1>1, <1>2, FS_Subset
<1> DEFINE h == [T \in SUBSET S |-> GroupsOf(g, T)]
<1>4. ASSUME NEW T \in SUBSET S PROVE GroupsOf(g, T) = GroupsOf(h, T)
  <2>1. T \ LowCards(T) \in SUBSET S
    OBVIOUS
  <2>2. h[T \ LowCards(T)] = g[T \ LowCards(T)]
    BY <1>3, <2>1
  <2> HIDE DEF h
  <2>3. QED
    BY <2>2, GroupsAgree
<1>5. h = [T \in SUBSET S |-> GroupsOf(h, T)]
  BY <1>4
<1>6. QED
  BY <1>5

\* LowGroups chooses them.
LEMMA LowGroupsAre ==
  ASSUME card \in [Seats -> Ranks \cup {0}], NEW S \in SUBSET Seats
  PROVE  \E g : LowGroups(S) = g[S] /\ \A T \in SUBSET S : g[T] = GroupsOf(g, T)
<1> DEFINE groups == CHOOSE g : g = [T \in SUBSET S |->
        LET low == LowCards(T)
        IN  CASE low = T /\ Cardinality(T) # 1 -> {}
              [] Cardinality(low) = 1 \/ Cardinality(T \ low) = 1 -> {low}
              [] OTHER -> {low} \cup g[T \ low]]
<1>1. \E g : g = [T \in SUBSET S |-> GroupsOf(g, T)]
  BY GroupsExist
<1>2. groups = [T \in SUBSET S |-> GroupsOf(groups, T)]
  BY <1>1, Zenon DEF GroupsOf
<1>3. LowGroups(S) = groups[S]
  BY Zenon DEF LowGroups
<1> HIDE DEF groups
<1>4. \A T \in SUBSET S : groups[T] = GroupsOf(groups, T)
  BY <1>2
<1>5. QED
  BY <1>3, <1>4

\* Who loses is in the round; and not everybody loses, if they are two at least.
LEMMA SomebodyIsSafe ==
  ASSUME card \in [Seats -> Ranks \cup {0}], NEW S \in SUBSET Seats
  PROVE  /\ UNION LowGroups(S) \subseteq S
         /\ Cardinality(S) > 1 => UNION LowGroups(S) # S
<1>1. PICK g : LowGroups(S) = g[S] /\ \A T \in SUBSET S : g[T] = GroupsOf(g, T)
  BY LowGroupsAre
<1>2. Cardinality(S) \in Nat
  BY SeatsAreFinite
<1> DEFINE Safe(T) == UNION g[T] \subseteq T /\ (Cardinality(T) # 1 /\ T # {} => UNION g[T] # T)
           K == {k \in 0 .. Cardinality(S) : \A T \in SUBSET S : Cardinality(T) <= k => Safe(T)}
<1>3. ASSUME NEW T \in SUBSET S, \A U \in SUBSET S : Cardinality(U) < Cardinality(T) => Safe(U)
      PROVE  Safe(T)
  <2> DEFINE low == LowCards(T)
  <2>1. g[T] = GroupsOf(g, T) /\ T \in SUBSET Seats
    BY <1>1
  <2>2. CASE low = T /\ Cardinality(T) # 1
    <3>1. Cardinality(low) # 1 /\ Cardinality(T \ low) # 1
      BY <2>2, FS_EmptySet
    <3>2. g[T] = {}
      BY <2>1, <2>2, <3>1, Zenon DEF GroupsOf
    <3>3. QED
      BY <3>2
  <2>3. CASE ~(low = T /\ Cardinality(T) # 1) /\ (Cardinality(low) = 1 \/ Cardinality(T \ low) = 1)
    <3>1. g[T] = {low}
      BY <2>1, <2>3, Zenon DEF GroupsOf
    <3>2. low \subseteq T
      BY DEF LowCards
    <3>3. UNION g[T] = low
      BY <3>1
    <3>4. QED
      BY <2>3, <3>2, <3>3
  <2>4. CASE ~(low = T /\ Cardinality(T) # 1) /\ ~(Cardinality(low) = 1 \/ Cardinality(T \ low) = 1)
    <3>1. g[T] = {low} \cup g[T \ low]
      BY <2>1, <2>4, Zenon DEF GroupsOf
    <3>2. low \subseteq T
      BY DEF LowCards
    <3>3. low # T
      BY <2>4
    <3>4. T # {} /\ T \ low # {}
      BY <3>2, <3>3
    <3>5. Cardinality(T \ low) < Cardinality(T)
      BY <2>1, <3>4, FewerAreLeft
    <3>6. Safe(T \ low)
      BY <1>3, <3>5
    <3>7. UNION g[T] = low \cup UNION g[T \ low]
      BY <3>1
    <3>8. UNION g[T \ low] \subseteq T \ low /\ UNION g[T \ low] # T \ low
      BY <2>4, <3>4, <3>6
    <3> HIDE DEF low
    <3>9. QED
      BY <3>2, <3>7, <3>8
  <2>5. QED
    BY <2>2, <2>3, <2>4
<1>4. \A T \in SUBSET S : Cardinality(T) \in Nat
  BY SeatsAreFinite
<1> HIDE DEF Safe
<1>5. 0 \in K
  BY <1>2, <1>3, <1>4
<1>6. ASSUME NEW k \in 1 .. Cardinality(S), k - 1 \in K
      PROVE  k \in K
  <2>1. \A U \in SUBSET S : Cardinality(U) <= k - 1 => Safe(U)
    BY <1>6
  <2>2. ASSUME NEW T \in SUBSET S, Cardinality(T) <= k PROVE Safe(T)
    <3>1. \A U \in SUBSET S : Cardinality(U) < Cardinality(T) => Safe(U)
      <4> TAKE U \in SUBSET S
      <4>1. Cardinality(U) \in Nat /\ Cardinality(T) \in Nat
        BY <1>4
      <4>2. QED
        BY <2>1, <2>2, <4>1
    <3>2. QED
      BY <1>3, <3>1
  <2>3. QED
    BY <1>2, <2>2
<1>7. Cardinality(S) \in K
  <2> HIDE DEF K
  <2>1. \A k \in 0 .. Cardinality(S) : k \in K
    BY <1>2, <1>5, <1>6, IntervalInduction
  <2>2. QED
    BY <1>2, <2>1
<1>8. Safe(S)
  BY <1>2, <1>7
<1>9. Cardinality(S) > 1 => Cardinality(S) # 1 /\ S # {}
  BY FS_EmptySet
<1>10. QED
  BY <1>1, <1>8, <1>9 DEF Safe

-----------------------------------------------------------------------------
(* The end of a round.                                                     *)

\* What subtractLife leaves.
LEMMA LivesLeft ==
  ASSUME TypeOK, NEW S, NEW count \in {0, 1}
  PROVE  /\ Lose(S, count) \in [Seats -> 0 .. options.lives]
         /\ \A s \in Seats \ S : Lose(S, count)[s] = lives[s]
         /\ count = 1 => \A s \in Seats : lives[s] > 1 => Lose(S, count)[s] > 0
<1>1. options.lives \in Nat /\ \A s \in Seats : lives[s] \in 0 .. options.lives
  BY OptionsOf DEF TypeOK
<1>2. \A l \in 0 .. options.lives :
        Minus(l, count) \in 0 .. options.lives /\ (count = 1 /\ l > 1 => Minus(l, count) > 0)
  BY <1>1 DEF Minus
<1>3. Lose(S, count) = [s \in Seats |-> IF s \in S THEN Minus(lives[s], count) ELSE lives[s]]
  BY DEF Lose
<1>4. QED
  BY <1>1, <1>2, <1>3

\* What the end of a round may be: it is redone, or somebody in it has a life left.
GoodEnd(end) ==
  /\ end.lives \in [Seats -> 0 .. options.lives]
  /\ ~end.redo => \E s \in Seats : end.lives[s] > 0

\* Lives are lost by less than everybody.
LEMMA SomeLose ==
  ASSUME TypeOK, NEW L, NEW count \in {0, 1}, NEW s \in Seats \ L, lives[s] > 0
  PROVE  GoodEnd(Lost(Lose(L, count)))
<1>1. Lose(L, count) \in [Seats -> 0 .. options.lives] /\ Lose(L, count)[s] > 0
  BY LivesLeft
<1>2. Lost(Lose(L, count)).lives = Lose(L, count)
  BY DEF Lost
<1>3. QED
  BY <1>1, <1>2 DEF GoodEnd

\* A round that is redone.
LEMMA RedoIsGood ==
  ASSUME TypeOK
  PROVE  GoodEnd(Redo)
BY DEF TypeOK, Redo, GoodEnd

\* The card of everybody, and that there is somebody.
LEMMA CardsAreDealt ==
  ASSUME TypeOK, Due
  PROVE  card \in [Seats -> Ranks \cup {0}] /\ In # {} /\ In \subseteq Seats /\ Cardinality(In) >= 2
<1>1. In \subseteq Seats /\ Cardinality(In) >= 2
  BY Listed DEF Due
<1>2. In # {}
  BY <1>1, FS_EmptySet
<1>3. QED
  BY <1>1, <1>2 DEF TypeOK

LEMMA StandardEnds ==
  ASSUME TypeOK, Due, \A s \in In : lives[s] > 0
  PROVE  GoodEnd(StandardEndRound)
<1> DEFINE low == LowCards(In)
<1>1. In \subseteq Seats /\ low \subseteq In
  BY CardsAreDealt DEF LowCards
<1>2. CASE low = In /\ \A s \in low : lives[s] <= 1
  <2>1. StandardEndRound = Redo
    BY <1>2 DEF StandardEndRound
  <2>2. QED
    BY <2>1, RedoIsGood
<1>3. CASE low = In /\ ~(\A s \in low : lives[s] <= 1)
  <2>1. StandardEndRound = Lost(Lose(low, 1))
    BY <1>3 DEF StandardEndRound
  <2>2. PICK s \in low : ~(lives[s] <= 1)
    BY <1>3
  <2>3. s \in Seats /\ lives[s] \in 0 .. options.lives /\ options.lives \in Nat
    BY <1>1, <2>2, OptionsOf DEF TypeOK
  <2>4. lives[s] > 1
    BY <2>2, <2>3
  <2>5. Lose(low, 1) \in [Seats -> 0 .. options.lives] /\ Lose(low, 1)[s] > 0
    BY <2>3, <2>4, LivesLeft
  <2>6. QED
    BY <2>1, <2>3, <2>5 DEF GoodEnd, Lost
<1>4. CASE low # In
  <2>1. StandardEndRound = Lost(Lose(low, 1))
    BY <1>4 DEF StandardEndRound
  <2>2. PICK s \in In : s \notin low
    BY <1>1, <1>4
  <2>3. s \in Seats \ low /\ lives[s] > 0
    BY <1>1, <2>2
  <2>4. QED
    BY <2>1, <2>3, SomeLose
<1>5. QED
  BY <1>2, <1>3, <1>4

LEMMA PairsEnds ==
  ASSUME TypeOK, Due, \A s \in In : lives[s] > 0
  PROVE  GoodEnd(PairsEndRound)
<1> DEFINE size(s) == Cardinality(SameRank(In, s))
           trips  == {s \in In : size(s) >= 3 /\ \A t \in In :
                       size(t) < size(s) \/ (size(t) = size(s) /\ LowRank(t) <= LowRank(s))}
           fewest == {s \in In : \A t \in In : size(s) <= size(t)}
           losers == LowCards(fewest)
<1>1. PairsEndRound = CASE trips # {} -> Lost(Lose(In \ trips, 0))
                        [] trips = {} /\ losers = In -> Redo
                        [] OTHER -> Lost(Lose(losers, 1))
  BY DEF PairsEndRound
<1>2. In \subseteq Seats /\ trips \subseteq In
  BY CardsAreDealt
<1>3. losers \subseteq In
  BY DEF LowCards
<1> HIDE DEF trips, losers
<1>4. CASE trips # {}
  <2>1. PairsEndRound = Lost(Lose(In \ trips, 0))
    BY <1>1, <1>4
  <2>2. PICK s \in trips : TRUE
    BY <1>4
  <2>3. s \in Seats \ (In \ trips) /\ lives[s] > 0
    BY <1>2, <2>2
  <2>4. QED
    BY <2>1, <2>3, SomeLose
<1>5. CASE trips = {} /\ losers = In
  <2>1. PairsEndRound = Redo
    BY <1>1, <1>5
  <2>2. QED
    BY <2>1, RedoIsGood
<1>6. CASE trips = {} /\ losers # In
  <2>1. PairsEndRound = Lost(Lose(losers, 1))
    BY <1>1, <1>6
  <2>2. PICK s \in In : s \notin losers
    BY <1>3, <1>6
  <2>3. s \in Seats \ losers /\ lives[s] > 0
    BY <1>2, <2>2
  <2>4. QED
    BY <2>1, <2>3, SomeLose
<1>7. QED
  BY <1>4, <1>5, <1>6

\* In Diarrhea the groups of low cards go out together, never everybody; who was passed
\* an ace before loses no more, and gets a life back where nobody else has one.
LEMMA DiarrheaEnds ==
  ASSUME TypeOK, Due, \A s \in In : lives[s] > 0 \/ s \in deadCard
  PROVE  /\ GoodEnd(DiarrheaEndRound)
         /\ \A s \in deadCard : DiarrheaEndRound.lives[s] >= lives[s]
<1> DEFINE live == In \ deadCard
           dead == In \cap deadCard
           groups == LowGroups(live)
           loses(s) == CHOOSE g \in groups : s \in g
           some == Lost([s \in Seats |-> IF s \in UNION groups
                                         THEN Minus(lives[s], IF Cardinality(loses(s)) = 1 THEN 1 ELSE 0)
                                         ELSE lives[s]])
           back == [redo |-> TRUE, lives |-> [s \in Seats |-> IF s \in dead THEN lives[s] + 1 ELSE lives[s]]]
<1>1. DiarrheaEndRound =
        CASE Cardinality(live) = 1 -> Lost(lives)
          [] live = {} /\ (\E s \in dead : lives[s] > 0) -> Lost(lives)
          [] live = {} /\ ~(\E s \in dead : lives[s] > 0) -> back
          [] Cardinality(live) > 1 /\ groups = {} /\ dead = {} -> Redo
          [] OTHER -> some
  BY DEF DiarrheaEndRound
<1>2. /\ In \subseteq Seats /\ In # {} /\ card \in [Seats -> Ranks \cup {0}]
      /\ deadCard \subseteq Seats /\ lives \in [Seats -> 0 .. options.lives]
      /\ options.lives \in Nat /\ options.lives > 0
  BY CardsAreDealt, OptionsOf DEF TypeOK
<1>3. \A s \in live : lives[s] > 0
  OBVIOUS
<1>4. Cardinality(live) \in Nat /\ (Cardinality(live) = 0 <=> live = {})
  BY <1>2, SeatsAreFinite
<1>5. UNION groups \subseteq live /\ (Cardinality(live) > 1 => UNION groups # live)
  BY <1>2, SomebodyIsSafe
<1>6. \A s \in Seats : lives[s] \in 0 .. options.lives /\ lives[s] \in Nat
  BY <1>2
<1>7. live \subseteq Seats /\ dead \subseteq Seats /\ deadCard \cap live = {}
  BY <1>2
<1>8. some.lives = [s \in Seats |-> IF s \in UNION groups
                                    THEN Minus(lives[s], IF Cardinality(loses(s)) = 1 THEN 1 ELSE 0)
                                    ELSE lives[s]]
  BY DEF Lost
<1>9. back.lives = [s \in Seats |-> IF s \in dead THEN lives[s] + 1 ELSE lives[s]] /\ back.redo
  OBVIOUS
<1> HIDE DEF live, dead, groups, some, back, loses
<1>10. CASE DiarrheaEndRound = Lost(lives) /\ \E s \in Seats : lives[s] > 0
  BY <1>2, <1>6, <1>10 DEF GoodEnd, Lost
<1>11. CASE DiarrheaEndRound = Redo
  <2>1. GoodEnd(DiarrheaEndRound)
    BY <1>11, RedoIsGood
  <2>2. DiarrheaEndRound.lives = lives
    BY <1>11 DEF Redo
  <2>3. QED
    BY <1>2, <1>6, <2>1, <2>2
<1>12. CASE Cardinality(live) = 1
  <2>1. \E s \in Seats : lives[s] > 0
    <3>1. live # {}
      BY <1>4, <1>12
    <3>2. QED
      BY <1>3, <1>7, <3>1
  <2>2. DiarrheaEndRound = Lost(lives)
    BY <1>1, <1>12, <1>4
  <2>3. QED
    BY <1>10, <2>1, <2>2
<1>13. CASE live = {} /\ (\E s \in dead : lives[s] > 0)
  <2>1. Cardinality(live) # 1
    BY <1>4, <1>13
  <2>2. DiarrheaEndRound = Lost(lives)
    BY <1>1, <1>13, <2>1
  <2>3. QED
    BY <1>7, <1>10, <1>13, <2>2
<1>14. CASE live = {} /\ ~(\E s \in dead : lives[s] > 0)
  <2>1. Cardinality(live) # 1 /\ ~(Cardinality(live) > 1)
    BY <1>4, <1>14
  <2>2. DiarrheaEndRound = back
    BY <1>1, <1>14, <2>1, Zenon
  <2>3. ASSUME NEW s \in Seats
        PROVE  back.lives[s] \in 0 .. options.lives /\ back.lives[s] >= lives[s]
    <3>1. back.lives[s] = IF s \in dead THEN lives[s] + 1 ELSE lives[s]
      BY <1>9
    <3>2. s \in dead => lives[s] = 0
      BY <1>6, <1>14
    <3>3. QED
      BY <1>2, <1>6, <3>1, <3>2
  <2>4. back.lives \in [Seats -> 0 .. options.lives]
    BY <1>9, <2>3
  <2>5. QED
    BY <1>2, <1>9, <2>2, <2>3, <2>4 DEF GoodEnd
<1>15. CASE Cardinality(live) > 1 /\ groups = {} /\ dead = {}
  <2>1. Cardinality(live) # 1 /\ live # {}
    BY <1>4, <1>15
  <2>2. DiarrheaEndRound = Redo
    BY <1>1, <1>15, <2>1
  <2>3. QED
    BY <1>11, <2>2
<1>16. CASE Cardinality(live) > 1 /\ ~(groups = {} /\ dead = {})
  <2>1. Cardinality(live) # 1 /\ live # {}
    BY <1>4, <1>16
  <2>2. DiarrheaEndRound = some
    BY <1>1, <1>16, <2>1
  <2>3. PICK s \in live : s \notin UNION groups
    BY <1>5, <1>16
  <2>4. \A t \in Seats : t \notin UNION groups => some.lives[t] = lives[t]
    BY <1>8
  <2>5. \A t \in Seats : some.lives[t] \in 0 .. options.lives
    <3> TAKE t \in Seats
    <3>1. \A c \in {0, 1} : Minus(lives[t], c) \in 0 .. options.lives
      BY <1>2, <1>6 DEF Minus
    <3>2. some.lives[t] = IF t \in UNION groups
                          THEN Minus(lives[t], IF Cardinality(loses(t)) = 1 THEN 1 ELSE 0)
                          ELSE lives[t]
      BY <1>8
    <3>3. QED
      BY <1>6, <3>1, <3>2
  <2>6. some.lives \in [Seats -> 0 .. options.lives]
    BY <1>8, <2>5
  <2>7. some.lives[s] > 0 /\ s \in Seats
    BY <1>3, <1>7, <2>3, <2>4
  <2>8. \A t \in deadCard : some.lives[t] >= lives[t]
    BY <1>2, <1>5, <1>6, <1>7, <2>4
  <2>9. QED
    BY <2>2, <2>6, <2>7, <2>8 DEF GoodEnd
<1>17. QED
  BY <1>4, <1>12, <1>13, <1>14, <1>15, <1>16

-----------------------------------------------------------------------------
(* Every step keeps the invariant.                                         *)

LEMMA InitKeeps == Init => IInv
<1> SUFFICES ASSUME Init PROVE IInv
  OBVIOUS
<1>1. /\ options \in Tables /\ options.players \in 2 .. N /\ options.players \in Nat
      /\ options.lives \in Nat /\ options.lives > 0
      /\ options.edition \in {"Standard", "Diarrhea", "Pairs"}
  BY OptionsOf DEF Init
<1>2. N \in Nat /\ N >= 2 /\ Ante \in Nat /\ -Ante \in Int
  BY Bounds
<1>3. Players \subseteq Seats /\ Players = 0 .. options.players - 1
  BY <1>1, <1>2 DEF Players, Seats
<1>4. /\ participants = [i \in 1 .. options.players |-> i - 1]
      /\ participants \in Seq(Seats) /\ Len(participants) = options.players
      /\ DOMAIN participants = 1 .. options.players
      /\ \A a, b \in DOMAIN participants : participants[a] = participants[b] => a = b
  <2>1. participants = [i \in 1 .. options.players |-> i - 1]
    BY DEF Init
  <2>2. \A i \in 1 .. options.players : i - 1 \in Seats
    BY <1>1, <1>2 DEF Seats
  <2>3. QED
    BY <1>1, <2>1, <2>2
<1>5. card \in [Seats -> Ranks \cup {0}]
  <2>1. PICK cards \in [Players -> Ranks] : card = Dealt(cards)
    BY DEF Init
  <2>2. QED
    BY <2>1 DEF Dealt
<1>6. lives \in [Seats -> 0 .. options.lives] /\ \A s \in Players : lives[s] > 0
  <2>1. lives = [s \in Seats |-> IF s \in Players THEN options.lives ELSE 0]
    BY DEF Init
  <2>2. options.lives \in 0 .. options.lives /\ 0 \in 0 .. options.lives
    BY <1>1
  <2>3. QED
    BY <1>1, <1>3, <2>1, <2>2
<1>7. balance \in [Seats -> Int]
  BY <1>2 DEF Init
<1>8. TypeOK
  <2>1. hasBlock \subseteq Seats /\ deadCard = {} /\ decisionIndex = 0
    BY <1>3 DEF Init
  <2>2. 0 \in 0 .. Len(participants)
    BY <1>1, <1>4
  <2>3. {pendingTrade, dealerWillGoToDeck, roundOver, gameOver, endGameAck, unanswered, panicked}
          \subseteq BOOLEAN
        /\ pending = "None"
    BY DEF Init
  <2>4. QED
    BY <1>1, <1>4, <1>5, <1>6, <1>7, <2>1, <2>2, <2>3 DEF TypeOK, IsInjective
<1>9. Due /\ OffersAreGood /\ NoKingGoes /\ DeadHaveDecided /\ TradesHaveAPartner
  BY <1>1, <1>4 DEF Init, Due, OffersAreGood, NoKingGoes, DeadHaveDecided, TradesHaveAPartner
<1>10. SomebodyLives
  <2>1. \A s \in In : s \in Players
    <3>1. In = {participants[i] : i \in DOMAIN participants}
      BY DEF In, ToSet
    <3>2. QED
      BY <1>1, <1>3, <1>4, <3>1
  <2>2. QED
    BY <1>6, <2>1 DEF SomebodyLives, Init
<1>11. ChipsConserved
  <2>1. \A i \in 0 .. N - 1 : balance[i] = IF i \in Players THEN -Ante ELSE 0
    BY DEF Init, Seats
  <2>2. Players \in SUBSET (0 .. N - 1)
    BY <1>3 DEF Seats
  <2>3. Sum(balance, N) = (-Ante) * Cardinality(Players)
    BY <1>2, <2>1, <2>2, SumOfMembers
  <2>4. Cardinality(Players) = options.players
    BY <1>1, <1>3, FS_Interval, 0 \in Int, options.players - 1 \in Int
  <2>5. (-Ante) * options.players + options.players * Ante = 0
    BY <1>1, <1>2
  <2>6. ~gameOver
    BY DEF Init
  <2>7. QED
    BY <2>3, <2>4, <2>5, <2>6 DEF ChipsConserved, pot
<1>12. QED
  BY <1>8, <1>9, <1>10, <1>11 DEF IInv

\* Who is on turn has not been passed an ace, and the round is not over.
LEMMA OnTurn ==
  ASSUME IInv, NEW s \in Seats, Turn(s)
  PROVE  /\ decisionIndex \in 0 .. Len(participants) - 1 /\ decisionIndex \in Nat
         /\ Len(participants) \in Nat /\ DOMAIN participants = 1 .. Len(participants)
         /\ participants[decisionIndex + 1] = s
         /\ s \notin deadCard /\ ~roundOver /\ ~gameOver
         /\ pending # "NextRound" /\ pending # "EndGame" /\ ~endGameAck
<1>1. /\ Len(participants) \in Nat /\ DOMAIN participants = 1 .. Len(participants)
      /\ \A a, b \in DOMAIN participants : participants[a] = participants[b] => a = b
  BY Listed DEF IInv
<1>2. /\ decisionIndex \in 0 .. Len(participants) - 1 /\ decisionIndex \in Nat
      /\ participants[decisionIndex + 1] = s
  BY <1>1 DEF Turn, IInv, TypeOK
<1>3. s \notin deadCard
  <2>1. SUFFICES ASSUME s \in deadCard PROVE FALSE
    OBVIOUS
  <2>2. PICK i \in 1 .. decisionIndex : participants[i] = s
    BY <2>1 DEF IInv, DeadHaveDecided
  <2>3. i \in DOMAIN participants /\ decisionIndex + 1 \in DOMAIN participants
    BY <1>1, <1>2
  <2>4. i = decisionIndex + 1
    BY <1>1, <1>2, <2>2, <2>3
  <2>5. QED
    BY <1>2, <2>4
<1>4. decisionIndex # Len(participants)
  <2>1. \A l \in Nat : \A d \in 0 .. l - 1 : d # l
    OBVIOUS
  <2>2. QED
    BY <1>1, <1>2, <2>1
<1>5. ~roundOver /\ ~gameOver
  BY <1>4 DEF IInv, Due
<1>6. pending # "NextRound" /\ pending # "EndGame" /\ ~endGameAck
  BY <1>5 DEF IInv, Due
<1>7. QED
  BY <1>1, <1>2, <1>3, <1>5, <1>6

\* The player who is passed an ace, if there is one.
Passes(p) ==
  \/ UNCHANGED <<lives, deadCard>>
  \/ /\ p \in Seats /\ p \notin deadCard
     /\ \E i \in 1 .. decisionIndex' : participants[i] = p
     /\ options.edition = "Diarrhea"
     /\ deadCard' = deadCard \cup {p}
     /\ lives' = [lives EXCEPT ![p] = IF @ > 0 THEN @ - 1 ELSE 0]

\* What every decision of a player leaves as it is.
LEMMA DecisionKeeps ==
  ASSUME IInv, NEW s \in Seats, Turn(s), NEW p, Passes(p),
         UNCHANGED <<options, balance, participants, roundOver, gameOver, pending, endGameAck>>,
         card' \in [Seats -> Ranks \cup {0}], hasBlock' \subseteq Seats,
         decisionIndex' \in {decisionIndex, decisionIndex + 1},
         pendingTrade' \in BOOLEAN, dealerWillGoToDeck' \in BOOLEAN,
         unanswered' \in BOOLEAN, UNCHANGED panicked,
         OffersAreGood', NoKingGoes', TradesHaveAPartner'
  PROVE  IInv' /\ \A t \in deadCard : lives'[t] = lives[t]
<1>1. /\ decisionIndex \in 0 .. Len(participants) - 1 /\ decisionIndex \in Nat
      /\ Len(participants) \in Nat /\ ~roundOver /\ ~gameOver
  BY OnTurn
<1>2. /\ lives \in [Seats -> 0 .. options.lives] /\ deadCard \subseteq Seats
      /\ options \in Tables /\ options.lives \in Nat
  BY OptionsOf DEF IInv, TypeOK
<1>3. /\ lives' \in [Seats -> 0 .. options.lives] /\ deadCard' \subseteq Seats
      /\ \A t \in deadCard : lives'[t] = lives[t]
      /\ \A t \in Seats : lives'[t] = lives[t] \/ t \in deadCard'
      /\ deadCard \subseteq deadCard'
      /\ deadCard' # deadCard => options.edition = "Diarrhea"
  <2>1. CASE UNCHANGED <<lives, deadCard>>
    BY <1>2, <2>1
  <2>2. CASE ~UNCHANGED <<lives, deadCard>>
    <3>1. /\ p \in Seats /\ p \notin deadCard
          /\ options.edition = "Diarrhea"
          /\ deadCard' = deadCard \cup {p}
          /\ lives' = [lives EXCEPT ![p] = IF @ > 0 THEN @ - 1 ELSE 0]
      BY <2>2 DEF Passes
    <3>2. lives[p] \in 0 .. options.lives
      BY <1>2, <3>1
    <3>3. (IF lives[p] > 0 THEN lives[p] - 1 ELSE 0) \in 0 .. options.lives
      BY <1>2, <3>2
    <3>4. QED
      BY <1>2, <3>1, <3>3
  <2>3. QED
    BY <2>1, <2>2
<1>4. decisionIndex' \in 0 .. Len(participants)
  BY <1>1
<1>5. TypeOK'
  BY <1>2, <1>3, <1>4 DEF IInv, TypeOK
<1>6. Due'
  BY <1>1 DEF IInv, Due
<1>7. DeadHaveDecided'
  <2> SUFFICES ASSUME NEW t \in deadCard' PROVE \E i \in 1 .. decisionIndex' : participants[i] = t
    BY DEF DeadHaveDecided
  <2>1. CASE t \in deadCard
    <3>1. PICK i \in 1 .. decisionIndex : participants[i] = t
      BY <2>1 DEF IInv, DeadHaveDecided
    <3>2. i \in 1 .. decisionIndex'
      BY <1>1
    <3>3. QED
      BY <3>1, <3>2
  <2>2. CASE t \notin deadCard
    BY <2>2 DEF Passes
  <2>3. QED
    BY <2>1, <2>2
<1>8. SomebodyLives'
  <2>1. In' = In
    BY DEF In
  <2>2. In \subseteq Seats
    BY Listed DEF IInv
  <2>3. options.edition # "Diarrhea" => deadCard' = {}
    BY <1>3 DEF IInv, SomebodyLives
  <2>4. ASSUME NEW t \in In PROVE lives'[t] > 0 \/ t \in deadCard'
    BY <1>1, <1>3, <2>2 DEF IInv, SomebodyLives
  <2>5. QED
    BY <2>1, <2>3, <2>4 DEF SomebodyLives
<1>9. ChipsConserved'
  BY DEF IInv, ChipsConserved, pot
<1>10. QED
  BY <1>3, <1>5, <1>6, <1>7, <1>8, <1>9 DEF IInv

\* A decision by which no card moves.
LEMMA NoCardMoves ==
  ASSUME IInv, ~panicked, NEW s \in Seats, Turn(s), UNCHANGED <<table, card, deadCard>>,
         unanswered' \in BOOLEAN,
         hasBlock' \subseteq Seats, decisionIndex' = decisionIndex + 1,
         pendingTrade' = FALSE, UNCHANGED dealerWillGoToDeck
  PROVE  IInv' /\ \A t \in deadCard : lives'[t] = lives[t]
<1>1. /\ decisionIndex \in 0 .. Len(participants) - 1 /\ decisionIndex \in Nat
      /\ Len(participants) \in Nat
  BY OnTurn
<1>2. OffersAreGood' /\ TradesHaveAPartner'
  BY DEF OffersAreGood, TradesHaveAPartner, table
<1>3. NoKingGoes'
  <2> SUFFICES ASSUME dealerWillGoToDeck'
               PROVE  decisionIndex' + 1 >= Len(participants) /\ decisionIndex' + 1 # Len(participants)
    BY DEF NoKingGoes, isDealersTurn, table
  <2>1. decisionIndex + 1 >= Len(participants)
    BY DEF IInv, NoKingGoes
  <2>2. QED
    BY <1>1, <2>1
<1>4. card \in [Seats -> Ranks \cup {0}] /\ dealerWillGoToDeck \in BOOLEAN
  BY DEF IInv, TypeOK
<1>5. Passes(s)
  BY DEF Passes, table
<1>6. pendingTrade' \in BOOLEAN
  OBVIOUS
<1>7. QED
  BY <1>2, <1>3, <1>4, <1>5, <1>6, DecisionKeeps DEF table

LEMMA StayKeeps ==
  ASSUME IInv, ~panicked, NEW s \in Seats, Stay(s)
  PROVE  IInv' /\ \A t \in deadCard : lives'[t] = lives[t]
BY NoCardMoves DEF Stay, IInv, TypeOK

LEMMA FlipKingKeeps ==
  ASSUME IInv, ~panicked, NEW s \in Seats, FlipKing(s)
  PROVE  IInv' /\ \A t \in deadCard : lives'[t] = lives[t]
BY NoCardMoves DEF FlipKing, IInv, TypeOK

LEMMA BlockTradeKeeps ==
  ASSUME IInv, ~panicked, NEW s \in Seats, BlockTrade(s)
  PROVE  IInv' /\ \A t \in deadCard : lives'[t] = lives[t]
BY NoCardMoves DEF BlockTrade, IInv, TypeOK

LEMMA GoToDeckKeeps ==
  ASSUME IInv, ~panicked, NEW s \in Seats, GoToDeck(s)
  PROVE  IInv' /\ \A t \in deadCard : lives'[t] = lives[t]
<1>1. /\ Turn(s) /\ isDealersTurn /\ card[s] # King /\ dealerWillGoToDeck' = TRUE
      /\ UNCHANGED <<table, card, deadCard, hasBlock, decisionIndex, pendingTrade, unanswered>>
  BY DEF GoToDeck
<1>2. /\ participants[decisionIndex + 1] = s /\ decisionIndex \in Nat /\ Len(participants) \in Nat
  BY <1>1, OnTurn
<1>3. OffersAreGood' /\ TradesHaveAPartner'
  BY <1>1 DEF IInv, OffersAreGood, TradesHaveAPartner, Prev, table
<1>4. NoKingGoes'
  BY <1>1, <1>2 DEF NoKingGoes, isDealersTurn, table
<1>5. /\ card' \in [Seats -> Ranks \cup {0}] /\ hasBlock' \subseteq Seats
      /\ pendingTrade' \in BOOLEAN /\ dealerWillGoToDeck' \in BOOLEAN /\ unanswered' \in BOOLEAN
  BY <1>1 DEF IInv, TypeOK
<1>6. Passes(s)
  BY <1>1 DEF Passes, table
<1>7. QED
  BY <1>1, <1>3, <1>4, <1>5, <1>6, DecisionKeeps DEF table

LEMMA TradeKeeps ==
  ASSUME IInv, ~panicked, NEW s \in Seats, Trade(s)
  PROVE  IInv' /\ \A t \in deadCard : lives'[t] = lives[t]
<1>1. /\ Turn(s) /\ ~isDealersTurn /\ card[s] # King /\ pendingTrade' = TRUE
      /\ decisionIndex' = decisionIndex + 1
      /\ UNCHANGED <<table, card, deadCard, hasBlock, dealerWillGoToDeck, unanswered>>
  BY DEF Trade
<1>2. /\ participants[decisionIndex + 1] = s /\ s \notin deadCard
      /\ decisionIndex \in 0 .. Len(participants) - 1 /\ decisionIndex \in Nat
      /\ Len(participants) \in Nat
  BY <1>1, OnTurn
<1>3. decisionIndex' \in 1 .. Len(participants) - 1
  BY <1>1, <1>2 DEF isDealersTurn
<1>4. OffersAreGood' /\ TradesHaveAPartner'
  <2>1. participants'[decisionIndex'] = s
    BY <1>1, <1>2 DEF table
  <2>2. QED
    BY <1>1, <1>2, <1>3, <2>1 DEF OffersAreGood, TradesHaveAPartner, Prev, table
<1>5. NoKingGoes'
  <2>1. ~(decisionIndex + 1 >= Len(participants))
    BY <1>1, <1>2 DEF isDealersTurn
  <2>2. ~dealerWillGoToDeck
    BY <2>1 DEF IInv, NoKingGoes
  <2>3. QED
    BY <1>1, <2>2 DEF NoKingGoes
<1>6. /\ card' \in [Seats -> Ranks \cup {0}] /\ hasBlock' \subseteq Seats
      /\ pendingTrade' \in BOOLEAN /\ dealerWillGoToDeck' \in BOOLEAN /\ unanswered' \in BOOLEAN
  BY <1>1 DEF IInv, TypeOK
<1>7. Passes(s)
  BY <1>1 DEF Passes, table
<1>8. QED
  BY <1>1, <1>4, <1>5, <1>6, <1>7, DecisionKeeps DEF table

LEMMA DrawFromDeckKeeps ==
  ASSUME IInv, ~panicked, NEW s \in Seats, NEW rank \in Ranks, DrawFromDeck(s, rank)
  PROVE  /\ IInv' /\ \A t \in deadCard : lives'[t] = lives[t]
         /\ \A t \in Seats : card[t] = King => card'[t] = King
<1>1. /\ Turn(s) /\ isDealersTurn /\ dealerWillGoToDeck
      /\ card' = [card EXCEPT ![s] = rank] /\ dealerWillGoToDeck' = FALSE
      /\ decisionIndex' = decisionIndex + 1 /\ WasPassed(s, rank)
      /\ UNCHANGED <<options, balance, participants, roundOver, gameOver, pending, endGameAck,
                     hasBlock, pendingTrade, panicked>>
      /\ unanswered' = pendingTrade
  BY DEF DrawFromDeck
<1>2. /\ participants[decisionIndex + 1] = s /\ s \notin deadCard
      /\ decisionIndex \in 0 .. Len(participants) - 1 /\ decisionIndex \in Nat
      /\ Len(participants) \in Nat
  BY <1>1, OnTurn
<1>3. decisionIndex' = Len(participants) /\ participants[Len(participants)] = s
  BY <1>1, <1>2 DEF isDealersTurn
<1>4. OffersAreGood'
  BY <1>1, <1>2, <1>3 DEF OffersAreGood
<1>5. TradesHaveAPartner'
  BY <1>1 DEF TradesHaveAPartner
<1>6. NoKingGoes'
  BY <1>1 DEF NoKingGoes
<1>7. card \in [Seats -> Ranks \cup {0}]
  BY DEF IInv, TypeOK
<1>8. /\ card' \in [Seats -> Ranks \cup {0}] /\ hasBlock' \subseteq Seats
      /\ pendingTrade' \in BOOLEAN /\ dealerWillGoToDeck' \in BOOLEAN /\ unanswered' \in BOOLEAN
  BY <1>1, <1>7 DEF IInv, TypeOK
<1>9. Passes(s)
  <2>1. participants[decisionIndex + 1] = s /\ decisionIndex + 1 \in 1 .. decisionIndex'
    BY <1>1, <1>2
  <2>2. QED
    BY <1>1, <1>2, <2>1 DEF WasPassed, Passes
<1>10. card[s] # King
  BY <1>1, <1>3 DEF IInv, NoKingGoes
<1>11. QED
  BY <1>1, <1>4, <1>5, <1>6, <1>7, <1>8, <1>9, <1>10, DecisionKeeps

LEMMA AcceptKeeps ==
  ASSUME IInv, ~panicked, NEW s \in Seats, Accept(s)
  PROVE  /\ IInv' /\ \A t \in deadCard : lives'[t] = lives[t]
         /\ \A t \in Seats : card[t] = King => card'[t] = King
<1>1. /\ Turn(s) /\ pendingTrade /\ card[s] # King /\ decisionIndex > 0
      /\ pendingTrade' = FALSE /\ unanswered' = FALSE
      /\ card' = [card EXCEPT ![s] = card[Prev], ![Prev] = card[s]]
      /\ WasPassed(Prev, card[s])
      /\ UNCHANGED <<options, balance, participants, roundOver, gameOver, pending, endGameAck,
                     hasBlock, decisionIndex, dealerWillGoToDeck, panicked>>
  BY DEF Accept
<1>2. /\ participants[decisionIndex + 1] = s
      /\ decisionIndex \in 0 .. Len(participants) - 1 /\ decisionIndex \in Nat
      /\ Len(participants) \in Nat /\ DOMAIN participants = 1 .. Len(participants)
  BY <1>1, OnTurn
<1>3. decisionIndex \in 1 .. Len(participants) - 1
  BY <1>1, <1>2
<1>4. card[Prev] # King /\ Prev \notin deadCard
  BY <1>1, <1>3 DEF IInv, OffersAreGood
<1>5. Prev \in Seats /\ Prev # s
  <2>1. /\ participants \in Seq(Seats)
        /\ \A a, b \in DOMAIN participants : participants[a] = participants[b] => a = b
    BY Listed DEF IInv
  <2>2. decisionIndex \in DOMAIN participants /\ decisionIndex + 1 \in DOMAIN participants
    BY <1>2, <1>3
  <2>3. decisionIndex # decisionIndex + 1
    BY <1>2
  <2>4. QED
    BY <1>2, <2>1, <2>2, <2>3 DEF Prev
<1>6. card \in [Seats -> Ranks \cup {0}]
  BY DEF IInv, TypeOK
<1> DEFINE prev == Prev
<1>7. card'[s] = card[prev] /\ \A t \in Seats : t # s /\ t # prev => card'[t] = card[t]
  BY <1>1, <1>5, <1>6
<1>8. /\ card' \in [Seats -> Ranks \cup {0}] /\ hasBlock' \subseteq Seats
      /\ pendingTrade' \in BOOLEAN /\ dealerWillGoToDeck' \in BOOLEAN /\ unanswered' \in BOOLEAN
  BY <1>1, <1>5, <1>6 DEF IInv, TypeOK
<1>9. OffersAreGood' /\ TradesHaveAPartner'
  BY <1>1 DEF OffersAreGood, TradesHaveAPartner
<1>10. NoKingGoes'
  <2> SUFFICES ASSUME dealerWillGoToDeck
               PROVE  /\ decisionIndex + 1 >= Len(participants)
                      /\ isDealersTurn => card'[participants[Len(participants)]] # King
    BY <1>1 DEF NoKingGoes, isDealersTurn
  <2>1. decisionIndex + 1 >= Len(participants)
    BY DEF IInv, NoKingGoes
  <2>2. isDealersTurn => participants[Len(participants)] = s
    BY <1>2 DEF isDealersTurn
  <2>3. QED
    BY <1>4, <1>7, <2>1, <2>2
<1>11. Passes(prev)
  <2>1. participants[decisionIndex] = prev /\ decisionIndex \in 1 .. decisionIndex'
    BY <1>1, <1>2, <1>3 DEF Prev
  <2>2. QED
    BY <1>1, <1>4, <1>5, <2>1 DEF WasPassed, Passes
<1>12. \A t \in Seats : card[t] = King => card'[t] = King
  BY <1>1, <1>4, <1>7
<1> HIDE DEF prev
<1>13. QED
  BY <1>1, <1>8, <1>9, <1>10, <1>11, <1>12, DecisionKeeps

\* The end of a round, in every edition: whoever was passed an ace pays no more, and
\* who takes the pot is one player.
LEMMA EndRoundKeeps ==
  ASSUME IInv, EndRound
  PROVE  IInv' /\ (options.edition = "Diarrhea" => \A s \in deadCard : lives'[s] >= lives[s])
<1>1. PICK end : end = EditionEndRound
  OBVIOUS
<1> DEFINE alive == {s \in Seats : end.lives[s] > 0}
           over == ~end.redo /\ Cardinality(alive \cap In) < 2
<1>2. /\ pending = "None" /\ ~gameOver /\ ~roundOver
      /\ decisionIndex = Len(participants)
      /\ roundOver' = TRUE
      /\ lives' = end.lives
      /\ UNCHANGED <<options, card, deadCard, hasBlock, participants, decisionIndex,
                     pendingTrade, dealerWillGoToDeck, pending, endGameAck, unanswered, panicked>>
  BY <1>1, Zenon DEF EndRound
<1>3. IF over
      THEN /\ Cardinality(alive) < 2
           /\ gameOver' = TRUE
           /\ balance' = [s \in Seats |-> balance[s] + (IF s \in alive THEN pot ELSE 0)]
      ELSE UNCHANGED <<gameOver, balance>>
  BY <1>1, Zenon DEF EndRound
<1>4. TypeOK /\ Due /\ \A s \in In : lives[s] > 0 \/ s \in deadCard
  BY <1>2 DEF IInv, SomebodyLives
<1>5. options.edition \in {"Standard", "Diarrhea", "Pairs"}
  BY <1>4, OptionsOf DEF TypeOK
<1>6. GoodEnd(end) /\ (options.edition = "Diarrhea" => \A s \in deadCard : end.lives[s] >= lives[s])
  <2>1. CASE options.edition = "Diarrhea"
    <3>1. end = DiarrheaEndRound
      BY <1>1, <2>1 DEF EditionEndRound
    <3>2. QED
      BY <1>4, <3>1, DiarrheaEnds
  <2>2. ASSUME options.edition # "Diarrhea" PROVE \A s \in In : lives[s] > 0
    BY <1>4, <2>2 DEF IInv, SomebodyLives
  <2>3. CASE options.edition = "Standard"
    <3>1. end = StandardEndRound
      BY <1>1, <2>3 DEF EditionEndRound
    <3>2. QED
      BY <1>4, <2>2, <2>3, <3>1, StandardEnds
  <2>4. CASE options.edition = "Pairs"
    <3>1. end = PairsEndRound
      BY <1>1, <2>4 DEF EditionEndRound
    <3>2. QED
      BY <1>4, <2>2, <2>4, <3>1, PairsEnds
  <2>5. QED
    BY <1>5, <2>1, <2>3, <2>4
<1>7. options.players \in Nat /\ Ante \in Nat /\ pot \in Nat /\ N \in Nat
  BY <1>4, Bounds, OptionsOf DEF TypeOK, pot
<1>8. balance \in [Seats -> Int]
  BY <1>4 DEF TypeOK
<1>9. balance' \in [Seats -> Int] /\ gameOver' \in BOOLEAN
  <2> HIDE DEF alive, over
  <2>1. CASE over
    <3>1. balance' = [s \in Seats |-> balance[s] + (IF s \in alive THEN pot ELSE 0)] /\ gameOver' = TRUE
      BY <1>3, <2>1
    <3>2. \A s \in Seats : balance[s] + (IF s \in alive THEN pot ELSE 0) \in Int
      BY <1>7, <1>8
    <3>3. QED
      BY <3>1, <3>2
  <2>2. CASE ~over
    BY <1>3, <1>4, <1>8, <2>2 DEF TypeOK
  <2>3. QED
    BY <2>1, <2>2
<1>10. TypeOK'
  <2>1. lives' \in [Seats -> 0 .. options.lives]
    BY <1>2, <1>6 DEF GoodEnd
  <2> HIDE DEF alive, over
  <2>2. QED
    BY <1>2, <1>4, <1>9, <2>1 DEF TypeOK
<1>11. Due'
  BY <1>2, <1>4 DEF Due
<1>12. OffersAreGood' /\ NoKingGoes' /\ DeadHaveDecided' /\ TradesHaveAPartner'
  BY <1>2 DEF IInv, OffersAreGood, NoKingGoes, isDealersTurn, Prev, DeadHaveDecided, TradesHaveAPartner
<1>13. SomebodyLives'
  BY <1>2 DEF IInv, SomebodyLives
<1>14. ChipsConserved'
  <2>1. Sum(balance, N) + pot = 0 /\ pot' = pot
    BY <1>2 DEF IInv, ChipsConserved, pot
  <2>2. CASE over
    <3>1. /\ Cardinality(alive) < 2
          /\ gameOver' = TRUE
          /\ balance' = [s \in Seats |-> balance[s] + (IF s \in alive THEN pot ELSE 0)]
      BY <1>3, <2>2
    <3>2. PICK s \in Seats : end.lives[s] > 0
      BY <1>6, <2>2 DEF GoodEnd
    <3>3. alive \in SUBSET Seats /\ s \in alive
      BY <3>2
    <3> HIDE DEF alive, over
    <3>4. alive = {s}
      <4>1. IsFiniteSet(alive) /\ {s} \subseteq alive /\ Cardinality(alive) \in Nat
        BY <3>3, SeatsAreFinite
      <4>2. Cardinality({s}) = 1
        BY FS_Singleton
      <4>3. Cardinality({s}) <= Cardinality(alive)
            /\ (Cardinality(alive) = Cardinality({s}) => alive = {s})
        BY <4>1, FS_Subset
      <4>4. QED
        BY <3>1, <4>1, <4>2, <4>3
    <3>5. /\ s \in 0 .. N - 1
          /\ \A i \in 0 .. N - 1 : balance[i] \in Int
          /\ balance'[s] = balance[s] + pot
          /\ \A i \in 0 .. N - 1 : i # s => balance'[i] = balance[i]
      <4>1. \A i \in Seats : balance'[i] = balance[i] + (IF i = s THEN pot ELSE 0) /\ balance[i] \in Int
        BY <1>8, <3>1, <3>4
      <4>2. QED
        BY <1>7, <4>1 DEF Seats
    <3>6. pot \in Int
      BY <1>7
    <3>7. Sum(balance', N) = Sum(balance, N) + pot
      BY <1>7, <3>5, <3>6, SumChange
    <3>8. QED
      BY <2>1, <3>1, <3>7 DEF ChipsConserved
  <2>3. CASE ~over
    <3>1. UNCHANGED <<gameOver, balance>>
      BY <1>3, <2>3
    <3>2. QED
      BY <1>2, <2>1, <3>1 DEF ChipsConserved
  <2>4. QED
    BY <2>2, <2>3
<1>15. QED
  BY <1>2, <1>6, <1>10, <1>11, <1>12, <1>13, <1>14 DEF IInv

LEMMA ScheduleKeeps ==
  ASSUME IInv, Schedule
  PROVE  IInv'
<1>1. UNCHANGED <<options, lives, balance, card, deadCard, hasBlock, participants, decisionIndex,
                  pendingTrade, dealerWillGoToDeck, roundOver, gameOver, endGameAck, unanswered,
                  panicked>>
  BY DEF Schedule
<1>2. TypeOK' /\ Due'
  BY DEF Schedule, IInv, TypeOK, Due
<1>3. OffersAreGood' /\ NoKingGoes' /\ DeadHaveDecided' /\ TradesHaveAPartner'
  BY <1>1 DEF IInv, OffersAreGood, NoKingGoes, isDealersTurn, Prev, DeadHaveDecided, TradesHaveAPartner
<1>4. SomebodyLives' /\ ChipsConserved'
  BY <1>1 DEF IInv, SomebodyLives, In, ChipsConserved, pot
<1>5. QED
  BY <1>2, <1>3, <1>4 DEF IInv

LEMMA EndGameKeeps ==
  ASSUME IInv, EndGame
  PROVE  IInv'
<1>1. UNCHANGED <<options, lives, balance, card, deadCard, hasBlock, participants, decisionIndex,
                  pendingTrade, dealerWillGoToDeck, roundOver, gameOver, unanswered, panicked>>
  BY DEF EndGame
<1>2. TypeOK' /\ Due'
  BY DEF EndGame, IInv, TypeOK, Due
<1>3. OffersAreGood' /\ NoKingGoes' /\ DeadHaveDecided' /\ TradesHaveAPartner'
  BY <1>1 DEF IInv, OffersAreGood, NoKingGoes, isDealersTurn, Prev, DeadHaveDecided, TradesHaveAPartner
<1>4. SomebodyLives' /\ ChipsConserved'
  BY <1>1 DEF IInv, SomebodyLives, In, ChipsConserved, pot
<1>5. QED
  BY <1>2, <1>3, <1>4 DEF IInv

\* Who is dealt in again has a life, and a trade that is carried over is the dealer's.
LEMMA NextRoundKeeps ==
  ASSUME IInv, NEW cards \in [ToSet(Rotated) -> Ranks], NextRound(cards)
  PROVE  IInv'
<1>1. /\ pending = "NextRound" /\ pending' = "None"
      /\ participants' = Rotated /\ Len(Rotated) >= 2
      /\ roundOver' = FALSE /\ decisionIndex' = 0 /\ dealerWillGoToDeck' = FALSE
      /\ deadCard' = {} /\ card' = Dealt(cards)
      /\ UNCHANGED <<options, lives, balance, hasBlock, pendingTrade, gameOver, endGameAck, unanswered,
                     panicked>>
  BY DEF NextRound
<1>2. roundOver /\ ~gameOver /\ ~endGameAck /\ decisionIndex = Len(participants)
  BY <1>1 DEF IInv, Due
<1>3. /\ participants \in Seq(Seats) /\ participants # <<>>
      /\ \A a, b \in DOMAIN participants : participants[a] = participants[b] => a = b
      /\ Len(participants) \in Nat
  <2>1. Len(participants) >= 2
    BY DEF IInv, Due
  <2>2. QED
    BY <2>1, Listed DEF IInv
<1> DEFINE l == Append(Tail(participants), Head(participants))
           S == {s \in Seats : lives[s] > 0}
<1>4. /\ l \in Seq(Seats)
      /\ \A a, b \in DOMAIN l : l[a] = l[b] => a = b
  BY <1>3, FirstGoesLast
<1>5. Rotated = Those(l, S)
  BY DEF Rotated
<1> HIDE DEF l
<1>6. /\ Rotated \in Seq(Seats)
      /\ {Rotated[i] : i \in DOMAIN Rotated} = {l[i] : i \in DOMAIN l} \cap S
      /\ \A a, b \in DOMAIN Rotated : Rotated[a] = Rotated[b] => a = b
  <2> HIDE DEF S
  <2> QED
    BY <1>4, <1>5, ThoseAreListed
<1>7. ToSet(Rotated) = {Rotated[i] : i \in DOMAIN Rotated} /\ ToSet(Rotated) \subseteq S
  BY <1>6 DEF ToSet
<1> HIDE DEF S
<1>8. card' \in [Seats -> Ranks \cup {0}]
  <2>1. \A s \in DOMAIN cards : cards[s] \in Ranks
    OBVIOUS
  <2>2. QED
    BY <1>1, <2>1 DEF Dealt
<1>9. TypeOK'
  <2>1. Len(Rotated) \in Nat /\ 0 \in 0 .. Len(Rotated)
    BY <1>6
  <2>2. participants' \in Seq(Seats) /\ IsInjective(participants)'
    BY <1>1, <1>6 DEF IsInjective
  <2>3. decisionIndex' \in 0 .. Len(participants')
    BY <1>1, <2>1
  <2>4. QED
    BY <1>1, <1>8, <2>2, <2>3 DEF IInv, TypeOK
<1>10. Due'
  BY <1>1, <1>2 DEF Due
<1>11. OffersAreGood' /\ NoKingGoes' /\ DeadHaveDecided'
  BY <1>1 DEF OffersAreGood, NoKingGoes, DeadHaveDecided
<1>12. TradesHaveAPartner'
  <2>1. pendingTrade => unanswered
    BY <1>2, <1>3 DEF IInv, TradesHaveAPartner
  <2>2. QED
    BY <1>1, <2>1 DEF IInv, TradesHaveAPartner
<1>13. SomebodyLives'
  <2>1. In' = ToSet(Rotated)
    BY <1>1 DEF In
  <2>2. \A s \in In' : lives'[s] > 0
    BY <1>1, <1>7, <2>1 DEF S
  <2>3. QED
    BY <1>1, <2>2 DEF SomebodyLives
<1>14. ChipsConserved'
  BY <1>1 DEF IInv, ChipsConserved, pot
<1>15. QED
  BY <1>9, <1>10, <1>11, <1>12, <1>13, <1>14 DEF IInv

\* Whoever looks for a participant before the first has been left a trade.
LEMMA PanicKeeps ==
  ASSUME IInv, NEW s \in Seats, AcceptFromNobody(s)
  PROVE  IInv' /\ UNCHANGED <<lives, card, deadCard>>
<1>1. UNCHANGED <<options, lives, balance, card, deadCard, hasBlock, participants, decisionIndex,
                  pendingTrade, dealerWillGoToDeck, roundOver, gameOver, pending, endGameAck, unanswered>>
  BY DEF AcceptFromNobody
<1>2. unanswered /\ panicked' = TRUE
  BY DEF AcceptFromNobody, IInv, TradesHaveAPartner
<1>3. TypeOK' /\ Due'
  BY <1>1, <1>2 DEF IInv, TypeOK, Due
<1>4. OffersAreGood' /\ NoKingGoes' /\ DeadHaveDecided' /\ TradesHaveAPartner'
  BY <1>1, <1>2 DEF IInv, OffersAreGood, NoKingGoes, isDealersTurn, Prev, DeadHaveDecided, TradesHaveAPartner
<1>5. SomebodyLives' /\ ChipsConserved'
  BY <1>1 DEF IInv, SomebodyLives, In, ChipsConserved, pot
<1>6. QED
  BY <1>1, <1>3, <1>4, <1>5 DEF IInv

LEMMA StepKeeps == IInv /\ [Next]_vars => IInv'
<1> SUFFICES ASSUME IInv, [Next]_vars PROVE IInv'
  OBVIOUS
<1>1. CASE UNCHANGED vars
  <2>1. TypeOK' /\ Due'
    BY <1>1 DEF vars, IInv, TypeOK, Due
  <2>2. OffersAreGood' /\ NoKingGoes' /\ DeadHaveDecided' /\ TradesHaveAPartner'
    BY <1>1 DEF vars, IInv, OffersAreGood, NoKingGoes, isDealersTurn, Prev, DeadHaveDecided,
                TradesHaveAPartner
  <2>3. SomebodyLives' /\ ChipsConserved'
    BY <1>1 DEF vars, IInv, SomebodyLives, In, ChipsConserved, pot
  <2>4. QED
    BY <2>1, <2>2, <2>3 DEF IInv
<1>2. ASSUME ~panicked, NEW s \in Seats,
             Stay(s) \/ FlipKing(s) \/ BlockTrade(s) \/ GoToDeck(s) \/ Trade(s) \/ Accept(s)
      PROVE  IInv'
  BY <1>2, StayKeeps, FlipKingKeeps, BlockTradeKeeps, GoToDeckKeeps, TradeKeeps, AcceptKeeps
<1>3. ASSUME ~panicked, NEW s \in Seats, NEW rank \in Ranks, DrawFromDeck(s, rank)
      PROVE  IInv'
  BY <1>3, DrawFromDeckKeeps
<1>4. ASSUME NEW cards \in [ToSet(Rotated) -> Ranks], NextRound(cards)
      PROVE  IInv'
  BY <1>4, NextRoundKeeps
<1>5. CASE EndRound \/ Schedule \/ EndGame
  BY <1>5, EndRoundKeeps, ScheduleKeeps, EndGameKeeps
<1>6. ASSUME NEW s \in Seats, AcceptFromNobody(s)
      PROVE  IInv'
  BY <1>6, PanicKeeps
<1>7. QED
  BY <1>1, <1>2, <1>3, <1>4, <1>5, <1>6 DEF Next, Tick, Action

-----------------------------------------------------------------------------
(* The theorems.                                                           *)

\* The inductive invariant: types, what is due, who offers his card, who goes to the
\* deck, who has a life, and the chips (game.go, participant.go, the editions).
THEOREM Invariance == Spec => []IInv
<1>1. QED
  BY InitKeeps, StepKeeps, PTL DEF Spec

\* A trade that waits for an answer has a partner, and the round goes on until it is
\* answered, unless the dealer goes to the deck with it pending: that one is left to the
\* next round, which does not reset it, and only on that one Accept can read
\* participants[-1].
THEOREM TradesPaired == Spec => []TradesHaveAPartner
<1>1. IInv => TradesHaveAPartner
  BY DEF IInv
<1>2. QED
  BY <1>1, Invariance, PTL

\* Between two deals a king stays where it was dealt (Trade, GoToDeck and Accept, which
\* read the cards at different times), whatever players try.
THEOREM KingsStay == Spec => KingsAreKept
<1> DEFINE kept == \A s \in Seats : card[s] = King /\ pending # "NextRound" => card'[s] = King
<1>1. IInv /\ [Next]_vars => [kept]_vars
  <2> SUFFICES ASSUME IInv, Next PROVE kept
    OBVIOUS
  <2>1. ASSUME NEW s \in Seats, Stay(s) \/ FlipKing(s) \/ BlockTrade(s) \/ GoToDeck(s) \/ Trade(s)
        PROVE  kept
    BY <2>1 DEF Stay, FlipKing, BlockTrade, GoToDeck, Trade
  <2>2. ASSUME ~panicked, NEW s \in Seats, Accept(s)
        PROVE  kept
    BY <2>2, AcceptKeeps
  <2>3. ASSUME ~panicked, NEW s \in Seats, NEW rank \in Ranks, DrawFromDeck(s, rank)
        PROVE  kept
    BY <2>3, DrawFromDeckKeeps
  <2>4. CASE EndRound \/ Schedule \/ EndGame
    <3>1. card' = card
      BY <2>4, Zenon DEF EndRound, Schedule, EndGame
    <3>2. QED
      BY <3>1
  <2>5. ASSUME NEW cards \in [ToSet(Rotated) -> Ranks], NextRound(cards)
        PROVE  kept
    BY <2>5 DEF NextRound
  <2>6. ASSUME NEW s \in Seats, AcceptFromNobody(s)
        PROVE  kept
    BY <2>6, PanicKeeps
  <2>7. QED
    BY <2>1, <2>2, <2>3, <2>4, <2>5, <2>6 DEF Next, Tick, Action
<1>2. QED
  BY <1>1, Invariance, PTL DEF Spec, KingsAreKept

\* Who was passed an ace has paid for it: no later step of the round takes another life
\* (ParticipantWasPassed, DiarrheaEdition.EndRound).
THEOREM AcesCostOnce == Spec => AcesCostOneLife
<1> DEFINE once == \A s \in deadCard : options.edition = "Diarrhea" /\ ~roundOver => lives'[s] >= lives[s]
<1>1. IInv /\ [Next]_vars => [once]_vars
  <2> SUFFICES ASSUME IInv, Next PROVE once
    OBVIOUS
  <2>1. \A s \in deadCard : lives[s] \in Nat
    BY OptionsOf DEF IInv, TypeOK
  <2>2. ASSUME \A s \in deadCard : lives'[s] = lives[s]
        PROVE  once
    BY <2>1, <2>2
  <2>3. ASSUME ~panicked, NEW s \in Seats,
             Stay(s) \/ FlipKing(s) \/ BlockTrade(s) \/ GoToDeck(s) \/ Trade(s) \/ Accept(s)
        PROVE  once
    BY <2>2, <2>3, StayKeeps, FlipKingKeeps, BlockTradeKeeps, GoToDeckKeeps, TradeKeeps, AcceptKeeps
  <2>4. ASSUME ~panicked, NEW s \in Seats, NEW rank \in Ranks, DrawFromDeck(s, rank)
        PROVE  once
    BY <2>2, <2>4, DrawFromDeckKeeps
  <2>5. CASE EndRound
    BY <2>5, EndRoundKeeps
  <2>6. CASE Schedule \/ EndGame
    BY <2>2, <2>6 DEF Schedule, EndGame
  <2>7. ASSUME NEW cards \in [ToSet(Rotated) -> Ranks], NextRound(cards)
        PROVE  once
    BY <2>2, <2>7 DEF NextRound
  <2>8. ASSUME NEW s \in Seats, AcceptFromNobody(s)
        PROVE  once
    BY <2>2, <2>8, PanicKeeps
  <2>9. QED
    BY <2>3, <2>4, <2>5, <2>6, <2>7, <2>8 DEF Next, Tick, Action
<1>2. QED
  BY <1>1, Invariance, PTL DEF Spec, AcesCostOneLife

LEMMA SameSum ==
  ASSUME NEW f, NEW n
  PROVE  Game!Sum(f, n) = Sum(f, n)
BY Zenon DEF Game!Sum, Sum

\* The abstract specification of a game, its promise to move on aside
\* (playable.Playable): in every edition one player takes what all have anted, before
\* the game says it is over, and nothing moves afterwards.
THEOREM KeepsTheContract == Spec => Game!SafeSpec
<1>1. IInv => Game!Balanced
  <2> SUFFICES ASSUME IInv PROVE Game!Balanced
    OBVIOUS
  <2>1. pot \in Nat
    BY Bounds, OptionsOf DEF IInv, TypeOK, pot
  <2>2. Sum(balance, N) + (IF gameOver THEN 0 ELSE pot) = 0
    BY DEF IInv, ChipsConserved
  <2>3. QED
    BY <2>1, <2>2, SameSum DEF Game!Balanced
<1>2. Init => Game!Init
  <2> SUFFICES ASSUME Init PROVE Game!Init
    OBVIOUS
  <2>1. Game!Balanced
    BY <1>1, InitKeeps
  <2>2. ~endGameAck
    BY DEF Init
  <2>3. QED
    BY <2>1, <2>2 DEF Game!Init, status
<1>3. IInv /\ IInv' /\ [Next]_vars => [Game!Next]_(Game!vars)
  <2> SUFFICES ASSUME IInv, IInv', [Next]_vars PROVE [Game!Next]_(Game!vars)
    OBVIOUS
  <2>1. Game!Balanced /\ Game!Balanced'
    BY <1>1, PTL
  <2>2. CASE UNCHANGED vars
    BY <2>2 DEF vars, Game!vars, pot, status
  <2>3. CASE Next /\ endGameAck
    <3>1. gameOver
      BY <2>3 DEF IInv, Due
    <3>2. EndGame
      <4>1. ASSUME NEW s \in Seats PROVE ~Turn(s)
        BY <2>3, <4>1, OnTurn
      <4>2. ~EndRound /\ ~Schedule /\ \A cards : ~NextRound(cards)
        BY <2>3, <3>1 DEF EndRound, Schedule, NextRound, IInv, Due
      <4>3. QED
        BY <2>3, <4>1, <4>2 DEF Next, Tick, Action, Stay, GoToDeck, DrawFromDeck, Trade, Accept,
                                AcceptFromNobody, FlipKing, BlockTrade
    <3>3. QED
      BY <2>3, <3>2 DEF EndGame, Game!vars, pot, status
  <2>4. CASE Next /\ ~endGameAck /\ endGameAck'
    <3>1. gameOver'
      BY <2>4 DEF IInv, Due
    <3>2. QED
      BY <2>1, <2>4, <3>1 DEF Game!Next, Game!End, status
  <2>5. CASE Next /\ ~endGameAck /\ ~endGameAck'
    BY <2>1, <2>5 DEF Game!Next, Game!Move, status
  <2>6. QED
    BY <2>2, <2>3, <2>4, <2>5
<1>4. QED
  BY <1>2, <1>3, Invariance, PTL DEF Spec, Game!SafeSpec
=============================================================================
