----------------------------- MODULE PotsProofs -----------------------------
(***************************************************************************)
(* What the operations of Pots.tla return, one by one; the pots and who is *)
(* paid from them; "Playing", the invariant of a hand whoever calls the    *)
(* manager, which every operation keeps; last, whole chips.                *)
(***************************************************************************)
EXTENDS Pots, SumProofs, FiniteSetTheorems

-----------------------------------------------------------------------------
(***************************************************************************)
(* The operations of the pot manager.                                      *)
(***************************************************************************)

\* What is assumed of the constants, and what follows for the seats.
LEMMA Constants ==
  /\ N \in Nat /\ N >= 2 /\ Ante \in Nat
  /\ SmallBlind \in Nat /\ BigBlind \in Nat /\ SmallBlind <= BigBlind
  /\ Chip \in Nat \ {0}
BY PotsAssumption

-----------------------------------------------------------------------------
(* Seats and turns.                                                        *)

\* The seat that is i places after the start, without the remainder.
LEMMA SeatAtValue ==
  ASSUME NEW start \in Seats, NEW i \in 0 .. N - 1
  PROVE  (start + i) % N = IF start + i < N THEN start + i ELSE (start + i) - N
<1> DEFINE x == start + i
<1>1. N \in Nat \ {0} /\ x \in Int /\ 0 <= x /\ x < 2 * N
  BY Constants DEF Seats
<1> HIDE DEF x
<1>2. ASSUME x < N PROVE x % N = x
  BY <1>1, <1>2
<1>3. ASSUME N <= x PROVE x % N = x - N
  BY <1>1, <1>3, ModOnce
<1>4. x % N = IF x < N THEN x ELSE x - N
  BY <1>1, <1>2, <1>3
<1>5. QED
  BY <1>4, Zenon DEF x

-----------------------------------------------------------------------------
(* Sorting.                                                                *)

\* Sorted lists the elements of the set in increasing order.
LEMMA SortedIsIncreasing ==
  ASSUME NEW S \in SUBSET Nat, IsFiniteSet(S)
  PROVE  Increasing(Sorted(S), S, Cardinality(S))
BY SortedExists, Zenon DEF Sorted, Increasing

-----------------------------------------------------------------------------
(* Turns.                                                                  *)

\* Seats are naturals, and a seat reached from another is a seat.
LEMMA SeatsAreNat ==
  Seats \subseteq Nat /\ 0 \in Seats /\ 1 \in Seats
BY Constants DEF Seats

\* A seat reached from another is a seat.
LEMMA SeatAtIsSeat ==
  ASSUME NEW mgr \in PotState, NEW i \in 0 .. N - 1
  PROVE  SeatAt(mgr, i) \in Seats
<1>1. mgr.actionStartIndex \in Seats
  BY DEF PotState
<1>2. SeatAt(mgr, i) = IF mgr.actionStartIndex + i < N THEN mgr.actionStartIndex + i
                      ELSE (mgr.actionStartIndex + i) - N
  BY <1>1, SeatAtValue DEF SeatAt
<1>3. mgr.actionStartIndex \in 0 .. N - 1 /\ N \in Nat
  BY <1>1, Constants DEF Seats
<1>4. QED
  BY <1>2, <1>3 DEF Seats

\* The start itself is no place away from it.
LEMMA SeatAtStart ==
  ASSUME NEW mgr \in PotState
  PROVE  SeatAt(mgr, 0) = mgr.actionStartIndex
<1>1. mgr.actionStartIndex \in Seats /\ N \in Nat /\ 0 \in 0 .. N - 1
  BY Constants DEF PotState
<1>2. (mgr.actionStartIndex + 0) % N = mgr.actionStartIndex
  <2>1. mgr.actionStartIndex + 0 = mgr.actionStartIndex /\ mgr.actionStartIndex < N
    BY <1>1 DEF Seats
  <2>2. QED
    BY <1>1, <2>1, SeatAtValue
<1>3. QED
  BY <1>2 DEF SeatAt

\* Every seat is reached from the start.
LEMMA SeatAtReachesAll ==
  ASSUME NEW mgr \in PotState, NEW s \in Seats
  PROVE  \E i \in 0 .. N - 1 : SeatAt(mgr, i) = s
<1> DEFINE start == mgr.actionStartIndex
           i == IF s >= start THEN s - start ELSE (s - start) + N
<1>1. start \in Seats /\ N \in Nat
  BY Constants DEF PotState
<1>2. i \in 0 .. N - 1 /\ start + i \in Int
      /\ s = IF start + i < N THEN start + i ELSE (start + i) - N
  BY <1>1 DEF Seats
<1> HIDE DEF i
<1>3. (start + i) % N = IF start + i < N THEN start + i ELSE (start + i) - N
  BY <1>1, <1>2, SeatAtValue
<1>4. QED
  BY <1>2, <1>3 DEF SeatAt

\* completeTurn moves on to the nearest seat ahead that may act; when there is
\* none it closes the round.
LEMMA CompleteTurnFields ==
  ASSUME NEW mgr \in PotState
  PROVE  LET q == CompleteTurn(mgr) IN
         /\ q \in PotState
         /\ q.balance = mgr.balance /\ q.inPlay = mgr.inPlay
         /\ q.allIn = mgr.allIn /\ q.folded = mgr.folded /\ q.pots = mgr.pots
         /\ q.actionStartIndex = mgr.actionStartIndex
         /\ q.actionAmount = mgr.actionAmount /\ q.amountInPlay = mgr.amountInPlay
         /\ q.isGameOver = mgr.isGameOver /\ q.inDecisionRound = mgr.inDecisionRound
         /\ \/ /\ q.actionAtIndex \in mgr.actionAtIndex + 1 .. N - 1
               /\ MayAct(mgr, SeatAt(mgr, q.actionAtIndex))
               /\ q.needsPotCalculation = mgr.needsPotCalculation
            \/ /\ q.actionAtIndex = N
               /\ q.needsPotCalculation
         /\ \A i \in mgr.actionAtIndex + 1 .. N - 1 :
               i < q.actionAtIndex => ~MayAct(mgr, SeatAt(mgr, i))
<1> DEFINE ahead == {i \in mgr.actionAtIndex + 1 .. N - 1 : MayAct(mgr, SeatAt(mgr, i))}
           q == CompleteTurn(mgr)
<1>1. mgr.actionAtIndex \in 0 .. N /\ N \in Nat
  BY Constants DEF PotState
<1>2. CASE ahead # {}
  <2>1. ahead \in SUBSET Nat
    BY <1>1
  <2>2. Least(ahead) \in ahead /\ \A i \in ahead : Least(ahead) <= i
    <3> HIDE DEF ahead
    <3> QED
      BY <1>2, <2>1, LeastIsLeast
  <2>3. q = [mgr EXCEPT !.actionAtIndex = Least(ahead)]
    BY <1>2 DEF CompleteTurn
  <2> DEFINE least == Least(ahead)
  <2>4. least \in mgr.actionAtIndex + 1 .. N - 1 /\ MayAct(mgr, SeatAt(mgr, least))
    BY <2>2
  <2>5. \A i \in mgr.actionAtIndex + 1 .. N - 1 : i < least => ~MayAct(mgr, SeatAt(mgr, i))
    BY <1>1, <2>2, <2>4
  <2> HIDE DEF least
  <2>6. least \in 0 .. N
    BY <1>1, <2>4
  <2>7. q \in PotState
    BY <2>3, <2>6 DEF PotState, least
  <2> HIDE DEF ahead, q
  <2>8. q.actionAtIndex = least /\ q.needsPotCalculation = mgr.needsPotCalculation
    BY <2>3 DEF PotState, least
  <2>9. /\ q.balance = mgr.balance /\ q.inPlay = mgr.inPlay
        /\ q.allIn = mgr.allIn /\ q.folded = mgr.folded /\ q.pots = mgr.pots
        /\ q.actionStartIndex = mgr.actionStartIndex
        /\ q.actionAmount = mgr.actionAmount /\ q.amountInPlay = mgr.amountInPlay
        /\ q.isGameOver = mgr.isGameOver /\ q.inDecisionRound = mgr.inDecisionRound
    BY <2>3 DEF PotState
  <2>10. QED
    BY <2>4, <2>5, <2>7, <2>8, <2>9 DEF q
<1>3. CASE ahead = {}
  <2>1. q = [mgr EXCEPT !.actionAtIndex = N, !.needsPotCalculation = TRUE]
    BY <1>3 DEF CompleteTurn
  <2>2. \A i \in mgr.actionAtIndex + 1 .. N - 1 : ~MayAct(mgr, SeatAt(mgr, i))
    BY <1>3
  <2> HIDE DEF ahead, q
  <2>3. N \in 0 .. N
    BY <1>1
  <2>4. q \in PotState
    BY <2>3, <2>1 DEF PotState
  <2>5. q.actionAtIndex = N /\ q.needsPotCalculation
    BY <2>1 DEF PotState
  <2>6. /\ q.balance = mgr.balance /\ q.inPlay = mgr.inPlay
        /\ q.allIn = mgr.allIn /\ q.folded = mgr.folded /\ q.pots = mgr.pots
        /\ q.actionStartIndex = mgr.actionStartIndex
        /\ q.actionAmount = mgr.actionAmount /\ q.amountInPlay = mgr.amountInPlay
        /\ q.isGameOver = mgr.isGameOver /\ q.inDecisionRound = mgr.inDecisionRound
    BY <2>1 DEF PotState
  <2>7. QED
    BY <2>4, <2>2, <2>5, <2>6 DEF q
<1>4. QED
  BY <1>2, <1>3

\* When those up to the turn are settled, so are, after the turn has moved on,
\* those behind it: whoever it skips cannot act.
LEMMA CompleteTurnSettles ==
  ASSUME NEW mgr \in PotState, mgr.actionAtIndex < N, NEW who,
         \A i \in 0 .. mgr.actionAtIndex :
           CanAct(mgr, SeatAt(mgr, i)) =>
             SeatAt(mgr, i) \in who /\ mgr.inPlay[SeatAt(mgr, i)] = mgr.actionAmount
  PROVE  LET q == CompleteTurn(mgr) IN
         \A i \in 0 .. q.actionAtIndex - 1 :
           CanAct(q, SeatAt(q, i)) =>
             SeatAt(q, i) \in who /\ q.inPlay[SeatAt(q, i)] = q.actionAmount
<1> DEFINE q == CompleteTurn(mgr)
<1>1. /\ q.inPlay = mgr.inPlay /\ q.allIn = mgr.allIn /\ q.folded = mgr.folded
      /\ q.actionStartIndex = mgr.actionStartIndex /\ q.actionAmount = mgr.actionAmount
      /\ q.actionAtIndex \in 0 .. N
      /\ \A i \in mgr.actionAtIndex + 1 .. N - 1 :
           i < q.actionAtIndex => ~MayAct(mgr, SeatAt(mgr, i))
  BY CompleteTurnFields DEF PotState
<1>2. mgr.actionAtIndex \in 0 .. N - 1 /\ N \in Nat
  BY Constants DEF PotState
<1> HIDE DEF q
<1>3. ASSUME NEW i \in 0 .. q.actionAtIndex - 1, CanAct(q, SeatAt(q, i))
      PROVE  SeatAt(q, i) \in who /\ q.inPlay[SeatAt(q, i)] = q.actionAmount
  <2>1. SeatAt(q, i) = SeatAt(mgr, i) /\ CanAct(mgr, SeatAt(mgr, i))
    BY <1>1, <1>3 DEF SeatAt, CanAct
  <2>2. CASE i <= mgr.actionAtIndex
    <3>1. i \in 0 .. mgr.actionAtIndex
      BY <1>1, <1>2, <2>2
    <3>2. QED
      BY <1>1, <2>1, <3>1
  <2>3. CASE mgr.actionAtIndex < i
    <3>1. i \in mgr.actionAtIndex + 1 .. N - 1 /\ i < q.actionAtIndex
      BY <1>1, <1>2, <2>3
    <3>2. ~MayAct(mgr, SeatAt(mgr, i))
      BY <1>1, <3>1
    <3>3. QED
      BY <2>1, <3>2 DEF MayAct, CanAct
  <2>4. QED
    BY <1>1, <1>2, <2>2, <2>3
<1>4. QED
  BY <1>3 DEF q

-----------------------------------------------------------------------------
(* Payments.                                                               *)

\* adjustParticipant moves what is due, or all that is left, from the balance of
\* one participant into play.
LEMMA AdjustFields ==
  ASSUME NEW mgr \in PotState, NEW s \in Seats, NEW to \in Nat, mgr.inPlay[s] <= to
  PROVE  LET q    == Adjust(mgr, s, to)
             due  == to - mgr.inPlay[s]
             paid == IF due >= mgr.balance[s] THEN mgr.balance[s] ELSE due
         IN
         /\ paid \in Nat
         /\ q \in PotState
         /\ q.balance = [mgr.balance EXCEPT ![s] = @ - paid]
         /\ q.inPlay = [mgr.inPlay EXCEPT ![s] = @ + paid]
         /\ q.amountInPlay = mgr.amountInPlay + paid
         /\ q.allIn = [mgr.allIn EXCEPT ![s] = @ \/ due >= mgr.balance[s]]
<1> DEFINE q    == Adjust(mgr, s, to)
           due  == to - mgr.inPlay[s]
           paid == IF due >= mgr.balance[s] THEN mgr.balance[s] ELSE due
           out  == due >= mgr.balance[s]
<1>1. /\ mgr.balance \in [Seats -> Nat] /\ mgr.inPlay \in [Seats -> Int]
      /\ mgr.allIn \in [Seats -> BOOLEAN] /\ mgr.amountInPlay \in Nat
      /\ mgr.balance[s] \in Nat /\ mgr.inPlay[s] \in Int
  BY DEF PotState
<1>2. paid \in Nat /\ mgr.balance[s] - paid \in Nat /\ mgr.inPlay[s] + paid \in Int
  BY <1>1
<1>3. q = [mgr EXCEPT !.allIn[s] = @ \/ out, !.inPlay[s] = @ + paid,
                     !.balance[s] = @ - paid, !.amountInPlay = @ + paid]
  BY Zenon DEF Adjust
<1>4. out \in BOOLEAN
  OBVIOUS
<1> HIDE DEF q, paid, out
<1>5. /\ q.balance = [mgr.balance EXCEPT ![s] = @ - paid]
      /\ q.inPlay = [mgr.inPlay EXCEPT ![s] = @ + paid]
      /\ q.amountInPlay = mgr.amountInPlay + paid
      /\ q.allIn = [mgr.allIn EXCEPT ![s] = @ \/ out]
  BY <1>3 DEF PotState
<1>6. /\ [mgr.balance EXCEPT ![s] = @ - paid] \in [Seats -> Nat]
      /\ [mgr.inPlay EXCEPT ![s] = @ + paid] \in [Seats -> Int]
      /\ mgr.amountInPlay + paid \in Nat
  BY <1>1, <1>2
<1>7. [mgr.allIn EXCEPT ![s] = @ \/ out] \in [Seats -> BOOLEAN]
  BY <1>4, <1>1
<1>8. q \in PotState
  BY <1>3, <1>6, <1>7 DEF PotState
<1>9. QED
  BY <1>2, <1>5, <1>8 DEF q, paid, out

\* The fields a payment leaves alone.
LEMMA AdjustKeeps ==
  ASSUME NEW mgr \in PotState, NEW s \in Seats, NEW to \in Nat, mgr.inPlay[s] <= to,
         NEW q, q = Adjust(mgr, s, to)
  PROVE  /\ q \in PotState
         /\ q.folded = mgr.folded /\ q.pots = mgr.pots
         /\ q.actionStartIndex = mgr.actionStartIndex /\ q.actionAtIndex = mgr.actionAtIndex
         /\ q.actionAmount = mgr.actionAmount
         /\ q.needsPotCalculation = mgr.needsPotCalculation
         /\ q.isGameOver = mgr.isGameOver /\ q.inDecisionRound = mgr.inDecisionRound
<1> DEFINE due  == to - mgr.inPlay[s]
           paid == IF due >= mgr.balance[s] THEN mgr.balance[s] ELSE due
           out  == due >= mgr.balance[s]
<1>1. q = [mgr EXCEPT !.allIn[s] = @ \/ out, !.inPlay[s] = @ + paid,
                     !.balance[s] = @ - paid, !.amountInPlay = @ + paid]
  BY Zenon DEF Adjust
<1>2. q \in PotState
  <2> DEFINE a == Adjust(mgr, s, to)
  <2>1. a \in PotState
    BY AdjustFields
  <2> HIDE DEF a
  <2>2. QED
    BY <2>1 DEF a
<1> HIDE DEF paid, out
<1>3. QED
  BY <1>1, <1>2 DEF PotState

\* The same in terms of what was paid: it leaves the balance of the one and enters
\* the bets, and who is not all-in afterwards has paid all that was due.
LEMMA AdjustMoves ==
  ASSUME NEW mgr \in PotState, NEW s \in Seats, NEW to \in Nat, mgr.inPlay[s] <= to
  PROVE  LET q == Adjust(mgr, s, to) IN
         \E paid \in Nat :
           /\ SumSeats(q.balance) = SumSeats(mgr.balance) - paid
           /\ SumSeats(q.inPlay) = SumSeats(mgr.inPlay) + paid
           /\ q.amountInPlay = mgr.amountInPlay + paid
           /\ mgr.inPlay[s] <= q.inPlay[s] /\ q.inPlay[s] <= to
           /\ \A t \in Seats : q.balance[t] <= mgr.balance[t]
           /\ \A t \in Seats \ {s} : /\ q.inPlay[t] = mgr.inPlay[t]
                                     /\ q.balance[t] = mgr.balance[t]
                                     /\ q.allIn[t] = mgr.allIn[t]
           /\ ~q.allIn[s] => q.inPlay[s] = to
           /\ to - mgr.inPlay[s] < mgr.balance[s] => q.allIn[s] = mgr.allIn[s]
<1> DEFINE q    == Adjust(mgr, s, to)
           due  == to - mgr.inPlay[s]
           paid == IF due >= mgr.balance[s] THEN mgr.balance[s] ELSE due
           out  == due >= mgr.balance[s]
<1>1. /\ paid \in Nat
      /\ q.balance = [mgr.balance EXCEPT ![s] = @ - paid]
      /\ q.inPlay = [mgr.inPlay EXCEPT ![s] = @ + paid]
      /\ q.amountInPlay = mgr.amountInPlay + paid
      /\ q.allIn = [mgr.allIn EXCEPT ![s] = @ \/ out]
  BY AdjustFields
<1>2. /\ N \in Nat /\ Seats = 0 .. N - 1
      /\ mgr.balance \in [Seats -> Nat] /\ mgr.inPlay \in [Seats -> Int]
      /\ mgr.allIn \in [Seats -> BOOLEAN]
  BY Constants DEF PotState, Seats
<1>3. /\ mgr.balance[s] \in Nat /\ mgr.inPlay[s] \in Int
      /\ paid <= mgr.balance[s] /\ paid <= due /\ due \in Int
      /\ ~out => paid = due
  BY <1>2
<1>4. out <=> ~(due < mgr.balance[s])
  BY <1>3
<1> HIDE DEF q, paid, out
<1>5. /\ q.balance[s] = mgr.balance[s] - paid
      /\ q.inPlay[s] = mgr.inPlay[s] + paid
      /\ \A t \in Seats \ {s} : q.inPlay[t] = mgr.inPlay[t] /\ q.balance[t] = mgr.balance[t]
  BY <1>1, <1>2
<1>6. /\ q.allIn[s] = (mgr.allIn[s] \/ out)
      /\ \A t \in Seats \ {s} : q.allIn[t] = mgr.allIn[t]
  BY <1>1, <1>2
<1>7. SumSeats(q.balance) = SumSeats(mgr.balance) - paid
  <2>1. \A i \in 0 .. N - 1 : mgr.balance[i] \in Int
    BY <1>2
  <2> DEFINE d == -paid
  <2>2. s \in 0 .. N - 1 /\ q.balance[s] = mgr.balance[s] + d /\ d \in Int
    BY <1>1, <1>2, <1>3, <1>5
  <2> HIDE DEF d
  <2>3. \A i \in 0 .. N - 1 : i # s => q.balance[i] = mgr.balance[i]
    BY <1>2, <1>5
  <2>4. Sum(q.balance, N) = Sum(mgr.balance, N) + d
    <3>1. N \in Nat
      BY <1>2
    <3>2. QED
      BY <3>1, <2>1, <2>2, <2>3, SumChange
  <2>5. SumSeats(mgr.balance) \in Int
    BY <1>2, <2>1, SumInt DEF SumSeats
  <2>6. QED
    BY <1>1, <2>4, <2>5 DEF d, SumSeats
<1>8. SumSeats(q.inPlay) = SumSeats(mgr.inPlay) + paid
  <2>1. \A i \in 0 .. N - 1 : mgr.inPlay[i] \in Int
    BY <1>2
  <2>2. s \in 0 .. N - 1 /\ paid \in Int
    BY <1>1, <1>2
  <2>3. \A i \in 0 .. N - 1 : i # s => q.inPlay[i] = mgr.inPlay[i]
    BY <1>2, <1>5
  <2>4. QED
    BY <1>2, <1>5, <2>1, <2>2, <2>3, SumChange DEF SumSeats
<1>9. mgr.inPlay[s] <= q.inPlay[s] /\ q.inPlay[s] <= to
  BY <1>1, <1>3, <1>5
<1>10. \A t \in Seats : q.balance[t] <= mgr.balance[t]
  <2>1. ASSUME NEW t \in Seats
        PROVE  q.balance[t] <= mgr.balance[t]
    <3>1. CASE t = s
      BY <1>1, <1>3, <1>5, <3>1
    <3>2. CASE t # s
      BY <1>2, <1>5, <3>2
    <3>3. QED
      BY <3>1, <3>2
  <2>2. QED
    BY <2>1
<1>11. ~q.allIn[s] => q.inPlay[s] = to
  <2>1. ~q.allIn[s] => ~out
    BY <1>6, Zenon
  <2>2. ~out => q.inPlay[s] = to
    BY <1>3, <1>5
  <2>3. QED
    BY <2>1, <2>2
<1>12. due < mgr.balance[s] => q.allIn[s] = mgr.allIn[s]
  BY <1>2, <1>4, <1>6
<1>13. QED
  BY <1>1, <1>5, <1>6, <1>7, <1>8, <1>9, <1>10, <1>11, <1>12 DEF q

\* reset clears the bets and opens a round on a seat that may act, or none.
LEMMA ResetFields ==
  ASSUME NEW mgr \in PotState
  PROVE  LET q == Reset(mgr) IN
         /\ q \in PotState
         /\ q.balance = mgr.balance /\ q.inPlay = [s \in Seats |-> 0]
         /\ q.allIn = mgr.allIn /\ q.folded = mgr.folded /\ q.pots = mgr.pots
         /\ q.actionAmount = 0 /\ q.amountInPlay = 0
         /\ q.needsPotCalculation = mgr.needsPotCalculation
         /\ q.isGameOver = mgr.isGameOver /\ q.inDecisionRound = mgr.inDecisionRound
         /\ \/ q.actionAtIndex = 0 /\ MayAct(mgr, q.actionStartIndex)
            \/ q.actionAtIndex = N
<1> DEFINE q     == Reset(mgr)
           valid == {s \in Seats : MayAct(mgr, s)}
           open  == \E s, t \in valid : s # t
           start == IF open THEN Least(valid) ELSE 0
           at    == IF open THEN 0 ELSE N
<1>1. q = [mgr EXCEPT !.inPlay           = [s \in Seats |-> 0],
                     !.actionAmount     = 0,
                     !.actionDiffAmount = 0,
                     !.amountInPlay     = 0,
                     !.actionStartIndex = start,
                     !.actionAtIndex    = at]
  BY Zenon DEF Reset
<1>2. start \in Seats /\ at \in 0 .. N /\ ((at = 0 /\ MayAct(mgr, start)) \/ at = N)
  <2>1. CASE open
    <3>1. valid \in SUBSET Nat /\ valid # {}
      BY <2>1, SeatsAreNat
    <3>2. Least(valid) \in valid
      <4> HIDE DEF valid
      <4> QED
        BY <3>1, LeastIsLeast
    <3>3. QED
      BY <2>1, <3>2, Constants
  <2>2. CASE ~open
    BY <2>2, SeatsAreNat, Constants
  <2>3. QED
    BY <2>1, <2>2
<1>3. [s \in Seats |-> 0] \in [Seats -> Int]
  OBVIOUS
<1> HIDE DEF q, start, at
<1>4. q \in PotState
  BY <1>1, <1>2, <1>3 DEF PotState
<1>5. /\ q.balance = mgr.balance /\ q.inPlay = [s \in Seats |-> 0]
      /\ q.allIn = mgr.allIn /\ q.folded = mgr.folded /\ q.pots = mgr.pots
      /\ q.actionAmount = 0 /\ q.amountInPlay = 0
      /\ q.needsPotCalculation = mgr.needsPotCalculation
      /\ q.isGameOver = mgr.isGameOver /\ q.inDecisionRound = mgr.inDecisionRound
      /\ q.actionStartIndex = start /\ q.actionAtIndex = at
  BY <1>1 DEF PotState
<1>6. QED
  BY <1>2, <1>4, <1>5 DEF q

-----------------------------------------------------------------------------
(* Pots.                                                                   *)

\* What PotTotal adds up.
Amounts(pots) == [i \in 0 .. Len(pots) - 1 |-> pots[i + 1].amount]

\* The amounts of a sequence of pots, as PotTotal adds them, are naturals.
LEMMA AmountsAreNat ==
  ASSUME NEW pots \in Seq(Pot)
  PROVE  /\ Len(pots) \in Nat
         /\ \A i \in 0 .. Len(pots) - 1 :
              i + 1 \in 1 .. Len(pots) /\ pots[i + 1] \in Pot /\ Amounts(pots)[i] \in Nat
<1>1. Len(pots) \in Nat /\ \A k \in 1 .. Len(pots) : pots[k] \in Pot
  OBVIOUS
<1>2. ASSUME NEW i \in 0 .. Len(pots) - 1
      PROVE  i + 1 \in 1 .. Len(pots) /\ pots[i + 1] \in Pot /\ Amounts(pots)[i] \in Nat
  <2>1. i + 1 \in 1 .. Len(pots)
    BY <1>1
  <2>2. pots[i + 1] \in Pot
    BY <1>1, <2>1
  <2>3. pots[i + 1].amount \in Nat
    BY <2>2 DEF Pot
  <2>4. QED
    BY <2>1, <2>2, <2>3 DEF Amounts
<1>3. QED
  BY <1>1, <1>2

\* The total of pots that are each worth something or nothing is a natural.
LEMMA PotTotalNat ==
  ASSUME NEW pots \in Seq(Pot)
  PROVE  PotTotal(pots) \in Nat
<1>1. Sum(Amounts(pots), Len(pots)) \in Nat
  BY AmountsAreNat, SumNat
<1>2. QED
  BY <1>1, Zenon DEF PotTotal, Amounts

\* Sequences that agree up to the length of the shorter have totals that agree.
LEMMA PotTotalSame ==
  ASSUME NEW pots \in Seq(Pot), NEW more \in Seq(Pot), Len(pots) <= Len(more),
         \A k \in 1 .. Len(pots) : more[k].amount = pots[k].amount
  PROVE  Sum(Amounts(more), Len(pots)) = PotTotal(pots)
<1>1. ASSUME NEW i \in 0 .. Len(pots) - 1
      PROVE  Amounts(more)[i] = Amounts(pots)[i]
  <2>1. i + 1 \in 1 .. Len(pots) /\ i \in 0 .. Len(more) - 1
    BY AmountsAreNat
  <2>2. QED
    BY <2>1 DEF Amounts
<1>2. Len(pots) \in Nat
  OBVIOUS
<1>3. Sum(Amounts(more), Len(pots)) = Sum(Amounts(pots), Len(pots))
  <2> HIDE DEF Amounts
  <2> QED
    BY <1>1, <1>2, SumSame
<1>4. QED
  BY <1>3, Zenon DEF PotTotal, Amounts

\* The last pot and the pots under it.
LEMMA PotTotalLast ==
  ASSUME NEW pots \in Seq(Pot), pots # <<>>
  PROVE  /\ SubSeq(pots, 1, Len(pots) - 1) \in Seq(Pot)
         /\ Len(SubSeq(pots, 1, Len(pots) - 1)) = Len(pots) - 1
         /\ pots[Len(pots)].amount \in Nat
         /\ PotTotal(pots) =
              PotTotal(SubSeq(pots, 1, Len(pots) - 1)) + pots[Len(pots)].amount
<1> DEFINE under == SubSeq(pots, 1, Len(pots) - 1)
           n     == Len(pots) - 1
<1>1. Len(pots) \in Nat \ {0} /\ n \in Nat /\ n + 1 = Len(pots) /\ n \in 0 .. Len(pots) - 1
  OBVIOUS
<1>2. under \in Seq(Pot) /\ Len(under) = n /\ \A k \in 1 .. n : under[k] = pots[k]
  BY <1>1
<1>3. Sum(Amounts(pots), n) = PotTotal(under)
  <2> HIDE DEF under
  <2> QED
    BY <1>1, <1>2, PotTotalSame
<1>4. Sum(Amounts(pots), n + 1) = Sum(Amounts(pots), n) + Amounts(pots)[n]
  BY <1>1, SumStep
<1>5. Amounts(pots)[n] = pots[Len(pots)].amount
  BY <1>1 DEF Amounts
<1>6. PotTotal(pots) = Sum(Amounts(pots), n + 1)
  BY <1>1, Zenon DEF PotTotal, Amounts
<1>7. pots[Len(pots)].amount \in Nat
  BY <1>1, <1>5, AmountsAreNat
<1>8. QED
  BY <1>2, <1>3, <1>4, <1>5, <1>6, <1>7

\* What the first k pots hold.
UpTo(pots, k) == Sum(Amounts(pots), k)

\* The first k pots are pots of their own.
LEMMA UpToIsTotal ==
  ASSUME NEW pots \in Seq(Pot)
  PROVE  /\ PotTotal(pots) = UpTo(pots, Len(pots))
         /\ \A k \in 0 .. Len(pots) : PotTotal(SubSeq(pots, 1, k)) = UpTo(pots, k)
<1>1. PotTotal(pots) = UpTo(pots, Len(pots))
  BY Zenon DEF PotTotal, Amounts, UpTo
<1>2. ASSUME NEW k \in 0 .. Len(pots)
      PROVE  PotTotal(SubSeq(pots, 1, k)) = UpTo(pots, k)
  <2> DEFINE low == SubSeq(pots, 1, k)
  <2>1. low \in Seq(Pot) /\ Len(low) = k /\ \A i \in 1 .. k : pots[i].amount = low[i].amount
    OBVIOUS
  <2>2. Len(low) <= Len(pots)
    BY <2>1
  <2> HIDE DEF low
  <2>3. Sum(Amounts(pots), Len(low)) = PotTotal(low)
    BY <2>1, <2>2, PotTotalSame
  <2>4. QED
    BY <2>1, <2>3 DEF UpTo, low
<1>3. QED
  BY <1>1, <1>2

\* Pots that hold the same hold as much together.
LEMMA UpToSame ==
  ASSUME NEW pots \in Seq(Pot), NEW more \in Seq(Pot), NEW n \in 0 .. Len(pots), n <= Len(more),
         \A k \in 1 .. n : more[k].amount = pots[k].amount
  PROVE  UpTo(more, n) = UpTo(pots, n)
<1>1. ASSUME NEW i \in 0 .. n - 1
      PROVE  Amounts(more)[i] = Amounts(pots)[i]
  <2>1. i + 1 \in 1 .. n /\ i \in 0 .. Len(pots) - 1 /\ i \in 0 .. Len(more) - 1
    BY AmountsAreNat
  <2>2. QED
    BY <2>1 DEF Amounts
<1>2. n \in Nat
  BY AmountsAreNat
<1> HIDE DEF Amounts
<1>3. QED
  BY <1>1, <1>2, SumSame DEF UpTo

\* Changing the last pot changes the total by as much.
LEMMA PotTotalRaise ==
  ASSUME NEW pots \in Seq(Pot), pots # <<>>, NEW more \in Nat
  PROVE  LET raised == [pots EXCEPT ![Len(pots)].amount = @ + more] IN
         /\ raised \in Seq(Pot) /\ raised # <<>>
         /\ PotTotal(raised) = PotTotal(pots) + more
<1> DEFINE n      == Len(pots)
           top    == [pots[n] EXCEPT !.amount = @ + more]
           raised == [pots EXCEPT ![Len(pots)].amount = @ + more]
<1>1. n \in Nat \ {0} /\ n \in 1 .. Len(pots) /\ pots[n] \in Pot
  OBVIOUS
<1>2. top \in Pot /\ top.amount = pots[n].amount + more
  BY <1>1 DEF Pot
<1>3. raised = [pots EXCEPT ![n] = top]
  BY Zenon
<1> HIDE DEF top, raised
<1>4. raised \in Seq(Pot) /\ Len(raised) = n /\ raised[n] = top
      /\ \A k \in 1 .. n - 1 : raised[k] = pots[k]
  BY <1>1, <1>2, <1>3
<1>5. raised # <<>>
  BY <1>1, <1>4
<1>6. SubSeq(raised, 1, Len(raised) - 1) = SubSeq(pots, 1, Len(pots) - 1)
  BY <1>1, <1>4
<1>7. PotTotal(raised) = PotTotal(SubSeq(pots, 1, n - 1)) + top.amount
  BY <1>4, <1>5, <1>6, PotTotalLast
<1>8. PotTotal(pots) = PotTotal(SubSeq(pots, 1, n - 1)) + pots[n].amount
  BY PotTotalLast
<1>9. PotTotal(SubSeq(pots, 1, n - 1)) \in Nat /\ pots[n].amount \in Nat
  BY PotTotalLast, PotTotalNat
<1>10. QED
  BY <1>2, <1>4, <1>5, <1>7, <1>8, <1>9 DEF raised

\* The open pot is there to collect, and opening it moves no chips.
LEMMA OpenPotsFacts ==
  ASSUME NEW pots \in Seq(Pot), pots # <<>>
  PROVE  /\ OpenPots(pots) \in Seq(Pot) /\ OpenPots(pots) # <<>>
         /\ PotTotal(OpenPots(pots)) = PotTotal(pots)
<1>1. CASE pots[Len(pots)].allIn # {}
  <2> DEFINE q == OpenPots(pots)
  <2>1. q = Append(pots, EmptyPot) /\ EmptyPot \in Pot /\ EmptyPot.amount = 0
    BY <1>1 DEF OpenPots, EmptyPot, Pot
  <2> HIDE DEF q
  <2>2. /\ q \in Seq(Pot) /\ q # <<>> /\ Len(q) = Len(pots) + 1 /\ q[Len(q)] = EmptyPot
        /\ SubSeq(q, 1, Len(q) - 1) = pots
    BY <2>1
  <2>3. PotTotal(q) = PotTotal(pots) + 0
    BY <2>1, <2>2, PotTotalLast
  <2>4. QED
    BY <2>2, <2>3, PotTotalNat DEF q
<1>2. CASE ~(pots[Len(pots)].allIn # {})
  BY <1>2 DEF OpenPots
<1>3. QED
  BY <1>1, <1>2

-----------------------------------------------------------------------------
(* calculatePot.                                                           *)

\* Bets are between nothing and the amount to call.
BetsInRange(mgr) == \A s \in Seats : 0 <= mgr.inPlay[s] /\ mgr.inPlay[s] <= mgr.actionAmount

\* What everybody has put in up to a cap: nothing up to 0, more up to more, and
\* everything up to the amount to call.
LEMMA CappedFacts ==
  ASSUME NEW mgr \in PotState, BetsInRange(mgr)
  PROVE  /\ Capped(mgr, 0) = 0
         /\ Capped(mgr, mgr.actionAmount) = SumSeats(mgr.inPlay)
         /\ \A cap \in Nat : Capped(mgr, cap) \in Nat
         /\ \A cap \in Nat, more \in Nat : cap <= more => Capped(mgr, cap) <= Capped(mgr, more)
<1> DEFINE capped(cap) == [s \in Seats |-> IF mgr.inPlay[s] > cap THEN cap ELSE mgr.inPlay[s]]
<1>1. /\ N \in Nat /\ Seats = 0 .. N - 1 /\ mgr.inPlay \in [Seats -> Int]
      /\ mgr.actionAmount \in Nat /\ \A s \in Seats : mgr.inPlay[s] \in Nat
  BY Constants DEF PotState, Seats, BetsInRange
<1>2. \A cap : Capped(mgr, cap) = Sum(capped(cap), N)
  BY Zenon DEF Capped, SumSeats
<1>3. Sum(capped(0), N) = 0
  <2> DEFINE zero == [s \in 0 .. N - 1 |-> 0]
  <2>1. \A s \in 0 .. N - 1 : capped(0)[s] = zero[s]
    BY <1>1
  <2>2. \A s \in 0 .. N - 1 : zero[s] \in Int /\ zero[s] = zero[s] + zero[s]
    OBVIOUS
  <2> HIDE DEF zero, capped
  <2>3. Sum(zero, N) = Sum(zero, N) + Sum(zero, N) /\ Sum(zero, N) \in Int
    BY <1>1, <2>2, SumInt, SumLinear
  <2>4. Sum(capped(0), N) = Sum(zero, N)
    BY <1>1, <2>1, SumSame
  <2>5. QED
    BY <2>3, <2>4
<1>4. Sum(capped(mgr.actionAmount), N) = Sum(mgr.inPlay, N)
  <2>1. \A s \in 0 .. N - 1 : capped(mgr.actionAmount)[s] = mgr.inPlay[s]
    BY <1>1 DEF BetsInRange
  <2> HIDE DEF capped
  <2>2. QED
    BY <1>1, <2>1, SumSame
<1>5. ASSUME NEW cap \in Nat
      PROVE  Sum(capped(cap), N) \in Nat
  <2>1. \A s \in 0 .. N - 1 : capped(cap)[s] \in Nat
    BY <1>1
  <2> HIDE DEF capped
  <2>2. QED
    BY <1>1, <2>1, SumNat
<1>6. ASSUME NEW cap \in Nat, NEW more \in Nat, cap <= more
      PROVE  Sum(capped(cap), N) <= Sum(capped(more), N)
  <2>1. \A s \in 0 .. N - 1 :
          capped(cap)[s] \in Int /\ capped(more)[s] \in Int /\ capped(cap)[s] <= capped(more)[s]
    BY <1>1, <1>6
  <2> HIDE DEF capped
  <2>2. QED
    BY <1>1, <2>1, SumMonotone
<1> HIDE DEF capped
<1>7. QED
  BY <1>2, <1>3, <1>4, <1>5, <1>6 DEF SumSeats

\* Where the layers are cut.
Cuts(mgr) == AllInAmounts(mgr) \cup {mgr.actionAmount}

\* The cuts can be sorted; the highest is the amount to call.
LEMMA CutsFacts ==
  ASSUME NEW mgr \in PotState, BetsInRange(mgr)
  PROVE  LET c == Cardinality(Cuts(mgr)) IN
         /\ c \in Nat \ {0}
         /\ Increasing(Sorted(Cuts(mgr)), Cuts(mgr), c)
         /\ \A k \in 1 .. c : Sorted(Cuts(mgr))[k] \in Nat
         /\ Sorted(Cuts(mgr))[c] = mgr.actionAmount
<1> DEFINE c == Cardinality(Cuts(mgr))
           level == Sorted(Cuts(mgr))
<1>1. mgr.actionAmount \in Nat /\ mgr.inPlay \in [Seats -> Int]
  BY DEF PotState
<1>2. Cuts(mgr) \subseteq 0 .. mgr.actionAmount
  BY <1>1 DEF Cuts, AllInAmounts, BetsInRange
<1>3. IsFiniteSet(0 .. mgr.actionAmount)
  <2>1. ASSUME NEW top \in Nat
        PROVE  IsFiniteSet(0 .. top)
    <3>1. 0 \in Int /\ top \in Int
      OBVIOUS
    <3>2. QED
      BY <3>1, FS_Interval, Zenon
  <2>2. QED
    BY <1>1, <2>1
<1>4. IsFiniteSet(Cuts(mgr)) /\ Cuts(mgr) \in SUBSET Nat
  BY <1>1, <1>2, <1>3, FS_Subset
<1>5. mgr.actionAmount \in Cuts(mgr)
  BY DEF Cuts
<1>6. c \in Nat \ {0}
  BY <1>4, <1>5, FS_CardinalityType, FS_EmptySet
<1>7. Increasing(level, Cuts(mgr), c)
  BY <1>4, SortedIsIncreasing
<1> HIDE DEF c, level
<1>8. \A k \in 1 .. c : level[k] \in Cuts(mgr)
  BY <1>7 DEF Increasing
<1>9. level[c] = mgr.actionAmount
  <2>1. PICK i \in 1 .. c : level[i] = mgr.actionAmount
    BY <1>5, <1>7 DEF Increasing
  <2>2. c \in 1 .. c /\ level[c] <= mgr.actionAmount
    BY <1>1, <1>2, <1>6, <1>8
  <2>3. CASE i = c
    BY <2>1, <2>3
  <2>4. CASE i # c
    <3>1. level[i] < level[c]
      BY <2>2, <2>4, <1>7 DEF Increasing
    <3>2. level[c] \in Nat
      BY <1>2, <1>8, <2>2
    <3>3. QED
      BY <2>1, <2>2, <3>1, <3>2, <1>1
  <2>5. QED
    BY <2>3, <2>4
<1>10. QED
  BY <1>4, <1>6, <1>7, <1>8, <1>9 DEF c, level

\* Cutting the bets in layers, one on the other, puts every bet in some pot and
\* none in two; and when all the layers make one pot, somebody is all-in on it.
LEMMA LayersAddUp ==
  ASSUME NEW mgr \in PotState, BetsInRange(mgr), mgr.pots # <<>>
  PROVE  LET q     == Layered(mgr)
             pots  == OpenPots(mgr.pots)
             c     == Cardinality(Cuts(mgr))
             level == Sorted(Cuts(mgr))
         IN
         /\ q \in Seq(Pot) /\ q # <<>>
         /\ PotTotal(q) = PotTotal(mgr.pots) + SumSeats(mgr.inPlay)
         /\ Len(q) = 1 /\ AllInAmounts(mgr) # {} => q[1].allIn # {}
         /\ Len(q) = Len(pots) - 1 + c
         /\ \A i \in 1 .. Len(pots) - 1 : q[i] = pots[i]
         /\ \A k \in 1 .. c :
              /\ q[Len(pots) - 1 + k].allIn = AllInFor(mgr, level[k])
              /\ UpTo(q, Len(pots) - 1 + k) = PotTotal(mgr.pots) + Capped(mgr, level[k])
<1> DEFINE pots     == OpenPots(mgr.pots)
           last     == Len(pots)
           cuts     == Cuts(mgr)
           c        == Cardinality(cuts)
           level    == Sorted(cuts)
           under(k) == IF k = 1 THEN 0 ELSE level[k - 1]
           cut(k)   == Capped(mgr, level[k]) - Capped(mgr, under(k))
           layer(k) == [amount |-> cut(k), allIn |-> AllInFor(mgr, level[k])]
           bottom   == [layer(1) EXCEPT !.amount = @ + pots[last].amount]
           q        == Layered(mgr)
<1>1. q = [i \in 1 .. last + c - 1 |->
             IF i < last THEN pots[i]
             ELSE IF i = last THEN bottom ELSE layer(i - last + 1)]
  BY Zenon DEF Layered, Cuts
<1>2. pots \in Seq(Pot) /\ pots # <<>> /\ PotTotal(pots) = PotTotal(mgr.pots)
  BY OpenPotsFacts DEF PotState
<1>3. last \in Nat \ {0} /\ \A i \in 1 .. last : pots[i] \in Pot
  BY <1>2
<1>4. c \in Nat \ {0} /\ \A k \in 1 .. c : level[k] \in Nat
  BY CutsFacts
<1>5. \A i, j \in 1 .. c : i < j => level[i] < level[j]
  BY CutsFacts DEF Increasing
<1>6. \A k \in 1 .. c : under(k) \in Nat /\ under(k) <= level[k]
  <2>1. ASSUME NEW k \in 1 .. c
        PROVE  under(k) \in Nat /\ under(k) <= level[k]
    <3>1. CASE k = 1
      BY <1>4, <3>1
    <3>2. CASE k # 1
      <4>1. k - 1 \in 1 .. c /\ k - 1 < k
        BY <1>4, <3>2
      <4>2. level[k - 1] < level[k] /\ level[k - 1] \in Nat /\ level[k] \in Nat
        BY <1>4, <1>5, <4>1
      <4>3. QED
        BY <3>2, <4>2
    <3>3. QED
      BY <3>1, <3>2
  <2>2. QED
    BY <2>1
<1>7. \A k \in 1 .. c : /\ Capped(mgr, level[k]) \in Nat /\ Capped(mgr, under(k)) \in Nat
                         /\ cut(k) \in Nat
  <2>1. ASSUME NEW k \in 1 .. c
        PROVE  Capped(mgr, level[k]) \in Nat /\ Capped(mgr, under(k)) \in Nat /\ cut(k) \in Nat
    <3>1. under(k) \in Nat /\ level[k] \in Nat /\ under(k) <= level[k]
      BY <1>4, <1>6
    <3> HIDE DEF under, level
    <3>2. /\ Capped(mgr, level[k]) \in Nat /\ Capped(mgr, under(k)) \in Nat
          /\ Capped(mgr, under(k)) <= Capped(mgr, level[k])
      BY <3>1, CappedFacts
    <3>3. QED
      BY <3>2
  <2>2. QED
    BY <2>1
<1>8. \A k \in 1 .. c : layer(k) \in Pot /\ layer(k).amount = cut(k)
  BY <1>7 DEF Pot, AllInFor
<1>9. bottom \in Pot /\ bottom.amount = cut(1) + pots[last].amount
      /\ bottom.allIn = AllInFor(mgr, level[1])
  <2>1. 1 \in 1 .. c /\ pots[last].amount \in Nat
    BY <1>3, <1>4 DEF Pot
  <2>2. cut(1) \in Nat /\ AllInFor(mgr, level[1]) \in SUBSET Seats
    BY <1>7, <2>1 DEF AllInFor
  <2> HIDE DEF cut, level
  <2>3. QED
    BY <2>1, <2>2 DEF Pot
<1> HIDE DEF pots, c, level, cut, layer, bottom
<1>10. /\ q \in Seq(Pot) /\ Len(q) = last + c - 1 /\ q # <<>>
       /\ \A i \in 1 .. last - 1 : q[i] = pots[i]
       /\ q[last] = bottom
       /\ \A k \in 2 .. c : q[last + (k - 1)] = layer(k)
  <2> HIDE DEF last
  <2>1. last + c - 1 \in Nat /\ last + c - 1 >= 1 /\ last \in 1 .. last + c - 1
    BY <1>3, <1>4 DEF last
  <2> DEFINE len == last + c - 1
  <2>2. ASSUME NEW i \in 1 .. len
        PROVE  q[i] \in Pot
    <3>1. CASE i < last
      <4>1. i \in 1 .. last
        BY <3>1, <2>1
      <4>2. QED
        BY <1>1, <1>3, <3>1, <4>1 DEF last
    <3>2. CASE i = last
      BY <1>1, <1>9, <3>2
    <3>3. CASE i > last
      <4>1. i - last + 1 \in 1 .. c
        BY <1>3, <1>4, <3>3 DEF last
      <4>2. q[i] = layer(i - last + 1)
        BY <1>1, <1>3, <3>3 DEF last
      <4>3. QED
        BY <1>8, <4>1, <4>2
    <3>4. QED
      BY <1>3, <3>1, <3>2, <3>3 DEF last
  <2>3. q \in [1 .. len -> Pot]
    BY <1>1, <2>2
  <2> HIDE DEF q
  <2>4. q \in Seq(Pot) /\ Len(q) = len /\ q # <<>>
    BY <2>1, <2>3
  <2>5. ASSUME NEW i \in 1 .. last - 1
        PROVE  q[i] = pots[i]
    <3>1. i \in 1 .. len /\ i < last
      BY <1>3, <1>4 DEF last
    <3>2. QED
      BY <1>1, <3>1
  <2>6. q[last] = bottom
    BY <1>1, <1>3, <2>1 DEF last
  <2>7. ASSUME NEW k \in 2 .. c
        PROVE  q[last + (k - 1)] = layer(k)
    <3> DEFINE i == last + (k - 1)
    <3>1. i \in 1 .. len /\ ~(i < last) /\ i # last /\ i - last + 1 = k
      BY <1>3, <1>4 DEF last
    <3> HIDE DEF i
    <3>2. q[i] = layer(i - last + 1)
      BY <1>1, <3>1
    <3>3. QED
      BY <3>1, <3>2 DEF i
  <2>8. QED
    BY <2>4, <2>5, <2>6, <2>7
<1> HIDE DEF q, last, under, cuts
<1>11. Capped(mgr, level[1]) = cut(1) /\ \A k \in 2 .. c :
         Capped(mgr, level[k]) = Capped(mgr, level[k - 1]) + cut(k)
  <2>1. Capped(mgr, 0) = 0
    BY CappedFacts
  <2>2. 1 \in 1 .. c /\ Capped(mgr, level[1]) \in Nat
    BY <1>4, <1>7
  <2>3. Capped(mgr, level[1]) = cut(1)
    BY <2>1, <2>2 DEF cut, under
  <2>4. ASSUME NEW k \in 2 .. c
        PROVE  Capped(mgr, level[k]) = Capped(mgr, level[k - 1]) + cut(k)
    <3>1. k \in 1 .. c /\ k - 1 \in 1 .. c /\ k # 1
      BY <1>4
    <3>2. Capped(mgr, level[k]) \in Nat /\ Capped(mgr, level[k - 1]) \in Nat
      BY <1>7, <3>1
    <3>3. cut(k) = Capped(mgr, level[k]) - Capped(mgr, level[k - 1])
      BY <3>1 DEF cut, under
    <3>4. QED
      BY <3>2, <3>3
  <2>5. QED
    BY <2>3, <2>4
<1> DEFINE a    == Amounts(q)
           base == last - 1
<1>12. base \in Nat /\ base + 1 = last /\ \A k \in 1 .. c : base + k \in Nat
  BY <1>3, <1>4
<1>13. Sum(a, base) + pots[last].amount = PotTotal(pots)
  <2> DEFINE low == SubSeq(pots, 1, last - 1)
  <2>1. low \in Seq(Pot) /\ PotTotal(pots) = PotTotal(low) + pots[last].amount
    BY <1>2, PotTotalLast DEF last
  <2>2. Len(low) = base /\ \A k \in 1 .. base : low[k] = pots[k]
    BY <1>2, <1>3, <1>12 DEF last
  <2>3. Len(q) >= base
    BY <1>4, <1>10, <1>12
  <2> HIDE DEF low
  <2>4. \A k \in 1 .. Len(low) : q[k].amount = low[k].amount
    BY <1>10, <2>2
  <2>5. Sum(a, Len(low)) = PotTotal(low)
    BY <1>10, <2>1, <2>2, <2>3, <2>4, PotTotalSame
  <2>6. QED
    BY <2>1, <2>2, <2>5
<1>14. a[base] = bottom.amount /\ \A k \in 2 .. c : a[base + (k - 1)] = cut(k)
  <2>1. ASSUME NEW i \in 0 .. Len(q) - 1
        PROVE  a[i] = q[i + 1].amount
    BY DEF Amounts
  <2>2. base \in 0 .. Len(q) - 1
    BY <1>4, <1>10, <1>12
  <2>3. a[base] = bottom.amount
    BY <1>10, <1>12, <2>1, <2>2
  <2>4. ASSUME NEW k \in 2 .. c
        PROVE  a[base + (k - 1)] = cut(k)
    <3>1. /\ base + (k - 1) \in 0 .. Len(q) - 1 /\ base + (k - 1) + 1 = last + (k - 1)
          /\ k \in 1 .. c
      BY <1>4, <1>10, <1>12
    <3>2. q[last + (k - 1)].amount = cut(k)
      BY <1>8, <1>10, <3>1
    <3>3. QED
      BY <2>1, <3>1, <3>2
  <2>5. QED
    BY <2>3, <2>4
<1>15. Sum(a, base) \in Int /\ pots[last].amount \in Nat
  <2>1. \A i \in 0 .. base - 1 : a[i] \in Int
    <3>1. ASSUME NEW i \in 0 .. base - 1
          PROVE  a[i] \in Int
      <4>1. i \in 0 .. Len(q) - 1
        BY <1>4, <1>10, <1>12
      <4>2. QED
        BY <1>10, <4>1, AmountsAreNat
    <3>2. QED
      BY <3>1
  <2>2. QED
    BY <1>2, <1>12, <2>1, SumInt, PotTotalLast DEF last
<1> DEFINE T == {k \in 0 .. c : k # 0 =>
                   Sum(a, base + k) = PotTotal(pots) + Capped(mgr, level[k])}
<1> HIDE DEF a, base
<1>16. 0 \in T
  BY <1>4
<1>17. ASSUME NEW k \in 1 .. c, k - 1 \in T
       PROVE  k \in T
  <2>1. k \in 0 .. c /\ k \in Nat /\ base + (k - 1) \in Nat /\ base + (k - 1) + 1 = base + k
    BY <1>4, <1>12
  <2>2. Sum(a, base + k) = Sum(a, base + (k - 1)) + a[base + (k - 1)]
    <3>1. Sum(a, base + (k - 1) + 1) = Sum(a, base + (k - 1)) + a[base + (k - 1)]
      BY <2>1, SumStep
    <3>2. QED
      BY <2>1, <3>1
  <2>3. PotTotal(pots) \in Nat /\ Capped(mgr, level[k]) \in Nat /\ cut(k) \in Nat
    BY <1>2, <1>7, PotTotalNat
  <2>4. CASE k = 1
    <3>1. Sum(a, base + k) = Sum(a, base) + (cut(1) + pots[last].amount)
      BY <1>9, <1>12, <1>14, <2>2, <2>4
    <3>2. QED
      BY <1>11, <1>13, <1>15, <2>1, <2>3, <2>4, <3>1
  <2>5. CASE k # 1
    <3>1. k \in 2 .. c /\ k - 1 # 0 /\ k - 1 \in 1 .. c
      BY <1>4, <2>5
    <3>2. Sum(a, base + (k - 1)) = PotTotal(pots) + Capped(mgr, level[k - 1])
      BY <1>17, <3>1
    <3>3. a[base + (k - 1)] = cut(k)
      BY <1>14, <3>1
    <3>4. Capped(mgr, level[k]) = Capped(mgr, level[k - 1]) + cut(k)
      BY <1>11, <3>1
    <3>5. Capped(mgr, level[k - 1]) \in Nat
      BY <1>7, <3>1
    <3>6. QED
      BY <2>1, <2>2, <2>3, <3>2, <3>3, <3>4, <3>5
  <2>6. QED
    BY <2>4, <2>5
<1>18. Sum(a, base + c) = PotTotal(pots) + Capped(mgr, level[c])
  <2>1. \A k \in 0 .. c : k \in T
    <3> HIDE DEF T
    <3>1. c \in Nat
      BY <1>4
    <3>2. QED
      BY <1>16, <1>17, <3>1, IntervalInduction
  <2>2. QED
    BY <1>4, <2>1
<1>19. PotTotal(q) = Sum(a, base + c)
  <2>1. base + c = Len(q)
    BY <1>4, <1>10, <1>12
  <2>2. QED
    BY <2>1, Zenon DEF PotTotal, Amounts, a
<1>20. Capped(mgr, level[c]) = SumSeats(mgr.inPlay)
  BY CappedFacts, CutsFacts DEF level, c, cuts
<1>21. ASSUME Len(q) = 1, AllInAmounts(mgr) # {}
       PROVE  q[1].allIn # {}
  <2>1. last = 1 /\ c = 1
    <3>1. last + c - 1 = 1
      BY <1>10, <1>21
    <3>2. last \in Nat \ {0} /\ c \in Nat \ {0}
      BY <1>3, <1>4
    <3>3. QED
      BY <3>1, <3>2
  <2>2. PICK amount \in AllInAmounts(mgr) : TRUE
    BY <1>21
  <2>3. amount \in Cuts(mgr) /\ AllInFor(mgr, amount) # {}
    BY <2>2 DEF Cuts, AllInAmounts
  <2>4. PICK k \in 1 .. c : level[k] = amount
    BY <2>3, CutsFacts DEF Increasing, level, c, cuts
  <2>5. level[1] = amount
    BY <2>1, <2>4
  <2>6. QED
    BY <1>9, <1>10, <2>1, <2>3, <2>5
<1>22. Len(q) = last - 1 + c
  BY <1>3, <1>4, <1>10
<1>23. ASSUME NEW k \in 1 .. c
       PROVE  /\ q[last - 1 + k].allIn = AllInFor(mgr, level[k])
              /\ UpTo(q, last - 1 + k) = PotTotal(pots) + Capped(mgr, level[k])
  <2>1. Sum(a, base + k) = PotTotal(pots) + Capped(mgr, level[k])
    <3>1. k \in T
      <4> HIDE DEF T
      <4>1. c \in Nat /\ k \in 0 .. c
        BY <1>4
      <4>2. QED
        BY <1>16, <1>17, <4>1, IntervalInduction
    <3>2. k # 0
      BY <1>4
    <3>3. QED
      BY <3>1, <3>2
  <2>2. UpTo(q, last - 1 + k) = PotTotal(pots) + Capped(mgr, level[k])
    BY <2>1, Zenon DEF UpTo, a, base
  <2>3. q[last - 1 + k].allIn = AllInFor(mgr, level[k])
    <3>1. CASE k = 1
      <4>1. last - 1 + k = last
        BY <1>3, <3>1
      <4>2. QED
        BY <1>9, <1>10, <3>1, <4>1
    <3>2. CASE k # 1
      <4>1. k \in 2 .. c /\ last - 1 + k = last + (k - 1)
        BY <1>3, <1>4, <3>2
      <4>2. q[last - 1 + k] = layer(k)
        BY <1>10, <4>1
      <4>3. QED
        BY <4>2 DEF layer
    <3>3. QED
      BY <3>1, <3>2
  <2>4. QED
    BY <2>2, <2>3
<1>24. /\ q \in Seq(Pot) /\ q # <<>>
       /\ PotTotal(q) = PotTotal(mgr.pots) + SumSeats(mgr.inPlay)
       /\ \A i \in 1 .. last - 1 : q[i] = pots[i]
       /\ \A k \in 1 .. c :
            /\ q[last - 1 + k].allIn = AllInFor(mgr, level[k])
            /\ UpTo(q, last - 1 + k) = PotTotal(mgr.pots) + Capped(mgr, level[k])
  BY <1>2, <1>10, <1>18, <1>19, <1>20, <1>23
<1>25. QED
  BY <1>21, <1>22, <1>24, Zenon DEF q, last, pots, c, level, cuts

\* What most proofs need of it.
LEMMA LayeredFacts ==
  ASSUME NEW mgr \in PotState, BetsInRange(mgr), mgr.pots # <<>>
  PROVE  LET q == Layered(mgr) IN
         /\ q \in Seq(Pot) /\ q # <<>>
         /\ PotTotal(q) = PotTotal(mgr.pots) + SumSeats(mgr.inPlay)
         /\ Len(q) = 1 /\ AllInAmounts(mgr) # {} => q[1].allIn # {}
BY LayersAddUp, Zenon

\* The fields of the manager that moving bets into pots leaves alone.
SameRound(q, mgr) ==
  /\ q.allIn = mgr.allIn /\ q.folded = mgr.folded
  /\ q.actionStartIndex = mgr.actionStartIndex /\ q.actionAtIndex = mgr.actionAtIndex
  /\ q.actionAmount = mgr.actionAmount /\ q.amountInPlay = mgr.amountInPlay
  /\ q.isGameOver = mgr.isGameOver /\ q.inDecisionRound = mgr.inDecisionRound
  /\ q.needsPotCalculation = mgr.needsPotCalculation

\* What is given back leaves the pots and reaches a balance.
LEMMA RefundFacts ==
  ASSUME NEW mgr \in PotState, NEW pots \in Seq(Pot), pots # <<>>
  PROVE  LET q == Refund(mgr, pots) IN
         /\ q \in PotState /\ SameRound(q, mgr)
         /\ SumSeats(q.balance) + PotTotal(q.pots) = SumSeats(mgr.balance) + PotTotal(pots)
         /\ q.pots = <<>> => Len(pots) = 1 /\ (Live(mgr) # {} => pots[1].allIn = {})
<1> DEFINE q   == Refund(mgr, pots)
           top == pots[Len(pots)].amount
<1>1. /\ SubSeq(pots, 1, Len(pots) - 1) \in Seq(Pot) /\ top \in Nat
      /\ PotTotal(pots) = PotTotal(SubSeq(pots, 1, Len(pots) - 1)) + top
      /\ PotTotal(SubSeq(pots, 1, Len(pots) - 1)) \in Nat
  BY PotTotalLast, PotTotalNat
<1>2. /\ N \in Nat /\ Seats = 0 .. N - 1
      /\ mgr.balance \in [Seats -> Nat] /\ mgr.inPlay \in [Seats -> Int]
  BY Constants DEF PotState, Seats
<1>3. SumSeats(mgr.balance) \in Int
  BY <1>2, SumInt DEF SumSeats
<1>4. CASE \E s \in Seats : TopPotRefundees(mgr, pots) = {s}
  <2> DEFINE s    == CHOOSE t \in Seats : TopPotRefundees(mgr, pots) = {t}
             less == SubSeq(pots, 1, Len(pots) - 1)
  <2>1. s \in Seats /\ TopPotRefundees(mgr, pots) = {s}
    BY <1>4
  <2>2. q = [mgr EXCEPT !.inPlay[s] = @ - top, !.balance[s] = @ + top, !.pots = less]
    BY <1>4, Zenon DEF Refund
  <2> HIDE DEF s, less, top, q
  <2>3. /\ [mgr.inPlay EXCEPT ![s] = @ - top] \in [Seats -> Int]
        /\ [mgr.balance EXCEPT ![s] = @ + top] \in [Seats -> Nat]
    BY <1>1, <1>2, <2>1
  <2>4. q \in PotState /\ SameRound(q, mgr)
    BY <1>1, <2>2, <2>3 DEF PotState, SameRound, less
  <2>5. q.pots = less /\ q.balance = [mgr.balance EXCEPT ![s] = @ + top]
    BY <2>2 DEF PotState
  <2>6. SumSeats(q.balance) = SumSeats(mgr.balance) + top
    <3>1. \A i \in 0 .. N - 1 : mgr.balance[i] \in Int
      BY <1>2
    <3>2. s \in 0 .. N - 1 /\ q.balance[s] = mgr.balance[s] + top /\ top \in Int
      BY <1>1, <1>2, <2>1, <2>5
    <3>3. \A i \in 0 .. N - 1 : i # s => q.balance[i] = mgr.balance[i]
      BY <1>2, <2>5
    <3>4. QED
      BY <1>2, <3>1, <3>2, <3>3, SumChange DEF SumSeats
  <2>7. ASSUME less = <<>>
        PROVE  Len(pots) = 1
    <3>1. Len(pots) \in Nat \ {0}
      OBVIOUS
    <3>2. Len(less) = Len(pots) - 1
      BY PotTotalLast DEF less
    <3>3. QED
      BY <2>7, <3>1, <3>2
  <2>8. ASSUME less = <<>>, Live(mgr) # {}
        PROVE  pots[1].allIn = {}
    BY <2>1, <2>7, <2>8 DEF TopPotRefundees
  <2>9. QED
    BY <1>1, <1>3, <2>4, <2>5, <2>6, <2>7, <2>8 DEF q, less
<1>5. CASE ~ \E s \in Seats : TopPotRefundees(mgr, pots) = {s}
  <2>1. q = [mgr EXCEPT !.pots = pots]
    BY <1>5, Zenon DEF Refund
  <2> HIDE DEF q
  <2>2. q \in PotState /\ SameRound(q, mgr) /\ q.balance = mgr.balance /\ q.pots = pots
    BY <2>1 DEF PotState, SameRound
  <2>3. QED
    BY <2>2 DEF q
<1>6. QED
  BY <1>4, <1>5

\* Zeros add up to zero.
LEMMA SumOfZeros ==
  ASSUME NEW f, \A s \in Seats : f[s] = 0
  PROVE  SumSeats(f) = 0
<1>1. N \in Nat /\ \A i \in 0 .. N - 1 : f[i] \in Int /\ f[i] = f[i] + f[i]
  BY Constants DEF Seats
<1>2. Sum(f, N) = Sum(f, N) + Sum(f, N) /\ Sum(f, N) \in Int
  BY <1>1, SumInt, SumLinear
<1>3. QED
  BY <1>2 DEF SumSeats

\* When the bets are nothing, so is their sum.
LEMMA NoBets ==
  ASSUME NEW mgr \in PotState, BetsInRange(mgr), mgr.actionAmount = 0
  PROVE  SumSeats(mgr.inPlay) = 0
BY CappedFacts

\* calculatePot moves the bets into the pots and refunds what nobody can match:
\* no chip is made or lost, and the last pot only goes when nobody can bet.
LEMMA CalculatePotFacts ==
  ASSUME NEW mgr \in PotState, BetsInRange(mgr),
         mgr.pots = <<>> => Live(mgr) = {} /\ mgr.actionAmount = 0
  PROVE  LET q == CalculatePot(mgr) IN
         /\ q \in PotState
         /\ SameRound(q, [mgr EXCEPT !.needsPotCalculation = FALSE])
         /\ mgr.needsPotCalculation =>
              SumSeats(q.balance) + PotTotal(q.pots) =
                SumSeats(mgr.balance) + PotTotal(mgr.pots) + SumSeats(mgr.inPlay)
         /\ ~mgr.needsPotCalculation => q = mgr
         /\ q.pots = <<>> => Live(mgr) = {}
         /\ AllInAmounts(mgr) = {} => q.balance = mgr.balance
<1> DEFINE q    == CalculatePot(mgr)
           done == [mgr EXCEPT !.needsPotCalculation = FALSE]
           open == OpenPots(mgr.pots)
<1>1. CASE ~mgr.needsPotCalculation
  <2>1. q = mgr
    BY <1>1 DEF CalculatePot
  <2> HIDE DEF q
  <2>2. SameRound(q, done)
    BY <1>1, <2>1 DEF SameRound, PotState
  <2>3. QED
    BY <1>1, <2>1, <2>2 DEF q
<1>2. CASE mgr.needsPotCalculation /\ mgr.actionAmount = 0
  <2>1. q = done
    BY <1>2 DEF CalculatePot
  <2>2. done \in PotState /\ done.balance = mgr.balance /\ done.pots = mgr.pots
    BY DEF PotState
  <2>3. SumSeats(mgr.inPlay) = 0
    BY <1>2, NoBets
  <2>4. SumSeats(mgr.balance) + PotTotal(mgr.pots) \in Int
    <3>1. PotTotal(mgr.pots) \in Nat
      BY PotTotalNat DEF PotState
    <3>2. SumSeats(mgr.balance) \in Int
      BY Constants, SumInt DEF SumSeats, PotState, Seats
    <3>3. QED
      BY <3>1, <3>2
  <2> HIDE DEF q, done
  <2>5. SameRound(done, done)
    BY DEF SameRound
  <2>6. QED
    BY <1>2, <2>1, <2>2, <2>3, <2>4, <2>5 DEF q, done
<1>3. CASE mgr.needsPotCalculation /\ mgr.actionAmount # 0 /\ AllInAmounts(mgr) = {}
  <2> DEFINE bets == SumSeats(mgr.inPlay)
             more == [open EXCEPT ![Len(open)].amount = @ + bets]
  <2>1. q = [done EXCEPT !.pots = more]
    BY <1>3, Zenon DEF CalculatePot
  <2>2. bets \in Nat
    BY CappedFacts DEF PotState
  <2>3. open \in Seq(Pot) /\ open # <<>> /\ PotTotal(open) = PotTotal(mgr.pots)
    BY <1>3, OpenPotsFacts DEF PotState
  <2> HIDE DEF open, bets
  <2>4. more \in Seq(Pot) /\ more # <<>> /\ PotTotal(more) = PotTotal(open) + bets
    BY <2>2, <2>3, PotTotalRaise
  <2> HIDE DEF more, q
  <2>5. q \in PotState /\ SameRound(q, done) /\ q.balance = mgr.balance /\ q.pots = more
    BY <2>1, <2>4 DEF PotState, SameRound
  <2>6. SumSeats(mgr.balance) \in Int /\ PotTotal(mgr.pots) \in Nat
    BY Constants, SumInt, PotTotalNat DEF SumSeats, PotState, Seats
  <2>7. QED
    BY <1>3, <2>2, <2>3, <2>4, <2>5, <2>6 DEF q, bets
<1>4. CASE mgr.needsPotCalculation /\ mgr.actionAmount # 0 /\ AllInAmounts(mgr) # {}
  <2> DEFINE layers == Layered(mgr)
  <2>1. q = Refund(done, layers)
    BY <1>4 DEF CalculatePot
  <2>2. /\ layers \in Seq(Pot) /\ layers # <<>>
        /\ PotTotal(layers) = PotTotal(mgr.pots) + SumSeats(mgr.inPlay)
        /\ Len(layers) = 1 => layers[1].allIn # {}
    BY <1>4, LayeredFacts
  <2>3. /\ done \in PotState /\ done.balance = mgr.balance
        /\ done.allIn = mgr.allIn /\ done.folded = mgr.folded
    BY DEF PotState
  <2> HIDE DEF layers, q, done
  <2>4. Live(done) = Live(mgr)
    BY <2>3 DEF Live, CanAct
  <2>5. /\ q \in PotState /\ SameRound(q, done)
        /\ SumSeats(q.balance) + PotTotal(q.pots) = SumSeats(done.balance) + PotTotal(layers)
        /\ q.pots = <<>> => Len(layers) = 1 /\ (Live(done) # {} => layers[1].allIn = {})
    BY <2>1, <2>2, <2>3, RefundFacts
  <2>6. /\ SumSeats(mgr.balance) \in Int /\ PotTotal(mgr.pots) \in Nat
        /\ SumSeats(mgr.inPlay) \in Int
    BY Constants, SumInt, PotTotalNat DEF SumSeats, PotState, Seats
  <2>7. SumSeats(q.balance) + PotTotal(q.pots) =
          SumSeats(mgr.balance) + PotTotal(mgr.pots) + SumSeats(mgr.inPlay)
    BY <2>2, <2>3, <2>5, <2>6
  <2>8. QED
    BY <1>4, <2>2, <2>4, <2>5, <2>7 DEF q, done
<1>5. QED
  BY <1>1, <1>2, <1>3, <1>4

-----------------------------------------------------------------------------
(* PayWinners.                                                             *)

Claim == [tier: Nat, seats: SUBSET Seats]

\* The groups are sets of seats, one after the other.
LEMMA SortedTiersType ==
  ASSUME NEW seats \in SUBSET Seats, NEW ranks \in [Seats -> 1 .. N]
  PROVE  SortedTiers(seats, ranks) \in Seq(SUBSET Seats)
<1> DEFINE S      == {ranks[s] : s \in seats}
           levels == Sorted(S)
<1>1. S \subseteq 1 .. N /\ N \in Nat
  BY Constants
<1>2. IsFiniteSet(S) /\ S \in SUBSET Nat
  <2>1. IsFiniteSet(1 .. N)
    BY <1>1, FS_Interval
  <2>2. QED
    BY <1>1, <2>1, FS_Subset
<1>3. Cardinality(S) \in Nat
  BY <1>2, FS_CardinalityType
<1> HIDE DEF S
<1>4. levels \in [1 .. Cardinality(S) -> S]
  BY <1>2, SortedIsIncreasing DEF Increasing
<1>5. levels \in Seq(S) /\ Len(levels) \in Nat
  BY <1>3, <1>4
<1> DEFINE tier(i) == {s \in seats : ranks[s] = levels[Len(levels) + 1 - i]}
<1>6. SortedTiers(seats, ranks) = [i \in 1 .. Len(levels) |-> tier(i)]
  BY Zenon DEF SortedTiers, S
<1>7. \A i : tier(i) \in SUBSET Seats
  OBVIOUS
<1> HIDE DEF tier, levels
<1>8. [i \in 1 .. Len(levels) |-> tier(i)] \in [1 .. Len(levels) -> SUBSET Seats]
  BY <1>7
<1>9. QED
  BY <1>5, <1>6, <1>8

\* Whoever goes on is a set of seats.
LEMMA GoOnType ==
  ASSUME NEW claim \in Claim, NEW pot \in Pot, NEW tiers \in Seq(SUBSET Seats)
  PROVE  GoOn(claim, pot, tiers) \in Claim
<1>1. \A t \in Nat \ {0} : Group(tiers, t) \in SUBSET Seats
  BY DEF Group
<1>2. claim.tier \in Nat /\ claim.tier + 1 \in Nat \ {0} /\ claim.seats \in SUBSET Seats
  BY DEF Claim
<1>3. StillIn(claim.seats, pot) \in SUBSET Seats
  BY <1>2 DEF StillIn
<1>4. Group(tiers, claim.tier + 1) \in SUBSET Seats
  BY <1>1, <1>2
<1>5. QED
  BY <1>2, <1>3, <1>4 DEF GoOn, Claim

\* g holds who goes on after each of the first n pots.
Claims(g, pots, tiers, n) ==
  g = [k \in 0 .. n |-> IF k = 0 THEN [tier |-> 1, seats |-> Group(tiers, 1)]
                        ELSE GoOn(g[k - 1], pots[k], tiers)]

\* The claims on the pots exist.
LEMMA ClaimsExist ==
  ASSUME NEW pots, NEW tiers, NEW n \in Nat
  PROVE  \E g : Claims(g, pots, tiers, n)
<1> DEFINE T == {k \in Nat : \E g : Claims(g, pots, tiers, k)}
<1>1. 0 \in T
  <2>1. Claims([k \in 0 .. 0 |-> [tier |-> 1, seats |-> Group(tiers, 1)]], pots, tiers, 0)
    BY DEF Claims
  <2>2. QED
    BY <2>1
<1>2. ASSUME NEW m \in 1 .. n, m - 1 \in T
      PROVE  m \in T
  <2>1. PICK g : Claims(g, pots, tiers, m - 1)
    BY <1>2
  <2> DEFINE h == [k \in 0 .. m |-> IF k = m THEN GoOn(g[m - 1], pots[m], tiers) ELSE g[k]]
  <2>2. ASSUME NEW k \in 0 .. m
        PROVE  h[k] = IF k = 0 THEN [tier |-> 1, seats |-> Group(tiers, 1)]
                      ELSE GoOn(h[k - 1], pots[k], tiers)
    <3>1. CASE k = m
      BY <3>1
    <3>2. CASE k # m
      <4>1. k \in 0 .. m - 1
        BY <3>2
      <4>2. g[k] = IF k = 0 THEN [tier |-> 1, seats |-> Group(tiers, 1)]
                   ELSE GoOn(g[k - 1], pots[k], tiers)
        BY <2>1, <4>1 DEF Claims
      <4>3. QED
        BY <3>2, <4>1, <4>2
    <3>3. QED
      BY <3>1, <3>2
  <2>3. Claims(h, pots, tiers, m)
    BY <2>2 DEF Claims
  <2>4. QED
    BY <2>3
<1>3. \A k \in 0 .. n : k \in T
  BY <1>1, <1>2, IntervalInduction
<1>4. QED
  BY <1>3

\* The winners of each pot are seats.
LEMMA PotWinnersType ==
  ASSUME NEW pots \in Seq(Pot), NEW tiers \in Seq(SUBSET Seats)
  PROVE  \A k \in 1 .. Len(pots) : PotWinners(pots, tiers)[k] \in SUBSET Seats
<1> DEFINE n     == Len(pots)
           claim == CHOOSE g : g = [k \in 0 .. n |->
                      IF k = 0 THEN [tier |-> 1, seats |-> Group(tiers, 1)]
                      ELSE GoOn(g[k - 1], pots[k], tiers)]
<1>1. n \in Nat /\ \A k \in 1 .. n : pots[k] \in Pot
  OBVIOUS
<1>2. Claims(claim, pots, tiers, n)
  <2> HIDE DEF n
  <2>1. \E g : Claims(g, pots, tiers, n)
    BY <1>1, ClaimsExist
  <2>2. QED
    BY <2>1, Zenon DEF Claims
<1>3. PotWinners(pots, tiers) =
        [k \in 1 .. n |-> IF pots[k].amount = 0 THEN {} ELSE claim[k - 1].seats]
  BY Zenon DEF PotWinners
<1> HIDE DEF claim, n
<1> DEFINE T == {k \in 0 .. n : claim[k] \in Claim}
<1>4. 0 \in T
  <2>1. Group(tiers, 1) \in SUBSET Seats
    BY DEF Group
  <2>2. claim[0] = [tier |-> 1, seats |-> Group(tiers, 1)]
    BY <1>1, <1>2 DEF Claims
  <2>3. QED
    BY <1>1, <2>1, <2>2 DEF Claim
<1>5. ASSUME NEW k \in 1 .. n, k - 1 \in T
      PROVE  k \in T
  <2>1. claim[k] = GoOn(claim[k - 1], pots[k], tiers)
    BY <1>1, <1>2 DEF Claims
  <2>2. QED
    BY <1>1, <1>5, <2>1, GoOnType
<1>6. \A k \in 0 .. n : k \in T
  <2> HIDE DEF T
  <2> QED
    BY <1>1, <1>4, <1>5, IntervalInduction
<1>7. ASSUME NEW k \in 1 .. n
      PROVE  PotWinners(pots, tiers)[k] \in SUBSET Seats
  <2>1. k - 1 \in 0 .. n
    BY <1>1
  <2>2. claim[k - 1] \in Claim
    BY <1>6, <2>1
  <2>3. QED
    BY <1>3, <2>2 DEF Claim
<1>8. QED
  BY <1>7 DEF n

\* A share of a pot is a natural.
LEMMA WinningsNat ==
  ASSUME NEW amount \in Nat, NEW group \in SUBSET Seats, NEW s \in group
  PROVE  Winnings(amount, group, s) \in Nat
<1> DEFINE chips == amount \div Chip
           size  == Cardinality(group)
           place == Cardinality({t \in group : t < s})
           odd   == IF place < chips % size THEN 1 ELSE 0
<1>1. IsFiniteSet(group)
  <2>1. 0 \in Int /\ N - 1 \in Int
    BY Constants
  <2>2. IsFiniteSet(Seats)
    BY <2>1, FS_Interval DEF Seats
  <2>3. QED
    BY <2>2, FS_Subset
<1>2. size \in Nat \ {0}
  BY <1>1, FS_CardinalityType, FS_EmptySet
<1>3. chips \in Nat
  BY Constants, DivModNat
<1> HIDE DEF chips, size, place
<1>4. chips \div size \in Nat
  BY <1>2, <1>3, DivModNat
<1>5. odd \in {0, 1}
  OBVIOUS
<1> DEFINE each == chips \div size
<1> HIDE DEF each, odd
<1>6. each \in Nat /\ Chip \in Nat
  BY <1>4, Constants DEF each
<1>7. Chip * (each + odd) \in Nat
  <2>1. each + odd \in Nat
    BY <1>5, <1>6
  <2>2. QED
    BY <1>6, <2>1
<1>8. QED
  BY <1>7, Zenon DEF Winnings, each, odd, chips, size, place

\* What PayWinners pays everybody is a natural.
LEMMA PayoutsType ==
  ASSUME NEW pots \in Seq(Pot), NEW tiers \in Seq(SUBSET Seats)
  PROVE  Payouts(pots, tiers) \in [Seats -> Nat]
<1> DEFINE winners == PotWinners(pots, tiers)
           won(s)  == [i \in 0 .. Len(pots) - 1 |->
                         IF s \in winners[i + 1]
                         THEN Winnings(pots[i + 1].amount, winners[i + 1], s) ELSE 0]
<1>1. Payouts(pots, tiers) = [s \in Seats |-> Sum(won(s), Len(pots))]
  BY Zenon DEF Payouts
<1>2. Len(pots) \in Nat
  OBVIOUS
<1>3. ASSUME NEW s \in Seats
      PROVE  Sum(won(s), Len(pots)) \in Nat
  <2>1. ASSUME NEW i \in 0 .. Len(pots) - 1
        PROVE  won(s)[i] \in Nat
    <3>1. i + 1 \in 1 .. Len(pots) /\ pots[i + 1] \in Pot
      BY AmountsAreNat
    <3>2. winners[i + 1] \in SUBSET Seats
      BY <3>1, PotWinnersType
    <3>3. pots[i + 1].amount \in Nat
      BY <3>1 DEF Pot
    <3> HIDE DEF winners
    <3>4. s \in winners[i + 1] => Winnings(pots[i + 1].amount, winners[i + 1], s) \in Nat
      BY <3>2, <3>3, WinningsNat
    <3>5. QED
      BY <3>4
  <2> HIDE DEF won
  <2>2. QED
    BY <1>2, <2>1, SumNat
<1> HIDE DEF won
<1>4. QED
  BY <1>1, <1>3

-----------------------------------------------------------------------------
(* The pots are paid in full.                                              *)

\* The whole chips of an amount, those of each pot, and the cents that are left.
InChips(amount) == Chip * (amount \div Chip)
ChipsOf(pots) == [k \in DOMAIN pots |-> [pots[k] EXCEPT !.amount = InChips(@)]]
CentsOf(pots) == [k \in DOMAIN pots |-> [pots[k] EXCEPT !.amount = @ % Chip]]

\* An amount is its chips and its cents.
LEMMA ChipsAndCents ==
  ASSUME NEW amount \in Nat
  PROVE  /\ InChips(amount) \in Nat /\ amount % Chip \in Nat
         /\ amount = InChips(amount) + (amount % Chip)
<1>1. Chip \in Nat \ {0}
  BY Constants
<1>2. /\ amount \div Chip \in Nat /\ amount % Chip \in 0 .. Chip - 1
      /\ amount = (Chip * (amount \div Chip)) + (amount % Chip)
  BY <1>1, Division
<1>3. Chip * (amount \div Chip) \in Nat
  BY <1>1, <1>2
<1>4. QED
  BY <1>1, <1>2, <1>3 DEF InChips

\* A function on the first numbers is a sequence.
LEMMA ListOfPots ==
  ASSUME NEW n \in Nat, NEW list \in [1 .. n -> Pot]
  PROVE  list \in Seq(Pot)
OBVIOUS

\* The chips and the cents of pots are pots, and what the first of them hold is
\* their chips and no more cents than all of them have.
LEMMA ChipsOfPots ==
  ASSUME NEW pots \in Seq(Pot)
  PROVE  /\ ChipsOf(pots) \in Seq(Pot) /\ Len(ChipsOf(pots)) = Len(pots)
         /\ \A i \in 0 .. Len(pots) - 1 : Amounts(ChipsOf(pots))[i] = InChips(pots[i + 1].amount)
         /\ CentsOf(pots) \in Seq(Pot) /\ Len(CentsOf(pots)) = Len(pots)
         /\ \A i \in 0 .. Len(pots) - 1 : Amounts(CentsOf(pots))[i] = pots[i + 1].amount % Chip
         /\ OddCents(pots) = PotTotal(CentsOf(pots)) /\ OddCents(pots) \in Nat
         /\ PotTotal(pots) = PotTotal(ChipsOf(pots)) + OddCents(pots)
         /\ \A m \in 0 .. Len(pots) :
              UpTo(pots, m) - UpTo(ChipsOf(pots), m) \in 0 .. OddCents(pots)
<1> DEFINE n     == Len(pots)
           chips == ChipsOf(pots)
           cents == CentsOf(pots)
<1>1. /\ n \in Nat /\ DOMAIN pots = 1 .. n
      /\ \A k \in 1 .. n : pots[k] \in Pot /\ pots[k].amount \in Nat
  <2>1. n \in Nat /\ DOMAIN pots = 1 .. n /\ \A k \in 1 .. n : pots[k] \in Pot
    OBVIOUS
  <2>2. \A pot \in Pot : pot.amount \in Nat
    BY DEF Pot
  <2> HIDE DEF n
  <2>3. QED
    BY <2>1, <2>2
<1>2. ASSUME NEW k \in 1 .. n
      PROVE  /\ chips[k] \in Pot /\ chips[k].amount = InChips(pots[k].amount)
             /\ cents[k] \in Pot /\ cents[k].amount = pots[k].amount % Chip
  <2>1. chips[k] = [pots[k] EXCEPT !.amount = InChips(@)] /\ cents[k] = [pots[k] EXCEPT !.amount = @ % Chip]
    BY <1>1 DEF ChipsOf, CentsOf
  <2>2. InChips(pots[k].amount) \in Nat /\ pots[k].amount % Chip \in Nat /\ pots[k] \in Pot
    BY <1>1, ChipsAndCents
  <2> HIDE DEF chips, cents
  <2>3. QED
    BY <2>1, <2>2 DEF Pot
<1>3. chips \in Seq(Pot) /\ Len(chips) = n /\ cents \in Seq(Pot) /\ Len(cents) = n
  <2>1. DOMAIN chips = 1 .. n /\ DOMAIN cents = 1 .. n
    BY <1>1 DEF ChipsOf, CentsOf
  <2>2. chips = [k \in 1 .. n |-> chips[k]] /\ cents = [k \in 1 .. n |-> cents[k]]
    BY <1>1 DEF ChipsOf, CentsOf
  <2> HIDE DEF chips, cents, n
  <2>3. chips \in [1 .. n -> Pot] /\ cents \in [1 .. n -> Pot]
    BY <1>2, <2>2
  <2>4. chips \in Seq(Pot) /\ cents \in Seq(Pot)
    BY <1>1, <2>3, ListOfPots
  <2>5. Len(chips) = n /\ Len(cents) = n
    BY <1>1, <2>1, <2>4
  <2>6. QED
    BY <2>4, <2>5
<1>4. ASSUME NEW i \in 0 .. n - 1
      PROVE  /\ Amounts(chips)[i] = InChips(pots[i + 1].amount) /\ Amounts(chips)[i] \in Nat
             /\ Amounts(cents)[i] = pots[i + 1].amount % Chip /\ Amounts(cents)[i] \in Nat
             /\ Amounts(pots)[i] = Amounts(chips)[i] + Amounts(cents)[i]
  <2>1. i + 1 \in 1 .. n /\ i \in 0 .. Len(chips) - 1 /\ i \in 0 .. Len(cents) - 1
    BY <1>1, <1>3
  <2>2. /\ Amounts(chips)[i] = chips[i + 1].amount /\ Amounts(cents)[i] = cents[i + 1].amount
        /\ Amounts(pots)[i] = pots[i + 1].amount
    BY <2>1 DEF Amounts
  <2> DEFINE amount == pots[i + 1].amount
  <2>3. amount \in Nat
    BY <1>1, <2>1
  <2>4. chips[i + 1].amount = InChips(amount) /\ cents[i + 1].amount = amount % Chip
    BY <1>2, <2>1
  <2>5. Amounts(chips)[i] = InChips(amount) /\ Amounts(cents)[i] = amount % Chip /\ Amounts(pots)[i] = amount
    BY <2>2, <2>4
  <2> HIDE DEF amount, chips, cents, n
  <2>6. /\ InChips(amount) \in Nat /\ amount % Chip \in Nat
        /\ amount = InChips(amount) + (amount % Chip)
    BY <2>3, ChipsAndCents
  <2>7. QED
    BY <2>5, <2>6 DEF amount
<1>5. OddCents(pots) = PotTotal(cents) /\ PotTotal(cents) \in Nat
  BY <1>3, PotTotalNat, Zenon DEF OddCents, CentsOf
<1> HIDE DEF chips, cents
<1>6. ASSUME NEW m \in 0 .. n
      PROVE  /\ UpTo(pots, m) = UpTo(chips, m) + UpTo(cents, m)
             /\ UpTo(chips, m) \in Nat /\ UpTo(cents, m) \in Nat
             /\ UpTo(cents, m) <= UpTo(cents, n)
  <2>1. m \in Nat /\ \A i \in 0 .. m - 1 : i \in 0 .. n - 1
    BY <1>1
  <2>2. \A i \in 0 .. m - 1 : /\ Amounts(chips)[i] \in Nat /\ Amounts(cents)[i] \in Nat
                              /\ Amounts(pots)[i] = Amounts(chips)[i] + Amounts(cents)[i]
    BY <1>4, <2>1
  <2>3. Sum(Amounts(pots), m) = Sum(Amounts(chips), m) + Sum(Amounts(cents), m)
    <3> DEFINE all == Amounts(pots)
               one == Amounts(chips)
               two == Amounts(cents)
    <3>1. \A i \in 0 .. m - 1 : one[i] \in Int /\ two[i] \in Int /\ all[i] = one[i] + two[i]
      BY <2>2
    <3> HIDE DEF all, one, two
    <3>2. Sum(all, m) = Sum(one, m) + Sum(two, m)
      BY <2>1, <3>1, SumLinear
    <3>3. QED
      BY <3>2 DEF all, one, two
  <2>4. Sum(Amounts(chips), m) \in Nat /\ Sum(Amounts(cents), m) \in Nat
    BY <2>1, <2>2, SumNat
  <2>5. UpTo(cents, m) <= UpTo(cents, n)
    <3> DEFINE some == [i \in 0 .. n - 1 |-> IF i < m THEN Amounts(cents)[i] ELSE 0]
    <3>1. \A i \in 0 .. n - 1 : /\ some[i] \in Nat /\ Amounts(cents)[i] \in Nat
                                /\ some[i] <= Amounts(cents)[i]
      BY <1>4
    <3>2. \A i \in 0 .. m - 1 : some[i] = Amounts(cents)[i]
      BY <2>1
    <3>3. \A i \in m .. n - 1 : some[i] = 0
      BY <1>1, <2>1
    <3> HIDE DEF some
    <3>4. Sum(some, n) <= Sum(Amounts(cents), n)
      BY <1>1, <3>1, SumMonotone
    <3>5. Sum(some, m) = Sum(Amounts(cents), m)
      BY <2>1, <3>2, SumSame
    <3>6. Sum(some, n) = Sum(some, m)
      <4> DEFINE T == {k \in m .. n : Sum(some, k) = Sum(some, m)}
      <4>1. m \in Nat /\ n \in Nat /\ m <= n
        BY <1>1
      <4>2. \A k \in 0 .. n : k < m \/ k \in T
        <5> DEFINE S == {k \in 0 .. n : k < m \/ k \in T}
        <5>1. 0 \in S
          BY <4>1
        <5>2. ASSUME NEW k \in 1 .. n, k - 1 \in S
              PROVE  k \in S
          <6>1. CASE k <= m
            BY <4>1, <6>1
          <6>2. CASE k > m
            <7>1. PICK j \in Nat : j = k - 1 /\ j + 1 = k /\ j \in m .. n - 1
              BY <4>1, <6>2
            <7>2. Sum(some, j) = Sum(some, m)
              BY <5>2, <7>1
            <7>3. Sum(some, j + 1) = Sum(some, j) + some[j]
              BY <7>1, SumStep
            <7>4. some[j] = 0 /\ Sum(some, j) \in Int
              <8>1. \A i \in 0 .. j - 1 : some[i] \in Int
                BY <3>1, <7>1
              <8>2. QED
                BY <3>3, <7>1, <8>1, SumInt
            <7>5. QED
              BY <4>1, <7>1, <7>2, <7>3, <7>4
          <6>3. QED
            BY <4>1, <6>1, <6>2
        <5> HIDE DEF S
        <5>3. \A k \in 0 .. n : k \in S
          BY <4>1, <5>1, <5>2, IntervalInduction
        <5>4. QED
          BY <5>3 DEF S
      <4>3. QED
        BY <4>1, <4>2
    <3>7. QED
      BY <3>4, <3>5, <3>6 DEF UpTo
  <2>6. QED
    BY <2>3, <2>4, <2>5 DEF UpTo
<1>7. /\ PotTotal(pots) = UpTo(pots, n) /\ PotTotal(chips) = UpTo(chips, n)
      /\ PotTotal(cents) = UpTo(cents, n)
  BY <1>3, UpToIsTotal
<1>8. PotTotal(pots) = PotTotal(chips) + OddCents(pots)
  BY <1>1, <1>5, <1>6, <1>7
<1>9. \A m \in 0 .. n : UpTo(pots, m) - UpTo(chips, m) \in 0 .. OddCents(pots)
  <2>1. ASSUME NEW m \in 0 .. n
        PROVE  UpTo(pots, m) - UpTo(chips, m) \in 0 .. OddCents(pots)
    <3>1. OddCents(pots) = UpTo(cents, n)
      BY <1>5, <1>7
    <3>2. QED
      BY <1>6, <3>1
  <2>2. QED
    BY <2>1
<1>10. QED
  BY <1>3, <1>4, <1>5, <1>8, <1>9 DEF chips, cents, n

\* roundedWinnings: the winners of a pot get all of its whole chips, the odd chips
\* going to the first of them.
LEMMA WinningsAddUp ==
  ASSUME NEW amount \in Nat, NEW W \in SUBSET Seats, W # {}, NEW f,
         \A s \in Seats : f[s] = IF s \in W THEN Winnings(amount, W, s) ELSE 0
  PROVE  SumSeats(f) = InChips(amount)
<1> DEFINE chips == amount \div Chip
           size  == Cardinality(W)
           units == [s \in Seats |-> IF s \in W
                                     THEN (chips \div size)
                                          + (IF Below(W, s) < chips % size THEN 1 ELSE 0)
                                     ELSE 0]
<1>1. N \in Nat /\ Seats = 0 .. N - 1 /\ Chip \in Nat \ {0}
  BY Constants DEF Seats
<1>2. chips \in Nat /\ Chip * chips = InChips(amount)
  BY <1>1, Division DEF InChips
<1>3. size \in Nat \ {0}
  <2>1. IsFiniteSet(W)
    BY <1>1, FS_Interval, FS_Subset, 0 \in Int, N - 1 \in Int
  <2>2. QED
    BY <2>1, FS_CardinalityType, FS_EmptySet
<1>4. chips \div size \in Nat
  BY <1>2, <1>3, Division
<1>5. \A s \in Seats : units[s] = IF s \in W
                                  THEN (chips \div size)
                                       + (IF Below(W, s) < chips % size THEN 1 ELSE 0)
                                  ELSE 0
  OBVIOUS
<1>6. \A s \in W : Winnings(amount, W, s) =
                     Chip * ((chips \div size) + (IF Below(W, s) < chips % size THEN 1 ELSE 0))
  BY Zenon DEF Winnings, Below
<1> HIDE DEF units
<1>7. Sum(units, N) = chips
  <2> HIDE DEF chips
  <2>1. \A i \in 0 .. N - 1 :
           units[i] = IF i \in W
                      THEN (chips \div Cardinality(W))
                           + (IF Below(W, i) < chips % Cardinality(W) THEN 1 ELSE 0)
                      ELSE 0
    BY <1>1, <1>5
  <2>2. W \in SUBSET (0 .. N - 1)
    BY <1>1
  <2>3. QED
    BY <1>1, <1>2, <2>1, <2>2, SharesAddUp
<1>8. ASSUME NEW i \in 0 .. N - 1
      PROVE  units[i] \in Int /\ f[i] = Chip * units[i]
  <2>1. i \in Seats
    BY <1>1
  <2>2. CASE i \in W
    <3>1. PICK e \in {0, 1} : e = IF Below(W, i) < chips % size THEN 1 ELSE 0
      OBVIOUS
    <3>2. units[i] = (chips \div size) + e
      BY <1>5, <2>1, <2>2, <3>1
    <3>3. f[i] = Chip * ((chips \div size) + e)
      BY <1>6, <2>1, <2>2, <3>1
    <3>4. QED
      BY <1>4, <3>1, <3>2, <3>3
  <2>3. CASE i \notin W
    <3>1. units[i] = 0 /\ f[i] = 0
      BY <1>5, <2>1, <2>3
    <3>2. Chip * 0 = 0
      BY <1>1
    <3>3. QED
      BY <3>1, <3>2
  <2>4. QED
    BY <2>2, <2>3
<1>9. Sum(f, N) = Chip * Sum(units, N)
  BY <1>1, <1>8, SumScaled
<1>10. QED
  BY <1>2, <1>7, <1>9 DEF SumSeats

\* The first m pots, unless they are empty, are won by members of a group and the
\* others by nobody in it.
WinFirst(group, pots, tiers, m) ==
  \A k \in 1 .. Len(pots) :
    LET winners == PotWinners(pots, tiers)[k] IN
    IF k <= m THEN /\ winners \subseteq group
                   /\ pots[k].amount > 0 => winners # {}
    ELSE winners \cap group = {}

\* What f says of the members of a group, nothing for the others.
Of(group, f) == [s \in Seats |-> IF s \in group THEN f[s] ELSE 0]

\* The payouts of the group add up to the chips of those pots.
LEMMA PayoutsToGroup ==
  ASSUME NEW pots \in Seq(Pot), NEW tiers \in Seq(SUBSET Seats),
         NEW group \in SUBSET Seats, NEW m \in 0 .. Len(pots),
         WinFirst(group, pots, tiers, m)
  PROVE  SumSeats(Of(group, Payouts(pots, tiers))) = UpTo(ChipsOf(pots), m)
<1> DEFINE chips    == ChipsOf(pots)
           winners  == PotWinners(pots, tiers)
           won(s)   == [i \in 0 .. Len(pots) - 1 |->
                          IF s \in winners[i + 1]
                          THEN Winnings(pots[i + 1].amount, winners[i + 1], s) ELSE 0]
           share(i) == [s \in Seats |-> IF s \in group THEN won(s)[i] ELSE 0]
           paid(k)  == [s \in Seats |-> IF s \in group THEN Sum(won(s), k) ELSE 0]
           n        == Len(pots)
           first(k) == IF k <= m THEN k ELSE m
           T        == {k \in 0 .. n : SumSeats(paid(k)) = UpTo(chips, first(k))}
<1>1. Of(group, Payouts(pots, tiers)) = paid(n)
  <2>1. \A s \in Seats : Payouts(pots, tiers)[s] = Sum(won(s), n)
    BY Zenon DEF Payouts
  <2> HIDE DEF won, n
  <2>2. QED
    BY <2>1 DEF Of
<1>2. n \in Nat /\ m \in 0 .. n /\ N \in Nat /\ Seats = 0 .. N - 1
  BY Constants DEF Seats
<1>3. ASSUME NEW i \in 0 .. n - 1
      PROVE  /\ \A s \in Seats : won(s)[i] \in Int
             /\ SumSeats(share(i)) = IF i < m THEN Amounts(chips)[i] ELSE 0
  <2>1. /\ i + 1 \in 1 .. n /\ pots[i + 1] \in Pot /\ pots[i + 1].amount \in Nat
        /\ Amounts(chips)[i] = InChips(pots[i + 1].amount)
    BY AmountsAreNat, ChipsOfPots DEF Pot
  <2>2. winners[i + 1] \in SUBSET Seats
    BY <2>1, PotWinnersType
  <2> DEFINE amount == pots[i + 1].amount
             W      == winners[i + 1]
  <2>3. /\ amount \in Nat /\ W \in SUBSET Seats
        /\ IF i + 1 <= m THEN W \subseteq group /\ (amount > 0 => W # {})
           ELSE W \cap group = {}
    BY <2>1, <2>2 DEF WinFirst
  <2>4. \A s \in Seats : won(s)[i] = IF s \in W THEN Winnings(amount, W, s) ELSE 0
    OBVIOUS
  <2>5. \A s \in Seats : share(i)[s] = IF s \in group THEN won(s)[i] ELSE 0
    OBVIOUS
  <2> HIDE DEF amount, W, won, share, winners
  <2>6. \A s \in Seats : won(s)[i] \in Int
    <3>1. ASSUME NEW s \in Seats PROVE won(s)[i] \in Int
      <4>1. s \in W => Winnings(amount, W, s) \in Nat
        BY <2>3, WinningsNat
      <4>2. QED
        BY <2>4, <4>1
    <3>2. QED
      BY <3>1
  <2>7. CASE i < m /\ W # {}
    <3>1. W \subseteq group
      BY <1>2, <2>3, <2>7
    <3>2. \A s \in Seats : share(i)[s] = IF s \in W THEN Winnings(amount, W, s) ELSE 0
      BY <2>4, <2>5, <3>1
    <3>3. SumSeats(share(i)) = InChips(amount)
      BY <2>3, <2>7, <3>2, WinningsAddUp
    <3>4. QED
      BY <2>1, <2>6, <2>7, <3>3 DEF amount
  <2>8. CASE i < m /\ W = {}
    <3>1. \A s \in Seats : share(i)[s] = 0
      BY <2>4, <2>5, <2>8
    <3>2. SumSeats(share(i)) = 0
      BY <3>1, SumOfZeros
    <3>3. InChips(amount) = 0
      <4>1. amount = 0
        BY <1>2, <2>3, <2>8
      <4>2. InChips(0) = 0
        <5>1. Chip \in Nat \ {0}
          BY Constants
        <5>2. 0 \div Chip = 0
          BY <5>1, Division
        <5>3. QED
          BY <5>1, <5>2 DEF InChips
      <4>3. QED
        BY <4>1, <4>2
    <3>4. QED
      BY <2>1, <2>6, <2>8, <3>2, <3>3 DEF amount
  <2>9. CASE ~(i < m)
    <3>1. W \cap group = {}
      BY <1>2, <2>3, <2>9
    <3>2. \A s \in Seats : share(i)[s] = 0
      BY <2>4, <2>5, <3>1
    <3>3. SumSeats(share(i)) = 0
      BY <3>2, SumOfZeros
    <3>4. QED
      BY <2>6, <2>9, <3>3
  <2>10. QED
    BY <2>7, <2>8, <2>9
<1>4. 0 \in T
  <2>1. \A s \in Seats : paid(0)[s] = 0
    BY SumZero
  <2>2. SumSeats(paid(0)) = 0
    <3> HIDE DEF paid
    <3> QED
      BY <2>1, SumOfZeros
  <2>3. first(0) = 0 /\ UpTo(chips, 0) = 0
    BY <1>2, SumZero DEF UpTo
  <2>4. QED
    BY <1>2, <2>2, <2>3
<1>5. ASSUME NEW k \in 1 .. n, k - 1 \in T
      PROVE  k \in T
  <2>1. PICK j \in Nat : j = k - 1 /\ j + 1 = k /\ j \in 0 .. n - 1
    BY <1>2
  <2>2. SumSeats(paid(j)) = UpTo(chips, first(j))
    BY <1>5, <2>1
  <2>3. /\ SumSeats(share(j)) = IF j < m THEN Amounts(chips)[j] ELSE 0
        /\ \A s \in Seats : won(s)[j] \in Int
    BY <1>3, <2>1
  <2>4. ASSUME NEW s \in Seats
        PROVE  /\ paid(j)[s] \in Int /\ share(j)[s] \in Int
               /\ paid(j + 1)[s] = paid(j)[s] + share(j)[s]
    <3>1. Sum(won(s), j + 1) = Sum(won(s), j) + won(s)[j]
      BY <2>1, SumStep
    <3>2. \A i \in 0 .. j - 1 : won(s)[i] \in Int
      <4>1. \A i \in 0 .. j - 1 : i \in 0 .. n - 1
        BY <2>1
      <4> HIDE DEF won
      <4>2. QED
        BY <1>3, <4>1
    <3>3. Sum(won(s), j) \in Int
      <4> HIDE DEF won
      <4> QED
        BY <2>1, <3>2, SumInt
    <3> HIDE DEF won
    <3>4. QED
      BY <2>3, <3>1, <3>3
  <2> HIDE DEF paid, share, won
  <2>5. Sum(paid(j + 1), N) = Sum(paid(j), N) + Sum(share(j), N)
    <3> DEFINE before == paid(j)
               more   == share(j)
               after  == paid(j + 1)
    <3>1. \A s \in 0 .. N - 1 :
            before[s] \in Int /\ more[s] \in Int /\ after[s] = before[s] + more[s]
      BY <1>2, <2>4
    <3> HIDE DEF before, more, after
    <3>2. Sum(after, N) = Sum(before, N) + Sum(more, N)
      BY <1>2, <3>1, SumLinear
    <3>3. QED
      BY <3>2 DEF before, more, after
  <2>6. CASE j < m
    <3>1. first(j) = j /\ first(k) = j + 1
      BY <1>2, <2>1, <2>6
    <3>2. UpTo(chips, j + 1) = UpTo(chips, j) + Amounts(chips)[j]
      BY <2>1, SumStep DEF UpTo
    <3>3. SumSeats(paid(k)) = UpTo(chips, first(k))
      BY <2>1, <2>2, <2>3, <2>5, <2>6, <3>1, <3>2 DEF SumSeats
    <3>4. QED
      BY <3>3
  <2>7. CASE ~(j < m)
    <3>1. first(j) = m /\ first(k) = m
      BY <1>2, <2>1, <2>7
    <3>2. UpTo(chips, m) \in Int
      <4>1. \A i \in 0 .. m - 1 : Amounts(chips)[i] \in Int
        <5>1. chips \in Seq(Pot) /\ Len(chips) = n
          BY ChipsOfPots
        <5> HIDE DEF chips, n
        <5>2. QED
          BY <1>2, <5>1, AmountsAreNat
      <4>2. QED
        BY <1>2, <4>1, SumInt DEF UpTo
    <3>3. SumSeats(paid(k)) = UpTo(chips, first(k))
      BY <2>1, <2>2, <2>3, <2>5, <2>7, <3>1, <3>2 DEF SumSeats
    <3>4. QED
      BY <3>3
  <2>8. QED
    BY <2>6, <2>7
<1>6. SumSeats(paid(n)) = UpTo(ChipsOf(pots), m)
  <2> HIDE DEF T
  <2>1. \A k \in 0 .. n : k \in T
    BY <1>2, <1>4, <1>5, IntervalInduction
  <2>2. n \in T
    BY <1>2, <2>1
  <2>3. SumSeats(paid(n)) = UpTo(chips, first(n))
    BY <2>2 DEF T
  <2>4. first(n) = m
    BY <1>2
  <2>5. QED
    BY <2>3, <2>4
<1>7. QED
  BY <1>1, <1>6

\* When every pot that holds something has winners, the payouts add up to the chips
\* of the pots.
LEMMA PayoutsAddUp ==
  ASSUME NEW pots \in Seq(Pot), NEW tiers \in Seq(SUBSET Seats),
         \A k \in 1 .. Len(pots) : pots[k].amount > 0 => PotWinners(pots, tiers)[k] # {}
  PROVE  SumSeats(Payouts(pots, tiers)) = PotTotal(ChipsOf(pots))
<1>1. Len(pots) \in 0 .. Len(pots) /\ Seats \in SUBSET Seats
  OBVIOUS
<1>2. WinFirst(Seats, pots, tiers, Len(pots))
  BY PotWinnersType DEF WinFirst
<1>3. Of(Seats, Payouts(pots, tiers)) = Payouts(pots, tiers)
  BY PayoutsType DEF Of
<1>4. SumSeats(Of(Seats, Payouts(pots, tiers))) = UpTo(ChipsOf(pots), Len(pots))
  BY <1>1, <1>2, PayoutsToGroup
<1>5. QED
  BY <1>3, <1>4, UpToIsTotal, ChipsOfPots

\* Every group of the sorted hands has members, and everybody compared is in one.
LEMMA TiersCover ==
  ASSUME NEW seats \in SUBSET Seats, NEW ranks \in [Seats -> 1 .. N]
  PROVE  LET tiers == SortedTiers(seats, ranks) IN
         /\ tiers \in Seq(SUBSET Seats)
         /\ \A k \in 1 .. Len(tiers) : tiers[k] # {}
         /\ \A s \in seats : \E k \in 1 .. Len(tiers) : s \in tiers[k]
<1> DEFINE S       == {ranks[s] : s \in seats}
           levels  == Sorted(S)
           count   == Len(levels)
           tier(i) == {s \in seats : ranks[s] = levels[count + 1 - i]}
           tiers   == SortedTiers(seats, ranks)
<1>1. S \subseteq 1 .. N /\ N \in Nat
  BY Constants
<1>2. IsFiniteSet(S) /\ S \in SUBSET Nat
  <2> HIDE DEF S
  <2>1. 1 \in Int /\ N \in Int
    BY <1>1
  <2>2. IsFiniteSet(1 .. N)
    BY <2>1, FS_Interval
  <2>3. IsFiniteSet(S)
    BY <1>1, <2>2, FS_Subset
  <2>4. S \in SUBSET Nat
    BY <1>1
  <2>5. QED
    BY <2>3, <2>4
<1>3. Increasing(levels, S, Cardinality(S)) /\ Cardinality(S) \in Nat
  <2> HIDE DEF S
  <2> QED
    BY <1>2, SortedIsIncreasing, FS_CardinalityType
<1>4. /\ count \in Nat
      /\ \A i \in 1 .. count : levels[i] \in S
      /\ \A x \in S : \E i \in 1 .. count : levels[i] = x
  <2> HIDE DEF S
  <2>1. levels \in [1 .. Cardinality(S) -> S]
    BY <1>3 DEF Increasing
  <2>2. count = Cardinality(S)
    BY <1>3, <2>1
  <2> HIDE DEF levels
  <2>3. QED
    BY <1>3, <2>1, <2>2 DEF Increasing
<1>5. tiers = [i \in 1 .. count |-> tier(i)]
  BY Zenon DEF SortedTiers
<1>6. tiers \in Seq(SUBSET Seats)
  BY SortedTiersType
<1>7. Len(tiers) = count
  <2> HIDE DEF tier, levels, count, tiers
  <2> QED
    BY <1>4, <1>5
<1> HIDE DEF tiers, levels, count
<1>8. ASSUME NEW k \in 1 .. count
      PROVE  tiers[k] # {}
  <2>1. count + 1 - k \in 1 .. count
    BY <1>4
  <2>2. PICK s \in seats : ranks[s] = levels[count + 1 - k]
    BY <1>4, <2>1
  <2>3. QED
    BY <1>5, <2>2
<1>9. ASSUME NEW s \in seats
      PROVE  \E k \in 1 .. count : s \in tiers[k]
  <2>1. PICK i \in 1 .. count : levels[i] = ranks[s]
    BY <1>4
  <2>2. PICK k \in 1 .. count : count + 1 - k = i
    <3>1. count + 1 - i \in 1 .. count /\ count + 1 - (count + 1 - i) = i
      BY <1>4
    <3>2. QED
      BY <3>1
  <2>3. s \in tiers[k]
    BY <1>5, <2>1, <2>2
  <2>4. QED
    BY <2>3
<1>10. QED
  BY <1>6, <1>7, <1>8, <1>9 DEF tiers

\* The groups of the sorted hands have nobody in common, and the first is the best.
LEMMA FirstGroupIsBest ==
  ASSUME NEW seats \in SUBSET Seats, NEW ranks \in [Seats -> 1 .. N], seats # {}
  PROVE  LET tiers == SortedTiers(seats, ranks) IN
         /\ Group(tiers, 1) = {s \in seats : \A t \in seats : ranks[t] <= ranks[s]}
         /\ Group(tiers, 1) # {}
         /\ \A k \in 2 .. Len(tiers) : tiers[k] \cap Group(tiers, 1) = {}
<1> DEFINE S       == {ranks[s] : s \in seats}
           levels  == Sorted(S)
           count   == Len(levels)
           tier(i) == {s \in seats : ranks[s] = levels[count + 1 - i]}
           tiers   == SortedTiers(seats, ranks)
           best    == {s \in seats : \A t \in seats : ranks[t] <= ranks[s]}
<1>1. S \subseteq 1 .. N /\ N \in Nat /\ S # {}
  BY Constants
<1>2. IsFiniteSet(S) /\ S \in SUBSET Nat
  <2> HIDE DEF S
  <2>1. 1 \in Int /\ N \in Int
    BY <1>1
  <2>2. IsFiniteSet(1 .. N)
    BY <2>1, FS_Interval
  <2>3. IsFiniteSet(S)
    BY <1>1, <2>2, FS_Subset
  <2>4. S \in SUBSET Nat
    BY <1>1
  <2>5. QED
    BY <2>3, <2>4
<1>3. Increasing(levels, S, Cardinality(S)) /\ Cardinality(S) \in Nat \ {0}
  <2> HIDE DEF S
  <2> QED
    BY <1>1, <1>2, SortedIsIncreasing, FS_CardinalityType, FS_EmptySet
<1>4. /\ count \in Nat \ {0}
      /\ \A i \in 1 .. count : levels[i] \in S
      /\ \A x \in S : \E i \in 1 .. count : levels[i] = x
      /\ \A i, j \in 1 .. count : i < j => levels[i] < levels[j]
  <2> HIDE DEF S
  <2>1. levels \in [1 .. Cardinality(S) -> S]
    BY <1>3 DEF Increasing
  <2>2. count = Cardinality(S)
    BY <1>3, <2>1
  <2> HIDE DEF levels
  <2>3. QED
    BY <1>3, <2>1, <2>2 DEF Increasing
<1>5. tiers = [i \in 1 .. count |-> tier(i)]
  BY Zenon DEF SortedTiers
<1>6. \A t \in seats : ranks[t] \in S /\ ranks[t] \in Nat
  BY <1>1
<1>7. Len(tiers) = count
  <2> HIDE DEF tier, levels, count, tiers
  <2> QED
    BY <1>4, <1>5
<1> HIDE DEF tiers, levels, count, S
<1>8. /\ Group(tiers, 1) = tiers[1] /\ tiers[1] = {s \in seats : ranks[s] = levels[count]}
  <2>1. 1 \in 1 .. count /\ 1 <= Len(tiers) /\ count + 1 - 1 = count
    BY <1>4, <1>7
  <2>2. Group(tiers, 1) = tiers[1]
    BY <2>1 DEF Group
  <2>3. tiers[1] = {s \in seats : ranks[s] = levels[count]}
    BY <1>5, <2>1
  <2>4. QED
    BY <2>2, <2>3
<1>9. /\ levels[count] \in Nat
      /\ \A t \in seats : ranks[t] <= levels[count]
  <2>1. count \in 1 .. count
    BY <1>4
  <2>2. levels[count] \in Nat
    BY <1>2, <1>4, <2>1
  <2>3. ASSUME NEW t \in seats
        PROVE  ranks[t] <= levels[count]
    <3>1. PICK i \in 1 .. count : levels[i] = ranks[t]
      BY <1>4, <1>6
    <3>2. CASE i = count
      BY <1>6, <3>1, <3>2
    <3>3. CASE i # count
      <4>1. i < count
        BY <1>4, <3>3
      <4>2. levels[i] < levels[count]
        BY <1>4, <2>1, <4>1
      <4>3. QED
        BY <1>6, <2>2, <3>1, <4>2
    <3>4. QED
      BY <3>2, <3>3
  <2>4. QED
    BY <2>2, <2>3
<1>10. PICK top \in seats : ranks[top] = levels[count]
  <2>1. levels[count] \in S
    BY <1>4
  <2>2. QED
    BY <2>1 DEF S
<1>11. tiers[1] = best
  <2>1. \A s \in seats : ranks[s] = levels[count] <=> s \in best
    BY <1>6, <1>9, <1>10
  <2>2. QED
    BY <1>8, <2>1
<1>12. ASSUME NEW k \in 2 .. Len(tiers)
       PROVE  tiers[k] \cap tiers[1] = {}
  <2>1. k \in 1 .. count /\ count + 1 - k \in 1 .. count /\ count \in 1 .. count
        /\ count + 1 - k < count
    BY <1>4, <1>7
  <2>2. tiers[k] = {s \in seats : ranks[s] = levels[count + 1 - k]}
    BY <1>5, <2>1
  <2>3. levels[count + 1 - k] < levels[count]
    BY <1>4, <2>1
  <2>4. levels[count + 1 - k] # levels[count]
    <3>1. levels[count + 1 - k] \in Nat
      BY <1>2, <1>4, <2>1
    <3>2. QED
      BY <1>9, <2>3, <3>1
  <2>5. QED
    BY <1>8, <2>2, <2>4
<1>13. tiers[1] # {}
  BY <1>8, <1>10
<1>14. QED
  BY <1>8, <1>11, <1>12, <1>13 DEF tiers

\* PayWinners finds winners for every pot that holds something up to one that
\* somebody compared can reach: he is all-in on none of those before it.
LEMMA WinnersExist ==
  ASSUME NEW pots \in Seq(Pot), NEW tiers \in Seq(SUBSET Seats),
         \A k \in 1 .. Len(tiers) : tiers[k] # {},
         NEW t \in 1 .. Len(tiers), NEW w \in tiers[t],
         NEW m \in 0 .. Len(pots), \A k \in 1 .. m - 1 : w \notin pots[k].allIn
  PROVE  \A k \in 1 .. m : pots[k].amount > 0 => PotWinners(pots, tiers)[k] # {}
<1> DEFINE n     == Len(pots)
           claim == CHOOSE g : g = [k \in 0 .. n |->
                      IF k = 0 THEN [tier |-> 1, seats |-> Group(tiers, 1)]
                      ELSE GoOn(g[k - 1], pots[k], tiers)]
           T     == {k \in 0 .. m - 1 :
                       /\ claim[k].tier \in 1 .. t
                       /\ claim[k].seats # {}
                       /\ claim[k].tier = t => w \in claim[k].seats}
<1>1. n \in Nat /\ m \in 0 .. n /\ \A k \in 1 .. n : pots[k] \in Pot
  OBVIOUS
<1>2. Claims(claim, pots, tiers, n)
  <2> HIDE DEF n
  <2>1. \E g : Claims(g, pots, tiers, n)
    BY <1>1, ClaimsExist
  <2>2. QED
    BY <2>1, Zenon DEF Claims
<1>3. PotWinners(pots, tiers) =
        [k \in 1 .. n |-> IF pots[k].amount = 0 THEN {} ELSE claim[k - 1].seats]
  BY Zenon DEF PotWinners
<1> HIDE DEF claim, n
<1>4. Len(tiers) \in Nat /\ \A k \in 1 .. Len(tiers) : Group(tiers, k) = tiers[k]
  BY DEF Group
<1> SUFFICES ASSUME m > 0
             PROVE  \A k \in 1 .. m : pots[k].amount > 0 => PotWinners(pots, tiers)[k] # {}
  BY <1>1
<1>5. 0 \in T
  <2>1. claim[0] = [tier |-> 1, seats |-> Group(tiers, 1)]
    BY <1>1, <1>2 DEF Claims
  <2>2. 1 \in 1 .. Len(tiers) /\ 1 \in 1 .. t /\ Group(tiers, 1) = tiers[1]
    BY <1>4
  <2>3. QED
    BY <1>1, <2>1, <2>2
<1>6. ASSUME NEW k \in 1 .. m - 1, k - 1 \in T
      PROVE  k \in T
  <2> DEFINE c    == claim[k - 1]
             left == StillIn(c.seats, pots[k])
  <2>1. claim[k] = GoOn(c, pots[k], tiers)
    <3>1. k \in 0 .. n /\ k # 0
      BY <1>1
    <3>2. QED
      BY <1>2, <3>1 DEF Claims
  <2>2. /\ c.tier \in 1 .. t /\ c.seats # {}
        /\ c.tier = t => w \in c.seats
    BY <1>6
  <2>3. w \notin pots[k].allIn
    OBVIOUS
  <2>4. CASE pots[k].amount = 0
    BY <1>1, <2>1, <2>2, <2>4 DEF GoOn
  <2>5. CASE pots[k].amount # 0 /\ left # {}
    <3>1. claim[k] = [tier |-> c.tier, seats |-> left]
      BY <2>1, <2>5 DEF GoOn
    <3>2. c.tier = t => w \in left
      BY <2>2, <2>3 DEF StillIn
    <3> HIDE DEF c, left
    <3>3. QED
      BY <1>1, <2>2, <2>5, <3>1, <3>2
  <2>6. CASE pots[k].amount # 0 /\ left = {}
    <3>1. claim[k] = [tier |-> c.tier + 1, seats |-> Group(tiers, c.tier + 1)]
      BY <2>1, <2>6 DEF GoOn
    <3>2. c.tier # t
      BY <2>2, <2>3, <2>6 DEF StillIn
    <3> HIDE DEF c, left
    <3>3. c.tier + 1 \in 1 .. t /\ c.tier + 1 \in 1 .. Len(tiers)
      BY <1>4, <2>2, <3>2
    <3>4. Group(tiers, c.tier + 1) = tiers[c.tier + 1] /\ tiers[c.tier + 1] # {}
      BY <1>4, <3>3
    <3>5. c.tier + 1 = t => w \in tiers[c.tier + 1]
      OBVIOUS
    <3>6. QED
      BY <1>1, <3>1, <3>3, <3>4, <3>5
  <2>7. QED
    BY <2>4, <2>5, <2>6
<1>7. \A k \in 0 .. m - 1 : k \in T
  <2> HIDE DEF T
  <2>1. m - 1 \in Nat
    BY <1>1
  <2>2. QED
    BY <1>5, <1>6, <2>1, IntervalInduction
<1>8. ASSUME NEW k \in 1 .. m, pots[k].amount > 0
      PROVE  PotWinners(pots, tiers)[k] # {}
  <2>1. k \in 1 .. n /\ k - 1 \in 0 .. m - 1
    BY <1>1
  <2>2. claim[k - 1].seats # {}
    BY <1>7, <2>1
  <2>3. pots[k].amount # 0
    BY <1>1, <1>8, <2>1 DEF Pot
  <2>4. QED
    BY <1>3, <2>1, <2>2, <2>3
<1>9. QED
  BY <1>8

\* Who of a group is in all of the first k pots that hold something.
Staying(group, pots, k) ==
  {w \in group : \A j \in 1 .. k : pots[j].amount = 0 \/ w \notin pots[j].allIn}

\* Some of the group go on through all pots but the m-th, and none any further.
GoesThrough(group, pots, m) ==
  /\ Staying(group, pots, m - 1) # {}
  /\ m = Len(pots) \/ (m # 0 /\ Staying(group, pots, m) = {})

\* The best group wins the first m pots, and no other, when some of them are in all
\* of these and, unless these are all the pots, none of them in the next.
LEMMA FirstGroupWins ==
  ASSUME NEW pots \in Seq(Pot), NEW tiers \in Seq(SUBSET Seats), NEW m \in 0 .. Len(pots),
         \A t \in 2 .. Len(tiers) : tiers[t] \cap Group(tiers, 1) = {},
         GoesThrough(Group(tiers, 1), pots, m)
  PROVE  WinFirst(Group(tiers, 1), pots, tiers, m)
<1> DEFINE n     == Len(pots)
           best  == Group(tiers, 1)
           claim == CHOOSE g : g = [k \in 0 .. n |->
                      IF k = 0 THEN [tier |-> 1, seats |-> Group(tiers, 1)]
                      ELSE GoOn(g[k - 1], pots[k], tiers)]
           B     == {k \in 0 .. m - 1 : claim[k] = [tier |-> 1, seats |-> Staying(best, pots, k)]}
           Later(k) == claim[k].tier \in Nat \ {0, 1} /\ claim[k].seats \cap best = {}
           L     == {i \in 0 .. n - m : Later(m + i)}
<1>1. n \in Nat /\ m \in 0 .. n /\ \A k \in 1 .. n : pots[k] \in Pot /\ pots[k].amount \in Nat
  <2>1. n \in Nat /\ m \in 0 .. n /\ \A k \in 1 .. n : pots[k] \in Pot
    OBVIOUS
  <2> HIDE DEF n
  <2>2. QED
    BY <2>1 DEF Pot
<1>2. Claims(claim, pots, tiers, n)
  <2> HIDE DEF n
  <2>1. \E g : Claims(g, pots, tiers, n)
    BY <1>1, ClaimsExist
  <2>2. QED
    BY <2>1, Zenon DEF Claims
<1>3. PotWinners(pots, tiers) =
        [k \in 1 .. n |-> IF pots[k].amount = 0 THEN {} ELSE claim[k - 1].seats]
  BY Zenon DEF PotWinners
<1>4. /\ claim[0] = [tier |-> 1, seats |-> best]
      /\ \A k \in 1 .. n : claim[k] = GoOn(claim[k - 1], pots[k], tiers)
  <2> HIDE DEF claim, n
  <2>1. QED
    BY <1>1, <1>2 DEF Claims
<1>5. m = n \/ (m # 0 /\ Staying(best, pots, m) = {})
  BY DEF GoesThrough
<1>6. Staying(best, pots, m - 1) # {}
  BY DEF GoesThrough
<1>7. \A t \in Nat \ {0, 1} : Group(tiers, t) \cap best = {}
  <2>1. ASSUME NEW t \in Nat \ {0, 1}
        PROVE  Group(tiers, t) \cap best = {}
    <3>1. Len(tiers) \in Nat
      OBVIOUS
    <3> HIDE DEF best
    <3>2. CASE t <= Len(tiers)
      <4>1. t \in 2 .. Len(tiers)
        BY <3>1, <3>2
      <4>2. Group(tiers, t) = tiers[t]
        BY <3>2 DEF Group
      <4>3. QED
        BY <4>1, <4>2 DEF best
    <3>3. CASE ~(t <= Len(tiers))
      BY <3>3 DEF Group
    <3>4. QED
      BY <3>2, <3>3
  <2>2. QED
    BY <2>1
<1> HIDE DEF claim, n, best
\* Staying behind goes step by step.
<1>8. ASSUME NEW k \in 1 .. n
      PROVE  Staying(best, pots, k) =
               IF pots[k].amount = 0 THEN Staying(best, pots, k - 1)
               ELSE StillIn(Staying(best, pots, k - 1), pots[k])
  <2>1. \A j : j \in 1 .. k <=> (j \in 1 .. k - 1 \/ j = k)
    BY <1>1
  <2>2. QED
    BY <2>1 DEF Staying, StillIn
<1>9. Staying(best, pots, 0) = best
  BY DEF Staying
<1>10. ASSUME NEW k \in 0 .. m - 1
       PROVE  Staying(best, pots, k) # {}
  <2>1. \A j \in 1 .. k : j \in 1 .. m - 1
    BY <1>1
  <2>2. Staying(best, pots, m - 1) \subseteq Staying(best, pots, k)
    BY <2>1 DEF Staying
  <2>3. QED
    BY <1>6, <2>2
<1>11. ASSUME m # 0
       PROVE  \A k \in 0 .. m - 1 : k \in B
  <2>1. 0 \in B
    BY <1>1, <1>4, <1>9, <1>11
  <2>2. ASSUME NEW k \in 1 .. m - 1, k - 1 \in B
        PROVE  k \in B
    <3> DEFINE c    == claim[k - 1]
               left == Staying(best, pots, k - 1)
    <3>1. c = [tier |-> 1, seats |-> left]
      BY <2>2
    <3>2. claim[k] = GoOn(c, pots[k], tiers) /\ k \in 1 .. n /\ k \in 0 .. m - 1
      BY <1>1, <1>4
    <3> HIDE DEF c, left
    <3>3. c.tier = 1 /\ c.seats = left
      BY <3>1
    <3>4. CASE pots[k].amount = 0
      <4>1. claim[k] = c
        BY <3>2, <3>4 DEF GoOn
      <4>2. QED
        BY <1>8, <3>1, <3>2, <3>4, <4>1 DEF left
    <3>5. CASE pots[k].amount # 0
      <4>1. StillIn(left, pots[k]) = Staying(best, pots, k)
        BY <1>8, <3>2, <3>5 DEF left
      <4>2. StillIn(left, pots[k]) # {}
        BY <1>10, <3>2, <4>1
      <4>3. claim[k] = [tier |-> 1, seats |-> StillIn(left, pots[k])]
        BY <3>2, <3>3, <3>5, <4>2 DEF GoOn
      <4>4. QED
        BY <3>2, <4>1, <4>3
    <3>6. QED
      BY <3>4, <3>5
  <2> HIDE DEF B
  <2>3. m - 1 \in Nat
    BY <1>1, <1>11
  <2>4. QED
    BY <2>1, <2>2, <2>3, IntervalInduction
<1>12. ASSUME m # n
       PROVE  \A i \in 0 .. n - m : i \in L
  <2>1. m \in 1 .. n /\ m - 1 \in 0 .. m - 1 /\ m # 0 /\ n - m \in Nat
    BY <1>1, <1>5, <1>12
  <2>2. 0 \in L
    <3> DEFINE left == Staying(best, pots, m - 1)
    <3>1. claim[m - 1] = [tier |-> 1, seats |-> left]
      BY <1>11, <2>1
    <3>2. left # {} /\ Staying(best, pots, m) = {}
      BY <1>5, <1>6, <1>12
    <3>3. pots[m].amount # 0 /\ StillIn(left, pots[m]) = {}
      BY <1>8, <2>1, <3>2
    <3> HIDE DEF left
    <3>4. GoOn(claim[m - 1], pots[m], tiers) = [tier |-> 2, seats |-> Group(tiers, 2)]
      BY <3>1, <3>3 DEF GoOn
    <3>5. claim[m] = [tier |-> 2, seats |-> Group(tiers, 2)]
      BY <1>4, <2>1, <3>4
    <3>6. 2 \in Nat \ {0, 1} /\ Group(tiers, 2) \cap best = {}
      BY <1>7
    <3>7. Later(m + 0)
      BY <1>1, <3>5, <3>6
    <3>8. QED
      BY <2>1, <3>7
  <2>3. ASSUME NEW i \in 1 .. n - m, i - 1 \in L
        PROVE  i \in L
    <3> DEFINE k == m + i
               c == claim[m + (i - 1)]
    <3>1. k \in 1 .. n /\ k - 1 = m + (i - 1) /\ i \in 0 .. n - m
      BY <1>1
    <3>2. claim[k] = GoOn(c, pots[k], tiers)
      <4>1. claim[k] = GoOn(claim[k - 1], pots[k], tiers)
        BY <1>4, <3>1
      <4>2. QED
        BY <3>1, <4>1
    <3>3. c.tier \in Nat \ {0, 1} /\ c.seats \cap best = {}
      BY <2>3
    <3> HIDE DEF c, k
    <3>4. c.tier + 1 \in Nat \ {0, 1}
      BY <3>3
    <3>5. Group(tiers, c.tier + 1) \cap best = {}
      BY <1>7, <3>4
    <3>6. StillIn(c.seats, pots[k]) \cap best = {}
      BY <3>3 DEF StillIn
    <3>7. /\ GoOn(c, pots[k], tiers).tier \in Nat \ {0, 1}
          /\ GoOn(c, pots[k], tiers).seats \cap best = {}
      BY <3>3, <3>4, <3>5, <3>6 DEF GoOn
    <3>8. Later(m + i)
      BY <3>2, <3>7 DEF k
    <3>9. QED
      BY <3>1, <3>8
  <2> HIDE DEF L
  <2>4. QED
    BY <2>1, <2>2, <2>3, IntervalInduction
<1>13. ASSUME NEW k \in 1 .. n
       PROVE  LET winners == PotWinners(pots, tiers)[k] IN
              IF k <= m THEN /\ winners \subseteq best
                             /\ pots[k].amount > 0 => winners # {}
              ELSE winners \cap best = {}
  <2> DEFINE winners == PotWinners(pots, tiers)[k]
  <2>1. winners = IF pots[k].amount = 0 THEN {} ELSE claim[k - 1].seats
    BY <1>3
  <2> HIDE DEF winners
  <2>2. CASE k <= m
    <3>1. k - 1 \in 0 .. m - 1 /\ m # 0
      BY <1>1, <2>2
    <3>2. claim[k - 1].seats = Staying(best, pots, k - 1)
      <4>1. k - 1 \in B
        BY <1>11, <3>1
      <4>2. claim[k - 1] = [tier |-> 1, seats |-> Staying(best, pots, k - 1)]
        BY <4>1
      <4>3. QED
        BY <4>2
    <3>3. Staying(best, pots, k - 1) # {} /\ Staying(best, pots, k - 1) \subseteq best
      BY <1>10, <3>1 DEF Staying
    <3>4. pots[k].amount \in Nat
      BY <1>1
    <3>5. QED
      BY <2>1, <2>2, <3>2, <3>3, <3>4 DEF winners
  <2>3. CASE ~(k <= m)
    <3>1. k - 1 = m + (k - 1 - m) /\ k - 1 - m \in 0 .. n - m /\ m # n
      BY <1>1, <2>3
    <3>2. Later(m + (k - 1 - m))
      BY <1>12, <3>1
    <3>3. claim[k - 1].seats \cap best = {}
      BY <3>1, <3>2
    <3>4. winners \cap best = {}
      BY <2>1, <3>3
    <3>5. QED
      BY <2>3, <3>4 DEF winners
  <2>4. QED
    BY <2>2, <2>3
<1>14. QED
  BY <1>13, Zenon DEF WinFirst, n, best

\* Somebody who has not folded is all-in on no pot but perhaps the last.
Contested(q) ==
  \E w \in Alive(q) : \A k \in 1 .. Len(q.pots) - 1 : w \notin q.pots[k].allIn

\* PayWinners hands out every chip of the pots.
LEMMA PotsArePaid ==
  ASSUME NEW q \in PotState, Contested(q), NEW ranks \in [Seats -> 1 .. N]
  PROVE  LET paid == Paid(q, Payouts(q.pots, SortedTiers(Alive(q), ranks))) IN
         SumSeats(paid.balance) + OddCents(q.pots) = SumSeats(q.balance) + PotTotal(q.pots)
<1> DEFINE tiers   == SortedTiers(Alive(q), ranks)
           shares == Payouts(q.pots, tiers)
           paid    == Paid(q, shares)
<1>1. q.pots \in Seq(Pot) /\ q.balance \in [Seats -> Nat] /\ Alive(q) \in SUBSET Seats
  BY DEF PotState, Alive
<1>2. PICK w \in Alive(q) : \A k \in 1 .. Len(q.pots) - 1 : w \notin q.pots[k].allIn
  BY DEF Contested
<1>3. /\ tiers \in Seq(SUBSET Seats)
      /\ \A k \in 1 .. Len(tiers) : tiers[k] # {}
      /\ \E t \in 1 .. Len(tiers) : w \in tiers[t]
  BY <1>1, TiersCover
<1> HIDE DEF tiers
<1>4. \A k \in 1 .. Len(q.pots) :
         q.pots[k].amount > 0 => PotWinners(q.pots, tiers)[k] # {}
  <2>1. PICK t \in 1 .. Len(tiers) : w \in tiers[t]
    BY <1>3
  <2> DEFINE pots == q.pots
  <2>2. /\ pots \in Seq(Pot) /\ Len(pots) \in 0 .. Len(pots)
        /\ \A k \in 1 .. Len(pots) - 1 : w \notin pots[k].allIn
    BY <1>1, <1>2
  <2> HIDE DEF pots
  <2>3. \A k \in 1 .. Len(pots) : pots[k].amount > 0 => PotWinners(pots, tiers)[k] # {}
    BY <1>3, <2>1, <2>2, WinnersExist
  <2>4. QED
    BY <2>3 DEF pots
<1>5. SumSeats(shares) = PotTotal(ChipsOf(q.pots))
  BY <1>1, <1>3, <1>4, PayoutsAddUp
<1>6. shares \in [Seats -> Nat]
  BY <1>1, <1>3, PayoutsType
<1>7. paid.balance = [s \in Seats |-> q.balance[s] + shares[s]]
  BY DEF Paid, PotState
<1> HIDE DEF shares, paid
<1>8. N \in Nat /\ Seats = 0 .. N - 1
  BY Constants DEF Seats
<1>9. \A i \in 0 .. N - 1 : /\ q.balance[i] \in Int /\ shares[i] \in Int
                            /\ paid.balance[i] = q.balance[i] + shares[i]
  BY <1>1, <1>6, <1>7, <1>8
<1>10. SumSeats(paid.balance) = SumSeats(q.balance) + SumSeats(shares)
  BY <1>8, <1>9, SumLinear DEF SumSeats
<1>11. /\ PotTotal(q.pots) = PotTotal(ChipsOf(q.pots)) + OddCents(q.pots) /\ OddCents(q.pots) \in Nat
       /\ PotTotal(ChipsOf(q.pots)) \in Nat /\ SumSeats(q.balance) \in Int
  <2>1. \A i \in 0 .. N - 1 : q.balance[i] \in Int
    BY <1>9
  <2>2. QED
    BY <1>1, <1>8, <2>1, ChipsOfPots, PotTotalNat, SumInt DEF SumSeats
<1>12. QED
  BY <1>5, <1>10, <1>11 DEF paid, shares, tiers

\* A pot is paid to those who win it, every chip of it, and to nobody when nobody does.
LEMMA PayoutsByPot ==
  ASSUME NEW pots \in Seq(Pot), NEW tiers \in Seq(SUBSET Seats),
         NEW worth,
         \A i \in 0 .. Len(pots) - 1 :
           worth[i] = IF PotWinners(pots, tiers)[i + 1] = {} THEN 0
                      ELSE InChips(pots[i + 1].amount)
  PROVE  SumSeats(Payouts(pots, tiers)) = Sum(worth, Len(pots))
<1> DEFINE n       == Len(pots)
           winners == PotWinners(pots, tiers)
           won(s)  == [i \in 0 .. n - 1 |->
                         IF s \in winners[i + 1]
                         THEN Winnings(pots[i + 1].amount, winners[i + 1], s) ELSE 0]
           table   == [s \in 0 .. N - 1 |-> won(s)]
           columns == [i \in 0 .. n - 1 |-> [s \in 0 .. N - 1 |-> won(s)[i]]]
           shares  == Payouts(pots, tiers)
<1>1. n \in Nat /\ N \in Nat /\ Seats = 0 .. N - 1
  BY Constants DEF Seats
<1>2. \A s \in Seats : shares[s] = Sum(won(s), n)
  BY Zenon DEF Payouts
<1>3. ASSUME NEW i \in 0 .. n - 1
      PROVE  /\ \A s \in 0 .. N - 1 : table[s][i] \in Int
             /\ \A s \in 0 .. N - 1 : columns[i][s] = table[s][i]
             /\ worth[i] = Sum(columns[i], N)
  <2>1. i + 1 \in 1 .. n /\ pots[i + 1].amount \in Nat
    BY AmountsAreNat DEF Pot
  <2>2. winners[i + 1] \in SUBSET Seats
    BY <2>1, PotWinnersType
  <2> DEFINE amount == pots[i + 1].amount
             W      == winners[i + 1]
             row    == columns[i]
  <2>3. /\ amount \in Nat /\ W \in SUBSET Seats
        /\ worth[i] = IF W = {} THEN 0 ELSE InChips(amount)
    BY <2>1, <2>2
  <2>4. \A s \in Seats : row[s] = IF s \in W THEN Winnings(amount, W, s) ELSE 0
    BY <1>1
  <2>5. \A s \in 0 .. N - 1 : table[s][i] = row[s]
    OBVIOUS
  <2> HIDE DEF amount, W, table, winners, columns, row
  <2>6. ASSUME NEW s \in 0 .. N - 1
        PROVE  table[s][i] \in Int
    <3>1. s \in W => Winnings(amount, W, s) \in Nat
      BY <2>3, WinningsNat
    <3>2. QED
      BY <1>1, <2>4, <2>5, <3>1
  <2>7. SumSeats(row) = worth[i]
    <3>1. CASE W = {}
      BY <2>3, <2>4, <3>1, SumOfZeros
    <3>2. CASE W # {}
      BY <2>3, <2>4, <3>2, WinningsAddUp
    <3>3. QED
      BY <3>1, <3>2
  <2>8. QED
    BY <2>5, <2>6, <2>7 DEF SumSeats, row
<1>4. \A s \in 0 .. N - 1 : shares[s] = Sum(table[s], n)
  BY <1>1, <1>2
<1> HIDE DEF table, columns, shares, winners, n, won
<1>5. Sum(shares, N) = Sum(worth, n)
  <2>1. \A s \in 0 .. N - 1 : \A i \in 0 .. n - 1 :
          table[s][i] \in Int /\ columns[i][s] = table[s][i]
    BY <1>3
  <2>2. \A i \in 0 .. n - 1 : worth[i] = Sum(columns[i], N)
    BY <1>3
  <2>3. Table(table, columns, N, n, shares, worth)
    BY <1>4, <2>1, <2>2 DEF Table
  <2>4. n \in Nat /\ N \in Nat
    BY <1>1
  <2>5. QED
    BY ONLY <2>3, <2>4, SumSwap
<1>6. QED
  BY <1>5 DEF SumSeats, shares, n

\* Everybody who is left is all-in on a pot below the k-th: nobody can win it.
OutOfReach(q, k) == \A s \in Alive(q) : \E j \in 1 .. k - 1 : s \in q.pots[j].allIn

\* PayWinners hands out the chips of all pots but those that nobody can win, whoever
\* competes besides those who have not folded.
LEMMA PotsInReachArePaid ==
  ASSUME NEW q \in PotState, NEW ranks \in [Seats -> 1 .. N],
         NEW seats \in SUBSET Seats, Alive(q) \subseteq seats
  PROVE  LET paid == Paid(q, Payouts(q.pots, SortedTiers(seats, ranks)))
             lost == [k \in DOMAIN q.pots |->
                        IF OutOfReach(q, k) THEN q.pots[k]
                        ELSE [q.pots[k] EXCEPT !.amount = @ % Chip]]
         IN  /\ paid \in PotState
             /\ (SumSeats(q.balance) + PotTotal(q.pots)) - SumSeats(paid.balance)
                  \in 0 .. PotTotal(lost)
<1> DEFINE pots   == q.pots
           n      == Len(pots)
           tiers  == SortedTiers(seats, ranks)
           shares == Payouts(pots, tiers)
           paid   == Paid(q, shares)
           lost   == [k \in DOMAIN pots |-> IF OutOfReach(q, k) THEN pots[k]
                                       ELSE [pots[k] EXCEPT !.amount = @ % Chip]]
           worth  == [i \in 0 .. n - 1 |->
                        IF PotWinners(pots, tiers)[i + 1] = {} THEN 0
                        ELSE InChips(pots[i + 1].amount)]
           kept   == [i \in 0 .. n - 1 |-> Amounts(pots)[i] - worth[i]]
<1>1. /\ pots \in Seq(Pot) /\ q.balance \in [Seats -> Nat] 
      /\ n \in Nat /\ N \in Nat /\ Seats = 0 .. N - 1
  BY Constants DEF PotState, Seats
<1>2. /\ tiers \in Seq(SUBSET Seats)
      /\ \A k \in 1 .. Len(tiers) : tiers[k] # {}
      /\ \A s \in seats : \E t \in 1 .. Len(tiers) : s \in tiers[t]
  BY <1>1, TiersCover
<1>3. lost \in Seq(Pot) /\ Len(lost) = n
  <2>1. DOMAIN pots = 1 .. n /\ \A k \in 1 .. n : pots[k] \in Pot
    BY <1>1
  <2>2. \A k \in 1 .. n : [pots[k] EXCEPT !.amount = @ % Chip] \in Pot
    <3>1. \A k \in 1 .. n : pots[k].amount % Chip \in Nat
      BY <2>1, ChipsAndCents DEF Pot
    <3>2. QED
      BY <2>1, <3>1 DEF Pot
  <2>3. lost \in [1 .. n -> Pot]
    BY <2>1, <2>2
  <2> HIDE DEF lost, n
  <2>4. QED
    BY <1>1, <2>3
<1>4. \A i \in 0 .. n - 1 :
        /\ i + 1 \in 1 .. n /\ Amounts(pots)[i] = pots[i + 1].amount /\ Amounts(pots)[i] \in Nat
        /\ Amounts(lost)[i] = IF OutOfReach(q, i + 1) THEN Amounts(pots)[i]
                              ELSE Amounts(pots)[i] % Chip
        /\ worth[i] = IF PotWinners(pots, tiers)[i + 1] = {} THEN 0
                      ELSE InChips(pots[i + 1].amount)
        /\ kept[i] = Amounts(pots)[i] - worth[i]
  <2>1. \A i \in 0 .. n - 1 :
          /\ i + 1 \in 1 .. n /\ Amounts(pots)[i] = pots[i + 1].amount
          /\ Amounts(pots)[i] \in Nat
    BY <1>1, AmountsAreNat DEF Amounts
  <2>2. \A i \in 0 .. n - 1 : Amounts(lost)[i] = lost[i + 1].amount
    BY <1>3 DEF Amounts
  <2>3. \A k \in 1 .. n : lost[k].amount = IF OutOfReach(q, k) THEN pots[k].amount
                                           ELSE pots[k].amount % Chip
    <3>1. \A k \in 1 .. n : pots[k] \in Pot
      BY <1>1
    <3>2. QED
      BY <1>1, <3>1 DEF Pot
  <2> HIDE DEF lost, n, tiers, pots
  <2>4. QED
    BY <2>1, <2>2, <2>3
<1> HIDE DEF tiers, worth, kept, lost, n, pots
<1>5. SumSeats(shares) = Sum(worth, n)
  <2>1. \A i \in 0 .. Len(pots) - 1 :
          worth[i] = IF PotWinners(pots, tiers)[i + 1] = {} THEN 0
                     ELSE InChips(pots[i + 1].amount)
    BY <1>4 DEF n
  <2>2. QED
    BY <1>1, <1>2, <2>1, PayoutsByPot DEF n
<1>6. ASSUME NEW i \in 0 .. n - 1
      PROVE  /\ worth[i] \in Int /\ kept[i] \in Int /\ Amounts(pots)[i] = worth[i] + kept[i]
             /\ 0 <= kept[i] /\ kept[i] <= Amounts(lost)[i] /\ Amounts(lost)[i] \in Nat
  <2>0. /\ Amounts(pots)[i] \in Nat /\ pots[i + 1].amount = Amounts(pots)[i]
        /\ InChips(Amounts(pots)[i]) \in Nat /\ Amounts(pots)[i] % Chip \in Nat
        /\ Amounts(pots)[i] = InChips(Amounts(pots)[i]) + (Amounts(pots)[i] % Chip)
    BY <1>4, ChipsAndCents
  <2>1. CASE PotWinners(pots, tiers)[i + 1] # {}
    BY <1>4, <2>0, <2>1
  <2>2. CASE OutOfReach(q, i + 1)
    BY <1>4, <2>0, <2>2
  <2>3. CASE PotWinners(pots, tiers)[i + 1] = {} /\ ~OutOfReach(q, i + 1)
    <3>1. PICK w \in Alive(q) : \A j \in 1 .. i : w \notin pots[j].allIn
      BY <2>3 DEF OutOfReach, pots
    <3>2. PICK t \in 1 .. Len(tiers) : w \in tiers[t]
      BY <1>2
    <3>3. i + 1 \in 0 .. Len(pots) /\ i + 1 \in 1 .. i + 1
          /\ \A j \in 1 .. (i + 1) - 1 : w \notin pots[j].allIn
      <4>1. i + 1 \in 0 .. Len(pots) /\ i \in Nat
        BY <1>1 DEF n
      <4>2. (i + 1) - 1 = i /\ i + 1 \in 1 .. i + 1
        BY <4>1
      <4>3. QED
        BY <3>1, <4>1, <4>2
    <3>4. \A k \in 1 .. i + 1 : pots[k].amount > 0 => PotWinners(pots, tiers)[k] # {}
      BY <1>1, <1>2, <3>2, <3>3, WinnersExist
    <3>5. ~(pots[i + 1].amount > 0)
      BY <2>3, <3>3, <3>4
    <3>6. Amounts(pots)[i] = 0
      BY <1>4, <3>5
    <3>7. QED
      BY <1>4, <2>0, <2>3, <3>6
  <2>4. QED
    BY <2>1, <2>2, <2>3
<1>7. Sum(Amounts(pots), n) = Sum(worth, n) + Sum(kept, n)
  BY <1>1, <1>6, SumLinear
<1>8. Sum(kept, n) \in Nat /\ Sum(worth, n) \in Int
  <2>1. \A i \in 0 .. n - 1 : kept[i] \in Nat
    BY <1>6
  <2>2. QED
    BY <1>1, <1>6, <2>1, SumNat, SumInt
<1>9. Sum(kept, n) <= Sum(Amounts(lost), n)
  <2>1. \A i \in 0 .. n - 1 :
          kept[i] \in Int /\ Amounts(lost)[i] \in Int /\ kept[i] <= Amounts(lost)[i]
    BY <1>6
  <2>2. QED
    BY <1>1, <2>1, SumMonotone
<1>10. PotTotal(pots) = Sum(Amounts(pots), n) /\ PotTotal(lost) = Sum(Amounts(lost), n)
       /\ PotTotal(lost) \in Nat
  BY <1>1, <1>3, PotTotalNat, Zenon DEF PotTotal, Amounts, n
<1>11. shares \in [Seats -> Nat]
  BY <1>1, <1>2, PayoutsType
<1> HIDE DEF shares
<1>12. paid.balance = [s \in Seats |-> q.balance[s] + shares[s]] /\ paid \in PotState
  <2> DEFINE after == [s \in Seats |-> q.balance[s] + shares[s]]
  <2>1. after \in [Seats -> Nat]
    BY <1>1, <1>11
  <2>2. paid = [q EXCEPT !.balance = after]
    BY DEF Paid
  <2> HIDE DEF paid, after
  <2>3. paid.balance = after /\ paid \in PotState
    BY <2>1, <2>2 DEF PotState
  <2>4. QED
    BY <2>3 DEF after
<1> HIDE DEF paid
<1>13. SumSeats(paid.balance) = SumSeats(q.balance) + SumSeats(shares)
  <2>1. \A i \in 0 .. N - 1 : /\ q.balance[i] \in Int /\ shares[i] \in Int
                              /\ paid.balance[i] = q.balance[i] + shares[i]
    BY <1>1, <1>11, <1>12
  <2>2. N \in Nat
    BY <1>1
  <2> DEFINE before == q.balance
             after  == paid.balance
  <2>3. \A i \in 0 .. N - 1 : /\ before[i] \in Int /\ shares[i] \in Int
                              /\ after[i] = before[i] + shares[i]
    BY <2>1
  <2> HIDE DEF before, after
  <2>4. Sum(after, N) = Sum(before, N) + Sum(shares, N)
    BY <2>2, <2>3, SumLinear
  <2>5. QED
    BY <2>4 DEF SumSeats, before, after
<1>14. SumSeats(q.balance) \in Int
  BY <1>1, SumInt DEF SumSeats
<1>15. (SumSeats(q.balance) + PotTotal(pots)) - SumSeats(paid.balance) \in 0 .. PotTotal(lost)
  BY <1>5, <1>7, <1>8, <1>9, <1>10, <1>13, <1>14
<1>16. QED
  BY <1>12, <1>15 DEF paid, shares, tiers, lost, pots

-----------------------------------------------------------------------------
(* A hand in play: what holds of the manager between any two calls until   *)
(* the winners are paid, whoever makes the calls.                          *)

\* The bets in play are the ones counted, none above the amount to call.
BetsAddUp(q) == BetsInRange(q) /\ q.amountInPlay = SumSeats(q.inPlay)

\* There is a pot to collect in as long as somebody can bet.
PotIsOpen(q) == q.pots = <<>> => Live(q) = {} /\ q.actionAmount = 0

\* The turn is on somebody who may act; bets are due when the round is over, and
\* none are left once they are collected; nobody bets in a decision round.
TurnsInOrder(q) ==
  /\ ~IsRoundOver(q) => MayAct(q, SeatAt(q, q.actionAtIndex))
  /\ q.needsPotCalculation => IsRoundOver(q)
  /\ IsRoundOver(q) /\ ~q.needsPotCalculation => \A s \in Seats : q.inPlay[s] = 0
  /\ q.inDecisionRound => q.actionAmount = 0

\* Behind the turn everybody who can still act is one of "who" and has matched
\* the bet.
MatchedBehind(q, who) ==
  q.needsPotCalculation \/ ~IsRoundOver(q) =>
    \A i \in 0 .. q.actionAtIndex - 1 :
      i < N /\ CanAct(q, SeatAt(q, i)) =>
        SeatAt(q, i) \in who /\ q.inPlay[SeatAt(q, i)] = q.actionAmount

\* Who is all-in on a pot can no longer bet and has nothing in play.
AllInBefore(q) ==
  \A k \in 1 .. Len(q.pots) : \A s \in q.pots[k].allIn : q.allIn[s] /\ q.inPlay[s] = 0

\* Somebody who has not folded holds the bet to call; he has acted first in this
\* round, or is the last to act (the big blind).
BetIsHeld(q) ==
  q.actionAmount > 0 /\ (q.needsPotCalculation \/ ~IsRoundOver(q)) =>
    \E t \in Alive(q) :
      /\ q.inPlay[t] = q.actionAmount
      /\ \/ IsRoundOver(q)
         \/ t = SeatAt(q, N - 1)
         \/ t = SeatAt(q, 0) /\ q.actionAtIndex > 0

Playing(q, who) ==
  /\ q \in PotState
  /\ BetsAddUp(q)
  /\ PotIsOpen(q)
  /\ TurnsInOrder(q)
  /\ MatchedBehind(q, who)
  /\ AllInBefore(q)
  /\ Contested(q)
  /\ BetIsHeld(q)

\* All the chips of the hand.
Chips(q) == SumSeats(q.balance) + TotalOnTable(q)

\* Different places are different seats.
LEMMA SeatAtInjective ==
  ASSUME NEW q \in PotState, NEW i \in 0 .. N - 1, NEW j \in 0 .. N - 1,
         SeatAt(q, i) = SeatAt(q, j)
  PROVE  i = j
<1>1. q.actionStartIndex \in Seats /\ Seats = 0 .. N - 1 /\ N \in Nat
  BY Constants DEF PotState, Seats
<1> DEFINE start == q.actionStartIndex
<1>2. \A k \in 0 .. N - 1 :
        SeatAt(q, k) = IF start + k < N THEN start + k ELSE (start + k) - N
  BY <1>1, SeatAtValue, Zenon DEF SeatAt
<1>3. start \in 0 .. N - 1
  BY <1>1
<1> HIDE DEF start
<1>4. QED
  BY <1>1, <1>2, <1>3

\* Whoever is in turn may act, and no bets are due.
LEMMA TurnFacts ==
  ASSUME NEW q, NEW who, Playing(q, who), NEW s, InTurn(q, s)
  PROVE  /\ q \in PotState /\ s \in Seats /\ SeatAt(q, q.actionAtIndex) = s
         /\ q.actionAtIndex \in 0 .. N - 1
         /\ MayAct(q, s) /\ ~q.folded[s]
         /\ ~q.isGameOver /\ ~q.needsPotCalculation /\ ~IsRoundOver(q)
<1>1. q \in PotState /\ N \in Nat /\ q.actionAtIndex \in 0 .. N
  BY Constants DEF Playing, PotState
<1>2. ~IsRoundOver(q) /\ ~q.isGameOver /\ s = SeatAt(q, q.actionAtIndex)
  BY DEF InTurn
<1>3. q.actionAtIndex \in 0 .. N - 1
  BY <1>1, <1>2 DEF IsRoundOver
<1>4. s \in Seats
  BY <1>1, <1>2, <1>3, SeatAtIsSeat
<1>5. MayAct(q, s) /\ ~q.needsPotCalculation
  BY <1>2 DEF Playing, TurnsInOrder
<1>6. QED
  BY <1>1, <1>2, <1>3, <1>4, <1>5 DEF MayAct, CanAct

\* Completing a turn: r is the manager when the participant's own business is done.
LEMMA TurnCompleted ==
  ASSUME NEW r \in PotState, NEW who, r.actionAtIndex < N,
         ~r.needsPotCalculation, r.inDecisionRound => r.actionAmount = 0,
         \A i \in 0 .. r.actionAtIndex :
           CanAct(r, SeatAt(r, i)) =>
             SeatAt(r, i) \in who /\ r.inPlay[SeatAt(r, i)] = r.actionAmount,
         BetsAddUp(r), PotIsOpen(r), AllInBefore(r), Contested(r),
         r.actionAmount > 0 =>
           \E t \in Alive(r) :
             /\ r.inPlay[t] = r.actionAmount
             /\ r.actionAtIndex = N - 1 \/ t = SeatAt(r, N - 1) \/ t = SeatAt(r, 0)
  PROVE  /\ Playing(CompleteTurn(r), who)
         /\ Chips(CompleteTurn(r)) = Chips(r)
<1> DEFINE q == CompleteTurn(r)
<1>1. /\ q \in PotState
      /\ q.balance = r.balance /\ q.inPlay = r.inPlay
      /\ q.allIn = r.allIn /\ q.folded = r.folded /\ q.pots = r.pots
      /\ q.actionStartIndex = r.actionStartIndex
      /\ q.actionAmount = r.actionAmount /\ q.amountInPlay = r.amountInPlay
      /\ q.inDecisionRound = r.inDecisionRound
      /\ \/ /\ q.actionAtIndex \in r.actionAtIndex + 1 .. N - 1
            /\ MayAct(r, SeatAt(r, q.actionAtIndex))
            /\ q.needsPotCalculation = r.needsPotCalculation
         \/ /\ q.actionAtIndex = N
            /\ q.needsPotCalculation
  BY CompleteTurnFields
<1>2. \A i \in 0 .. q.actionAtIndex - 1 :
        CanAct(q, SeatAt(q, i)) =>
          SeatAt(q, i) \in who /\ q.inPlay[SeatAt(q, i)] = q.actionAmount
  BY CompleteTurnSettles
<1>3. N \in Nat /\ r.actionAtIndex \in 0 .. N
  BY Constants DEF PotState
<1> HIDE DEF q
<1>4. TurnsInOrder(q)
  <2>1. ASSUME q.actionAtIndex # N
        PROVE  MayAct(q, SeatAt(q, q.actionAtIndex))
    BY <1>1, <2>1 DEF MayAct, CanAct, SeatAt
  <2>2. IsRoundOver(q) <=> q.actionAtIndex = N
    BY <1>1, <1>3 DEF IsRoundOver
  <2>3. IsRoundOver(q) <=> q.needsPotCalculation
    BY <1>1, <1>3 DEF IsRoundOver
  <2>4. QED
    BY <1>1, <2>1, <2>2, <2>3 DEF TurnsInOrder
<1>5. BetsAddUp(q) /\ PotIsOpen(q) /\ MatchedBehind(q, who)
  BY <1>1, <1>2 DEF BetsAddUp, BetsInRange, PotIsOpen, Live, CanAct, MatchedBehind
<1>6. AllInBefore(q) /\ Contested(q)
  BY <1>1 DEF AllInBefore, Contested, Alive
<1>7. BetIsHeld(q)
  <2> SUFFICES ASSUME q.actionAmount > 0
               PROVE  \E t \in Alive(q) :
                        /\ q.inPlay[t] = q.actionAmount
                        /\ \/ IsRoundOver(q)
                           \/ t = SeatAt(q, N - 1)
                           \/ t = SeatAt(q, 0) /\ q.actionAtIndex > 0
    BY DEF BetIsHeld
  <2>1. PICK t \in Alive(r) :
             /\ r.inPlay[t] = r.actionAmount
             /\ r.actionAtIndex = N - 1 \/ t = SeatAt(r, N - 1) \/ t = SeatAt(r, 0)
    BY <1>1
  <2>2. t \in Alive(q) /\ q.inPlay[t] = q.actionAmount
    BY <1>1, <2>1 DEF Alive
  <2>3. SeatAt(q, N - 1) = SeatAt(r, N - 1) /\ SeatAt(q, 0) = SeatAt(r, 0)
    BY <1>1 DEF SeatAt
  <2>4. q.actionAtIndex > 0 /\ (r.actionAtIndex = N - 1 => IsRoundOver(q))
    BY <1>1, <1>3, Constants DEF IsRoundOver
  <2>5. QED
    BY <2>1, <2>2, <2>3, <2>4
<1>8. Chips(q) = Chips(r)
  BY <1>1 DEF Chips, TotalOnTable
<1>9. QED
  BY <1>1, <1>4, <1>5, <1>6, <1>7, <1>8 DEF Playing, q

\* A fold: the participant can no longer act, and owes nothing.  Unless he is the
\* only one who can act and has matched the bet, somebody else contests all pots.
LEMMA FoldKeeps ==
  ASSUME NEW q, NEW who, Playing(q, who), NEW s, InTurn(q, s), ~q.inDecisionRound,
         Live(q) = {s} => q.inPlay[s] < q.actionAmount
  PROVE  /\ Playing(Fold(q, s), who \cup {s})
         /\ Chips(Fold(q, s)) = Chips(q)
<1> DEFINE r == [q EXCEPT !.folded[s] = TRUE]
<1>1. /\ q \in PotState /\ s \in Seats /\ SeatAt(q, q.actionAtIndex) = s
      /\ q.actionAtIndex \in 0 .. N - 1 /\ CanAct(q, s)
      /\ ~q.needsPotCalculation /\ ~IsRoundOver(q)
      /\ N \in Nat /\ N >= 2
  BY TurnFacts, Constants DEF MayAct
<1>2. /\ r \in PotState
      /\ r.balance = q.balance /\ r.inPlay = q.inPlay /\ r.allIn = q.allIn
      /\ r.pots = q.pots
      /\ r.actionStartIndex = q.actionStartIndex /\ r.actionAtIndex = q.actionAtIndex
      /\ r.actionAmount = q.actionAmount /\ r.amountInPlay = q.amountInPlay
      /\ r.inDecisionRound = q.inDecisionRound
      /\ r.needsPotCalculation = q.needsPotCalculation
      /\ r.folded[s] /\ \A t \in Seats : r.folded[t] = (q.folded[t] \/ t = s)
  BY <1>1 DEF PotState
<1>3. Fold(q, s) = CompleteTurn(r)
  BY Zenon DEF Fold
<1> HIDE DEF r
<1>4. ASSUME NEW i \in 0 .. q.actionAtIndex - 1, CanAct(q, SeatAt(q, i))
      PROVE  SeatAt(q, i) \in who /\ q.inPlay[SeatAt(q, i)] = q.actionAmount
  BY <1>1, <1>4 DEF Playing, MatchedBehind
<1>5. \A i \in 0 .. r.actionAtIndex :
        CanAct(r, SeatAt(r, i)) =>
          SeatAt(r, i) \in who \cup {s} /\ r.inPlay[SeatAt(r, i)] = r.actionAmount
  <2>1. ASSUME NEW i \in 0 .. r.actionAtIndex, CanAct(r, SeatAt(r, i))
        PROVE  SeatAt(r, i) \in who \cup {s} /\ r.inPlay[SeatAt(r, i)] = r.actionAmount
    <3>1. i \in 0 .. N - 1
      BY <1>1, <1>2
    <3>2. SeatAt(r, i) = SeatAt(q, i) /\ SeatAt(q, i) \in Seats
      BY <1>1, <1>2, <3>1, SeatAtIsSeat DEF SeatAt
    <3>3. SeatAt(r, i) # s /\ CanAct(q, SeatAt(q, i))
      BY <1>2, <2>1, <3>2 DEF CanAct
    <3>4. i \in 0 .. q.actionAtIndex - 1
      BY <1>1, <1>2, <3>2, <3>3
    <3>5. QED
      BY <1>2, <1>4, <3>2, <3>3, <3>4
  <2>2. QED
    BY <2>1
<1>6. BetsAddUp(r)
  BY <1>2 DEF Playing, BetsAddUp, BetsInRange
<1>7. PotIsOpen(r)
  <2>1. Live(r) \subseteq Live(q)
    BY <1>2 DEF Live, CanAct
  <2>2. QED
    BY <1>2, <2>1 DEF Playing, PotIsOpen
<1>8. AllInBefore(r)
  BY <1>2 DEF Playing, AllInBefore
<1>9. q.actionAmount > 0 =>
        \E t \in Alive(r) :
          /\ q.inPlay[t] = q.actionAmount
          /\ q.actionAtIndex = N - 1 \/ t = SeatAt(q, N - 1) \/ t = SeatAt(q, 0)
  <2> SUFFICES ASSUME q.actionAmount > 0
               PROVE  \E t \in Alive(r) :
                        /\ q.inPlay[t] = q.actionAmount
                        /\ q.actionAtIndex = N - 1 \/ t = SeatAt(q, N - 1) \/ t = SeatAt(q, 0)
    OBVIOUS
  <2>1. PICK t \in Alive(q) :
           /\ q.inPlay[t] = q.actionAmount
           /\ t = SeatAt(q, N - 1) \/ (t = SeatAt(q, 0) /\ q.actionAtIndex > 0)
    BY <1>1 DEF Playing, BetIsHeld
  <2>2. CASE t # s
    <3>1. t \in Alive(r)
      BY <1>2, <2>2 DEF Alive
    <3>2. QED
      BY <2>1, <3>1
  <2>3. CASE t = s
    <3>1. 0 \in 0 .. N - 1 /\ N - 1 \in 0 .. N - 1
      BY <1>1
    <3>2. q.actionAtIndex = N - 1
      BY <1>1, <2>1, <2>3, <3>1, SeatAtInjective
    <3>3. PICK u \in Live(q) : u # s
      <4>1. Live(q) # {s}
        BY <1>1, <2>1, <2>3 DEF PotState
      <4>2. s \in Live(q)
        BY <1>1 DEF Live
      <4>3. QED
        BY <4>1, <4>2
    <3>4. PICK i \in 0 .. N - 1 : SeatAt(q, i) = u
      BY <1>1, <3>3, SeatAtReachesAll DEF Live
    <3>5. i \in 0 .. q.actionAtIndex - 1
      BY <1>1, <3>2, <3>3, <3>4
    <3>6. q.inPlay[u] = q.actionAmount
      BY <1>4, <3>3, <3>4, <3>5 DEF Live
    <3>7. u \in Alive(r)
      BY <1>2, <3>3 DEF Live, CanAct, Alive
    <3>8. QED
      BY <3>2, <3>6, <3>7
  <2>4. QED
    BY <2>2, <2>3
<1>10. Contested(r)
  <2>1. \A u \in Seats : q.inPlay[u] # 0 \/ ~q.allIn[u] =>
          \A k \in 1 .. Len(q.pots) : u \notin q.pots[k].allIn
    BY DEF Playing, AllInBefore
  <2>2. CASE \E u \in Live(q) : u # s
    <3>1. PICK u \in Live(q) : u # s
      BY <2>2
    <3>2. u \in Alive(r) /\ u \in Seats /\ ~q.allIn[u]
      BY <1>2, <3>1 DEF Live, CanAct, Alive
    <3>3. \A k \in 1 .. Len(r.pots) : u \notin r.pots[k].allIn
      BY <1>2, <2>1, <3>2
    <3>4. \A k \in 1 .. Len(r.pots) - 1 : k \in 1 .. Len(r.pots)
      BY <1>2 DEF PotState
    <3>5. QED
      BY <3>2, <3>3, <3>4 DEF Contested
  <2>3. CASE ~\E u \in Live(q) : u # s
    <3>1. Live(q) = {s}
      BY <1>1, <2>3 DEF Live
    <3>2. q.inPlay[s] \in Int /\ 0 <= q.inPlay[s] /\ q.actionAmount \in Nat
      BY <1>1 DEF Playing, BetsAddUp, BetsInRange, PotState
    <3>3. q.inPlay[s] < q.actionAmount
      BY <3>1
    <3>4. q.actionAmount > 0
      BY <3>2, <3>3
    <3>5. PICK t \in Alive(r) : q.inPlay[t] = q.actionAmount
      BY <1>9, <3>4
    <3>6. t \in Seats /\ q.inPlay[t] # 0
      BY <3>2, <3>4, <3>5 DEF Alive
    <3>7. \A k \in 1 .. Len(r.pots) : t \notin r.pots[k].allIn
      BY <1>2, <2>1, <3>6
    <3>8. \A k \in 1 .. Len(r.pots) - 1 : k \in 1 .. Len(r.pots)
      BY <1>2 DEF PotState
    <3>9. QED
      BY <3>5, <3>7, <3>8 DEF Contested
  <2>4. QED
    BY <2>2, <2>3
<1>11. r.actionAmount > 0 =>
         \E t \in Alive(r) :
           /\ r.inPlay[t] = r.actionAmount
           /\ r.actionAtIndex = N - 1 \/ t = SeatAt(r, N - 1) \/ t = SeatAt(r, 0)
  BY <1>2, <1>9 DEF SeatAt
<1>12. Playing(CompleteTurn(r), who \cup {s}) /\ Chips(CompleteTurn(r)) = Chips(r)
  <2>1. r.actionAtIndex < N /\ ~r.needsPotCalculation /\ ~r.inDecisionRound
    BY <1>1, <1>2
  <2> DEFINE them == who \cup {s}
  <2>2. \A i \in 0 .. r.actionAtIndex :
          CanAct(r, SeatAt(r, i)) =>
            SeatAt(r, i) \in them /\ r.inPlay[SeatAt(r, i)] = r.actionAmount
    BY <1>5
  <2> HIDE DEF them
  <2>3. Playing(CompleteTurn(r), them) /\ Chips(CompleteTurn(r)) = Chips(r)
    BY <1>2, <1>6, <1>7, <1>8, <1>10, <1>11, <2>1, <2>2, TurnCompleted
  <2>4. QED
    BY <2>3 DEF them
<1>13. Chips(r) = Chips(q)
  BY <1>2 DEF Chips, TotalOnTable
<1>14. QED
  BY <1>3, <1>12, <1>13

\* A turn that changes nothing but whose turn it is.
LEMMA PassKeeps ==
  ASSUME NEW q, NEW who, Playing(q, who), NEW s, InTurn(q, s), q.inPlay[s] = q.actionAmount
  PROVE  /\ Playing(CompleteTurn(q), who \cup {s})
         /\ Chips(CompleteTurn(q)) = Chips(q)
<1> DEFINE them == who \cup {s}
<1>1. /\ q \in PotState /\ SeatAt(q, q.actionAtIndex) = s
      /\ q.actionAtIndex \in 0 .. N - 1
      /\ ~q.needsPotCalculation /\ ~IsRoundOver(q) /\ N \in Nat
  BY TurnFacts, Constants
<1>2. \A i \in 0 .. q.actionAtIndex :
        CanAct(q, SeatAt(q, i)) =>
          SeatAt(q, i) \in them /\ q.inPlay[SeatAt(q, i)] = q.actionAmount
  <2>1. ASSUME NEW i \in 0 .. q.actionAtIndex, CanAct(q, SeatAt(q, i))
        PROVE  SeatAt(q, i) \in them /\ q.inPlay[SeatAt(q, i)] = q.actionAmount
    <3>1. CASE i = q.actionAtIndex
      BY <1>1, <3>1
    <3>2. CASE i # q.actionAtIndex
      <4>1. i \in 0 .. q.actionAtIndex - 1 /\ i < N
        BY <1>1, <3>2
      <4>2. QED
        BY <1>1, <2>1, <4>1 DEF Playing, MatchedBehind
    <3>3. QED
      BY <3>1, <3>2
  <2>2. QED
    BY <2>1
<1>3. /\ BetsAddUp(q) /\ PotIsOpen(q) /\ AllInBefore(q) /\ Contested(q)
      /\ q.inDecisionRound => q.actionAmount = 0
      /\ q.actionAtIndex < N
  BY <1>1 DEF Playing, TurnsInOrder
<1>4. q.actionAmount > 0 =>
        \E t \in Alive(q) :
          /\ q.inPlay[t] = q.actionAmount
          /\ q.actionAtIndex = N - 1 \/ t = SeatAt(q, N - 1) \/ t = SeatAt(q, 0)
  BY <1>1 DEF Playing, BetIsHeld
<1> HIDE DEF them
<1>5. Playing(CompleteTurn(q), them) /\ Chips(CompleteTurn(q)) = Chips(q)
  BY <1>1, <1>2, <1>3, <1>4, TurnCompleted
<1>6. QED
  BY <1>5 DEF them

\* What a payment moves: all that was due, or all there is; all that was due when
\* the balance covers it.
LEMMA AdjustPays ==
  ASSUME NEW q \in PotState, NEW s \in Seats, NEW to \in Nat, q.inPlay[s] <= to
  PROVE  LET r == Adjust(q, s, to) IN
         \E paid \in Nat :
           /\ paid = q.balance[s] \/ paid = to - q.inPlay[s]
           /\ to - q.inPlay[s] <= q.balance[s] => paid = to - q.inPlay[s]
           /\ r.balance = [q.balance EXCEPT ![s] = @ - paid]
           /\ r.inPlay = [q.inPlay EXCEPT ![s] = @ + paid]
<1> DEFINE r    == Adjust(q, s, to)
           due  == to - q.inPlay[s]
           paid == IF due >= q.balance[s] THEN q.balance[s] ELSE due
           out  == due >= q.balance[s]
<1>1. /\ paid \in Nat
      /\ r \in PotState
      /\ r.balance = [q.balance EXCEPT ![s] = @ - paid]
      /\ r.inPlay = [q.inPlay EXCEPT ![s] = @ + paid]
      /\ r.amountInPlay = q.amountInPlay + paid
      /\ r.allIn = [q.allIn EXCEPT ![s] = @ \/ due >= q.balance[s]]
  BY AdjustFields
<1>2. q.balance[s] \in Nat /\ q.inPlay[s] \in Int /\ due \in Int
  BY DEF PotState
<1>3. /\ paid = q.balance[s] \/ paid = due
      /\ due <= q.balance[s] => paid = due
  BY <1>2
<1> HIDE DEF paid, out
<1>4. QED
  BY <1>1, <1>3, Zenon

\* A payment that the balance covers is made in full.
LEMMA AdjustReaches ==
  ASSUME NEW q \in PotState, NEW s \in Seats, NEW to \in Nat, q.inPlay[s] <= to,
         to - q.inPlay[s] <= q.balance[s], NEW r, r = Adjust(q, s, to)
  PROVE  r.inPlay[s] = to
<1>1. PICK paid \in Nat :
           /\ paid = q.balance[s] \/ paid = to - q.inPlay[s]
           /\ to - q.inPlay[s] <= q.balance[s] => paid = to - q.inPlay[s]
           /\ r.balance = [q.balance EXCEPT ![s] = @ - paid]
           /\ r.inPlay = [q.inPlay EXCEPT ![s] = @ + paid]
  BY AdjustPays
<1>2. q.inPlay \in [Seats -> Int]
  BY DEF PotState
<1>3. QED
  BY <1>1, <1>2

\* A payment moves chips between the balance and the bets of one participant.
LEMMA AdjustKeepsStacks ==
  ASSUME NEW q \in PotState, NEW s \in Seats, NEW to \in Nat, q.inPlay[s] <= to,
         NEW r, r = Adjust(q, s, to)
  PROVE  \A t \in Seats : AllInAmount(r, t) = AllInAmount(q, t)
<1>1. PICK paid \in Nat :
           /\ paid = q.balance[s] \/ paid = to - q.inPlay[s]
           /\ to - q.inPlay[s] <= q.balance[s] => paid = to - q.inPlay[s]
           /\ r.balance = [q.balance EXCEPT ![s] = @ - paid]
           /\ r.inPlay = [q.inPlay EXCEPT ![s] = @ + paid]
  BY AdjustPays
<1>2. q.inPlay \in [Seats -> Int] /\ q.balance \in [Seats -> Nat]
  BY DEF PotState
<1>3. ASSUME NEW t \in Seats
      PROVE  r.inPlay[t] + r.balance[t] = q.inPlay[t] + q.balance[t]
  <2>1. CASE t = s
    BY <1>1, <1>2, <2>1
  <2>2. CASE t # s
    BY <1>1, <1>2, <2>2
  <2>3. QED
    BY <2>1, <2>2
<1>4. QED
  BY <1>3 DEF AllInAmount

\* Somebody pays: q is the manager with the amount to call and the place of the
\* turn as the payment finds them.
LEMMA PaymentKeeps ==
  ASSUME NEW q \in PotState, NEW who, NEW s \in who, s \in Seats,
         CanAct(q, s), ~q.inDecisionRound, ~q.needsPotCalculation,
         q.actionAtIndex \in 0 .. N - 1,
         BetsAddUp(q), q.pots # <<>>, AllInBefore(q), Contested(q),
         \A i \in 0 .. q.actionAtIndex :
           CanAct(q, SeatAt(q, i)) /\ SeatAt(q, i) # s =>
             SeatAt(q, i) \in who /\ q.inPlay[SeatAt(q, i)] = q.actionAmount,
         \E t \in Alive(q) :
           /\ IF t = s THEN q.actionAmount - q.inPlay[s] <= q.balance[s]
              ELSE q.inPlay[t] = q.actionAmount
           /\ q.actionAtIndex = N - 1 \/ t = SeatAt(q, N - 1) \/ t = SeatAt(q, 0)
  PROVE  LET p == CompleteTurn(Adjust(q, s, q.actionAmount)) IN
         /\ Playing(p, who)
         /\ Chips(p) = Chips(q)
         /\ \A t \in Seats : p.balance[t] <= q.balance[t]
<1> DEFINE amount == q.actionAmount
           r      == Adjust(q, s, amount)
           p      == CompleteTurn(r)
<1>1. /\ N \in Nat /\ amount \in Nat /\ q.inPlay[s] <= amount
      /\ q.inPlay \in [Seats -> Int] /\ q.balance \in [Seats -> Nat]
      /\ BetsInRange(q) /\ q.amountInPlay = SumSeats(q.inPlay)
  BY Constants DEF PotState, BetsAddUp, BetsInRange
<1>2. amount = q.actionAmount /\ r = Adjust(q, s, amount) /\ p = CompleteTurn(r)
  OBVIOUS
<1> HIDE DEF amount, r, p
<1>3. /\ r \in PotState
      /\ r.folded = q.folded /\ r.pots = q.pots
      /\ r.actionStartIndex = q.actionStartIndex /\ r.actionAtIndex = q.actionAtIndex
      /\ r.actionAmount = q.actionAmount
      /\ r.needsPotCalculation = q.needsPotCalculation
      /\ r.inDecisionRound = q.inDecisionRound
  BY <1>1, <1>2, AdjustKeeps
<1>4. PICK paid \in Nat :
           /\ SumSeats(r.balance) = SumSeats(q.balance) - paid
           /\ SumSeats(r.inPlay) = SumSeats(q.inPlay) + paid
           /\ r.amountInPlay = q.amountInPlay + paid
           /\ q.inPlay[s] <= r.inPlay[s] /\ r.inPlay[s] <= amount
           /\ \A t \in Seats : r.balance[t] <= q.balance[t]
           /\ \A t \in Seats \ {s} : /\ r.inPlay[t] = q.inPlay[t]
                                     /\ r.balance[t] = q.balance[t]
                                     /\ r.allIn[t] = q.allIn[t]
           /\ ~r.allIn[s] => r.inPlay[s] = amount
           /\ amount - q.inPlay[s] < q.balance[s] => r.allIn[s] = q.allIn[s]
  BY <1>1, <1>2, AdjustMoves
<1>5. \A i \in 0 .. r.actionAtIndex :
        CanAct(r, SeatAt(r, i)) =>
          SeatAt(r, i) \in who /\ r.inPlay[SeatAt(r, i)] = r.actionAmount
  <2>1. ASSUME NEW i \in 0 .. r.actionAtIndex, CanAct(r, SeatAt(r, i))
        PROVE  SeatAt(r, i) \in who /\ r.inPlay[SeatAt(r, i)] = r.actionAmount
    <3>1. i \in 0 .. N - 1
      BY <1>1, <1>3
    <3>2. SeatAt(r, i) = SeatAt(q, i) /\ SeatAt(q, i) \in Seats
      BY <1>3, <3>1, SeatAtIsSeat DEF SeatAt
    <3>3. CASE SeatAt(q, i) = s
      BY <1>2, <1>3, <1>4, <2>1, <3>2, <3>3 DEF CanAct
    <3>4. CASE SeatAt(q, i) # s
      <4>1. r.inPlay[SeatAt(q, i)] = q.inPlay[SeatAt(q, i)] /\ CanAct(q, SeatAt(q, i))
        BY <1>3, <1>4, <2>1, <3>2, <3>4 DEF CanAct
      <4>2. QED
        BY <1>3, <3>2, <3>4, <4>1
    <3>5. QED
      BY <3>3, <3>4
  <2>2. QED
    BY <2>1
<1>6. SumSeats(q.balance) \in Int /\ SumSeats(q.inPlay) \in Int /\ PotTotal(q.pots) \in Nat
  <2>1. PotTotal(q.pots) \in Nat
    BY PotTotalNat DEF PotState
  <2>2. \A i \in 0 .. N - 1 : q.balance[i] \in Int /\ q.inPlay[i] \in Int
    BY <1>1 DEF Seats
  <2>3. QED
    BY <1>1, <2>1, <2>2, SumInt DEF SumSeats
<1>7. BetsAddUp(r)
  <2>1. ASSUME NEW t \in Seats
        PROVE  0 <= r.inPlay[t] /\ r.inPlay[t] <= r.actionAmount
    <3>1. 0 <= q.inPlay[t] /\ q.inPlay[t] <= q.actionAmount /\ q.inPlay[t] \in Int
      BY <1>1 DEF BetsInRange
    <3>2. CASE t = s
      <4>1. r.inPlay[s] \in Int
        BY <1>3 DEF PotState
      <4>2. QED
        BY <1>1, <1>2, <1>3, <1>4, <3>1, <3>2, <4>1
    <3>3. CASE t # s
      BY <1>1, <1>3, <1>4, <3>1, <3>3
    <3>4. QED
      BY <3>2, <3>3
  <2>2. QED
    BY <1>1, <1>4, <2>1 DEF BetsAddUp, BetsInRange
<1>8. PotIsOpen(r) /\ Contested(r)
  BY <1>3 DEF PotIsOpen, Contested, Alive
<1>9. AllInBefore(r)
  <2>1. ASSUME NEW k \in 1 .. Len(r.pots), NEW u \in r.pots[k].allIn
        PROVE  r.allIn[u] /\ r.inPlay[u] = 0
    <3>1. q.allIn[u] /\ q.inPlay[u] = 0
      BY <1>3, <2>1 DEF AllInBefore
    <3>2. r.pots[k] \in Pot
      BY <1>3 DEF PotState
    <3>3. u \in Seats \ {s}
      BY <3>1, <3>2 DEF Pot, CanAct
    <3>4. QED
      BY <1>4, <3>1, <3>3
  <2>2. QED
    BY <2>1 DEF AllInBefore
<1>10. \E t \in Alive(r) :
         /\ r.inPlay[t] = r.actionAmount
         /\ r.actionAtIndex = N - 1 \/ t = SeatAt(r, N - 1) \/ t = SeatAt(r, 0)
  <2>1. PICK t \in Alive(q) :
           /\ IF t = s THEN q.actionAmount - q.inPlay[s] <= q.balance[s]
              ELSE q.inPlay[t] = q.actionAmount
           /\ q.actionAtIndex = N - 1 \/ t = SeatAt(q, N - 1) \/ t = SeatAt(q, 0)
    OBVIOUS
  <2>2. t \in Alive(r) /\ SeatAt(r, N - 1) = SeatAt(q, N - 1) /\ SeatAt(r, 0) = SeatAt(q, 0)
    BY <1>3 DEF Alive, SeatAt
  <2>3. CASE t = s
    <3>1. r.inPlay[s] = amount
      BY <1>1, <1>2, <2>1, <2>3, AdjustReaches
    <3>2. QED
      BY <1>2, <1>3, <2>1, <2>2, <2>3, <3>1
  <2>4. CASE t # s
    BY <1>3, <1>4, <2>1, <2>2, <2>4 DEF Alive
  <2>5. QED
    BY <2>3, <2>4
<1>11. Playing(p, who) /\ Chips(p) = Chips(r)
  <2>1. r.actionAtIndex < N /\ ~r.needsPotCalculation /\ ~r.inDecisionRound
    BY <1>1, <1>3
  <2>2. QED
    BY <1>2, <1>3, <1>5, <1>7, <1>8, <1>9, <1>10, <2>1, TurnCompleted
<1>12. Chips(r) = Chips(q)
  <2>1. q.amountInPlay \in Nat /\ r.amountInPlay \in Nat
    BY <1>3 DEF PotState
  <2>2. QED
    BY <1>3, <1>4, <1>6, <2>1 DEF Chips, TotalOnTable
<1>13. p.balance = r.balance
  BY <1>2, <1>3, CompleteTurnFields
<1>14. QED
  BY <1>2, <1>4, <1>11, <1>12, <1>13

\* A call: a payment up to the amount to call, the round going on as it was.
LEMMA CallKeeps ==
  ASSUME NEW q, NEW who, Playing(q, who), NEW s, MayCall(q, s)
  PROVE  /\ Playing(Call(q, s), who \cup {s})
         /\ Chips(Call(q, s)) = Chips(q)
         /\ \A t \in Seats : Call(q, s).balance[t] <= q.balance[t]
<1> DEFINE them == who \cup {s}
<1>1. InTurn(q, s) /\ ~q.inDecisionRound /\ q.actionAmount > q.inPlay[s]
  BY DEF MayCall, MayBet
<1>2. /\ q \in PotState /\ s \in Seats /\ SeatAt(q, q.actionAtIndex) = s
      /\ q.actionAtIndex \in 0 .. N - 1 /\ CanAct(q, s)
      /\ ~q.needsPotCalculation /\ ~IsRoundOver(q) /\ N \in Nat
  BY <1>1, TurnFacts, Constants DEF MayAct
<1>3. q.actionAmount \in Nat /\ 0 <= q.inPlay[s] /\ q.inPlay[s] \in Int /\ q.actionAmount > 0
  BY <1>1, <1>2 DEF PotState, Playing, BetsAddUp, BetsInRange
<1>4. \A i \in 0 .. q.actionAtIndex :
        CanAct(q, SeatAt(q, i)) /\ SeatAt(q, i) # s =>
          SeatAt(q, i) \in them /\ q.inPlay[SeatAt(q, i)] = q.actionAmount
  <2>1. ASSUME NEW i \in 0 .. q.actionAtIndex, CanAct(q, SeatAt(q, i)), SeatAt(q, i) # s
        PROVE  SeatAt(q, i) \in them /\ q.inPlay[SeatAt(q, i)] = q.actionAmount
    <3>1. i \in 0 .. q.actionAtIndex - 1 /\ i < N
      BY <1>2, <2>1
    <3>2. QED
      BY <1>2, <2>1, <3>1 DEF Playing, MatchedBehind
  <2>2. QED
    BY <2>1
<1>5. /\ BetsAddUp(q) /\ AllInBefore(q) /\ Contested(q)
      /\ q.pots # <<>>
  <2>1. s \in Live(q)
    BY <1>2 DEF Live
  <2>2. QED
    BY <2>1 DEF Playing, PotIsOpen
<1>6. \E t \in Alive(q) :
        /\ IF t = s THEN q.actionAmount - q.inPlay[s] <= q.balance[s]
           ELSE q.inPlay[t] = q.actionAmount
        /\ q.actionAtIndex = N - 1 \/ t = SeatAt(q, N - 1) \/ t = SeatAt(q, 0)
  <2>1. PICK t \in Alive(q) :
           /\ q.inPlay[t] = q.actionAmount
           /\ t = SeatAt(q, N - 1) \/ (t = SeatAt(q, 0) /\ q.actionAtIndex > 0)
    BY <1>2, <1>3 DEF Playing, BetIsHeld
  <2>2. t # s
    BY <1>1, <1>3, <2>1
  <2>3. QED
    BY <2>1, <2>2
<1>7. s \in them /\ Call(q, s) = CompleteTurn(Adjust(q, s, q.actionAmount))
  BY DEF Call
<1> HIDE DEF them
<1>8. /\ Playing(Call(q, s), them)
      /\ Chips(Call(q, s)) = Chips(q)
      /\ \A t \in Seats : Call(q, s).balance[t] <= q.balance[t]
  BY <1>1, <1>2, <1>4, <1>5, <1>6, <1>7, PaymentKeeps
<1>9. QED
  BY <1>8 DEF them

\* A bet or a raise: a payment after which the round starts again from the raiser.
LEMMA RaiseKeeps ==
  ASSUME NEW q, NEW who, Playing(q, who), NEW s, NEW bet \in Int, MayRaise(q, s, bet)
  PROVE  /\ Playing(BetOrRaise(q, s, bet), {s})
         /\ Chips(BetOrRaise(q, s, bet)) = Chips(q)
         /\ \A t \in Seats : BetOrRaise(q, s, bet).balance[t] <= q.balance[t]
<1> DEFINE r == [q EXCEPT !.actionStartIndex = s,
                          !.actionAtIndex    = 0,
                          !.actionDiffAmount = bet - q.actionAmount,
                          !.actionAmount     = bet]
<1>1. /\ InTurn(q, s) /\ ~q.inDecisionRound /\ bet > q.actionAmount
      /\ bet <= q.inPlay[s] + q.balance[s]
  BY DEF MayRaise, MayBet, AllInAmount
<1>2. BetOrRaise(q, s, bet) = CompleteTurn(Adjust(r, s, bet))
  BY Zenon DEF BetOrRaise
<1>3. /\ q \in PotState /\ s \in Seats /\ CanAct(q, s) /\ ~q.needsPotCalculation
      /\ N \in Nat /\ 0 \in 0 .. N - 1 /\ 0 \in 0 .. N
  BY <1>1, TurnFacts, Constants DEF MayAct
<1>4. /\ q.actionAmount \in Nat /\ bet \in Nat /\ bet - q.actionAmount \in Nat
      /\ q.balance \in [Seats -> Nat] /\ q.inPlay \in [Seats -> Int]
      /\ BetsInRange(q) /\ q.amountInPlay = SumSeats(q.inPlay)
  <2>1. q.actionAmount \in Nat /\ q.balance \in [Seats -> Nat] /\ q.inPlay \in [Seats -> Int]
    BY <1>3 DEF PotState
  <2>2. QED
    BY <1>1, <2>1 DEF Playing, BetsAddUp
<1> HIDE DEF r
<1>5. /\ r \in PotState
      /\ r.balance = q.balance /\ r.inPlay = q.inPlay /\ r.allIn = q.allIn
      /\ r.folded = q.folded /\ r.pots = q.pots /\ r.amountInPlay = q.amountInPlay
      /\ r.inDecisionRound = q.inDecisionRound
      /\ r.needsPotCalculation = q.needsPotCalculation
      /\ r.actionAmount = bet /\ r.actionAtIndex = 0 /\ r.actionStartIndex = s
  <2>1. r \in PotState
    BY <1>3, <1>4 DEF r, PotState
  <2>2. QED
    BY <1>3, <2>1 DEF r, PotState
<1>6. SeatAt(r, 0) = s
  BY <1>5, SeatAtStart
<1>7. \A i \in 0 .. r.actionAtIndex : i = 0
  BY <1>5
<1>8. BetsAddUp(r)
  <2>1. ASSUME NEW t \in Seats
        PROVE  0 <= r.inPlay[t] /\ r.inPlay[t] <= r.actionAmount
    BY <1>1, <1>4, <1>5 DEF BetsInRange
  <2>2. QED
    BY <1>4, <1>5, <2>1 DEF BetsAddUp, BetsInRange
<1>9. AllInBefore(r) /\ Contested(r) /\ r.pots # <<>>
  <2>1. s \in Live(q)
    BY <1>3 DEF Live
  <2>2. QED
    BY <1>5, <2>1 DEF Playing, AllInBefore, Contested, Alive, PotIsOpen
<1>10. \E t \in Alive(r) :
         /\ IF t = s THEN r.actionAmount - r.inPlay[s] <= r.balance[s]
            ELSE r.inPlay[t] = r.actionAmount
         /\ r.actionAtIndex = N - 1 \/ t = SeatAt(r, N - 1) \/ t = SeatAt(r, 0)
  <2>1. s \in Alive(r)
    BY <1>3, <1>5 DEF Alive, CanAct
  <2>2. r.actionAmount - r.inPlay[s] <= r.balance[s]
    BY <1>1, <1>3, <1>4, <1>5
  <2>3. QED
    BY <1>6, <2>1, <2>2
<1>11. LET p == CompleteTurn(Adjust(r, s, r.actionAmount)) IN
       /\ Playing(p, {s})
       /\ Chips(p) = Chips(r)
       /\ \A t \in Seats : p.balance[t] <= r.balance[t]
  <2>1. CanAct(r, s) /\ ~r.inDecisionRound /\ ~r.needsPotCalculation
        /\ r.actionAtIndex \in 0 .. N - 1 /\ s \in {s}
    BY <1>1, <1>3, <1>5 DEF CanAct
  <2>2. \A i \in 0 .. r.actionAtIndex :
          CanAct(r, SeatAt(r, i)) /\ SeatAt(r, i) # s =>
            SeatAt(r, i) \in {s} /\ r.inPlay[SeatAt(r, i)] = r.actionAmount
    BY <1>6, <1>7
  <2>3. QED
    BY <1>3, <1>5, <1>8, <1>9, <1>10, <2>1, <2>2, PaymentKeeps
<1>12. Chips(r) = Chips(q)
  BY <1>5 DEF Chips, TotalOnTable
<1>13. QED
  BY <1>2, <1>5, <1>11, <1>12

\* reset opens the round when two may act, and closes it at once otherwise.
LEMMA ResetOpens ==
  ASSUME NEW q \in PotState
  PROVE  Reset(q).actionAtIndex =
           IF \E s, t \in {u \in Seats : MayAct(q, u)} : s # t THEN 0 ELSE N
<1> DEFINE valid == {u \in Seats : MayAct(q, u)}
           open  == \E s, t \in valid : s # t
           start == IF open THEN Least(valid) ELSE 0
           at    == IF open THEN 0 ELSE N
<1>1. Reset(q) = [q EXCEPT !.inPlay           = [s \in Seats |-> 0],
                           !.actionAmount     = 0,
                           !.actionDiffAmount = 0,
                           !.amountInPlay     = 0,
                           !.actionStartIndex = start,
                           !.actionAtIndex    = at]
  BY Zenon DEF Reset
<1> HIDE DEF start, at
<1>2. Reset(q).actionAtIndex = at
  BY <1>1 DEF PotState
<1>3. QED
  BY <1>2, Zenon DEF at

\* Everybody on a pot's list of the all-in is all-in.
AllInOnPots(q) == \A k \in 1 .. Len(q.pots) : \A s \in q.pots[k].allIn : q.allIn[s]

\* A round is opened when all that was bet is in the pots.
LEMMA OpeningKeeps ==
  ASSUME NEW q \in PotState, NEW who, ~q.needsPotCalculation, AllInOnPots(q), Contested(q),
         q.pots = <<>> => Live(q) = {}
  PROVE  LET p == Reset(q) IN
         /\ Playing(p, who)
         /\ Chips(p) = SumSeats(q.balance) + PotTotal(q.pots)
         /\ p.balance = q.balance /\ p.allIn = q.allIn /\ p.folded = q.folded
         /\ p.inPlay = [s \in Seats |-> 0] /\ p.pots = q.pots
         /\ p.actionAmount = 0 /\ p.actionAtIndex \in {0, N}
         /\ p.isGameOver = q.isGameOver /\ p.inDecisionRound = q.inDecisionRound
         /\ ~p.needsPotCalculation
<1> DEFINE p == Reset(q)
<1>1. /\ p \in PotState
      /\ p.balance = q.balance /\ p.inPlay = [s \in Seats |-> 0]
      /\ p.allIn = q.allIn /\ p.folded = q.folded /\ p.pots = q.pots
      /\ p.actionAmount = 0 /\ p.amountInPlay = 0
      /\ p.needsPotCalculation = q.needsPotCalculation
      /\ p.isGameOver = q.isGameOver /\ p.inDecisionRound = q.inDecisionRound
      /\ \/ p.actionAtIndex = 0 /\ MayAct(q, p.actionStartIndex)
         \/ p.actionAtIndex = N
  BY ResetFields
<1> HIDE DEF p
<1>2. BetsInRange(p) /\ SumSeats(p.inPlay) = 0
  <2>1. BetsInRange(p)
    BY <1>1 DEF BetsInRange
  <2>2. QED
    BY <1>1, <2>1, NoBets
<1>3. PotIsOpen(p)
  BY <1>1 DEF PotIsOpen, Live, CanAct
<1>4. TurnsInOrder(p)
  <2>1. SeatAt(p, 0) = p.actionStartIndex
    BY <1>1, SeatAtStart
  <2>2. p.actionAtIndex = N => IsRoundOver(p)
    BY Constants DEF IsRoundOver
  <2>3. MayAct(q, p.actionStartIndex) => MayAct(p, p.actionStartIndex)
    BY <1>1 DEF MayAct, CanAct
  <2>4. ~IsRoundOver(p) => MayAct(p, SeatAt(p, p.actionAtIndex))
    BY <1>1, <2>1, <2>2, <2>3
  <2>5. QED
    BY <1>1, <2>4 DEF TurnsInOrder
<1>5. MatchedBehind(p, who)
  BY <1>1, Constants DEF MatchedBehind, IsRoundOver
<1>6. AllInBefore(p) /\ Contested(p) /\ BetIsHeld(p)
  <2>1. AllInBefore(p)
    <3>1. ASSUME NEW k \in 1 .. Len(p.pots), NEW u \in p.pots[k].allIn
          PROVE  p.allIn[u] /\ p.inPlay[u] = 0
      <4>1. p.pots[k] \in Pot
        BY <1>1 DEF PotState
      <4>2. QED
        BY <1>1, <3>1, <4>1 DEF AllInOnPots, Pot
    <3>2. QED
      BY <3>1 DEF AllInBefore
  <2>2. QED
    BY <1>1, <2>1 DEF Contested, Alive, BetIsHeld
<1>7. Chips(p) = SumSeats(q.balance) + PotTotal(q.pots)
  <2>1. PotTotal(q.pots) \in Nat
    BY PotTotalNat DEF PotState
  <2>2. QED
    BY <1>1, <2>1 DEF Chips, TotalOnTable
<1>8. Playing(p, who)
  BY <1>1, <1>2, <1>3, <1>4, <1>5, <1>6 DEF Playing, BetsAddUp
<1>9. QED
  BY <1>1, <1>7, <1>8 DEF p

\* The blinds: two payments and a new amount to call, nobody going all-in.
LEMMA BlindsKeep ==
  ASSUME NEW q, NEW who, Playing(q, who), ~IsRoundOver(q), ~q.inDecisionRound,
         q.actionAmount = 0, q.actionAtIndex = 0,
         \A s \in Seats : CanAct(q, s) /\ q.balance[s] > BigBlind
  PROVE  LET p == PayBlinds(q) IN
         /\ Playing(p, who)
         /\ Chips(p) = Chips(q)
         /\ \A s \in Seats : /\ CanAct(p, s) /\ p.balance[s] <= q.balance[s]
                             /\ AllInAmount(p, s) = q.balance[s]
         /\ p.actionAmount = BigBlind /\ p.actionAtIndex = 0 /\ ~p.needsPotCalculation
         /\ p.isGameOver = q.isGameOver /\ ~p.inDecisionRound
         /\ p.pots = q.pots
<1> DEFINE sb     == IF N = 2 THEN 1 ELSE 0
           bb     == IF N = 2 THEN 0 ELSE 1
           first  == IF N = 2 THEN 1 ELSE 2
           opened == [q EXCEPT !.actionStartIndex = first,
                               !.actionAmount     = BigBlind,
                               !.actionDiffAmount = BigBlind]
           half   == Adjust(opened, sb, SmallBlind)
           p      == Adjust(half, bb, BigBlind)
<1>1. PayBlinds(q) = p
  BY Zenon DEF PayBlinds
<1>2. /\ q \in PotState /\ N \in Nat /\ N >= 2 /\ Seats = 0 .. N - 1
      /\ SmallBlind \in Nat /\ BigBlind \in Nat /\ SmallBlind <= BigBlind
      /\ ~q.needsPotCalculation
  <2>1. q \in PotState /\ (q.needsPotCalculation => IsRoundOver(q))
    BY DEF Playing, TurnsInOrder
  <2>2. QED
    BY <2>1, Constants DEF Seats
<1>0. q.balance \in [Seats -> Nat] /\ q.inPlay \in [Seats -> Int]
  BY <1>2 DEF PotState
<1>3. /\ sb \in Seats /\ bb \in Seats /\ sb # bb /\ first \in Seats
      /\ (first = sb \/ (first # sb /\ first # bb)) /\ first # bb
  BY <1>2
<1>26. (first + (N - 1)) % N = bb
  <2>1. N - 1 \in 0 .. N - 1
    BY <1>2
  <2>2. (first + (N - 1)) % N =
          IF first + (N - 1) < N THEN first + (N - 1) ELSE (first + (N - 1)) - N
    <3> HIDE DEF first
    <3>1. QED
      BY <1>3, <2>1, SeatAtValue
  <2>3. ~(first + (N - 1) < N) /\ (first + (N - 1)) - N = bb
    BY <1>2
  <2>4. QED
    BY <2>2, <2>3
<1>4. /\ \A s \in Seats : q.inPlay[s] = 0
      /\ q.amountInPlay = SumSeats(q.inPlay)
  <2>1. \A s \in Seats : 0 <= q.inPlay[s] /\ q.inPlay[s] <= q.actionAmount
    BY DEF Playing, BetsAddUp, BetsInRange
  <2>2. \A s \in Seats : q.inPlay[s] \in Int
    BY <1>0
  <2>3. \A s \in Seats : q.inPlay[s] = 0
    BY <2>1, <2>2
  <2>4. QED
    BY <2>3 DEF Playing, BetsAddUp
<1> HIDE DEF sb, bb, first, opened, half, p
<1>5. /\ opened \in PotState
      /\ opened.balance = q.balance /\ opened.inPlay = q.inPlay
      /\ opened.allIn = q.allIn /\ opened.folded = q.folded
      /\ opened.pots = q.pots /\ opened.amountInPlay = q.amountInPlay
      /\ opened.actionStartIndex = first /\ opened.actionAtIndex = 0
      /\ opened.actionAmount = BigBlind
      /\ ~opened.needsPotCalculation /\ ~opened.inDecisionRound
      /\ opened.isGameOver = q.isGameOver
  BY <1>2, <1>3 DEF opened, PotState
<1>6. opened.inPlay[sb] <= SmallBlind /\ half = Adjust(opened, sb, SmallBlind)
  BY <1>2, <1>3, <1>4, <1>5 DEF half
<1>7. /\ half \in PotState
      /\ half.folded = opened.folded /\ half.pots = opened.pots
      /\ half.actionStartIndex = opened.actionStartIndex
      /\ half.actionAtIndex = opened.actionAtIndex
      /\ half.actionAmount = opened.actionAmount
      /\ half.needsPotCalculation = opened.needsPotCalculation
      /\ half.isGameOver = opened.isGameOver /\ half.inDecisionRound = opened.inDecisionRound
  BY <1>2, <1>3, <1>5, <1>6, AdjustKeeps
<1>8. PICK small \in Nat :
        /\ SumSeats(half.balance) = SumSeats(opened.balance) - small
        /\ SumSeats(half.inPlay) = SumSeats(opened.inPlay) + small
        /\ half.amountInPlay = opened.amountInPlay + small
        /\ opened.inPlay[sb] <= half.inPlay[sb] /\ half.inPlay[sb] <= SmallBlind
        /\ \A t \in Seats : half.balance[t] <= opened.balance[t]
        /\ \A t \in Seats \ {sb} : /\ half.inPlay[t] = opened.inPlay[t]
                                   /\ half.balance[t] = opened.balance[t]
                                   /\ half.allIn[t] = opened.allIn[t]
        /\ ~half.allIn[sb] => half.inPlay[sb] = SmallBlind
        /\ SmallBlind - opened.inPlay[sb] < opened.balance[sb] => half.allIn[sb] = opened.allIn[sb]
  BY <1>2, <1>3, <1>5, <1>6, AdjustMoves
<1>9. half.inPlay[bb] <= BigBlind /\ p = Adjust(half, bb, BigBlind)
  BY <1>2, <1>3, <1>4, <1>5, <1>8 DEF p
<1>10. /\ p \in PotState
       /\ p.folded = half.folded /\ p.pots = half.pots
       /\ p.actionStartIndex = half.actionStartIndex /\ p.actionAtIndex = half.actionAtIndex
       /\ p.actionAmount = half.actionAmount
       /\ p.needsPotCalculation = half.needsPotCalculation
       /\ p.isGameOver = half.isGameOver /\ p.inDecisionRound = half.inDecisionRound
  BY <1>2, <1>3, <1>7, <1>9, AdjustKeeps
<1>11. PICK big \in Nat :
        /\ SumSeats(p.balance) = SumSeats(half.balance) - big
        /\ SumSeats(p.inPlay) = SumSeats(half.inPlay) + big
        /\ p.amountInPlay = half.amountInPlay + big
        /\ half.inPlay[bb] <= p.inPlay[bb] /\ p.inPlay[bb] <= BigBlind
        /\ \A t \in Seats : p.balance[t] <= half.balance[t]
        /\ \A t \in Seats \ {bb} : /\ p.inPlay[t] = half.inPlay[t]
                                   /\ p.balance[t] = half.balance[t]
                                   /\ p.allIn[t] = half.allIn[t]
        /\ ~p.allIn[bb] => p.inPlay[bb] = BigBlind
        /\ BigBlind - half.inPlay[bb] < half.balance[bb] => p.allIn[bb] = half.allIn[bb]
  BY <1>2, <1>3, <1>7, <1>9, AdjustMoves
<1>12. \A t \in Seats : ~half.allIn[t]
  <2>1. SmallBlind - opened.inPlay[sb] < opened.balance[sb]
    BY <1>0, <1>2, <1>3, <1>4, <1>5
  <2>2. QED
    BY <1>3, <1>5, <1>8, <2>1 DEF CanAct
<1>13. \A t \in Seats : CanAct(p, t)
  <2>1. BigBlind - half.inPlay[bb] < half.balance[bb]
    BY <1>2, <1>3, <1>4, <1>5, <1>8
  <2>2. \A t \in Seats : ~p.allIn[t]
    BY <1>3, <1>11, <1>12, <2>1
  <2>3. QED
    BY <1>5, <1>7, <1>10, <2>2 DEF CanAct
<1>14. \A t \in Seats : AllInAmount(p, t) = q.balance[t]
  <2>1. \A t \in Seats : AllInAmount(half, t) = AllInAmount(opened, t)
    BY <1>2, <1>3, <1>5, <1>6, AdjustKeepsStacks
  <2>2. \A t \in Seats : AllInAmount(p, t) = AllInAmount(half, t)
    BY <1>2, <1>3, <1>7, <1>9, AdjustKeepsStacks
  <2>3. \A t \in Seats : AllInAmount(opened, t) = q.balance[t]
    <3>1. \A t \in Seats : q.balance[t] \in Nat
      BY <1>0
    <3>2. QED
      BY <1>4, <1>5, <3>1 DEF AllInAmount
  <2>4. QED
    BY <2>1, <2>2, <2>3
<1>15. SumSeats(q.balance) \in Int /\ SumSeats(q.inPlay) = 0 /\ PotTotal(q.pots) \in Nat
  <2>1. PotTotal(q.pots) \in Nat
    BY <1>2, PotTotalNat DEF PotState
  <2>2. \A i \in 0 .. N - 1 : q.balance[i] \in Int
    BY <1>0, <1>2
  <2>3. QED
    BY <1>2, <1>4, <2>1, <2>2, SumInt, SumOfZeros DEF SumSeats
<1>16. Chips(p) = Chips(q)
  BY <1>4, <1>5, <1>7, <1>8, <1>10, <1>11, <1>15 DEF Chips, TotalOnTable
<1>17. BetsAddUp(p)
  <2>1. ASSUME NEW t \in Seats
        PROVE  0 <= p.inPlay[t] /\ p.inPlay[t] <= p.actionAmount
    <3>1. /\ p.actionAmount = BigBlind /\ opened.inPlay[t] = 0
          /\ p.inPlay[t] \in Int /\ half.inPlay[t] \in Int
      BY <1>4, <1>5, <1>7, <1>10 DEF PotState
    <3>2. 0 <= half.inPlay[t] /\ half.inPlay[t] <= SmallBlind
      BY <1>2, <1>8, <3>1
    <3>3. 0 <= p.inPlay[t] /\ p.inPlay[t] <= BigBlind
      BY <1>2, <1>11, <3>1, <3>2
    <3>4. QED
      BY <3>1, <3>3
  <2>2. p.amountInPlay = SumSeats(p.inPlay)
    BY <1>4, <1>5, <1>8, <1>11, <1>15
  <2>3. QED
    BY <2>1, <2>2 DEF BetsAddUp, BetsInRange
<1>18. PotIsOpen(p) /\ MatchedBehind(p, who)
  <2>1. sb \in Live(q)
    BY <1>3 DEF Live
  <2>2. QED
    BY <1>5, <1>7, <1>10, <2>1 DEF Playing, PotIsOpen, MatchedBehind
<1>19. TurnsInOrder(p)
  <2>1. SeatAt(p, p.actionAtIndex) = first
    BY <1>5, <1>7, <1>10, SeatAtStart
  <2>2. ~p.inDecisionRound /\ ~p.needsPotCalculation /\ ~IsRoundOver(p)
    BY <1>2, <1>5, <1>7, <1>10 DEF IsRoundOver
  <2>3. QED
    BY <1>3, <1>13, <2>1, <2>2 DEF TurnsInOrder, MayAct
<1>20. AllInBefore(p)
  <2>1. ASSUME NEW k \in 1 .. Len(p.pots), NEW u \in p.pots[k].allIn
        PROVE  FALSE
    <3>1. q.allIn[u]
      BY <1>5, <1>7, <1>10, <2>1 DEF Playing, AllInBefore
    <3>2. p.pots[k] \in Pot
      BY <1>10 DEF PotState
    <3>3. u \in Seats
      BY <3>2 DEF Pot
    <3>4. QED
      BY <3>1, <3>3 DEF CanAct
  <2>2. QED
    BY <2>1 DEF AllInBefore
<1>21. Contested(p)
  BY <1>5, <1>7, <1>10 DEF Playing, Contested, Alive
<1>22. BetIsHeld(p)
  <2>1. SeatAt(p, N - 1) = bb
    BY <1>26, <1>5, <1>7, <1>10 DEF SeatAt
  <2>2. p.inPlay[bb] = p.actionAmount /\ bb \in Alive(p)
    BY <1>3, <1>5, <1>7, <1>10, <1>11, <1>13 DEF CanAct, Alive
  <2>3. QED
    BY <2>1, <2>2 DEF BetIsHeld
<1>23. Playing(p, who)
  BY <1>10, <1>17, <1>18, <1>19, <1>20, <1>21, <1>22 DEF Playing
<1>24. /\ p.actionAmount = BigBlind /\ p.actionAtIndex = 0 /\ ~p.needsPotCalculation
       /\ p.isGameOver = q.isGameOver /\ ~p.inDecisionRound
       /\ \A t \in Seats : p.balance[t] <= q.balance[t]
  <2>1. \A t \in Seats : /\ p.balance[t] <= half.balance[t] /\ half.balance[t] <= q.balance[t]
                         /\ p.balance[t] \in Nat /\ half.balance[t] \in Nat
                         /\ q.balance[t] \in Nat
    BY <1>2, <1>5, <1>7, <1>8, <1>10, <1>11 DEF PotState
  <2>2. \A t \in Seats : p.balance[t] <= q.balance[t]
    BY <2>1
  <2>3. QED
    BY <1>5, <1>7, <1>10, <2>2
<1>25. p.pots = q.pots
  BY <1>5, <1>7, <1>10
<1>27. QED
  BY <1>1, <1>13, <1>14, <1>16, <1>23, <1>24, <1>25

\* The all-in of the pots that calculatePot cuts: those of the pots there were, and
\* for each cut whoever is all-in for that amount in this round.
LEMMA LayeredAllIn ==
  ASSUME NEW q \in PotState, BetsInRange(q), q.pots # <<>>
  PROVE  LET pots == Layered(q) IN
         \A k \in 1 .. Len(pots) :
           \/ \E j \in 1 .. Len(q.pots) : pots[k].allIn = q.pots[j].allIn
           \/ \E amount \in Cuts(q) :
                /\ pots[k].allIn = AllInFor(q, amount)
                /\ amount = q.actionAmount => k = Len(pots)
<1> DEFINE pots     == OpenPots(q.pots)
           last     == Len(pots)
           cuts     == Cuts(q)
           c        == Cardinality(cuts)
           level    == Sorted(cuts)
           under(k) == IF k = 1 THEN 0 ELSE level[k - 1]
           cut(k)   == Capped(q, level[k]) - Capped(q, under(k))
           layer(k) == [amount |-> cut(k), allIn |-> AllInFor(q, level[k])]
           bottom   == [layer(1) EXCEPT !.amount = @ + pots[last].amount]
           cutted   == Layered(q)
<1>1. cutted = [i \in 1 .. last + c - 1 |->
                  IF i < last THEN pots[i]
                  ELSE IF i = last THEN bottom ELSE layer(i - last + 1)]
  BY Zenon DEF Layered, Cuts
<1>2. /\ pots \in Seq(Pot) /\ pots # <<>> /\ q.pots \in Seq(Pot) /\ Len(q.pots) \in Nat
      /\ last \in Nat \ {0} /\ last <= Len(q.pots) + 1
      /\ \A i \in 1 .. last - 1 : i \in 1 .. Len(q.pots) /\ pots[i] = q.pots[i]
  <2>1. pots \in Seq(Pot) /\ pots # <<>> /\ q.pots \in Seq(Pot) /\ Len(q.pots) \in Nat
    BY OpenPotsFacts DEF PotState
  <2>2. pots = q.pots \/ (pots = Append(q.pots, EmptyPot) /\ EmptyPot \in Pot)
    BY DEF OpenPots, EmptyPot, Pot
  <2> HIDE DEF pots
  <2>3. QED
    BY <2>1, <2>2
<1>3. c \in Nat \ {0} /\ level \in [1 .. c -> cuts] /\ level[c] = q.actionAmount
      /\ \A k \in 1 .. c : level[k] \in Nat
  BY CutsFacts DEF Increasing
<1>4. \A i, j \in 1 .. c : i < j => level[i] < level[j]
  BY CutsFacts DEF Increasing
<1>5. bottom.allIn = AllInFor(q, level[1]) /\ \A k : layer(k).allIn = AllInFor(q, level[k])
  OBVIOUS
<1> HIDE DEF pots, last, c, level, cut, layer, bottom, cuts, cutted
<1>6. Len(cutted) = last + c - 1
  BY <1>1, <1>2, <1>3
<1>7. ASSUME NEW k \in 1 .. Len(cutted)
      PROVE  \/ \E j \in 1 .. Len(q.pots) : cutted[k].allIn = q.pots[j].allIn
             \/ \E amount \in cuts :
                  /\ cutted[k].allIn = AllInFor(q, amount)
                  /\ amount = q.actionAmount => k = Len(cutted)
  <2>0. k \in 1 .. last + c - 1
    BY <1>6
  <2>1. CASE k < last
    <3>1. k \in 1 .. last - 1 /\ cutted[k] = pots[k]
      BY <1>1, <1>2, <2>0, <2>1
    <3>2. QED
      BY <1>2, <3>1
  <2>2. CASE ~(k < last)
    <3> DEFINE j == k - last + 1
    <3>1. j \in 1 .. c /\ cutted[k] = IF k = last THEN bottom ELSE layer(j)
      BY <1>1, <1>2, <1>3, <2>0, <2>2
    <3>2. k = last => j = 1
      BY <1>2
    <3>3. j = c => k = Len(cutted)
      BY <1>2, <1>3, <1>6, <2>0
    <3> HIDE DEF j
    <3>4. cutted[k].allIn = AllInFor(q, level[j])
      BY <1>5, <3>1, <3>2
    <3>5. level[j] = q.actionAmount => j = c
      <4>1. c \in 1 .. c
        BY <1>3
      <4>2. j # c => level[j] < level[c] /\ level[j] \in Nat /\ level[c] \in Nat
        BY <1>3, <1>4, <3>1, <4>1
      <4>3. QED
        BY <1>3, <4>2
    <3>6. level[j] \in cuts
      BY <1>3, <3>1
    <3>7. QED
      BY <3>3, <3>4, <3>5, <3>6
  <2>3. QED
    BY <2>1, <2>2
<1>8. QED
  BY <1>7 DEF cutted, cuts

\* A refund takes the top pot away, or leaves the pots alone.
LEMMA RefundPots ==
  ASSUME NEW q \in PotState, NEW pots \in Seq(Pot)
  PROVE  LET p == Refund(q, pots) IN
         /\ p.pots = pots \/ p.pots = SubSeq(pots, 1, Len(pots) - 1)
         /\ p.allIn = q.allIn /\ p.folded = q.folded
<1> DEFINE p == Refund(q, pots)
<1>1. CASE \E s \in Seats : TopPotRefundees(q, pots) = {s}
  <2> DEFINE s   == CHOOSE t \in Seats : TopPotRefundees(q, pots) = {t}
             top == pots[Len(pots)].amount
             low == SubSeq(pots, 1, Len(pots) - 1)
  <2>1. p = [q EXCEPT !.inPlay[s] = @ - top, !.balance[s] = @ + top, !.pots = low]
    BY <1>1, Zenon DEF Refund
  <2> HIDE DEF p, s, top, low
  <2>2. p.pots = low /\ p.allIn = q.allIn /\ p.folded = q.folded
    BY <2>1 DEF PotState
  <2>3. QED
    BY <2>2 DEF p, low
<1>2. CASE ~\E s \in Seats : TopPotRefundees(q, pots) = {s}
  <2>1. p = [q EXCEPT !.pots = pots]
    BY <1>2, Zenon DEF Refund
  <2> HIDE DEF p
  <2>2. p.pots = pots /\ p.allIn = q.allIn /\ p.folded = q.folded
    BY <2>1 DEF PotState
  <2>3. QED
    BY <2>2 DEF p
<1>3. QED
  BY <1>1, <1>2

\* The pots that calculatePot leaves, whichever way it goes: the ones there were,
\* perhaps with a new one open, or the layers, perhaps without the last.
LEMMA CollectedPots ==
  ASSUME NEW q \in PotState, BetsInRange(q), PotIsOpen(q), AllInBefore(q), Contested(q),
         q.needsPotCalculation /\ q.actionAmount > 0 =>
           \E t \in Alive(q) : q.inPlay[t] = q.actionAmount
  PROVE  LET p == CalculatePot(q) IN AllInOnPots(p) /\ Contested(p)
<1> DEFINE p    == CalculatePot(q)
           done == [q EXCEPT !.needsPotCalculation = FALSE]
           open == OpenPots(q.pots)
<1>1. q.pots \in Seq(Pot) /\ Len(q.pots) \in Nat /\ q.actionAmount \in Nat
  BY DEF PotState
<1>2. AllInOnPots(q)
  BY DEF AllInBefore, AllInOnPots
<1>3. /\ done.allIn = q.allIn /\ done.folded = q.folded /\ done.pots = q.pots
      /\ done \in PotState
  BY DEF PotState
<1> HIDE DEF done
<1>4. CASE ~q.needsPotCalculation
  <2>1. p = q
    BY <1>4, Zenon DEF CalculatePot
  <2>2. QED
    BY <1>2, <2>1
<1>5. CASE q.needsPotCalculation /\ q.actionAmount = 0
  <2>1. p = done
    BY <1>5, Zenon DEF CalculatePot, done
  <2> HIDE DEF p
  <2>2. AllInOnPots(p) /\ Contested(p)
    BY <1>2, <1>3, <2>1 DEF AllInOnPots, Contested, Alive
  <2>3. QED
    BY <2>2 DEF p
<1>6. CASE q.needsPotCalculation /\ q.actionAmount # 0
  <2>1. PICK t \in Alive(q) : q.inPlay[t] = q.actionAmount
    BY <1>1, <1>6
  <2>2. t \in Seats /\ \A k \in 1 .. Len(q.pots) : t \notin q.pots[k].allIn
    BY <1>1, <1>6, <2>1 DEF AllInBefore, Alive
  <2>3. q.pots # <<>>
    BY <1>6 DEF PotIsOpen
  <2>4. CASE AllInAmounts(q) = {}
    <3> DEFINE more == [open EXCEPT ![Len(open)].amount = @ + SumSeats(q.inPlay)]
    <3>1. p = [done EXCEPT !.pots = more]
      BY <1>6, <2>4, Zenon DEF CalculatePot, done
    <3>2. /\ open \in Seq(Pot) /\ Len(open) \in Nat /\ Len(open) > 0
          /\ \A k \in 1 .. Len(open) : open[k].allIn = {} \/
               \E j \in 1 .. Len(q.pots) : open[k].allIn = q.pots[j].allIn
      <4>1. open \in Seq(Pot) /\ open # <<>>
        BY <2>3, OpenPotsFacts DEF PotState
      <4>2. open = q.pots \/ open = Append(q.pots, EmptyPot)
        BY DEF OpenPots
      <4>3. EmptyPot \in Pot /\ EmptyPot.allIn = {}
        BY DEF EmptyPot, Pot
      <4> HIDE DEF open
      <4>4. QED
        BY <1>1, <4>1, <4>2, <4>3
    <3> HIDE DEF open
    <3>3. Len(more) = Len(open) /\ \A k \in 1 .. Len(open) : more[k].allIn = open[k].allIn
      <4>1. /\ Len(more) = Len(open)
            /\ \A k \in 1 .. Len(open) :
                 more[k] = IF k = Len(open)
                           THEN [open[k] EXCEPT !.amount = @ + SumSeats(q.inPlay)]
                           ELSE open[k]
        BY <3>2
      <4>2. \A k \in 1 .. Len(open) : open[k] \in Pot
        BY <3>2
      <4>3. ASSUME NEW k \in 1 .. Len(open)
            PROVE  [open[k] EXCEPT !.amount = @ + SumSeats(q.inPlay)].allIn = open[k].allIn
        BY <4>2 DEF Pot
      <4> HIDE DEF more
      <4>4. QED
        BY <4>1, <4>3
    <3> HIDE DEF more, p
    <3>4. p.pots = more /\ p.allIn = q.allIn /\ p.folded = q.folded
      BY <1>3, <3>1 DEF PotState
    <3>5. AllInOnPots(p)
      <4>1. ASSUME NEW k \in 1 .. Len(p.pots), NEW u \in p.pots[k].allIn
            PROVE  p.allIn[u]
        BY <1>2, <3>2, <3>3, <3>4, <4>1 DEF AllInOnPots
      <4>2. QED
        BY <4>1 DEF AllInOnPots
    <3>6. Contested(p)
      <4>1. \A k \in 1 .. Len(p.pots) - 1 : t \notin p.pots[k].allIn
        <5>1. ASSUME NEW k \in 1 .. Len(p.pots) - 1
              PROVE  t \notin p.pots[k].allIn
          <6>1. k \in 1 .. Len(open)
            BY <3>2, <3>3, <3>4
          <6>2. QED
            BY <2>2, <3>2, <3>3, <3>4, <6>1
        <5>2. QED
          BY <5>1
      <4>2. t \in Alive(p)
        BY <2>1, <3>4 DEF Alive
      <4>3. QED
        BY <4>1, <4>2 DEF Contested
    <3>7. QED
      BY <3>5, <3>6 DEF p
  <2>5. CASE AllInAmounts(q) # {}
    <3> DEFINE pots == Layered(q)
    <3>1. p = Refund(done, pots)
      BY <1>6, <2>5, Zenon DEF CalculatePot, done
    <3>2. pots \in Seq(Pot) /\ Len(pots) \in Nat
      BY <2>3, LayeredFacts
    <3>3. \A k \in 1 .. Len(pots) :
            \/ \E j \in 1 .. Len(q.pots) : pots[k].allIn = q.pots[j].allIn
            \/ \E amount \in Cuts(q) :
                 /\ pots[k].allIn = AllInFor(q, amount)
                 /\ amount = q.actionAmount => k = Len(pots)
      BY <2>3, LayeredAllIn
    <3> HIDE DEF pots, p
    <3>4. /\ p.pots = pots \/ p.pots = SubSeq(pots, 1, Len(pots) - 1)
          /\ p.allIn = q.allIn /\ p.folded = q.folded
      BY <1>3, <3>1, <3>2, RefundPots
    <3>5. /\ Len(p.pots) \in Nat /\ Len(p.pots) <= Len(pots)
          /\ \A k \in 1 .. Len(p.pots) : p.pots[k] = pots[k]
      BY <3>2, <3>4
    <3>6. AllInOnPots(p)
      <4>1. ASSUME NEW k \in 1 .. Len(p.pots), NEW u \in p.pots[k].allIn
            PROVE  p.allIn[u]
        <5>1. k \in 1 .. Len(pots) /\ u \in pots[k].allIn
          BY <3>2, <3>5, <4>1
        <5>2. CASE \E j \in 1 .. Len(q.pots) : pots[k].allIn = q.pots[j].allIn
          BY <1>2, <3>4, <5>1, <5>2 DEF AllInOnPots
        <5>3. CASE \E amount \in Cuts(q) : pots[k].allIn = AllInFor(q, amount)
          BY <3>4, <5>1, <5>3 DEF AllInFor
        <5>4. QED
          BY <3>3, <5>1, <5>2, <5>3
      <4>2. QED
        BY <4>1 DEF AllInOnPots
    <3>7. Contested(p)
      <4>1. ASSUME NEW k \in 1 .. Len(p.pots) - 1
            PROVE  t \notin p.pots[k].allIn
        <5>1. k \in 1 .. Len(pots) /\ k # Len(pots) /\ p.pots[k] = pots[k]
          BY <3>2, <3>5
        <5>2. CASE \E j \in 1 .. Len(q.pots) : pots[k].allIn = q.pots[j].allIn
          BY <2>2, <5>1, <5>2
        <5>3. CASE \E amount \in Cuts(q) :
                     /\ pots[k].allIn = AllInFor(q, amount)
                     /\ amount = q.actionAmount => k = Len(pots)
          BY <2>1, <5>1, <5>3 DEF AllInFor
        <5>4. QED
          BY <3>3, <5>1, <5>2, <5>3
      <4>2. t \in Alive(p)
        BY <2>1, <3>4 DEF Alive
      <4>3. QED
        BY <4>1, <4>2 DEF Contested
    <3>8. QED
      BY <3>6, <3>7 DEF p
  <2>6. QED
    BY <2>4, <2>5
<1>7. QED
  BY <1>4, <1>5, <1>6

\* What calculatePot leaves of a hand in play: nothing is lost when the round is
\* over, and nothing happens before that.
LEMMA CollectingFacts ==
  ASSUME NEW q, NEW who, Playing(q, who)
  PROVE  LET p == CalculatePot(q) IN
         /\ p \in PotState
         /\ p.allIn = q.allIn /\ p.folded = q.folded
         /\ p.actionAtIndex = q.actionAtIndex /\ p.isGameOver = q.isGameOver
         /\ p.inDecisionRound = q.inDecisionRound /\ ~p.needsPotCalculation
         /\ IsRoundOver(q) => SumSeats(p.balance) + PotTotal(p.pots) = Chips(q)
         /\ ~IsRoundOver(q) => p = q
         /\ p.pots = <<>> => Live(p) = {}
         /\ AllInAmounts(q) = {} => p.balance = q.balance
         /\ AllInOnPots(p) /\ Contested(p)
<1> DEFINE p    == CalculatePot(q)
           done == [q EXCEPT !.needsPotCalculation = FALSE]
<1>1. /\ q \in PotState /\ BetsInRange(q) /\ q.amountInPlay = SumSeats(q.inPlay)
      /\ q.pots = <<>> => Live(q) = {} /\ q.actionAmount = 0
      /\ PotIsOpen(q) /\ AllInBefore(q) /\ Contested(q)
  BY DEF Playing, BetsAddUp, PotIsOpen
<1>2. /\ q.needsPotCalculation => IsRoundOver(q)
      /\ IsRoundOver(q) /\ ~q.needsPotCalculation => \A s \in Seats : q.inPlay[s] = 0
  BY DEF Playing, TurnsInOrder
<1>3. /\ p \in PotState
      /\ SameRound(p, done)
      /\ q.needsPotCalculation =>
           SumSeats(p.balance) + PotTotal(p.pots) =
             SumSeats(q.balance) + PotTotal(q.pots) + SumSeats(q.inPlay)
      /\ ~q.needsPotCalculation => p = q
      /\ p.pots = <<>> => Live(q) = {}
      /\ AllInAmounts(q) = {} => p.balance = q.balance
  BY <1>1, CalculatePotFacts
<1>4. AllInOnPots(p) /\ Contested(p)
  <2>1. q.needsPotCalculation /\ q.actionAmount > 0 =>
          \E t \in Alive(q) : q.inPlay[t] = q.actionAmount
    BY DEF Playing, BetIsHeld
  <2>2. QED
    BY <1>1, <2>1, CollectedPots
<1> HIDE DEF p
<1>5. /\ p.allIn = q.allIn /\ p.folded = q.folded
      /\ p.actionAtIndex = q.actionAtIndex /\ p.isGameOver = q.isGameOver
      /\ p.inDecisionRound = q.inDecisionRound /\ ~p.needsPotCalculation
  BY <1>1, <1>3 DEF SameRound, PotState
<1>6. ASSUME IsRoundOver(q)
      PROVE  SumSeats(p.balance) + PotTotal(p.pots) = Chips(q)
  <2>1. PotTotal(q.pots) \in Nat /\ SumSeats(q.balance) \in Int /\ SumSeats(q.inPlay) \in Int
    <3>1. PotTotal(q.pots) \in Nat
      BY <1>1, PotTotalNat DEF PotState
    <3>2. N \in Nat /\ \A i \in 0 .. N - 1 : q.balance[i] \in Int /\ q.inPlay[i] \in Int
      BY <1>1, Constants DEF PotState, Seats
    <3>3. QED
      BY <3>1, <3>2, SumInt DEF SumSeats
  <2>2. Chips(q) = SumSeats(q.balance) + (SumSeats(q.inPlay) + PotTotal(q.pots))
    BY <1>1 DEF Chips, TotalOnTable
  <2>3. CASE q.needsPotCalculation
    BY <1>3, <2>1, <2>2, <2>3
  <2>4. CASE ~q.needsPotCalculation
    <3>1. SumSeats(q.inPlay) = 0
      BY <1>2, <1>6, <2>4, SumOfZeros
    <3>2. QED
      BY <1>3, <2>1, <2>2, <2>4, <3>1
  <2>5. QED
    BY <2>3, <2>4
<1>7. Live(p) = Live(q)
  BY <1>5 DEF Live, CanAct
<1>8. QED
  BY <1>2, <1>3, <1>4, <1>5, <1>6, <1>7 DEF p

\* NextRound collects the bets and opens a round.
LEMMA NextRoundKeeps ==
  ASSUME NEW q, NEW who, NEW them, Playing(q, who), IsRoundOver(q)
  PROVE  LET p == NextRound(q) IN
         /\ Playing(p, them)
         /\ Chips(p) = Chips(q)
         /\ p.allIn = q.allIn /\ p.folded = q.folded
         /\ p.inPlay = [s \in Seats |-> 0]
         /\ p.actionAmount = 0 /\ p.actionAtIndex \in {0, N}
         /\ p.isGameOver = q.isGameOver /\ ~p.inDecisionRound /\ ~p.needsPotCalculation
         /\ AllInAmounts(q) = {} => p.balance = q.balance
         /\ p.pots = CalculatePot(q).pots
         /\ (\E s, t \in Live(p) : s # t) => p.actionAtIndex = 0
         /\ p.actionAtIndex = 0 => \E s, t \in Live(p) : s # t
<1> DEFINE calc == CalculatePot(q)
           r    == [calc EXCEPT !.inDecisionRound = FALSE]
           p    == Reset(r)
<1>1. NextRound(q) = p
  BY Zenon DEF NextRound
<1>2. /\ calc \in PotState
      /\ calc.allIn = q.allIn /\ calc.folded = q.folded
      /\ calc.isGameOver = q.isGameOver /\ ~calc.needsPotCalculation
      /\ SumSeats(calc.balance) + PotTotal(calc.pots) = Chips(q)
      /\ calc.pots = <<>> => Live(calc) = {}
      /\ AllInAmounts(q) = {} => calc.balance = q.balance
      /\ AllInOnPots(calc) /\ Contested(calc)
  BY CollectingFacts
<1> HIDE DEF calc
<1>3. /\ r \in PotState
      /\ r.balance = calc.balance /\ r.pots = calc.pots
      /\ r.allIn = calc.allIn /\ r.folded = calc.folded
      /\ r.isGameOver = calc.isGameOver /\ ~r.inDecisionRound
      /\ r.needsPotCalculation = calc.needsPotCalculation
  BY <1>2 DEF PotState
<1> HIDE DEF r, p
<1>4. /\ AllInOnPots(r) /\ Contested(r) /\ ~r.needsPotCalculation
      /\ r.pots = <<>> => Live(r) = {}
  <2>1. Live(r) = Live(calc)
    BY <1>3 DEF Live, CanAct
  <2>2. QED
    BY <1>2, <1>3, <2>1 DEF AllInOnPots, Contested, Alive
<1>5. /\ Playing(p, them)
      /\ Chips(p) = SumSeats(r.balance) + PotTotal(r.pots)
      /\ p.balance = r.balance /\ p.allIn = r.allIn /\ p.folded = r.folded
      /\ p.inPlay = [s \in Seats |-> 0] /\ p.pots = r.pots
      /\ p.actionAmount = 0 /\ p.actionAtIndex \in {0, N}
      /\ p.isGameOver = r.isGameOver /\ p.inDecisionRound = r.inDecisionRound
      /\ ~p.needsPotCalculation
  BY <1>3, <1>4, OpeningKeeps DEF p
<1>6. /\ (\E s, t \in Live(p) : s # t) => p.actionAtIndex = 0
      /\ p.actionAtIndex = 0 => \E s, t \in Live(p) : s # t
  <2>1. p.actionAtIndex = IF \E s, t \in {u \in Seats : MayAct(r, u)} : s # t THEN 0 ELSE N
    BY <1>3, ResetOpens DEF p
  <2>2. {u \in Seats : MayAct(r, u)} = Live(p)
    BY <1>3, <1>5 DEF MayAct, CanAct, Live
  <2>3. N # 0
    BY Constants
  <2>4. QED
    BY <2>1, <2>2, <2>3
<1>7. p.pots = calc.pots
  BY <1>3, <1>5
<1>8. QED
  BY <1>1, <1>2, <1>3, <1>5, <1>6, <1>7 DEF calc

\* Starting a decision round opens a round.
LEMMA DecisionRoundKeeps ==
  ASSUME NEW q, NEW who, NEW them, Playing(q, who), q.actionAmount = 0, ~q.needsPotCalculation
  PROVE  LET p == StartDecisionRound(q) IN
         /\ Playing(p, them)
         /\ Chips(p) = Chips(q)
         /\ p.balance = q.balance /\ p.allIn = q.allIn /\ p.folded = q.folded
         /\ p.inPlay = [s \in Seats |-> 0]
         /\ p.actionAmount = 0 /\ p.actionAtIndex \in {0, N}
         /\ p.isGameOver = q.isGameOver /\ p.inDecisionRound /\ ~p.needsPotCalculation
         /\ p.pots = q.pots
<1> DEFINE r == [q EXCEPT !.inDecisionRound = TRUE]
           p == Reset(r)
<1>1. StartDecisionRound(q) = p
  BY Zenon DEF StartDecisionRound
<1>2. q \in PotState /\ AllInBefore(q) /\ Contested(q)
  BY DEF Playing
<1>3. /\ r \in PotState
      /\ r.balance = q.balance /\ r.pots = q.pots
      /\ r.allIn = q.allIn /\ r.folded = q.folded
      /\ r.isGameOver = q.isGameOver /\ r.inDecisionRound
      /\ r.needsPotCalculation = q.needsPotCalculation
  BY <1>2 DEF PotState
<1> HIDE DEF r, p
<1>4. /\ AllInOnPots(r) /\ Contested(r) /\ ~r.needsPotCalculation
      /\ r.pots = <<>> => Live(r) = {}
  <2>1. Live(r) = Live(q)
    BY <1>3 DEF Live, CanAct
  <2>2. q.pots = <<>> => Live(q) = {}
    BY DEF Playing, PotIsOpen
  <2>3. QED
    BY <1>2, <1>3, <2>1, <2>2 DEF AllInOnPots, AllInBefore, Contested, Alive
<1>5. /\ Playing(p, them)
      /\ Chips(p) = SumSeats(r.balance) + PotTotal(r.pots)
      /\ p.balance = r.balance /\ p.allIn = r.allIn /\ p.folded = r.folded
      /\ p.inPlay = [s \in Seats |-> 0] /\ p.pots = r.pots
      /\ p.actionAmount = 0 /\ p.actionAtIndex \in {0, N}
      /\ p.isGameOver = r.isGameOver /\ p.inDecisionRound = r.inDecisionRound
      /\ ~p.needsPotCalculation
  BY <1>3, <1>4, OpeningKeeps DEF p
<1>6. Chips(q) = SumSeats(q.balance) + PotTotal(q.pots)
  <2>1. BetsInRange(q) /\ q.amountInPlay = SumSeats(q.inPlay)
    BY DEF Playing, BetsAddUp
  <2>2. q.amountInPlay = 0
    BY <1>2, <2>1, NoBets
  <2>3. PotTotal(q.pots) \in Nat
    BY <1>2, PotTotalNat DEF PotState
  <2>4. TotalOnTable(q) = PotTotal(q.pots)
    BY <2>2, <2>3 DEF TotalOnTable
  <2>5. QED
    BY <2>4 DEF Chips
<1>7. QED
  BY <1>1, <1>3, <1>5, <1>6

\* EndGame leaves everything else alone.
LEMMA EndGameKeeps ==
  ASSUME NEW q, NEW who, Playing(q, who)
  PROVE  /\ Playing(EndGame(q), who)
         /\ Chips(EndGame(q)) = Chips(q)
         /\ EndGame(q).isGameOver
         /\ EndGame(q).balance = q.balance /\ EndGame(q).pots = q.pots
         /\ EndGame(q).inPlay = q.inPlay /\ EndGame(q).amountInPlay = q.amountInPlay
         /\ EndGame(q).folded = q.folded /\ EndGame(q).allIn = q.allIn
         /\ EndGame(q).needsPotCalculation = q.needsPotCalculation
         /\ EndGame(q).actionAtIndex = q.actionAtIndex
<1> DEFINE p == EndGame(q)
<1>1. q \in PotState /\ p = [q EXCEPT !.isGameOver = TRUE]
  BY DEF Playing, EndGame
<1> HIDE DEF p
<1>2. /\ p \in PotState
      /\ p.balance = q.balance /\ p.inPlay = q.inPlay /\ p.allIn = q.allIn
      /\ p.folded = q.folded /\ p.pots = q.pots
      /\ p.actionStartIndex = q.actionStartIndex /\ p.actionAtIndex = q.actionAtIndex
      /\ p.actionAmount = q.actionAmount /\ p.amountInPlay = q.amountInPlay
      /\ p.inDecisionRound = q.inDecisionRound
      /\ p.needsPotCalculation = q.needsPotCalculation
      /\ p.isGameOver
  BY <1>1 DEF PotState
<1>3. BetsAddUp(p) /\ PotIsOpen(p)
  BY <1>2 DEF Playing, BetsAddUp, BetsInRange, PotIsOpen, Live, CanAct
<1>4. TurnsInOrder(p) /\ MatchedBehind(p, who)
  BY <1>2 DEF Playing, TurnsInOrder, MatchedBehind, IsRoundOver, SeatAt, MayAct, CanAct
<1>5. AllInBefore(p) /\ Contested(p) /\ BetIsHeld(p)
  BY <1>2 DEF Playing, AllInBefore, Contested, BetIsHeld, Alive, IsRoundOver, SeatAt
<1>6. Chips(p) = Chips(q)
  BY <1>2 DEF Chips, TotalOnTable
<1>7. QED
  BY <1>2, <1>3, <1>4, <1>5, <1>6 DEF Playing, p

\* What holds behind the turn holds for more of them.
LEMMA MorePlaying ==
  ASSUME NEW q, NEW who, NEW them, Playing(q, who), who \subseteq them
  PROVE  Playing(q, them)
BY DEF Playing, MatchedBehind

-----------------------------------------------------------------------------
(* Seating.                                                                *)

\* New, SeatParticipant and FinishSeatingParticipants: everybody has paid the
\* ante, it is in the pot, nobody is all-in, and all may bet.
LEMMA SeatingKeeps ==
  ASSUME NEW st \in [Seats -> Nat], \A s \in Seats : Ante < st[s], NEW who
  PROVE  LET q == Seated(st) IN
         /\ Playing(q, who) /\ Chips(q) = SumSeats(st)
         /\ \A s \in Seats : CanAct(q, s) /\ q.balance[s] = st[s] - Ante
         /\ q.inPlay = [s \in Seats |-> 0] /\ q.actionAmount = 0 /\ q.actionAtIndex = 0
         /\ ~q.needsPotCalculation /\ ~q.isGameOver /\ ~q.inDecisionRound
         /\ Len(q.pots) = 1
<1> DEFINE antes == [s \in Seats |-> Ante]
           left  == [s \in Seats |-> st[s] - Ante]
           new   == [balance             |-> left,
                     inPlay              |-> antes,
                     allIn               |-> [s \in Seats |-> FALSE],
                     folded              |-> [s \in Seats |-> FALSE],
                     pots                |-> <<EmptyPot>>,
                     actionStartIndex    |-> 0,
                     actionAtIndex       |-> 0,
                     actionAmount        |-> Ante,
                     actionDiffAmount    |-> 0,
                     amountInPlay        |-> SumSeats(antes),
                     needsPotCalculation |-> TRUE,
                     isGameOver          |-> FALSE,
                     inDecisionRound     |-> FALSE]
           calc  == CalculatePot(new)
           q     == Seated(st)
<1>1. \A s \in Seats : st[s] \in Nat /\ Ante < st[s]
  OBVIOUS
<1>2. q = Reset(calc)
  <2> DEFINE short == {s \in Seats : Ante >= st[s]}
             paid  == [s \in Seats |-> IF s \in short THEN st[s] ELSE Ante]
  <2>1. short = {}
    BY <1>1, Constants
  <2>2. /\ paid = antes
        /\ [s \in Seats |-> st[s] - paid[s]] = left
        /\ [s \in Seats |-> s \in short] = [s \in Seats |-> FALSE]
    <3> HIDE DEF short
    <3>1. paid = antes
      BY <2>1
    <3>2. [s \in Seats |-> st[s] - antes[s]] = left
      OBVIOUS
    <3>3. [s \in Seats |-> s \in short] = [s \in Seats |-> FALSE]
      <4>1. \A s : (s \in short) = FALSE
        BY <2>1
      <4>2. QED
        BY <4>1, Zenon
    <3> HIDE DEF paid, antes, left
    <3>4. QED
      BY <3>1, <3>2, <3>3
  <2>3. q = Reset(CalculatePot(
              [balance             |-> [s \in Seats |-> st[s] - paid[s]],
               inPlay              |-> paid,
               allIn               |-> [s \in Seats |-> s \in short],
               folded              |-> [s \in Seats |-> FALSE],
               pots                |-> <<EmptyPot>>,
               actionStartIndex    |-> 0,
               actionAtIndex       |-> 0,
               actionAmount        |-> Ante,
               actionDiffAmount    |-> 0,
               amountInPlay        |-> SumSeats(paid),
               needsPotCalculation |-> TRUE,
               isGameOver          |-> FALSE,
               inDecisionRound     |-> FALSE]))
    BY Zenon DEF Seated
  <2> HIDE DEF paid, short, antes, left, q
  <2>4. QED
    BY <2>2, <2>3, Zenon
<1>3. /\ left \in [Seats -> Nat] /\ antes \in [Seats -> Int] /\ SumSeats(antes) \in Nat
      /\ SumSeats(left) + SumSeats(antes) = SumSeats(st)
  <2>1. N \in Nat /\ Seats = 0 .. N - 1 /\ Ante \in Nat
    BY Constants DEF Seats
  <2>2. left \in [Seats -> Nat] /\ antes \in [Seats -> Nat]
    BY <1>1, <2>1
  <2>3. \A s \in 0 .. N - 1 : left[s] \in Int /\ antes[s] \in Nat /\ st[s] = left[s] + antes[s]
    BY <1>1, <2>1
  <2> HIDE DEF left, antes
  <2>4. SumSeats(antes) \in Nat
    BY <2>1, <2>3, SumNat DEF SumSeats
  <2>5. SumSeats(st) = SumSeats(left) + SumSeats(antes)
    BY <2>1, <2>3, SumLinear DEF SumSeats
  <2>6. QED
    BY <2>2, <2>4, <2>5
<1>4. <<EmptyPot>> \in Seq(Pot) /\ <<EmptyPot>> # <<>> /\ PotTotal(<<EmptyPot>>) = 0
  <2>1. EmptyPot \in Pot /\ EmptyPot.amount = 0
    BY DEF EmptyPot, Pot
  <2> DEFINE one == <<EmptyPot>>
  <2>2. one \in Seq(Pot) /\ one # <<>> /\ Len(one) = 1 /\ one[1] = EmptyPot
    BY <2>1
  <2>3. Amounts(one)[0] = 0
    BY <2>1, <2>2 DEF Amounts
  <2> HIDE DEF one
  <2>4. Sum(Amounts(one), 0 + 1) = Sum(Amounts(one), 0) + Amounts(one)[0]
    BY SumStep
  <2>5. Sum(Amounts(one), 1) = 0
    BY <2>3, <2>4, SumZero
  <2>6. PotTotal(one) = Sum(Amounts(one), Len(one))
    BY Zenon DEF PotTotal, Amounts
  <2>7. QED
    BY <2>2, <2>5, <2>6 DEF one
<1>5. new \in PotState
  <2> HIDE DEF left, antes
  <2>1. 0 \in Seats /\ 0 \in 0 .. N /\ Ante \in Nat
    BY SeatsAreNat, Constants
  <2>2. QED
    BY <1>3, <1>4, <2>1 DEF PotState
<1>6. BetsInRange(new) /\ new.pots # <<>> /\ AllInAmounts(new) = {} /\ Live(new) = Seats
  BY <1>4, Constants DEF BetsInRange, AllInAmounts, AllInFor, Live, CanAct
<1>7. /\ new.needsPotCalculation /\ new.pots = <<EmptyPot>> /\ new.balance = left
      /\ new.inPlay = antes
      /\ \A s \in Seats : ~new.folded[s] /\ ~new.allIn[s]
      /\ ~new.isGameOver /\ ~new.inDecisionRound
  OBVIOUS
<1> HIDE DEF new, calc, q
<1>8. /\ calc \in PotState
      /\ SameRound(calc, [new EXCEPT !.needsPotCalculation = FALSE])
      /\ SumSeats(calc.balance) + PotTotal(calc.pots) =
           SumSeats(left) + PotTotal(<<EmptyPot>>) + SumSeats(antes)
      /\ calc.pots # <<>> /\ calc.balance = left
  <2>1. Seats # {}
    BY SeatsAreNat
  <2>2. QED
    BY <1>5, <1>6, <1>7, <2>1, CalculatePotFacts DEF calc
<1>9. /\ \A s \in Seats : CanAct(calc, s)
      /\ ~calc.needsPotCalculation /\ ~calc.isGameOver /\ ~calc.inDecisionRound
  BY <1>5, <1>7, <1>8 DEF SameRound, CanAct, PotState
<1>10. AllInOnPots(calc) /\ Contested(calc)
  <2>1. new \in PotState /\ BetsInRange(new) /\ PotIsOpen(new)
    BY <1>5, <1>6, <1>7 DEF PotIsOpen
  <2>2. Len(<<EmptyPot>>) = 1 /\ <<EmptyPot>>[1] = EmptyPot /\ EmptyPot.allIn = {}
    BY DEF EmptyPot
  <2>3. AllInBefore(new)
    BY <1>7, <2>2 DEF AllInBefore
  <2>4. 0 \in Alive(new)
    BY <1>7, SeatsAreNat DEF Alive
  <2>5. Contested(new)
    BY <1>7, <2>2, <2>4 DEF Contested
  <2>6. new.inPlay[0] = new.actionAmount
    BY <1>7, SeatsAreNat DEF new
  <2>7. QED
    BY <2>1, <2>3, <2>4, <2>5, <2>6, CollectedPots DEF calc
<1>11. /\ Playing(q, who)
       /\ Chips(q) = SumSeats(calc.balance) + PotTotal(calc.pots)
       /\ q.balance = calc.balance /\ q.allIn = calc.allIn /\ q.folded = calc.folded
       /\ q.inPlay = [s \in Seats |-> 0] /\ q.pots = calc.pots
       /\ q.actionAmount = 0 /\ q.actionAtIndex \in {0, N}
       /\ q.isGameOver = calc.isGameOver /\ q.inDecisionRound = calc.inDecisionRound
       /\ ~q.needsPotCalculation
  BY <1>2, <1>8, <1>9, <1>10, OpeningKeeps
<1>12. \A s \in Seats : CanAct(q, s) /\ q.balance[s] = st[s] - Ante
  BY <1>8, <1>9, <1>11 DEF CanAct
<1>13. Chips(q) = SumSeats(st)
  <2>1. SumSeats(left) \in Int
    BY <1>3, Constants, SumInt DEF SumSeats, Seats
  <2> HIDE DEF left, antes
  <2>2. QED
    BY <1>3, <1>4, <1>8, <1>11, <2>1
<1>14. q.actionAtIndex = 0
  <2>1. MayAct(calc, 0) /\ MayAct(calc, 1) /\ 0 \in Seats /\ 1 \in Seats
    BY <1>9, SeatsAreNat DEF MayAct
  <2>2. \E s, t \in {u \in Seats : MayAct(calc, u)} : s # t
    BY <2>1
  <2>3. QED
    BY <1>2, <1>8, <2>2, ResetOpens
<1>16. Len(q.pots) = 1
  <2> DEFINE one  == <<EmptyPot>>
             more == [one EXCEPT ![Len(one)].amount = @ + SumSeats(new.inPlay)]
  <2>1. Len(one) = 1 /\ one[Len(one)].allIn = {} /\ one = new.pots
    BY <1>7 DEF EmptyPot
  <2>2. OpenPots(new.pots) = one
    BY <2>1 DEF OpenPots
  <2>3. Len(more) = 1
    BY <2>1
  <2> HIDE DEF one, more
  <2>4. calc.pots = new.pots \/ calc.pots = more
    <3> DEFINE done == [new EXCEPT !.needsPotCalculation = FALSE]
    <3>1. calc = done \/ calc = [done EXCEPT !.pots = more]
      BY <1>6, <1>7, <2>2, Zenon DEF CalculatePot, calc, more
    <3>2. done \in PotState /\ done.pots = new.pots
      BY <1>5 DEF PotState
    <3> HIDE DEF done
    <3>3. QED
      BY <3>1, <3>2 DEF PotState
  <2>5. QED
    BY <1>11, <2>1, <2>3, <2>4
<1>17. QED
  BY <1>9, <1>11, <1>12, <1>13, <1>14, <1>16 DEF q

\* Everybody who has not folded is all-in, and nothing is in play: only a decision
\* round can still have turns.
Frozen(q) ==
  /\ q \in PotState
  /\ Live(q) = {}
  /\ q.actionAmount = 0 /\ q.amountInPlay = 0 /\ \A s \in Seats : q.inPlay[s] = 0
  /\ ~q.inDecisionRound => IsRoundOver(q)

\* The same when some have no more than the ante and are all-in on it: there is
\* play, unless all of them are.
LEMMA SeatingAnybodyKeeps ==
  ASSUME NEW st \in [Seats -> Nat], NEW who
  PROVE  LET q == Seated(st) IN
         /\ q \in PotState /\ Chips(q) = SumSeats(st)
         /\ IF Live(q) = {} THEN Frozen(q) ELSE Playing(q, who)
         /\ \A s \in Seats : ~q.folded[s]
         /\ q.inPlay = [s \in Seats |-> 0] /\ q.actionAmount = 0 /\ q.amountInPlay = 0
         /\ ~q.needsPotCalculation /\ ~q.isGameOver /\ ~q.inDecisionRound
<1> DEFINE short == {s \in Seats : Ante >= st[s]}
           paid  == [s \in Seats |-> IF s \in short THEN st[s] ELSE Ante]
           left  == [s \in Seats |-> st[s] - paid[s]]
           allin == [s \in Seats |-> s \in short]
           new   == [balance             |-> left,
                     inPlay              |-> paid,
                     allIn               |-> allin,
                     folded              |-> [s \in Seats |-> FALSE],
                     pots                |-> <<EmptyPot>>,
                     actionStartIndex    |-> 0,
                     actionAtIndex       |-> 0,
                     actionAmount        |-> Ante,
                     actionDiffAmount    |-> 0,
                     amountInPlay        |-> SumSeats(paid),
                     needsPotCalculation |-> TRUE,
                     isGameOver          |-> FALSE,
                     inDecisionRound     |-> FALSE]
           calc  == CalculatePot(new)
           q     == Seated(st)
<1>1. N \in Nat /\ Seats = 0 .. N - 1 /\ Ante \in Nat /\ 0 \in Seats /\ 0 \in 0 .. N
  BY Constants, SeatsAreNat DEF Seats
<1>2. q = Reset(calc)
  BY Zenon DEF Seated
<1>3. \A s \in Seats :
        /\ st[s] \in Nat /\ paid[s] \in Nat /\ paid[s] <= Ante
        /\ left[s] \in Nat /\ st[s] = left[s] + paid[s]
        /\ allin[s] \in BOOLEAN /\ (~allin[s] => paid[s] = Ante)
        /\ paid[s] = st[s] \/ paid[s] = Ante
  <2>1. ASSUME NEW s \in Seats
        PROVE  /\ st[s] \in Nat
               /\ paid[s] = IF Ante >= st[s] THEN st[s] ELSE Ante
               /\ left[s] = st[s] - paid[s]
    <3> DEFINE p == paid
    <3>1. p[s] = IF s \in short THEN st[s] ELSE Ante
      OBVIOUS
    <3>2. s \in short <=> Ante >= st[s]
      OBVIOUS
    <3>3. left[s] = st[s] - p[s]
      <4> HIDE DEF p
      <4>1. [t \in Seats |-> st[t] - p[t]][s] = st[s] - p[s]
        OBVIOUS
      <4>2. QED
        BY <4>1 DEF p
    <3>4. st[s] \in Nat
      OBVIOUS
    <3> HIDE DEF short, left, p
    <3>5. QED
      BY <3>1, <3>2, <3>3, <3>4 DEF p
  <2> HIDE DEF short, paid, left, allin
  <2>2. ASSUME NEW s \in Seats
        PROVE  /\ st[s] \in Nat /\ paid[s] \in Nat /\ paid[s] <= Ante
               /\ left[s] \in Nat /\ st[s] = left[s] + paid[s]
               /\ paid[s] = st[s] \/ paid[s] = Ante
    BY <1>1, <2>1
  <2>3. ASSUME NEW s \in Seats
        PROVE  allin[s] \in BOOLEAN /\ (~allin[s] => paid[s] = Ante)
    <3>1. (s \in short) \in BOOLEAN
      OBVIOUS
    <3>2. allin[s] = (s \in short)
      BY Zenon DEF allin
    <3>3. ~(s \in short) => paid[s] = Ante
      BY DEF paid
    <3>4. QED
      BY <3>1, <3>2, <3>3, Zenon
  <2>4. QED
    BY <2>2, <2>3
<1>4. paid \in [Seats -> Int] /\ left \in [Seats -> Nat] /\ allin \in [Seats -> BOOLEAN]
  BY <1>3
<1> HIDE DEF short, paid, left, allin
<1>5. /\ SumSeats(paid) \in Nat /\ SumSeats(left) \in Int
      /\ SumSeats(st) = SumSeats(left) + SumSeats(paid)
  <2>1. \A s \in 0 .. N - 1 : left[s] \in Int /\ paid[s] \in Int /\ st[s] = left[s] + paid[s]
    BY <1>1, <1>3
  <2>2. SumSeats(st) = SumSeats(left) + SumSeats(paid)
    BY <1>1, <2>1, SumLinear DEF SumSeats
  <2>3. SumSeats(paid) \in Nat /\ SumSeats(left) \in Int
    BY <1>1, <1>3, <2>1, SumNat, SumInt DEF SumSeats
  <2>4. QED
    BY <2>2, <2>3
<1>6. /\ <<EmptyPot>> \in Seq(Pot) /\ <<EmptyPot>> # <<>> /\ Len(<<EmptyPot>>) = 1
      /\ <<EmptyPot>>[1] = EmptyPot /\ EmptyPot.allIn = {} /\ EmptyPot.amount = 0
      /\ PotTotal(<<EmptyPot>>) = 0
  <2>1. EmptyPot \in Pot /\ EmptyPot.amount = 0 /\ EmptyPot.allIn = {}
    BY DEF EmptyPot, Pot
  <2> DEFINE one == <<EmptyPot>>
  <2>2. one \in Seq(Pot) /\ one # <<>> /\ Len(one) = 1 /\ one[1] = EmptyPot
    BY <2>1
  <2>3. Amounts(one)[0] = 0
    BY <2>1, <2>2 DEF Amounts
  <2> HIDE DEF one
  <2>4. Sum(Amounts(one), 0 + 1) = Sum(Amounts(one), 0) + Amounts(one)[0]
    BY SumStep
  <2>5. Sum(Amounts(one), 1) = 0
    BY <2>3, <2>4, SumZero
  <2>6. PotTotal(one) = Sum(Amounts(one), Len(one))
    BY Zenon DEF PotTotal, Amounts
  <2>7. QED
    BY <2>1, <2>2, <2>5, <2>6 DEF one
<1>7. new \in PotState
  BY <1>1, <1>4, <1>5, <1>6 DEF PotState
<1>8. /\ new.needsPotCalculation /\ new.pots = <<EmptyPot>> /\ new.balance = left
      /\ new.inPlay = paid /\ new.allIn = allin /\ new.actionAmount = Ante
      /\ \A s \in Seats : ~new.folded[s]
      /\ ~new.isGameOver /\ ~new.inDecisionRound
  OBVIOUS
<1> HIDE DEF new, calc, q
<1>9. BetsInRange(new) /\ PotIsOpen(new)
  BY <1>1, <1>3, <1>6, <1>8 DEF BetsInRange, PotIsOpen
<1>10. /\ calc \in PotState
       /\ SameRound(calc, [new EXCEPT !.needsPotCalculation = FALSE])
       /\ SumSeats(calc.balance) + PotTotal(calc.pots) =
            SumSeats(left) + PotTotal(<<EmptyPot>>) + SumSeats(paid)
       /\ calc.pots = <<>> => Live(new) = {}
  BY <1>6, <1>7, <1>8, <1>9, CalculatePotFacts DEF calc
<1>11. /\ calc.allIn = allin /\ \A s \in Seats : ~calc.folded[s]
       /\ ~calc.needsPotCalculation /\ ~calc.isGameOver /\ ~calc.inDecisionRound
       /\ Live(calc) = Live(new)
  <2>1. /\ calc.allIn = new.allIn /\ calc.folded = new.folded
        /\ calc.needsPotCalculation = FALSE /\ calc.isGameOver = new.isGameOver
        /\ calc.inDecisionRound = new.inDecisionRound
    BY <1>7, <1>10 DEF SameRound, PotState
  <2>2. QED
    BY <1>8, <2>1 DEF Live, CanAct
<1>12. /\ q \in PotState
       /\ q.balance = calc.balance /\ q.inPlay = [s \in Seats |-> 0]
       /\ q.allIn = calc.allIn /\ q.folded = calc.folded /\ q.pots = calc.pots
       /\ q.actionAmount = 0 /\ q.amountInPlay = 0
       /\ q.needsPotCalculation = calc.needsPotCalculation
       /\ q.isGameOver = calc.isGameOver /\ q.inDecisionRound = calc.inDecisionRound
  BY <1>2, <1>10, ResetFields
<1>13. Chips(q) = SumSeats(st)
  <2>1. PotTotal(calc.pots) \in Nat /\ SumSeats(calc.balance) \in Int
    <3>1. calc.pots \in Seq(Pot) /\ \A s \in 0 .. N - 1 : calc.balance[s] \in Int
      BY <1>1, <1>10 DEF PotState
    <3>2. QED
      BY <1>1, <3>1, PotTotalNat, SumInt DEF SumSeats
  <2>2. QED
    BY <1>5, <1>6, <1>10, <1>12, <2>1 DEF Chips, TotalOnTable
<1>14. Live(q) = Live(new)
  BY <1>11, <1>12 DEF Live, CanAct
<1>15. ASSUME Live(q) = {} PROVE Frozen(q)
  <2>1. \A s \in Seats : ~MayAct(calc, s)
    BY <1>11, <1>14, <1>15 DEF Live, MayAct
  <2>2. q.actionAtIndex = N
    BY <1>2, <1>10, <2>1, ResetOpens
  <2>3. QED
    BY <1>1, <1>12, <1>15, <2>2 DEF Frozen, IsRoundOver
<1>16. ASSUME Live(q) # {} PROVE Playing(q, who)
  <2>1. PICK s \in Seats : CanAct(new, s)
    BY <1>14, <1>16 DEF Live
  <2>2. s \in Alive(new) /\ new.inPlay[s] = new.actionAmount
    BY <1>3, <1>8, <2>1 DEF CanAct, Alive
  <2>3. AllInBefore(new) /\ Contested(new)
    BY <1>6, <1>8, <2>2 DEF AllInBefore, Contested
  <2>4. AllInOnPots(calc) /\ Contested(calc)
    BY <1>7, <1>9, <2>2, <2>3, CollectedPots DEF calc
  <2>5. calc.pots = <<>> => Live(calc) = {}
    BY <1>10, <1>11
  <2>6. QED
    BY <1>2, <1>10, <1>11, <2>4, <2>5, OpeningKeeps
<1>18. QED
  BY <1>11, <1>12, <1>13, <1>15, <1>16 DEF q
=============================================================================
