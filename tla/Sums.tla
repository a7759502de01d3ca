-------------------------------- MODULE Sums --------------------------------
(***************************************************************************)
(* Adding up what several parties hold, the least of some numbers and the  *)
(* players who are left of a list: what the games share.                   *)
(***************************************************************************)
EXTENDS Integers, Sequences

\* f[0] + ... + f[n - 1].  A recursive function over a plain interval, so that
\* SumProofs can establish what it computes for every n.
Sum(f, n) ==
  LET sum[i \in 0 .. n] == IF i = 0 THEN 0 ELSE sum[i - 1] + f[i - 1]
  IN  sum[n]

Least(S) == CHOOSE x \in S : \A y \in S : x <= y

\* Those of the list seq who are in S, in its order: what SelectSeq selects, as a
\* recursive function again.
Those(seq, S) ==
  LET those[i \in 0 .. Len(seq)] ==
        IF i = 0 THEN <<>>
        ELSE IF seq[i] \in S THEN Append(those[i - 1], seq[i]) ELSE those[i - 1]
  IN  those[Len(seq)]
=============================================================================
