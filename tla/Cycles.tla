------------------------------- MODULE Cycles -------------------------------
(***************************************************************************)
(* The choice of a loop in a video (_cycle_detection.py).  `sim` gives the  *)
(* similarity of any two frames in tenths, frames are counted from 0, and   *)
(* a pair <<i, j>> stands for the frames i .. j.                            *)
(***************************************************************************)
EXTENDS Integers, FiniteSetsExt

CONSTANTS
  MinPeriod,   \* DEFAULT_MIN_PERIOD
  MinStitch,   \* DEFAULT_MIN_STITCH_SIMILARITY, in tenths
  MinMotion    \* DEFAULT_MIN_INTRA_CYCLE_DIFF, in tenths

ASSUME CyclesAssumption == MinPeriod \in Nat

Abs(x) == IF x < 0 THEN -x ELSE x
Larger(x, y) == IF x > y THEN x ELSE y

(* _intra_cycle_diff: how far apart any two frames of the loop are.        *)
Motion(sim, i, j) == 10 - Min({ sim[a, b] : a \in i .. j, b \in i .. j })

(***************************************************************************)
(* _stitch_smoothness compares the step from frame j - 1 to frame i with    *)
(* the mean of the steps inside and with its two neighbours.  It is given   *)
(* times 30 and times the number of steps inside.                           *)
(***************************************************************************)
StepsInside(i, j) == Larger(j - i - 1, 1)

Smoothness(sim, i, j) ==
  LET k == StepsInside(i, j)
      steps == MapThenSumSet(LAMBDA a : sim[a, a + 1], i .. j - 2)
      stitch == sim[j - 1, i]
      mean == 10 * k - Abs(k * stitch - steps)
      neighbours == 10 - Larger(Abs(stitch - sim[j - 2, j - 1]),
                                Abs(stitch - sim[i, i + 1]))
  IN IF j - i < 3 THEN 0 ELSE 2 * mean + k * neighbours

(* _score: stitch, half of the motion and 0.3 of the smoothness, a fraction *)
(* because of the mean.                                                     *)
Score(sim, i, j) ==
  LET k == StepsInside(i, j) IN
  [num |-> 10 * k * sim[i, j] + 5 * k * Motion(sim, i, j) + Smoothness(sim, i, j),
   den |-> 100 * k]

Less(x, y) == x.num * y.den < y.num * x.den

Candidates(sim, n) ==
  { p \in (0 .. n - 1) \X (0 .. n - 1) :
      /\ p[2] >= p[1] + MinPeriod
      /\ sim[p] >= MinStitch
      /\ Motion(sim, p[1], p[2]) >= MinMotion }

(* The order of a stable sort by falling score of pairs found row by row.  *)
Before(sim, p, q) ==
  LET x == Score(sim, p[1], p[2])
      y == Score(sim, q[1], q[2])
  IN \/ Less(y, x)
     \/ /\ ~Less(x, y)
        /\ p[1] < q[1] \/ (p[1] = q[1] /\ p[2] < q[2])

(* _detect_pair_cycles: of all candidates in order, the first, which is the *)
(* only one anyone asks for (max_cycles = 1).                              *)
BestCycles(sim, n) ==
  { p \in Candidates(sim, n) :
      \A q \in Candidates(sim, n) \ {p} : Before(sim, p, q) }
=============================================================================
