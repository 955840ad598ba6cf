------------------------- MODULE MCServiceDispatch -------------------------
(* Instances of ServiceDispatch for TLC. *)
EXTENDS ServiceDispatch, TLC

CONSTANTS s1, s2, w1, w2, timer

\* The weights that start() gives to the workers 4 to 7: the whole queue.
WholeQueue == [w \in Worker |-> 0]

\* One worker of weight -1 (one message at a time), one of weight 1 (half of
\* the queue), as the first and the ninth worker that start() creates.
MixedWeights == [w \in Worker |-> IF w = w1 THEN -1 ELSE 1]

\* Workers of the same weight are interchangeable.
Symmetry == Permutations(Worker)
=============================================================================
