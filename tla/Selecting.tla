----------------------------- MODULE Selecting -----------------------------
(***************************************************************************)
(* What SelectSeq(q, LAMBDA m : m \in W) does, written as a recursive       *)
(* function: the prover knows neither SelectSeq nor recursive operators.    *)
(***************************************************************************)
EXTENDS Integers, Sequences

\* The elements of q that are in W, in the order of q.
Keep(q, W) ==
  LET kept[i \in 0..Len(q)] ==
        IF i = 0 THEN <<>>
        ELSE IF q[i] \in W THEN Append(kept[i - 1], q[i]) ELSE kept[i - 1]
  IN  kept[Len(q)]
=============================================================================
