----------------------------- MODULE Iteration -----------------------------
(***************************************************************************)
(* The loops that are one step of a model: a step repeated a few hundred   *)
(* times, in blocks so that no evaluation is deep.                         *)
(***************************************************************************)
EXTENDS Integers

\* CHOOSE from a singleton makes x a value before Step starts.
Then(x, Step(_)) == CHOOSE z \in {Step(y) : y \in {x}} : TRUE
Repeat(Step(_), x, count) ==
  LET after[k \in 0..count] == IF k = 0 THEN x ELSE Then(after[k - 1], Step) IN after[count]
EightTimes(Step(_), x) == Repeat(Step, x, 8)
Iterate(Step(_), x, count) ==
  Repeat(LAMBDA y : EightTimes(LAMBDA z : EightTimes(Step, z), y),
         Repeat(LAMBDA y : EightTimes(Step, y), Repeat(Step, x, count % 8), (count \div 8) % 8),
         count \div 64)
=============================================================================
