------------------------------ MODULE EvalScore ------------------------------
(***************************************************************************)
(* How one answer is scored (pipeline/eval/judge.py).                      *)
(*                                                                         *)
(* An item has a shape: does it have string checks, how many claims must   *)
(* be stated, how many must not be made.  Scores are counted in units of   *)
(* 1 / Unit; Unit must be even and divisible by every number of must_state *)
(* claims there is, so that no score is rounded.                           *)
(***************************************************************************)
EXTENDS Naturals, FiniteSets

CONSTANTS Unit,
          Null     \* Python's None

Shapes == [strings : BOOLEAN, state : Nat, never : Nat]

Positive(s)  == s.strings \/ s.state > 0
Judged(s)    == s.state > 0 \/ s.never > 0

\* A verdict as align() returns it: which claims of each side are true.
VerdictsOn(s) == [stated : SUBSET (1..s.state), claimed : SUBSET (1..s.never)]

NoVerdict == [stated |-> {}, claimed |-> {}]

\* 1.0 or 0.0; null when there is nothing to check.
StringScore(s, passes) ==
  IF ~ s.strings THEN Null ELSE IF passes THEN Unit ELSE 0

\* A claimed trap is a hard zero, otherwise the fraction of claims stated; null
\* when nothing was required.
JudgeScore(s, v) ==
  IF v.claimed # {} THEN 0
  ELSE IF s.state = 0 THEN Null
  ELSE (Unit * Cardinality(v.stated)) \div s.state

\* The mean of the layers present; Null stands for the JudgeError of none.
ItemScore(s, passes, v) ==
  LET string == StringScore(s, passes)
      judge  == JudgeScore(s, v)
  IN  IF string = Null THEN judge
      ELSE IF judge = Null THEN string
      ELSE (string + judge) \div 2
=============================================================================
