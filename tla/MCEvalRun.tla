----------------------------- MODULE MCEvalRun ------------------------------
(***************************************************************************)
(* EvalRun with two versions of a set of two items: a judged item with     *)
(* string checks, whose claims the second version adds to, and one with    *)
(* string checks only.  The operator edits the code or the set.  Of three  *)
(* builds of the server two report one release.                            *)
(***************************************************************************)
EXTENDS EvalRun

MCShape ==
  <<  <<[strings |-> TRUE, state |-> 1, never |-> 0],
        [strings |-> TRUE, state |-> 0, never |-> 0]>>,
      <<[strings |-> FALSE, state |-> 1, never |-> 1],
        [strings |-> TRUE, state |-> 0, never |-> 0]>>  >>

MCFirstTree == [code |-> "c1", set |-> 1]

MCTrees == {MCFirstTree, [code |-> "c2", set |-> 1], [code |-> "c1", set |-> 2]}

MCPassing == [v \in 1..2 |-> {"right"}]

MCRelease == [b \in {"b1", "b2", "b3"} |-> IF b = "b3" THEN "v2" ELSE "v1"]
=============================================================================
