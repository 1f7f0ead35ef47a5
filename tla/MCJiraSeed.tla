----------------------------- MODULE MCJiraSeed -----------------------------
(***************************************************************************)
(* JiraSeed with two epics: the first stories are of the first sprint and  *)
(* of the first epic, story 6 is of the second epic and comes later.       *)
(***************************************************************************)
EXTENDS JiraSeed

MCFirstPlan == [epic   |-> [i \in Stories |-> IF i = 6 THEN 2 ELSE 1],
                sprint |-> [i \in Stories |-> IF i = 6 THEN NotListed ELSE 1]]
=============================================================================
