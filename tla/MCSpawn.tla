------------------------------- MODULE MCSpawn -------------------------------
(* Sizes of the models: "big" takes 2 MB, every other model 1 MB. *)
EXTENDS SpawnManager

MCEst == [m \in Models |-> IF m = "big" THEN 2 ELSE 1]
=============================================================================
