------------------------------ MODULE MCManager ------------------------------
(* Sizes of the models: "big" takes 2 MB, every other model 1 MB. *)
EXTENDS Manager

MCEst == [m \in Models |-> IF m = "big" THEN 2 ELSE 1]

\* Load always finds a fresh object: every model and every other operation
\* refers to at most one.
ASSUME PoolAssumption ==
    Cardinality(Instances) + 1 >= Cardinality(Models) + Cardinality(Requests)

Symmetry == Permutations(Requests)
=============================================================================
