------------------------------ MODULE MCServer ------------------------------
(* Directory contents for the runs of Server. *)
EXTENDS Server

IdsOne == <<"a">>
IdsTwo == <<"a", "b">>
=============================================================================
