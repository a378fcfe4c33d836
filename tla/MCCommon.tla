------------------------------ MODULE MCCommon ------------------------------
(* A small chain for CommonExporter: an era of two sessions and one of     *)
(* three.  v1 is a paravalidator, v2 in the first session of each era, but *)
(* the last session has none; both are validators of every session.        *)
EXTENDS CommonExporter

CONSTANTS v1, v2

TwoEras  == <<1, 1, 2, 2, 2>>
ParaSets == <<{v1, v2}, {v1}, {v1, v2}, {v1}, {}>>
Everyone == [s \in Sessions |-> {v1, v2}]
Slashes  == [e \in 1 .. 3 |-> IF e = 2 THEN <<v2, v2>> ELSE <<>>]
=============================================================================
