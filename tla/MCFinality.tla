----------------------------- MODULE MCFinality -----------------------------
(* Small chains for FinalityExporter.                                      *)
EXTENDS FinalityExporter

CONSTANTS v1, v2, v3

(* The same authorities in every session.                                  *)
StaticSet == [s \in Sessions |-> {v1, v2}]

(* v2 leaves the authority set after the first session, v3 replaces it.    *)
RotatingSet == [s \in Sessions |-> IF s = 1 THEN {v1, v2} ELSE {v1, v3}]

(* v2 leaves the authority set after the first session; v1 and v3 stay.    *)
LeavingSet == [s \in Sessions |-> IF s = 1 THEN {v1, v2, v3} ELSE {v1, v3}]

=============================================================================
