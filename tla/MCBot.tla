------------------------------- MODULE MCBot -------------------------------
(* One chat whose updates run in two tasks.  Template 1 has no portfolio   *)
(* to wait for, template 2 has; the other filters are shared out.          *)
EXTENDS Bot, TLC

CONSTANTS t1, t2, v, w, o1, o2, o3

ItsVariables == <<{"label", "threshold"}, {"accounts", "interval"}>>

Symmetry == Permutations({t1, t2}) \cup Permutations({v, w}) \cup Permutations({o1, o2, o3})
=============================================================================
