---------------------------- MODULE HeadFollower ----------------------------
(***************************************************************************)
(* What the events exporter promises of the head it follows: it takes one  *)
(* height after the other, none twice and none left out, from where it     *)
(* started to follow until it fails; only then is it started again.        *)
(*                                                                         *)
(* Height 0 is no height to follow: an empty header stands for it, and     *)
(* what is taken after it is a start again.                                *)
(***************************************************************************)
EXTENDS Naturals, Sequences

CONSTANT Heights

VARIABLES alive,  \* has nothing failed since the start?
          taken   \* the heights taken since the start, in their order

vars == <<alive, taken>>

Last == IF taken = <<>> THEN 0 ELSE taken[Len(taken)]

Init == alive = TRUE /\ taken = <<>>

Follow(h) ==
  /\ alive
  /\ Last # 0 => h = Last + 1
  /\ taken' = Append(taken, h)
  /\ UNCHANGED alive

Fail == alive /\ alive' = FALSE /\ UNCHANGED taken

Restart == ~alive /\ alive' = TRUE /\ taken' = <<>>

Next == Fail \/ Restart \/ \E h \in Heights : Follow(h)

Spec == Init /\ [][Next]_vars
=============================================================================
