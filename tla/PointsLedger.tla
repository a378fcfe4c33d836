---------------------------- MODULE PointsLedger ----------------------------
(***************************************************************************)
(* What the common exporter promises of its session points.  The account   *)
(* of a validator belongs to an era and has points, never negative, for    *)
(* some sessions.  As long as it belongs to the same era, the points of    *)
(* its newest session only grow, those of the earlier ones stay, and a new *)
(* session is later than all of them.                                      *)
(***************************************************************************)
EXTENDS Integers

CONSTANT Validators

VARIABLES account,     \* account[v]: the points of each session
          account_era  \* account_era[v]: its era, 0 for none

Init ==
  /\ account = [v \in Validators |-> [s \in {} |-> 0]]
  /\ account_era = [v \in Validators |-> 0]

(* b is a later state of the account a of the same era.                    *)
Grows(a, b) ==
  /\ DOMAIN a \subseteq DOMAIN b
  /\ \A s, t \in DOMAIN b \ DOMAIN a : s = t
  /\ \A s \in DOMAIN a :
       /\ \A t \in DOMAIN b \ DOMAIN a : s < t
       /\ b[s] = a[s] \/ (b[s] > a[s] /\ \A t \in DOMAIN b : t <= s)

Next ==
  \A v \in Validators :
    /\ \A s \in DOMAIN account'[v] : account'[v][s] >= 0
    /\ account_era'[v] = account_era[v] => Grows(account[v], account'[v])

Spec == Init /\ [][Next]_<<account, account_era>>
=============================================================================
