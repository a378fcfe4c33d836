---------------------------- MODULE BotDatabase ----------------------------
(***************************************************************************)
(* bot/app/utils/db.py: the one connection of the bot to PostgreSQL and    *)
(* how it is made again when it is lost.                                   *)
(*                                                                         *)
(* A query that meets a broken connection has the connection made anew,    *)
(* but is not repeated: its answer is the empty list, which is also the    *)
(* answer for an account that is not there.  When a connection comes only  *)
(* on a retry, connect() returns what its outer call returns, that is      *)
(* nothing, and no cursor is made.  When it does not come, the process is  *)
(* interrupted.  Nobody else runs meanwhile: queries and the sleeps of     *)
(* connect() hold up the whole process.                                    *)
(*                                                                         *)
(* A definition X_Y is X with the bug Y: no action uses it, the mutation   *)
(* runs put it in the place of X.                                          *)
(***************************************************************************)
EXTENDS Integers

VARIABLES server,  \* does PostgreSQL answer?
          conn,    \* _connection: "none", "live" or "broken"
          cursor,  \* is there a _cursor?
          lost     \* for the properties: queries lost in a row, with server up

dbVars == <<server, conn, cursor, lost>>

(* connect() and cursor(): at the first attempt, or while it sleeps        *)
(* between two attempts, or not at all.                                    *)
Connects_NoCursor ==
  \/ server /\ cursor' = FALSE /\ UNCHANGED server
  \/ ~server /\ server' = TRUE /\ cursor' = FALSE

Connects ==
  \/ server /\ cursor' = TRUE /\ UNCHANGED server
  \/ ~server /\ server' = TRUE /\ cursor' = FALSE

Reset == Connects /\ conn' = "live"

Unreachable ==
  /\ ~server
  /\ conn' = "none" /\ cursor' = FALSE
  /\ UNCHANGED server

Works == cursor /\ conn = "live"

(* query(): the rows, the empty list, an AttributeError for the cursor     *)
(* that is not there, or the end of the process.                           *)
QueryFinds == Works /\ lost' = 0 /\ UNCHANGED <<server, conn, cursor>>

QueryFindsNothing ==
  /\ ~Works /\ Reset
  /\ cursor => cursor'
  /\ lost' = lost + 1

QueryRaises ==
  /\ ~Works /\ Reset
  /\ cursor /\ ~cursor'
  /\ lost' = lost + 1

QueryExits == ~Works /\ Unreachable /\ lost' = 0

(* commit(): rollback() fails as well when the connection is broken.       *)
Commits     == conn = "live" /\ UNCHANGED dbVars
CommitFails == conn # "live" /\ UNCHANGED dbVars

(* init(), with more attempts.                                             *)
DatabaseInit == Reset /\ lost' = 0

(* close(), in effect: the process is over.                                *)
DatabaseGone == conn' = "none" /\ cursor' = FALSE /\ lost' = 0 /\ UNCHANGED server

ServerDown ==
  /\ server
  /\ server' = FALSE
  /\ conn' = IF conn = "live" THEN "broken" ELSE conn
  /\ lost' = 0
  /\ UNCHANGED cursor

ServerUp == ~server /\ server' = TRUE /\ UNCHANGED <<conn, cursor, lost>>

DatabaseTypeOK ==
  /\ server \in BOOLEAN
  /\ conn \in {"none", "live", "broken"}
  /\ cursor \in BOOLEAN
  /\ lost \in Nat
  /\ conn = "live" => server

(* While the server is up at most two queries in a row are lost: one that  *)
(* finds the connection broken, and one more when the connection came on a *)
(* retry and has no cursor (db.py:24-91).                                  *)
LostAtMostTwice == lost <= 2
=============================================================================
